---------------------------- MODULE MCTypedQueue ----------------------------
(* Bounded instance of the queue for TLC: its cfg gives the bounds.          *)
EXTENDS TypedQueue
=============================================================================
