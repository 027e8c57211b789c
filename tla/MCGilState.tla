----------------------------- MODULE MCGilState -----------------------------
(* Bounded instance of the GIL protocol for TLC: its cfg gives the bounds.   *)
EXTENDS GilState
=============================================================================
