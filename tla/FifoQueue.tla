------------------------------ MODULE FifoQueue ------------------------------
(***************************************************************************)
(* What TypedQueue promises: a first-in first-out queue of values.  A      *)
(* reader asks for at least min and at most max values; it takes them from *)
(* the front, one at a time, and is done when it has max of them, or when  *)
(* it has min of them and the queue is empty.                              *)
(***************************************************************************)
EXTENDS Naturals, Sequences

CONSTANTS Value, Reader

VARIABLES queue,    \* the values, oldest first
          min, max, \* per reader: what it asks for
          got,      \* per reader: what it has been given for this request
          busy      \* the readers that have a request outstanding

fifoVars == <<queue, min, max, got, busy>>

Init ==
    /\ queue = << >>
    /\ min = [r \in Reader |-> 0] /\ max = [r \in Reader |-> 0]
    /\ got = [r \in Reader |-> << >>]
    /\ busy = {}

\* Values are added at the end (none, if an empty list is put).
Put ==
    /\ queue' \in Seq(Value)
    /\ Len(queue') >= Len(queue)
    /\ SubSeq(queue', 1, Len(queue)) = queue
    /\ UNCHANGED <<min, max, got, busy>>

Ask(r) ==
    /\ r \notin busy
    /\ min'[r] \in Nat /\ min' = [min EXCEPT ![r] = min'[r]]
    /\ max'[r] \in Nat /\ max' = [max EXCEPT ![r] = max'[r]]
    /\ busy' = busy \cup {r}
    /\ UNCHANGED <<queue, got>>

Take(r) ==
    /\ r \in busy /\ queue # << >> /\ Len(got[r]) < max[r]
    /\ got' = [got EXCEPT ![r] = Append(@, Head(queue))]
    /\ queue' = Tail(queue)
    /\ UNCHANGED <<min, max, busy>>

Done(r) ==
    /\ r \in busy
    /\ \/ Len(got[r]) >= max[r]
       \/ Len(got[r]) >= min[r] /\ queue = << >>
    /\ busy' = busy \ {r}
    /\ min' = [min EXCEPT ![r] = 0] /\ max' = [max EXCEPT ![r] = 0]
    /\ got' = [got EXCEPT ![r] = << >>]
    /\ UNCHANGED queue

Next == Put \/ \E r \in Reader : Ask(r) \/ Take(r) \/ Done(r)

Spec == Init /\ [][Next]_fifoVars
=============================================================================
