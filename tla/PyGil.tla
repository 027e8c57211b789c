-------------------------------- MODULE PyGil --------------------------------
(***************************************************************************)
(* What the GIL protocol of PyGilState.cpp promises to the rest of         *)
(* typed_python: a lock with one owner, in which a thread that stops using *)
(* Python objects may stay the owner for a while (so that coming back is   *)
(* cheap) and may lose the lock only while it is not using them.           *)
(***************************************************************************)
CONSTANTS Thread,   \* the threads that run typed_python code
          Nobody    \* the value of owner while the GIL is free

VARIABLES owner,    \* the thread the interpreter believes holds the GIL
          inside    \* the threads that may touch Python objects

gilVars == <<owner, inside>>

Init == \E main \in Thread : owner = main /\ inside = {main}

\* A thread gets a free GIL and goes on with Python code.
Take(t) ==
    /\ owner = Nobody
    /\ owner' = t
    /\ inside' = inside \cup {t}

\* A thread stops touching Python objects and gives the GIL up at once ...
LeaveAndRelease(t) ==
    /\ owner = t /\ t \in inside
    /\ owner' = Nobody
    /\ inside' = inside \ {t}

\* ... or stays the owner, for somebody else to release it later,
LeaveAndKeep(t) ==
    /\ owner = t /\ t \in inside
    /\ inside' = inside \ {t}
    /\ UNCHANGED owner

\* in which case it may come back without waiting,
Reenter(t) ==
    /\ owner = t /\ t \notin inside
    /\ inside' = inside \cup {t}
    /\ UNCHANGED owner

\* or have the GIL taken away behind its back.
Revoke(t) ==
    /\ owner = t /\ t \notin inside
    /\ owner' = Nobody
    /\ UNCHANGED inside

Next == \E t \in Thread :
            \/ Take(t) \/ LeaveAndRelease(t) \/ LeaveAndKeep(t)
            \/ Reenter(t) \/ Revoke(t)

Spec == Init /\ [][Next]_gilVars
=============================================================================
