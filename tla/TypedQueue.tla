----------------------------- MODULE TypedQueue -----------------------------
(***************************************************************************)
(* typed_queue.py: a queue of two lists and two locks.  _lock protects the *)
(* lists; _isEmptyLock is the thing readers sleep on: the queue itself     *)
(* keeps it while it is empty.  Everything between two operations on a     *)
(* lock is one action, since nobody else can see the lists meanwhile.      *)
(*                                                                         *)
(* The three ways to read (getNonblocking, get, getMany) are one loop in   *)
(* the model: they ask for 0..1, 1..1 and minCount..maxCount values.       *)
(***************************************************************************)
EXTENDS Naturals, Sequences, SequencesExt

CONSTANTS
    Value,     \* the elements
    Writer,    \* threads that put and peek
    Reader,    \* threads that get
    Queue,     \* the queue as the holder of its _isEmptyLock
    Nobody,    \* the holder of a free lock
    MaxLen,    \* bound: nobody starts to put into a longer queue
    MaxBatch   \* bound on minCount, maxCount and the lists that are put

ASSUME QueueAssumption ==
    /\ Writer \cap Reader = {}
    /\ Queue \notin Reader /\ Nobody \notin Reader \cup Writer
    /\ Queue # Nobody
    /\ MaxLen \in Nat /\ MaxBatch \in Nat

Thread == Writer \cup Reader

VARIABLES
    pushable, poppable,  \* poppable is the front of the queue, reversed
    lock,                \* who holds _lock
    isEmptyLock,         \* who holds _isEmptyLock
    pc,                  \* per thread
    element,             \* per writer: the values it is putting
    minCount, maxCount,  \* per reader: what it asks for
    res                  \* per reader: what it has taken for this call

readerVars == <<minCount, maxCount, res>>
vars == <<pushable, poppable, lock, isEmptyLock, pc, element, readerVars>>

Count == 0..MaxBatch
Batch == UNION {[1..n -> Value] : n \in 0..MaxBatch}

PC == {"idle", "lock", "locked", "waiting", "awake", "closing", "error"}

TypeOK ==
    /\ pushable \in Seq(Value) /\ poppable \in Seq(Value)
    /\ lock \in Thread \cup {Nobody}
    /\ isEmptyLock \in Reader \cup {Queue, Nobody}
    /\ pc \in [Thread -> PC]
    /\ element \in [Writer -> Seq(Value)]
    /\ minCount \in [Reader -> Nat] /\ maxCount \in [Reader -> Nat]
    /\ res \in [Reader -> Seq(Value)]

Init ==
    /\ pushable = << >> /\ poppable = << >>
    /\ lock = Nobody
    /\ isEmptyLock = Queue
    /\ pc = [t \in Thread |-> "idle"]
    /\ element = [w \in Writer |-> << >>]
    /\ minCount = [r \in Reader |-> 0] /\ maxCount = [r \in Reader |-> 0]
    /\ res = [r \in Reader |-> << >>]

\* The property _len.
Length == Len(pushable) + Len(poppable)

\* The queue the two lists stand for.
Contents == Reverse(poppable) \o pushable

Goto(t, label) == pc' = [pc EXCEPT ![t] = label]

Lock(t) ==
    /\ pc[t] = "lock" /\ lock = Nobody
    /\ lock' = t
    /\ Goto(t, "locked")
    /\ UNCHANGED <<pushable, poppable, isEmptyLock, element, readerVars>>

-----------------------------------------------------------------------------
(* put(), putMany() and peek().                                            *)

CallPut(w, items) ==
    /\ pc[w] = "idle" /\ Length < MaxLen
    /\ element' = [element EXCEPT ![w] = items]
    /\ Goto(w, "lock")
    /\ UNCHANGED <<pushable, poppable, lock, isEmptyLock, readerVars>>

Put(w)     == \E v \in Value : CallPut(w, <<v>>)
PutMany(w) == \E items \in Batch : CallPut(w, items)

\* Append everything; the element that makes the queue nonempty gives
\* _isEmptyLock back (an error if it is not locked).
AppendWhen(w, wake) ==
    /\ pc[w] = "locked"
    /\ pushable' = pushable \o element[w]
    /\ isEmptyLock' = IF wake THEN Nobody ELSE isEmptyLock
    /\ Goto(w, IF wake /\ isEmptyLock = Nobody THEN "error" ELSE "idle")
    /\ lock' = Nobody
    /\ element' = [element EXCEPT ![w] = << >>]
    /\ UNCHANGED <<poppable, readerVars>>

MutantWakeAlways(w) == AppendWhen(w, element[w] # << >>)
MutantWakeAtTwo(w)  == AppendWhen(w, Length = 0 /\ Len(element[w]) > 1)

AppendAndWake(w) == AppendWhen(w, Length = 0 /\ element[w] # << >>)

-----------------------------------------------------------------------------
(* getNonblocking(), get() and getMany().                                  *)

Request(r, lo, hi) ==
    /\ pc[r] = "idle"
    /\ minCount' = [minCount EXCEPT ![r] = lo]
    /\ maxCount' = [maxCount EXCEPT ![r] = hi]
    /\ Goto(r, "lock")
    /\ UNCHANGED <<pushable, poppable, lock, isEmptyLock, element, res>>

GetNonblocking(r) == Request(r, 0, 1)
Get(r)            == Request(r, 1, 1)
GetMany(r)        == \E lo, hi \in Count : Request(r, lo, hi)

Full(r)   == Len(res[r]) >= maxCount[r]
Enough(r) == Len(res[r]) >= minCount[r]

\* All that was asked for, or as much as there is: unlock and return it.
Return(r) ==
    /\ pc[r] = "locked"
    /\ Full(r) \/ (Length = 0 /\ Enough(r))
    /\ lock' = Nobody
    /\ Goto(r, "idle")
    /\ minCount' = [minCount EXCEPT ![r] = 0]
    /\ maxCount' = [maxCount EXCEPT ![r] = 0]
    /\ res' = [res EXCEPT ![r] = << >>]
    /\ UNCHANGED <<pushable, poppable, isEmptyLock, element>>

\* Move the pushable list over if the poppable one is empty, then pop.  The
\* reader that takes the last value has to lock _isEmptyLock again.
TakeFrom(r, front, back) ==
    /\ pc[r] = "locked" /\ ~Full(r) /\ Length > 0
    /\ poppable' = Front(front)
    /\ pushable' = back
    /\ res' = [res EXCEPT ![r] = Append(@, Last(front))]
    /\ Goto(r, IF Length = 1 THEN "closing" ELSE "locked")
    /\ UNCHANGED <<lock, isEmptyLock, element, minCount, maxCount>>

MutantShiftUnreversed(r) ==
    IF poppable = << >> THEN TakeFrom(r, pushable, << >>)
                        ELSE TakeFrom(r, poppable, pushable)
MutantShiftUncleared(r) ==
    IF poppable = << >> THEN TakeFrom(r, Reverse(pushable), pushable)
                        ELSE TakeFrom(r, poppable, pushable)

Take(r) == IF poppable = << >> THEN TakeFrom(r, Reverse(pushable), << >>)
                               ELSE TakeFrom(r, poppable, pushable)

MutantCloseByForce(r) ==       \* mutant: takes it from a reader just woken
    /\ pc[r] = "closing"
    /\ isEmptyLock' = Queue
    /\ Goto(r, "locked")
    /\ UNCHANGED <<pushable, poppable, lock, element, readerVars>>

\* Lock _isEmptyLock with _lock held: it may be in the hands of a reader that
\* has just been woken.
Close(r) ==
    /\ pc[r] = "closing" /\ isEmptyLock = Nobody
    /\ isEmptyLock' = Queue
    /\ Goto(r, "locked")
    /\ UNCHANGED <<pushable, poppable, lock, element, readerVars>>

\* Nothing there: give _lock up ...
Wait(r) ==
    /\ pc[r] = "locked" /\ Length = 0 /\ ~Full(r) /\ ~Enough(r)
    /\ lock' = Nobody
    /\ Goto(r, "waiting")
    /\ UNCHANGED <<pushable, poppable, isEmptyLock, element, readerVars>>

\* ... sleep on _isEmptyLock ...
WakeUp(r) ==
    /\ pc[r] = "waiting" /\ isEmptyLock = Nobody
    /\ isEmptyLock' = r
    /\ Goto(r, "awake")
    /\ UNCHANGED <<pushable, poppable, lock, element, readerVars>>

MutantKeepAwake(r) ==          \* mutant: _isEmptyLock is not passed on
    /\ pc[r] = "awake"
    /\ Goto(r, "lock")
    /\ UNCHANGED <<pushable, poppable, lock, isEmptyLock, element, readerVars>>

\* ... pass it on to the next sleeper and go back for _lock.
PassOn(r) ==
    /\ pc[r] = "awake"
    /\ isEmptyLock' = Nobody
    /\ Goto(r, IF isEmptyLock = Nobody THEN "error" ELSE "lock")
    /\ UNCHANGED <<pushable, poppable, lock, element, readerVars>>

-----------------------------------------------------------------------------

Write(w) == Put(w) \/ PutMany(w) \/ AppendAndWake(w)

Read(r) == \/ GetNonblocking(r) \/ Get(r) \/ GetMany(r)
           \/ Return(r) \/ Take(r) \/ Close(r)
           \/ Wait(r) \/ WakeUp(r) \/ PassOn(r)

Next == \/ \E t \in Thread : Lock(t)
        \/ \E w \in Writer : Write(w)
        \/ \E r \in Reader : Read(r)

Spec == Init /\ [][Next]_vars

\* The operating system does not starve a thread on a lock that is free again
\* and again; a thread between two operations on locks keeps running.  Nothing
\* is assumed of the callers.
FairSpec ==
    /\ Spec
    /\ \A t \in Thread : SF_vars(Lock(t))
    /\ \A w \in Writer : WF_vars(AppendAndWake(w))
    /\ \A r \in Reader : /\ WF_vars(Return(r)) /\ WF_vars(Take(r))
                         /\ WF_vars(Close(r)) /\ WF_vars(Wait(r))
                         /\ SF_vars(WakeUp(r)) /\ WF_vars(PassOn(r))

-----------------------------------------------------------------------------
(* Properties.                                                             *)

\* "this lock is active whenever the queue is empty": whatever the readers
\* that wake each other do, between two critical sections the queue holds
\* _isEmptyLock exactly while it has no values.
EmptyLockAgrees ==
    (\A r \in Reader : pc[r] # "closing") =>
        (isEmptyLock = Queue <=> Length = 0)

\* "you may acquire this lock if you also have _lock" without deadlock: the
\* thread that does waits for a reader that is awake and needs no other lock.
CloserNotStuck ==
    \A r \in Reader : pc[r] = "closing" =>
        /\ lock = r
        /\ isEmptyLock = Nobody \/ \E u \in Reader : /\ isEmptyLock = u
                                                     /\ pc[u] = "awake"

\* No lock is released that is not locked.
NoError == \A t \in Thread : pc[t] # "error"

\* The values come out in the order in which they went in, none is lost and
\* none is delivered twice, and a reader gets less than it asked for only if
\* the queue was empty.
Fifo == INSTANCE FifoQueue WITH
            queue <- Contents, min <- minCount, max <- maxCount, got <- res,
            busy <- {r \in Reader : pc[r] # "idle"}

ImplementsFifo == Fifo!Spec

\* No wake-up is lost: a reader does not sleep on while there are values.
Woken ==
    \A r \in Reader :
        (pc[r] = "waiting" /\ Length > 0) ~> (pc[r] # "waiting" \/ Length = 0)
=============================================================================
