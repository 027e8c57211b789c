------------------------------ MODULE GilState ------------------------------
(***************************************************************************)
(* The deferred release of the GIL: PyGilState.cpp.  A thread that enters  *)
(* native code does not release the GIL itself; it publishes its thread    *)
(* state in waitingPyThreadState and a watcher thread releases the GIL on  *)
(* its behalf, unless the owner wants it back first.  Scoped objects       *)
(* (PyEnsureGilReleased, PyEnsureGilAcquired) nest, so every thread has a  *)
(* stack of them.                                                          *)
(*                                                                         *)
(* gilReleaseMutex is a lock: taking it is one action, the critical        *)
(* section with the unlock that ends it is the next one.                   *)
(***************************************************************************)
EXTENDS Naturals, Sequences

CONSTANTS Thread,    \* threads that run Python and native code
          Watcher,   \* the thread that runs gilReleaseThreadLoop
          Nobody,    \* no thread: a free lock, a null pointer
          MaxDepth   \* bound on the nesting of scoped objects

ASSUME ThreadAssumption ==
    /\ Watcher \notin Thread
    /\ Nobody \notin Thread
    /\ Watcher # Nobody
    /\ MaxDepth \in Nat

VARIABLES
    gil,          \* CPython's GIL: its owner, as PyThreadState_Get() sees it
    gilReleaseMutex,
    waitingPyThreadState,
    gilReleaseThreadLoopActive,
    curPyThreadState,  \* per thread: "null", or the isReleased of its state
    scopes,       \* per thread: the live scoped objects, innermost last
    pc,           \* per thread: where it is
    watcherPc

vars == <<gil, gilReleaseMutex, waitingPyThreadState,
          gilReleaseThreadLoopActive, curPyThreadState, scopes, pc, watcherPc>>

Kind == {"released", "acquired"}

\* A scoped object; acts is m_should_reacquire or m_should_rerelease.
Scope == [kind : Kind, acts : BOOLEAN]

PC == {"run", "parked", "ctor", "ctorLocked", "acquire", "acquireLocked",
       "restore", "trap"}

TypeOK ==
    /\ gil \in Thread \cup {Nobody}
    /\ gilReleaseMutex \in Thread \cup {Watcher, Nobody}
    /\ waitingPyThreadState \in Thread \cup {Nobody}
    /\ gilReleaseThreadLoopActive \in BOOLEAN
    /\ curPyThreadState \in [Thread -> {"null", "kept", "released"}]
    /\ scopes \in [Thread -> Seq(Scope)]
    /\ pc \in [Thread -> PC]
    /\ watcherPc \in {"start", "sleep", "locked", "trap"}

\* typed_python is being imported by one thread; no state object exists.
Init ==
    /\ \E main \in Thread :
          /\ gil = main
          /\ pc = [t \in Thread |-> IF t = main THEN "run" ELSE "parked"]
    /\ gilReleaseMutex = Nobody
    /\ waitingPyThreadState = Nobody
    /\ gilReleaseThreadLoopActive = FALSE
    /\ curPyThreadState = [t \in Thread |-> "null"]
    /\ scopes = [t \in Thread |-> << >>]
    /\ watcherPc = "start"

\* The mode a scope leaves its thread in once its constructor has run.
Mode(t) == IF scopes[t] = << >> THEN "acquired"
           ELSE scopes[t][Len(scopes[t])].kind

Goto(t, label) == pc' = [pc EXCEPT ![t] = label]

-----------------------------------------------------------------------------
(* The interpreter.  A thread without a state object runs Python code; the *)
(* evaluation loop gives the GIL up and takes it again.                    *)

InterpreterSwitchOut(t) ==
    /\ pc[t] = "run" /\ curPyThreadState[t] = "null" /\ gil = t
    /\ gil' = Nobody
    /\ Goto(t, "parked")
    /\ UNCHANGED <<gilReleaseMutex, waitingPyThreadState,
                   gilReleaseThreadLoopActive, curPyThreadState, scopes,
                   watcherPc>>

InterpreterSwitchIn(t) ==
    /\ pc[t] = "parked" /\ gil = Nobody
    /\ gil' = t
    /\ Goto(t, "run")
    /\ UNCHANGED <<gilReleaseMutex, waitingPyThreadState,
                   gilReleaseThreadLoopActive, curPyThreadState, scopes,
                   watcherPc>>

-----------------------------------------------------------------------------
(* The constructors and destructors of the scoped objects.                 *)

\* Enter a scope; it acts only if the thread is not in that mode already.
Enter(t, kind, acts, label) ==
    /\ pc[t] = "run" /\ Len(scopes[t]) < MaxDepth
    /\ scopes' = [scopes EXCEPT ![t] = Append(@, [kind |-> kind, acts |-> acts])]
    /\ Goto(t, IF acts THEN label ELSE "run")
    /\ UNCHANGED <<gil, gilReleaseMutex, waitingPyThreadState,
                   gilReleaseThreadLoopActive, curPyThreadState, watcherPc>>

\* Leave the innermost scope, undoing what its constructor did.
Exit(t, kind, label) ==
    /\ pc[t] = "run" /\ scopes[t] # << >> /\ Mode(t) = kind
    /\ Goto(t, IF scopes[t][Len(scopes[t])].acts THEN label ELSE "run")
    /\ scopes' = [scopes EXCEPT ![t] = SubSeq(@, 1, Len(@) - 1)]
    /\ UNCHANGED <<gil, gilReleaseMutex, waitingPyThreadState,
                   gilReleaseThreadLoopActive, curPyThreadState, watcherPc>>

EnterGilReleased(t) ==
    Enter(t, "released", curPyThreadState[t] = "null", "ctor")
MutantExitUnasked(t) ==       \* mutant: m_should_reacquire is not consulted
    /\ pc[t] = "run" /\ Mode(t) = "released"
    /\ scopes' = [scopes EXCEPT ![t] = SubSeq(@, 1, Len(@) - 1)]
    /\ Goto(t, "acquire")
    /\ UNCHANGED <<gil, gilReleaseMutex, waitingPyThreadState,
                   gilReleaseThreadLoopActive, curPyThreadState, watcherPc>>
ExitGilReleased(t) == Exit(t, "released", "acquire")

EnterGilAcquired(t) ==
    Enter(t, "acquired", curPyThreadState[t] # "null", "acquire")
ExitGilAcquired(t) == Exit(t, "acquired", "ctor")

-----------------------------------------------------------------------------
(* new ReleaseableThreadState() and ReleaseableThreadState::acquire().     *)

LockMutex(t, from, to) ==
    /\ pc[t] = from /\ gilReleaseMutex = Nobody
    /\ gilReleaseMutex' = t
    /\ Goto(t, to)
    /\ UNCHANGED <<gil, waitingPyThreadState, gilReleaseThreadLoopActive,
                   curPyThreadState, scopes, watcherPc>>

LockInConstructor(t) == LockMutex(t, "ctor", "ctorLocked")
LockInAcquire(t)     == LockMutex(t, "acquire", "acquireLocked")

SetState(t, s) == curPyThreadState' = [curPyThreadState EXCEPT ![t] = s]

\* Nobody would wake us up: PyEval_SaveThread() right here.  It is a fatal
\* error of the interpreter to save a thread state without the GIL.
ConstructReleased(t) ==
    /\ pc[t] = "ctorLocked" /\ ~gilReleaseThreadLoopActive
    /\ gil' = Nobody
    /\ SetState(t, "released")
    /\ gilReleaseMutex' = Nobody
    /\ Goto(t, IF gil = t THEN "run" ELSE "trap")
    /\ UNCHANGED <<waitingPyThreadState, gilReleaseThreadLoopActive, scopes,
                   watcherPc>>

\* Leave the GIL held, for the watcher to release.
KeepAndPublish(t, whom) ==
    /\ pc[t] = "ctorLocked" /\ gilReleaseThreadLoopActive
    /\ SetState(t, "kept")
    /\ waitingPyThreadState' = whom
    /\ gilReleaseMutex' = Nobody
    /\ Goto(t, IF gil = t THEN "run" ELSE "trap")
    /\ UNCHANGED <<gil, gilReleaseThreadLoopActive, scopes, watcherPc>>

MutantPublishNothing(t) == KeepAndPublish(t, waitingPyThreadState)

ConstructKept(t) == KeepAndPublish(t, t)

\* The watcher has released us: go and wait for the GIL, without the mutex.
AcquireWhenReleased(t, state, next) ==
    /\ pc[t] = "acquireLocked" /\ curPyThreadState[t] = "released"
    /\ SetState(t, state)
    /\ gilReleaseMutex' = Nobody
    /\ Goto(t, next)
    /\ UNCHANGED <<gil, waitingPyThreadState, gilReleaseThreadLoopActive,
                   scopes, watcherPc>>

MutantSkipRestore(t) == AcquireWhenReleased(t, "null", "run")

AcquireReleased(t) == AcquireWhenReleased(t, "kept", "restore")

\* We never lost the GIL: withdraw the offer; the caller deletes the state.
\* "Not yet released, and yet not also waiting" is int3, and so is the use of
\* a null state.
AcquireWhenKept(t, offer) ==
    /\ pc[t] = "acquireLocked" /\ curPyThreadState[t] # "released"
    /\ waitingPyThreadState' = offer
    /\ SetState(t, "null")
    /\ gilReleaseMutex' = Nobody
    /\ Goto(t, IF curPyThreadState[t] = "kept" /\ waitingPyThreadState = t
               THEN "run" ELSE "trap")
    /\ UNCHANGED <<gil, gilReleaseThreadLoopActive, scopes, watcherPc>>

MutantOfferStays(t) == AcquireWhenKept(t, waitingPyThreadState)

AcquireKept(t) == AcquireWhenKept(t, Nobody)

\* PyEval_RestoreThread() returns; the caller deletes the state.
Restore(t) ==
    /\ pc[t] = "restore" /\ gil = Nobody
    /\ gil' = t
    /\ SetState(t, "null")
    /\ Goto(t, "run")
    /\ UNCHANGED <<gilReleaseMutex, waitingPyThreadState,
                   gilReleaseThreadLoopActive, scopes, watcherPc>>

-----------------------------------------------------------------------------
(* gilReleaseThreadLoop().                                                 *)

WatcherActivate ==
    /\ watcherPc = "start" /\ gilReleaseMutex = Nobody
    /\ gilReleaseThreadLoopActive' = TRUE
    /\ watcherPc' = "sleep"
    /\ UNCHANGED <<gil, gilReleaseMutex, waitingPyThreadState,
                   curPyThreadState, scopes, pc>>

WatcherLock ==
    /\ watcherPc = "sleep" /\ gilReleaseMutex = Nobody
    /\ gilReleaseMutex' = Watcher
    /\ watcherPc' = "locked"
    /\ UNCHANGED <<gil, waitingPyThreadState, gilReleaseThreadLoopActive,
                   curPyThreadState, scopes, pc>>

WatcherIdle ==
    /\ watcherPc = "locked" /\ waitingPyThreadState = Nobody
    /\ gilReleaseMutex' = Nobody
    /\ watcherPc' = "sleep"
    /\ UNCHANGED <<gil, waitingPyThreadState, gilReleaseThreadLoopActive,
                   curPyThreadState, scopes, pc>>

\* release_(): the GIL is let go on behalf of the waiting thread; int3 if
\* "somehow another thread got the threadstate".
ReleaseFor(t, owner, state, offer) ==
    /\ watcherPc = "locked" /\ t # Nobody
    /\ gil' = owner
    /\ SetState(t, state)
    /\ waitingPyThreadState' = offer
    /\ gilReleaseMutex' = Nobody
    /\ watcherPc' = IF gil = t THEN "sleep" ELSE "trap"
    /\ UNCHANGED <<gilReleaseThreadLoopActive, scopes, pc>>

MutantNotMarkedReleased ==
    ReleaseFor(waitingPyThreadState, Nobody, "kept", Nobody)
MutantReleaseTwice ==
    ReleaseFor(waitingPyThreadState, Nobody, "released", waitingPyThreadState)
MutantNoSaveThread ==
    ReleaseFor(waitingPyThreadState, gil, "released", Nobody)

WatcherRelease == ReleaseFor(waitingPyThreadState, Nobody, "released", Nobody)

-----------------------------------------------------------------------------

Interpreter(t) == InterpreterSwitchOut(t) \/ InterpreterSwitchIn(t)

ScopedObject(t) ==
    \/ EnterGilReleased(t) \/ ExitGilReleased(t)
    \/ EnterGilAcquired(t) \/ ExitGilAcquired(t)

ThreadState(t) ==
    \/ LockInConstructor(t) \/ ConstructReleased(t) \/ ConstructKept(t)
    \/ LockInAcquire(t) \/ AcquireReleased(t) \/ AcquireKept(t)
    \/ Restore(t)

WatcherStep == \/ WatcherActivate \/ WatcherLock
               \/ WatcherIdle \/ WatcherRelease

Next == \/ \E t \in Thread : Interpreter(t) \/ ScopedObject(t) \/ ThreadState(t)
        \/ WatcherStep

Spec == Init /\ [][Next]_vars

(***************************************************************************)
(* Fairness.  The watcher is a loop that never ends.  A thread inside the  *)
(* protocol keeps running; the mutex is free for the 500us of every usleep *)
(* of the watcher, so a thread that wants it gets it.  The interpreter     *)
(* hands the GIL over when somebody else waits for it, and lets every      *)
(* waiter have it in turn.  Native code may run for ever: nothing is       *)
(* assumed of the scoped objects.                                          *)
(***************************************************************************)
WantsGil(t) == pc[t] \in {"parked", "restore"}

ThreadFairness(t) ==
    /\ SF_vars(LockInConstructor(t)) /\ SF_vars(LockInAcquire(t))
    /\ WF_vars(ConstructReleased(t)) /\ WF_vars(ConstructKept(t))
    /\ WF_vars(AcquireReleased(t)) /\ WF_vars(AcquireKept(t))
    /\ SF_vars(Restore(t)) /\ SF_vars(InterpreterSwitchIn(t))
    /\ WF_vars((\E u \in Thread : WantsGil(u)) /\ InterpreterSwitchOut(t))

FairSpec ==
    /\ Spec
    /\ WF_vars(WatcherActivate) /\ WF_vars(WatcherLock)
    /\ WF_vars(WatcherIdle) /\ WF_vars(WatcherRelease)
    /\ \A t \in Thread : ThreadFairness(t)

-----------------------------------------------------------------------------
(* Properties.                                                             *)

\* The threads that may touch Python objects: without a state object, and not
\* switched out by the interpreter.
InPython(t) == curPyThreadState[t] = "null" /\ pc[t] # "parked"

\* Whatever the watcher does meanwhile, a thread that has no state object (so
\* that assertHoldingTheGil() passes) does hold the GIL.
PythonHoldsGil == \A t \in Thread : InPython(t) => gil = t

\* waitingPyThreadState never dangles: it is a live, unreleased state of the
\* thread that owns the GIL; and an unreleased state is either offered to the
\* watcher or on its way back into the interpreter.
OfferIsLive ==
    \A t \in Thread :
        /\ waitingPyThreadState = t => curPyThreadState[t] = "kept" /\ gil = t
        /\ curPyThreadState[t] = "kept" =>
              \/ waitingPyThreadState = t
              \/ pc[t] = "restore"

\* None of the fatal errors (int3, a null state, a save without the GIL) can
\* be reached by any interleaving of the threads and the watcher.
NoTrap == watcherPc # "trap" /\ \A t \in Thread : pc[t] # "trap"

\* However the two kinds of scope are nested, a thread that is past the
\* constructors and destructors is in the mode of its innermost scope.
ScopesAgree ==
    \A t \in Thread :
        pc[t] \in {"run", "parked"} =>
            (curPyThreadState[t] = "null" <=> Mode(t) = "acquired")

\* The fast path keeps the GIL: a thread that comes back before the watcher
\* acts has not let any other thread in between.
Abstract == INSTANCE PyGil WITH
                owner <- gil, inside <- {t \in Thread : InPython(t)}

\* The protocol implements the lock with a biased owner: in particular only
\* the watcher, and only while the owner is outside Python, takes the GIL away.
ImplementsPyGil == Abstract!Spec

\* A thread in native code does not keep the GIL for ever, however long its
\* native code runs: the watcher takes it, or the thread takes it back.
KeptIsTaken ==
    \A t \in Thread :
        LET Keeps == curPyThreadState[t] = "kept" /\ gil = t
        IN  Keeps ~> ~Keeps

\* Unless threads keep winning the race against the watcher for ever, a thread
\* that wants to come back from native code does come back.
FastPath == \E t \in Thread : AcquireKept(t)

EveryoneReturns ==
    <>[][~FastPath]_vars =>
        \A t \in Thread : pc[t] = "restore" ~> pc[t] = "run"
=============================================================================
