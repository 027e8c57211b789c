--------------------------- MODULE GilStateProofs ---------------------------
(***************************************************************************)
(* Proofs about the GIL protocol, for any number of threads and any depth  *)
(* of nesting.  IInv is the inductive invariant; the safety properties and *)
(* the refinement of PyGil follow from it.                                 *)
(***************************************************************************)
EXTENDS GilState, SequenceTheorems, TLAPS

\* The mutex is held exactly by whoever is inside a critical section.
MutexInv ==
    /\ \A t \in Thread : gilReleaseMutex = t
                            <=> pc[t] \in {"ctorLocked", "acquireLocked"}
    /\ gilReleaseMutex = Watcher <=> watcherPc = "locked"

\* Until the watcher is active nobody makes it an offer.
ActiveInv ==
    /\ gilReleaseThreadLoopActive <=> watcherPc # "start"
    /\ watcherPc = "start" => waitingPyThreadState = Nobody

\* Where a thread is, against its state object and the GIL.
StateInv ==
    \A t \in Thread :
        /\ pc[t] \in {"parked", "ctor", "ctorLocked"}
              => curPyThreadState[t] = "null"
        /\ pc[t] \in {"acquire", "acquireLocked"}
              => curPyThreadState[t] # "null"
        /\ pc[t] = "restore" => curPyThreadState[t] = "kept"
                                /\ waitingPyThreadState # t

\* The mode of a scope's parent; a thread starts in Python.
Below(s, i) == IF i = 1 THEN "acquired" ELSE s[i - 1].kind

\* A scope acts exactly if it changed the mode of its thread.
StackInv ==
    \A t \in Thread : \A i \in 1..Len(scopes[t]) :
        scopes[t][i].acts <=> (scopes[t][i].kind # Below(scopes[t], i))

\* The innermost scope says in which direction a thread is under way.
ModeInv ==
    \A t \in Thread :
        /\ pc[t] \in {"ctor", "ctorLocked"} => Mode(t) = "released"
        /\ pc[t] \in {"acquire", "acquireLocked", "restore"}
              => Mode(t) = "acquired"

\* The part of the invariant that does not mention the stacks.
ProtocolInv ==
    /\ TypeOK
    /\ MutexInv
    /\ ActiveInv
    /\ StateInv
    /\ PythonHoldsGil
    /\ OfferIsLive
    /\ NoTrap

ScopesInv == StackInv /\ ModeInv /\ ScopesAgree

IInv == ProtocolInv /\ ScopesInv

-----------------------------------------------------------------------------

\* Entering or leaving a scope keeps the stack a sequence of scopes.
LEMMA PushScope ==
    ASSUME TypeOK, NEW t \in Thread, NEW kind \in Kind, NEW acts \in BOOLEAN,
           NEW label \in PC, Enter(t, kind, acts, label)
    PROVE  scopes' \in [Thread -> Seq(Scope)] /\ pc' \in [Thread -> PC]
  <1>1. [kind |-> kind, acts |-> acts] \in Scope
    BY DEF Scope
  <1>2. scopes[t] \in Seq(Scope)
    BY DEF TypeOK
  <1>3. Append(scopes[t], [kind |-> kind, acts |-> acts]) \in Seq(Scope)
    BY <1>1, <1>2
  <1>4. QED
    BY <1>3 DEF TypeOK, Enter, Goto, PC

LEMMA PopScope ==
    ASSUME TypeOK, NEW t \in Thread, NEW kind \in Kind,
           NEW label \in PC, Exit(t, kind, label)
    PROVE  scopes' \in [Thread -> Seq(Scope)] /\ pc' \in [Thread -> PC]
  <1>1. scopes[t] \in Seq(Scope) /\ scopes[t] # << >>
    BY DEF TypeOK, Exit
  <1>2. SubSeq(scopes[t], 1, Len(scopes[t]) - 1) \in Seq(Scope)
    BY <1>1
  <1>3. QED
    BY <1>2 DEF TypeOK, Exit, Goto, PC

\* The protocol invariant holds initially.
LEMMA ProtocolInit == Init => ProtocolInv
  <1> SUFFICES ASSUME Init PROVE ProtocolInv
    OBVIOUS
  <1> USE ThreadAssumption DEF Init
  <1>1. TypeOK
    <2>1. << >> \in Seq(Scope)
      OBVIOUS
    <2>2. scopes \in [Thread -> Seq(Scope)]
      BY <2>1
    <2>3. QED
      BY <2>2 DEF TypeOK, PC
  <1>2. MutexInv /\ ActiveInv /\ StateInv /\ PythonHoldsGil /\ OfferIsLive
    BY DEF MutexInv, ActiveInv, StateInv, PythonHoldsGil, OfferIsLive, InPython
  <1>3. NoTrap
    BY DEF NoTrap
  <1> QED
    BY <1>1, <1>2, <1>3 DEF ProtocolInv

\* A scope that acts leaves or enters Python: its destructor undoes a change
\* of mode, so it finds the thread in the mode its constructor made.
LEMMA ActingScope ==
    ASSUME IInv, NEW t \in Thread, NEW kind \in Kind, NEW label \in PC,
           Exit(t, kind, label)
    PROVE  LET top == scopes[t][Len(scopes[t])]
           IN  /\ top.kind = kind
               /\ top.acts \in BOOLEAN
               /\ top.acts <=> Below(scopes[t], Len(scopes[t])) # kind
               /\ curPyThreadState[t] = "null" <=> kind = "acquired"
  <1>1. /\ scopes[t] \in Seq(Scope) /\ scopes[t] # << >>
        /\ Len(scopes[t]) \in 1..Len(scopes[t])
    BY DEF IInv, ProtocolInv, TypeOK, Exit
  <1>2. scopes[t][Len(scopes[t])] \in Scope
    BY <1>1
  <1>3. scopes[t][Len(scopes[t])].acts
          <=> (scopes[t][Len(scopes[t])].kind
                  # Below(scopes[t], Len(scopes[t])))
    BY <1>1 DEF IInv, ScopesInv, StackInv
  <1>4. /\ scopes[t][Len(scopes[t])].kind = kind
        /\ curPyThreadState[t] = "null" <=> kind = "acquired"
    BY <1>1 DEF IInv, ScopesInv, ScopesAgree, Exit, Mode
  <1>5. QED
    BY <1>2, <1>3, <1>4 DEF Scope

\* Entering a scope preserves the protocol invariant ...
LEMMA ProtocolEnter ==
    ASSUME ProtocolInv, NEW t \in Thread, NEW kind \in Kind,
           NEW label \in {"acquire", "ctor"}, NEW acts \in BOOLEAN,
           Enter(t, kind, acts, label),
           acts => (label = "ctor" <=> curPyThreadState[t] = "null")
    PROVE  ProtocolInv'
  <1> USE ThreadAssumption
  <1>1. scopes' \in [Thread -> Seq(Scope)] /\ pc' \in [Thread -> PC]
    BY PushScope DEF PC, ProtocolInv
  <1>2. TypeOK'
    BY <1>1 DEF TypeOK, Enter, ProtocolInv
  <1>3. QED
    BY <1>2 DEF ProtocolInv, TypeOK, MutexInv, ActiveInv, StateInv, PC, Goto,
         PythonHoldsGil, OfferIsLive, NoTrap, InPython, Enter

\* ... and so does leaving one.
LEMMA ProtocolExit ==
    ASSUME IInv, NEW t \in Thread, NEW kind \in Kind,
           NEW label \in {"acquire", "ctor"}, Exit(t, kind, label),
           label = "ctor" <=> kind = "acquired"
    PROVE  ProtocolInv'
  <1> USE ThreadAssumption
  <1>1. scopes' \in [Thread -> Seq(Scope)] /\ pc' \in [Thread -> PC]
    BY PopScope DEF PC, IInv, ProtocolInv
  <1>2. TypeOK'
    BY <1>1 DEF TypeOK, Exit, IInv, ProtocolInv
  <1>3. curPyThreadState[t] = "null" <=> kind = "acquired"
    BY ActingScope DEF PC
  <1>4. \E acts \in BOOLEAN : Goto(t, IF acts THEN label ELSE "run")
    BY ActingScope DEF PC, Exit
  <1>5. QED
    BY <1>2, <1>3, <1>4 DEF IInv, ProtocolInv, TypeOK, MutexInv, ActiveInv,
         StateInv, PC, Goto, PythonHoldsGil, OfferIsLive, NoTrap, InPython, Exit

\* Every step preserves the protocol invariant: the argument is that the
\* mutex serialises the watcher and the thread it serves, and that a thread
\* whose state is offered is the owner of the GIL.
LEMMA ProtocolNext == IInv /\ [Next]_vars => ProtocolInv'
  <1> SUFFICES ASSUME IInv, [Next]_vars PROVE ProtocolInv'
    OBVIOUS
  <1> USE ThreadAssumption
  <1>0. ProtocolInv
    BY DEF IInv
  <1>1. ASSUME NEW t \in Thread, Interpreter(t) PROVE ProtocolInv'
    <2>1. CASE InterpreterSwitchOut(t)
      BY <1>0, <2>1 DEF ProtocolInv, TypeOK, MutexInv, ActiveInv, StateInv, PC,
           Goto, PythonHoldsGil, OfferIsLive, NoTrap, InPython,
           InterpreterSwitchOut
    <2>2. CASE InterpreterSwitchIn(t)
      BY <1>0, <2>2 DEF ProtocolInv, TypeOK, MutexInv, ActiveInv, StateInv, PC,
           Goto, PythonHoldsGil, OfferIsLive, NoTrap, InPython,
           InterpreterSwitchIn
    <2> QED
      BY <1>1, <2>1, <2>2 DEF Interpreter
  <1>2. ASSUME NEW t \in Thread, ScopedObject(t) PROVE ProtocolInv'
    <2>1. CASE EnterGilReleased(t)
      BY <1>0, <2>1, ProtocolEnter DEF EnterGilReleased, Kind
    <2>2. CASE ExitGilReleased(t)
      BY <2>2, ProtocolExit DEF ExitGilReleased, Kind
    <2>3. CASE EnterGilAcquired(t)
      BY <1>0, <2>3, ProtocolEnter DEF EnterGilAcquired, Kind
    <2>4. CASE ExitGilAcquired(t)
      BY <2>4, ProtocolExit DEF ExitGilAcquired, Kind
    <2> QED
      BY <1>2, <2>1, <2>2, <2>3, <2>4 DEF ScopedObject
  <1>3. ASSUME NEW t \in Thread, ThreadState(t) PROVE ProtocolInv'
    <2> USE <1>0 DEF ProtocolInv, TypeOK, MutexInv, ActiveInv, StateInv, PC,
              Goto, PythonHoldsGil, OfferIsLive, NoTrap, InPython, SetState
    <2>1. CASE LockInConstructor(t)
      BY <2>1 DEF LockInConstructor, LockMutex
    <2>2. CASE LockInAcquire(t)
      BY <2>2 DEF LockInAcquire, LockMutex
    <2>3. CASE ConstructReleased(t)
      BY <2>3 DEF ConstructReleased
    <2>4. CASE ConstructKept(t)
      BY <2>4 DEF ConstructKept, KeepAndPublish
    <2>5. CASE AcquireReleased(t)
      BY <2>5 DEF AcquireReleased, AcquireWhenReleased
    <2>6. CASE AcquireKept(t)
      BY <2>6 DEF AcquireKept, AcquireWhenKept
    <2>7. CASE Restore(t)
      BY <2>7 DEF Restore
    <2> QED
      BY <1>3, <2>1, <2>2, <2>3, <2>4, <2>5, <2>6, <2>7 DEF ThreadState
  <1>4. CASE WatcherStep
    <2> USE <1>0 DEF ProtocolInv, TypeOK, MutexInv, ActiveInv, StateInv, PC,
              PythonHoldsGil, OfferIsLive, NoTrap, InPython, SetState
    <2>1. CASE WatcherActivate
      BY <2>1 DEF WatcherActivate
    <2>2. CASE WatcherLock
      BY <2>2 DEF WatcherLock
    <2>3. CASE WatcherIdle
      BY <2>3 DEF WatcherIdle
    <2>4. CASE WatcherRelease
      BY <2>4 DEF WatcherRelease, ReleaseFor
    <2> QED
      BY <1>4, <2>1, <2>2, <2>3, <2>4 DEF WatcherStep
  <1>5. CASE UNCHANGED vars
    BY <1>0, <1>5 DEF ProtocolInv, TypeOK, MutexInv, ActiveInv, StateInv, PC,
         PythonHoldsGil, OfferIsLive, NoTrap, InPython, vars
  <1> QED
    BY <1>1, <1>2, <1>3, <1>4, <1>5 DEF Next

-----------------------------------------------------------------------------

LEMMA ScopesInit == Init => ScopesInv
  BY DEF Init, ScopesInv, StackInv, ModeInv, ScopesAgree, Mode

\* What the constructor of a scope does to the stack of its thread.
LEMMA PushStack ==
    ASSUME NEW s \in Seq(Scope), NEW kind \in Kind, NEW acts \in BOOLEAN,
           \A i \in 1..Len(s) : s[i].acts <=> (s[i].kind # Below(s, i)),
           acts <=> kind # (IF s = << >> THEN "acquired" ELSE s[Len(s)].kind)
    PROVE  LET r == Append(s, [kind |-> kind, acts |-> acts])
           IN  /\ r # << >>
               /\ r[Len(r)].kind = kind
               /\ \A i \in 1..Len(r) : r[i].acts <=> (r[i].kind # Below(r, i))
  <1> DEFINE r == Append(s, [kind |-> kind, acts |-> acts])
  <1>1. /\ r # << >> /\ Len(r) = Len(s) + 1
        /\ r[Len(r)] = [kind |-> kind, acts |-> acts]
        /\ \A i \in 1..Len(s) : r[i] = s[i]
    <2>1. [kind |-> kind, acts |-> acts] \in Scope
      BY DEF Scope
    <2>2. r \in Seq(Scope) /\ Len(r) = Len(s) + 1 /\ Len(s) \in Nat
      BY <2>1
    <2>3. r[Len(r)] = [kind |-> kind, acts |-> acts]
      BY <2>1, <2>2
    <2>4. \A i \in 1..Len(s) : r[i] = s[i]
      BY <2>1
    <2>5. QED
      BY <2>2, <2>3, <2>4
  <1>2. ASSUME NEW i \in 1..Len(s)
        PROVE  r[i].acts <=> (r[i].kind # Below(r, i))
    BY <1>1, <1>2 DEF Below
  <1>3. r[Len(r)].acts <=> (r[Len(r)].kind # Below(r, Len(r)))
    <2>1. Below(r, Len(r)) = IF s = << >> THEN "acquired" ELSE s[Len(s)].kind
      BY <1>1 DEF Below
    <2>2. QED
      BY <1>1, <2>1
  <1>4. \A i \in 1..Len(r) : i \in 1..Len(s) \/ i = Len(r)
    BY <1>1
  <1>5. QED
    BY <1>1, <1>2, <1>3, <1>4

\* What the destructor of a scope does to the stack of its thread.
LEMMA PopStack ==
    ASSUME NEW s \in Seq(Scope), s # << >>,
           \A i \in 1..Len(s) : s[i].acts <=> (s[i].kind # Below(s, i))
    PROVE  LET r == SubSeq(s, 1, Len(s) - 1)
           IN  /\ (IF r = << >> THEN "acquired" ELSE r[Len(r)].kind)
                     = Below(s, Len(s))
               /\ \A i \in 1..Len(r) : r[i].acts <=> (r[i].kind # Below(r, i))
  <1> DEFINE r == SubSeq(s, 1, Len(s) - 1)
  <1>1. /\ Len(s) \in Nat \ {0} /\ Len(r) = Len(s) - 1
        /\ \A i \in 1..Len(r) : r[i] = s[i]
        /\ r = << >> <=> Len(s) = 1
    <2>1. Len(s) \in Nat \ {0}
      OBVIOUS
    <2>2. ASSUME NEW i \in 1..(Len(s) - 1) PROVE s[i] \in Scope
      <3>1. i \in 1..Len(s)
        BY <2>1
      <3>2. QED
        BY <3>1, ElementOfSeq, Zenon
    <2>3. /\ r \in Seq(Scope) /\ Len(r) = Len(s) - 1
          /\ \A i \in 1..Len(r) : r[i] = s[i]
      <3> DEFINE n == Len(s) - 1
      <3>1. n \in Int /\ 1 \in Int /\ \A i \in 1..n : s[i] \in Scope
        BY <2>1, <2>2
      <3> HIDE DEF n
      <3>2. /\ SubSeq(s, 1, n) \in Seq(Scope)
            /\ Len(SubSeq(s, 1, n)) = IF 1 <= n THEN n - 1 + 1 ELSE 0
            /\ \A i \in 1..(n - 1 + 1) : SubSeq(s, 1, n)[i] = s[1 + i - 1]
        BY <3>1, SubSeqProperties
      <3>3. /\ r = SubSeq(s, 1, n) /\ n \in Nat /\ n = Len(s) - 1
        BY <2>1 DEF n
      <3>4. \A i \in 1..n : i \in 1..(n - 1 + 1) /\ 1 + i - 1 = i
        BY <3>1
      <3>5. Len(r) = n /\ r \in Seq(Scope)
        BY <3>2, <3>3
      <3>6. QED
        BY <3>2, <3>3, <3>4, <3>5
    <2>4. r = << >> <=> Len(r) = 0
      BY <2>3, EmptySeq
    <2>5. QED
      BY <2>1, <2>3, <2>4
  <1>2. (IF r = << >> THEN "acquired" ELSE r[Len(r)].kind) = Below(s, Len(s))
    BY <1>1 DEF Below
  <1>3. ASSUME NEW i \in 1..Len(r)
        PROVE  r[i].acts <=> (r[i].kind # Below(r, i))
    BY <1>1, <1>3 DEF Below
  <1>4. QED
    BY <1>2, <1>3

\* Entering a scope preserves the invariant of the stacks ...
LEMMA ScopesEnter ==
    ASSUME IInv, NEW t \in Thread, NEW kind \in Kind,
           NEW label \in {"acquire", "ctor"}, NEW acts \in BOOLEAN,
           Enter(t, kind, acts, label),
           label = "ctor" <=> kind = "released",
           acts <=> (curPyThreadState[t] = "null" <=> kind = "released")
    PROVE  ScopesInv'
  <1> DEFINE r == Append(scopes[t], [kind |-> kind, acts |-> acts])
  <1>1. scopes[t] \in Seq(Scope) /\ pc[t] = "run"
    BY DEF IInv, ProtocolInv, TypeOK, Enter
  <1>2. curPyThreadState[t] = "null" <=> Mode(t) = "acquired"
    BY <1>1 DEF IInv, ScopesInv, ScopesAgree
  <1>3. Mode(t) \in Kind
    <2>1. scopes[t] # << >> => scopes[t][Len(scopes[t])] \in Scope
      BY <1>1
    <2>2. QED
      BY <2>1 DEF Mode, Kind, Scope
  <1>4. acts <=> kind # Mode(t)
    BY <1>2, <1>3 DEF Kind
  <1>5. /\ r # << >>
        /\ r[Len(r)].kind = kind
        /\ \A i \in 1..Len(r) : r[i].acts <=> (r[i].kind # Below(r, i))
    BY <1>1, <1>4, PushStack DEF IInv, ScopesInv, StackInv, Mode
  <1>6. /\ scopes' = [scopes EXCEPT ![t] = r]
        /\ pc' = [pc EXCEPT ![t] = IF acts THEN label ELSE "run"]
        /\ scopes \in [Thread -> Seq(Scope)] /\ pc \in [Thread -> PC]
        /\ UNCHANGED curPyThreadState
    BY DEF IInv, ProtocolInv, TypeOK, Enter, Goto
  <1>7. StackInv'
    BY <1>5, <1>6 DEF IInv, ScopesInv, StackInv, Below
  <1>8. /\ \A u \in Thread \ {t} : Mode(u)' = Mode(u)
        /\ Mode(t)' = kind
    BY <1>5, <1>6 DEF Mode
  <1>9. ModeInv' /\ ScopesAgree'
    BY <1>2, <1>4, <1>6, <1>8 DEF IInv, ScopesInv, ModeInv, ScopesAgree, Kind
  <1> QED
    BY <1>7, <1>9 DEF ScopesInv

\* ... and so does leaving one.
LEMMA ScopesExit ==
    ASSUME IInv, NEW t \in Thread, NEW kind \in Kind,
           NEW label \in {"acquire", "ctor"}, Exit(t, kind, label),
           label = "ctor" <=> kind = "acquired"
    PROVE  ScopesInv'
  <1> DEFINE s == scopes[t]
             r == SubSeq(s, 1, Len(s) - 1)
             acts == s[Len(s)].acts
  <1>1. s \in Seq(Scope) /\ s # << >> /\ pc[t] = "run"
    BY DEF IInv, ProtocolInv, TypeOK, Exit
  <1>2. /\ acts \in BOOLEAN
        /\ acts <=> Below(s, Len(s)) # kind
        /\ curPyThreadState[t] = "null" <=> kind = "acquired"
    BY ActingScope DEF PC
  <1>3. /\ (IF r = << >> THEN "acquired" ELSE r[Len(r)].kind)
              = Below(s, Len(s))
        /\ \A i \in 1..Len(r) : r[i].acts <=> (r[i].kind # Below(r, i))
    BY <1>1, PopStack DEF IInv, ScopesInv, StackInv
  <1>4. Below(s, Len(s)) \in Kind
    <2>1. Len(s) \in Nat /\ Len(s) # 0
      BY <1>1, EmptySeq
    <2>2. Len(s) # 1 => Len(s) - 1 \in 1..Len(s)
      <3> DEFINE n == Len(s)
      <3>1. n \in Nat /\ n # 0
        BY <2>1
      <3> HIDE DEF n
      <3>2. n # 1 => n - 1 \in 1..n
        BY <3>1
      <3>3. QED
        BY <3>2 DEF n
    <2>3. ASSUME NEW i \in 1..Len(s) PROVE s[i] \in Scope
      BY <1>1, ElementOfSeq, Zenon
    <2>4. QED
      BY <2>2, <2>3 DEF Below, Kind, Scope
  <1>6. /\ scopes' = [scopes EXCEPT ![t] = r]
        /\ pc' = [pc EXCEPT ![t] = IF acts THEN label ELSE "run"]
        /\ scopes \in [Thread -> Seq(Scope)] /\ pc \in [Thread -> PC]
        /\ UNCHANGED curPyThreadState
    BY DEF IInv, ProtocolInv, TypeOK, Exit, Goto
  <1>7. StackInv'
    BY <1>3, <1>6 DEF IInv, ScopesInv, StackInv, Below
  <1>8. /\ \A u \in Thread \ {t} : Mode(u)' = Mode(u)
        /\ Mode(t)' = Below(s, Len(s))
    BY <1>3, <1>6 DEF Mode
  <1>9. ModeInv' /\ ScopesAgree'
    BY <1>2, <1>4, <1>6, <1>8 DEF IInv, ScopesInv, ModeInv, ScopesAgree, Kind
  <1> QED
    BY <1>7, <1>9 DEF ScopesInv

\* Every step preserves the invariant of the stacks; only the constructors
\* and destructors of scopes change a stack, and the steps of the protocol
\* finish the change of mode they began.
LEMMA ScopesNext == IInv /\ [Next]_vars => ScopesInv'
  <1> SUFFICES ASSUME IInv, [Next]_vars PROVE ScopesInv'
    OBVIOUS
  <1> USE ThreadAssumption
  <1>1. ASSUME NEW t \in Thread, ScopedObject(t) PROVE ScopesInv'
    <2>1. CASE EnterGilReleased(t)
      BY <2>1, ScopesEnter DEF EnterGilReleased, Kind
    <2>2. CASE ExitGilReleased(t)
      BY <2>2, ScopesExit DEF ExitGilReleased, Kind
    <2>3. CASE EnterGilAcquired(t)
      BY <2>3, ScopesEnter DEF EnterGilAcquired, Kind
    <2>4. CASE ExitGilAcquired(t)
      BY <2>4, ScopesExit DEF ExitGilAcquired, Kind
    <2> QED
      BY <1>1, <2>1, <2>2, <2>3, <2>4 DEF ScopedObject
  <1>2. ASSUME UNCHANGED scopes, ModeInv', ScopesAgree' PROVE ScopesInv'
    BY <1>2 DEF IInv, ScopesInv, StackInv, Below
  <1>3. UNCHANGED scopes => \A t \in Thread : Mode(t)' = Mode(t)
    BY DEF Mode
  <1>4. TypeOK /\ OfferIsLive /\ StateInv
    BY DEF IInv, ProtocolInv
  <1>5. ModeInv /\ ScopesAgree
    BY DEF IInv, ScopesInv
  <1>6. ASSUME NEW t \in Thread, Interpreter(t)
        PROVE  UNCHANGED scopes /\ ModeInv' /\ ScopesAgree'
    BY <1>3, <1>4, <1>5, <1>6 DEF TypeOK, PC, ModeInv, ScopesAgree, Goto,
       Interpreter, InterpreterSwitchIn, InterpreterSwitchOut
  <1>7. ASSUME NEW t \in Thread, ThreadState(t)
        PROVE  UNCHANGED scopes /\ ModeInv' /\ ScopesAgree'
    <2> USE <1>3, <1>4, <1>5
        DEF TypeOK, PC, ModeInv, ScopesAgree, StateInv, Goto, SetState
    <2>1. CASE LockInConstructor(t) \/ LockInAcquire(t)
      BY <2>1 DEF LockInConstructor, LockInAcquire, LockMutex
    <2>2. CASE ConstructReleased(t) \/ ConstructKept(t)
      BY <2>2 DEF ConstructReleased, ConstructKept, KeepAndPublish
    <2>3. CASE AcquireReleased(t)
      BY <2>3 DEF AcquireReleased, AcquireWhenReleased
    <2>4. CASE AcquireKept(t)
      BY <2>4 DEF AcquireKept, AcquireWhenKept
    <2>5. CASE Restore(t)
      BY <2>5 DEF Restore
    <2> QED
      BY <1>7, <2>1, <2>2, <2>3, <2>4, <2>5 DEF ThreadState
  <1>8. ASSUME WatcherStep
        PROVE  UNCHANGED scopes /\ ModeInv' /\ ScopesAgree'
    BY <1>3, <1>4, <1>5, <1>8 DEF TypeOK, OfferIsLive, ModeInv, ScopesAgree,
       SetState, WatcherStep, WatcherActivate, WatcherLock, WatcherIdle,
       WatcherRelease, ReleaseFor
  <1>9. ASSUME UNCHANGED vars
        PROVE  UNCHANGED scopes /\ ModeInv' /\ ScopesAgree'
    BY <1>3, <1>5, <1>9 DEF vars, ModeInv, ScopesAgree
  <1> QED
    BY <1>1, <1>2, <1>6, <1>7, <1>8, <1>9 DEF Next

-----------------------------------------------------------------------------

\* IInv is an inductive invariant of the protocol.
LEMMA Invariance == Spec => []IInv
  <1>1. Init => IInv
    BY ProtocolInit, ScopesInit DEF IInv
  <1>2. IInv /\ [Next]_vars => IInv'
    BY ProtocolNext, ScopesNext DEF IInv
  <1>3. QED
    BY <1>1, <1>2, PTL DEF Spec

\* Every variable keeps its type, for any set of threads and any nesting.
THEOREM Typing == Spec => []TypeOK
  BY Invariance, PTL DEF IInv, ProtocolInv

\* A thread without a state object (assertHoldingTheGil()) holds the GIL, for
\* any number of threads and any nesting of scopes.
THEOREM HoldsGil == Spec => []PythonHoldsGil
  BY Invariance, PTL DEF IInv, ProtocolInv

\* waitingPyThreadState never dangles.
THEOREM NoDanglingOffer == Spec => []OfferIsLive
  BY Invariance, PTL DEF IInv, ProtocolInv

\* No int3 and no fatal error of the interpreter is reachable.
THEOREM TrapFree == Spec => []NoTrap
  BY Invariance, PTL DEF IInv, ProtocolInv

\* Nested scopes leave their thread in the mode of the innermost one.
THEOREM ScopesNest == Spec => []ScopesAgree
  BY Invariance, PTL DEF IInv, ScopesInv

-----------------------------------------------------------------------------
(* The protocol implements PyGil.                                          *)

Inside == {t \in Thread : InPython(t)}

LEMMA RefineInit == Init => Abstract!Init
  <1> SUFFICES ASSUME Init PROVE Abstract!Init
    OBVIOUS
  <1>1. PICK main \in Thread :
            /\ gil = main
            /\ pc = [t \in Thread |-> IF t = main THEN "run" ELSE "parked"]
    BY DEF Init
  <1>2. Inside = {main}
    BY <1>1 DEF Init, Inside, InPython
  <1>3. QED
    BY <1>1, <1>2 DEF Abstract!Init, Inside

\* Where the abstract lock changes hands: one abstract action for each way to
\* leave or enter Python, and a stutter for everything else.
LEMMA RefineNext == IInv /\ [Next]_vars => [Abstract!Next]_(Abstract!gilVars)
  <1> SUFFICES ASSUME IInv, [Next]_vars
               PROVE  Abstract!Next \/ (gil' = gil /\ Inside' = Inside)
    BY DEF Abstract!gilVars, Inside
  <1> USE ThreadAssumption DEF Goto, SetState
  <1>0. TypeOK /\ StateInv /\ PythonHoldsGil /\ OfferIsLive
    BY DEF IInv, ProtocolInv
  <1>1. ASSUME NEW t \in Thread,
               \/ /\ gil = Nobody /\ gil' = t
                  /\ Inside' = Inside \cup {t}
               \/ /\ gil = t /\ gil' \in {t, Nobody} /\ t \in Inside
                  /\ Inside' = Inside \ {t}
               \/ /\ gil = t /\ gil' = t /\ t \notin Inside
                  /\ Inside' = Inside \cup {t}
               \/ /\ gil = t /\ gil' = Nobody /\ t \notin Inside
                  /\ Inside' = Inside
        PROVE  Abstract!Next
    BY <1>1 DEF Abstract!Next, Abstract!Take, Abstract!LeaveAndRelease,
       Abstract!LeaveAndKeep, Abstract!Reenter, Abstract!Revoke, Inside
  <1>2. ASSUME NEW t \in Thread, Interpreter(t) PROVE Abstract!Next
    <2>1. CASE InterpreterSwitchOut(t)
      <3>1. t \in Inside /\ Inside' = Inside \ {t}
        BY <1>0, <2>1 DEF InterpreterSwitchOut, TypeOK, Inside, InPython
      <3>2. QED
        BY <1>1, <2>1, <3>1 DEF InterpreterSwitchOut
    <2>2. CASE InterpreterSwitchIn(t)
      <3>1. Inside' = Inside \cup {t}
        BY <1>0, <2>2 DEF InterpreterSwitchIn, TypeOK, StateInv, Inside, InPython
      <3>2. QED
        BY <1>1, <2>2, <3>1 DEF InterpreterSwitchIn
    <2> QED
      BY <1>2, <2>1, <2>2 DEF Interpreter
  <1>3. ASSUME NEW t \in Thread, ScopedObject(t)
        PROVE  gil' = gil /\ Inside' = Inside
    <2>1. pc[t] # "parked" /\ pc'[t] # "parked"
          /\ \A u \in Thread \ {t} : pc'[u] = pc[u]
      BY <1>0, <1>3 DEF TypeOK, ScopedObject, EnterGilReleased,
         ExitGilReleased, EnterGilAcquired, ExitGilAcquired, Enter, Exit
    <2>2. UNCHANGED <<gil, curPyThreadState>>
      BY <1>3 DEF ScopedObject, EnterGilReleased, ExitGilReleased,
         EnterGilAcquired, ExitGilAcquired, Enter, Exit
    <2>3. QED
      BY <2>1, <2>2 DEF Inside, InPython
  <1>4. ASSUME NEW t \in Thread, ThreadState(t)
        PROVE  Abstract!Next \/ (gil' = gil /\ Inside' = Inside)
    <2> USE <1>0 DEF TypeOK, StateInv, PythonHoldsGil, OfferIsLive,
                     Inside, InPython
    <2>1. CASE LockInConstructor(t) \/ LockInAcquire(t)
      BY <2>1 DEF LockInConstructor, LockInAcquire, LockMutex
    <2>2. CASE ConstructReleased(t)
      <3>1. gil = t /\ gil' = Nobody /\ t \in Inside /\ Inside' = Inside \ {t}
        BY <2>2 DEF ConstructReleased
      <3>2. QED
        BY <1>1, <3>1
    <2>3. CASE ConstructKept(t)
      <3>1. gil = t /\ gil' = t /\ t \in Inside /\ Inside' = Inside \ {t}
        BY <2>3 DEF ConstructKept, KeepAndPublish
      <3>2. QED
        BY <1>1, <3>1
    <2>4. CASE AcquireReleased(t)
      BY <2>4 DEF AcquireReleased, AcquireWhenReleased
    <2>5. CASE AcquireKept(t)
      <3>1. /\ gil = t /\ gil' = t /\ t \notin Inside
            /\ Inside' = Inside \cup {t}
        BY <2>5 DEF AcquireKept, AcquireWhenKept
      <3>2. QED
        BY <1>1, <3>1
    <2>6. CASE Restore(t)
      <3>1. gil = Nobody /\ gil' = t /\ Inside' = Inside \cup {t}
        BY <2>6 DEF Restore
      <3>2. QED
        BY <1>1, <3>1
    <2> QED
      BY <1>4, <2>1, <2>2, <2>3, <2>4, <2>5, <2>6 DEF ThreadState
  <1>5. ASSUME WatcherStep
        PROVE  Abstract!Next \/ (gil' = gil /\ Inside' = Inside)
    <2>1. CASE WatcherRelease
      <3> DEFINE t == waitingPyThreadState
      <3>1. /\ t \in Thread /\ gil = t /\ gil' = Nobody
            /\ curPyThreadState[t] = "kept"
        BY <1>0, <2>1 DEF WatcherRelease, ReleaseFor, TypeOK, OfferIsLive
      <3>2. t \notin Inside /\ Inside' = Inside
        BY <1>0, <2>1, <3>1 DEF WatcherRelease, ReleaseFor, TypeOK, Inside,
           InPython
      <3>3. QED
        BY <1>1, <3>1, <3>2
    <2>2. CASE WatcherActivate \/ WatcherLock \/ WatcherIdle
      BY <2>2 DEF WatcherActivate, WatcherLock, WatcherIdle, Inside, InPython
    <2> QED
      BY <1>5, <2>1, <2>2 DEF WatcherStep
  <1>6. ASSUME UNCHANGED vars PROVE gil' = gil /\ Inside' = Inside
    BY <1>6 DEF vars, Inside, InPython
  <1> QED
    BY <1>2, <1>3, <1>4, <1>5, <1>6 DEF Next

\* The protocol implements the biased lock for any number of threads: only the
\* watcher takes the GIL away, and only from a thread outside Python.
THEOREM Refinement == Spec => ImplementsPyGil
  <1>1. Init => Abstract!Init
    BY RefineInit
  <1>2. IInv /\ [Next]_vars => [Abstract!Next]_(Abstract!gilVars)
    BY RefineNext
  <1>3. QED
    BY <1>1, <1>2, Invariance, PTL DEF Spec, ImplementsPyGil, Abstract!Spec
=============================================================================
