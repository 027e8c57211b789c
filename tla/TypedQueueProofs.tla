-------------------------- MODULE TypedQueueProofs --------------------------
(***************************************************************************)
(* Proofs about TypedQueue, for any number of writers, readers and values  *)
(* and any bounds.                                                         *)
(***************************************************************************)
EXTENDS TypedQueue, SequenceTheorems, TLAPS

\* _lock is held exactly inside the critical sections; writers never sleep.
LockInv ==
    /\ \A t \in Thread : lock = t <=> pc[t] \in {"locked", "closing"}
    /\ \A w \in Writer : pc[w] \notin {"waiting", "awake", "closing"}

\* Who holds _isEmptyLock: an awake reader, or the queue if it is empty and
\* nobody is just about to take the lock on its behalf.
EmptyInv ==
    /\ \A r \in Reader : isEmptyLock = r <=> pc[r] = "awake"
    /\ isEmptyLock = Queue
          <=> (Length = 0 /\ \A r \in Reader : pc[r] # "closing")
    /\ \A r \in Reader : pc[r] = "closing" => Length = 0

IInv == TypeOK /\ LockInv /\ EmptyInv /\ NoError

-----------------------------------------------------------------------------
(* Facts about sequences.                                                  *)

LEMMA ReverseProperties ==
    ASSUME NEW S, NEW s \in Seq(S)
    PROVE  /\ Reverse(s) \in Seq(S)
           /\ Len(Reverse(s)) = Len(s)
           /\ \A i \in 1..Len(s) : Reverse(s)[i] = s[Len(s) - i + 1]
  <1>1. Len(s) \in Nat
    OBVIOUS
  <1>2. \A i \in 1..Len(s) : (Len(s) - i) + 1 \in 1..Len(s)
    BY <1>1
  <1>3. \A i \in 1..Len(s) : s[(Len(s) - i) + 1] \in S
    BY <1>2, ElementOfSeq
  <1>4. Reverse(s) = [i \in 1..Len(s) |-> s[(Len(s) - i) + 1]]
    BY DEF Reverse
  <1>5. Reverse(s) \in [1..Len(s) -> S]
    BY <1>3, <1>4
  <1>6. QED
    BY <1>1, <1>4, <1>5

LEMMA FrontLast ==
    ASSUME NEW S, NEW s \in Seq(S), s # << >>
    PROVE  /\ Front(s) \in Seq(S)
           /\ Len(Front(s)) = Len(s) - 1
           /\ \A i \in 1..(Len(s) - 1) : Front(s)[i] = s[i]
           /\ Last(s) \in S
           /\ Last(s) = s[Len(s)]
  <1> DEFINE n == Len(s)
  <1>1. n \in Nat /\ n # 0
    BY EmptySeq
  <1>2. Last(s) = s[n] /\ Last(s) \in S
    BY <1>1, ElementOfSeq DEF Last
  <1>3. Front(s) = SubSeq(s, 1, n - 1)
    BY DEF Front
  <1>4. \A i \in 1..n : s[i] \in S
    BY ElementOfSeq
  <1> HIDE DEF n
  <1>5. \A i \in 1..(n - 1) : s[i] \in S
    BY <1>1, <1>4
  <1>6. /\ SubSeq(s, 1, n - 1) \in Seq(S)
        /\ Len(SubSeq(s, 1, n - 1)) = IF 1 <= n - 1 THEN n - 1 - 1 + 1 ELSE 0
        /\ \A i \in 1..(n - 1 - 1 + 1) :
               SubSeq(s, 1, n - 1)[i] = s[1 + i - 1]
    BY <1>1, <1>5, SubSeqProperties
  <1>7. /\ SubSeq(s, 1, n - 1) \in Seq(S)
        /\ Len(SubSeq(s, 1, n - 1)) = n - 1
        /\ \A i \in 1..(n - 1) : SubSeq(s, 1, n - 1)[i] = s[i]
    BY <1>1, <1>6
  <1>8. QED
    BY <1>2, <1>3, <1>7 DEF n

\* What a put does to the length ...
LEMMA AppendLength ==
    ASSUME TypeOK, NEW w \in Writer, NEW wake, AppendWhen(w, wake)
    PROVE  /\ pushable' \in Seq(Value)
           /\ Length \in Nat /\ Length' = Length + Len(element[w])
           /\ Len(element[w]) \in Nat
           /\ Len(element[w]) = 0 <=> element[w] = << >>
  <1>1. pushable' = pushable \o element[w] /\ poppable' = poppable
    BY DEF AppendWhen
  <1>2. element[w] \in Seq(Value) /\ pushable \in Seq(Value)
        /\ poppable \in Seq(Value)
    BY DEF TypeOK
  <1>3. Len(pushable') = Len(pushable) + Len(element[w])
        /\ pushable' \in Seq(Value)
    <2> DEFINE p == pushable
               e == element[w]
    <2>1. p \in Seq(Value) /\ e \in Seq(Value) /\ pushable' = p \o e
      BY <1>1, <1>2
    <2> HIDE DEF p, e
    <2>2. p \o e \in Seq(Value) /\ Len(p \o e) = Len(p) + Len(e)
      BY <2>1, ConcatProperties
    <2>3. QED
      BY <2>1, <2>2 DEF p, e
  <1>4. /\ Len(pushable) \in Nat /\ Len(poppable) \in Nat
        /\ Len(element[w]) \in Nat
        /\ Len(element[w]) = 0 <=> element[w] = << >>
    BY <1>2, EmptySeq
  <1>5. Length = Len(pushable) + Len(poppable)
        /\ Length' = Len(pushable') + Len(poppable)
    BY <1>1 DEF Length
  <1>6. Length \in Nat /\ Length' = Length + Len(element[w])
    <2> DEFINE p == Len(pushable)
               q == Len(poppable)
               e == Len(element[w])
    <2>1. p \in Nat /\ q \in Nat /\ e \in Nat
      BY <1>4
    <2>2. Length = p + q /\ Length' = (p + e) + q
      BY <1>3, <1>5
    <2> HIDE DEF p, q, e
    <2>3. (p + e) + q = (p + q) + e /\ p + q \in Nat
      BY <2>1
    <2>4. QED
      BY <2>2, <2>3 DEF e
  <1>7. QED
    BY <1>3, <1>4, <1>6

\* ... and what taking one value does.
LEMMA TakeCase ==
    ASSUME TypeOK, NEW r \in Reader, Take(r)
    PROVE  \E front, back \in Seq(Value) :
               /\ TakeFrom(r, front, back)
               /\ front # << >>
               /\ Reverse(front) \o back = Contents
               /\ Len(front) + Len(back) = Length
  <1>1. pushable \in Seq(Value) /\ poppable \in Seq(Value)
    BY DEF TypeOK
  <1>2. CASE poppable = << >>
    <2>1. /\ Reverse(pushable) \in Seq(Value)
          /\ Len(Reverse(pushable)) = Len(pushable)
      BY <1>1, ReverseProperties
    <2>2. TakeFrom(r, Reverse(pushable), << >>)
      BY <1>2 DEF Take
    <2>3. Length = Len(pushable) /\ Length > 0
      BY <1>1, <1>2, <2>2 DEF Length, TakeFrom
    <2>4. Reverse(pushable) # << >>
      BY <2>1, <2>3
    <2>5. Reverse(Reverse(pushable)) = pushable
      <3> DEFINE p == Reverse(pushable)
      <3>1. /\ Reverse(p) \in Seq(Value) /\ Len(Reverse(p)) = Len(pushable)
            /\ \A i \in 1..Len(pushable) :
                   Reverse(p)[i] = p[Len(pushable) - i + 1]
        BY <2>1, ReverseProperties
      <3>2. ASSUME NEW i \in 1..Len(pushable)
            PROVE  Reverse(p)[i] = pushable[i]
        <4> DEFINE n == Len(pushable)
                   j == (n - i) + 1
        <4>1. n \in Nat /\ j \in 1..n /\ (n - j) + 1 = i
          BY <1>1
        <4>2. p[j] = pushable[(n - j) + 1]
          BY <1>1, <4>1, ReverseProperties
        <4>3. QED
          BY <3>1, <4>1, <4>2
      <3>3. QED
        BY <1>1, <3>1, <3>2, SeqEqual
    <2>6. Reverse(Reverse(pushable)) \o << >> = Contents
      <3>1. Reverse(poppable) = << >>
        BY <1>2, <1>1, ReverseProperties, EmptySeq
      <3>2. pushable \o << >> = pushable /\ << >> \o pushable = pushable
        BY <1>1
      <3>3. QED
        BY <2>5, <3>1, <3>2 DEF Contents
    <2>7. << >> \in Seq(Value)
          /\ Len(Reverse(pushable)) + Len(<< >>) = Length
      BY <1>1, <2>1, <2>3
    <2>8. QED
      BY <2>1, <2>2, <2>4, <2>6, <2>7, Zenon
  <1>3. CASE poppable # << >>
    BY <1>1, <1>3 DEF Take, Contents, Length
  <1>4. QED
    BY <1>2, <1>3

LEMMA TakeLength ==
    ASSUME TypeOK, NEW r \in Reader, Take(r)
    PROVE  /\ pushable' \in Seq(Value) /\ poppable' \in Seq(Value)
           /\ res' \in [Reader -> Seq(Value)]
           /\ Length \in Nat /\ Length > 0 /\ Length' = Length - 1
  <1>1. PICK front \in Seq(Value), back \in Seq(Value) :
            /\ TakeFrom(r, front, back)
            /\ front # << >>
            /\ Len(front) + Len(back) = Length
    BY TakeCase
  <1>2. /\ Front(front) \in Seq(Value) /\ Last(front) \in Value
        /\ Len(Front(front)) = Len(front) - 1
    BY <1>1, FrontLast
  <1>3. poppable' = Front(front) /\ pushable' = back
    BY <1>1 DEF TakeFrom
  <1>4. res' \in [Reader -> Seq(Value)]
    <2>1. Append(res[r], Last(front)) \in Seq(Value)
      BY <1>2 DEF TypeOK
    <2>2. QED
      BY <1>1, <2>1 DEF TypeOK, TakeFrom
  <1>5. Len(front) \in Nat /\ Len(back) \in Nat
    OBVIOUS
  <1>6. QED
    BY <1>1, <1>2, <1>3, <1>4, <1>5 DEF Length, TakeFrom

-----------------------------------------------------------------------------
(* The invariant.                                                          *)

LEMMA Initially == Init => IInv
  <1> SUFFICES ASSUME Init PROVE IInv
    OBVIOUS
  <1>1. << >> \in Seq(Value) /\ Len(<< >>) = 0
    OBVIOUS
  <1>2. Length = 0
    BY <1>1 DEF Init, Length
  <1>3. QED
    BY <1>1, <1>2, QueueAssumption DEF Init, IInv, TypeOK, LockInv, EmptyInv,
       NoError, Thread, PC

LEMMA LengthNat == TypeOK => Length \in Nat
  BY DEF TypeOK, Length

\* Steps that leave the lists alone only have to respect the locks.
LEMMA QuietSteps ==
    ASSUME IInv, UNCHANGED <<pushable, poppable>>, TypeOK', LockInv', NoError',
           \A r \in Reader : isEmptyLock' = r <=> pc'[r] = "awake",
           isEmptyLock' = Queue <=> isEmptyLock = Queue,
           \A r \in Reader : pc'[r] = "closing" <=> pc[r] = "closing"
    PROVE  IInv'
  <1>1. Length' = Length
    BY DEF Length
  <1>2. QED
    BY <1>1 DEF IInv, EmptyInv

LEMMA Inductive == IInv /\ [Next]_vars => IInv'
  <1> SUFFICES ASSUME IInv, [Next]_vars PROVE IInv'
    OBVIOUS
  <1> USE QueueAssumption DEF Thread
  <1>0. TypeOK /\ LockInv /\ EmptyInv /\ NoError
    BY DEF IInv
  <1>1. ASSUME NEW t \in Thread, Lock(t) PROVE IInv'
    BY <1>0, <1>1, QuietSteps DEF TypeOK, LockInv, EmptyInv, NoError, PC,
       Lock, Goto, readerVars
  <1>2. ASSUME NEW w \in Writer, Write(w) PROVE IInv'
    <2>1. ASSUME NEW items \in Seq(Value), CallPut(w, items) PROVE IInv'
      BY <1>0, <2>1, QuietSteps DEF TypeOK, LockInv, EmptyInv, NoError, PC,
         CallPut, Goto, readerVars
    <2>2. \A v \in Value : <<v>> \in Seq(Value)
      OBVIOUS
    <2>3. \A items \in Batch : items \in Seq(Value)
      BY DEF Batch
    <2>4. CASE AppendAndWake(w)
      <3> DEFINE wake == Length = 0 /\ element[w] # << >>
      <3>1. AppendWhen(w, wake)
        BY <2>4 DEF AppendAndWake
      <3>2. /\ pushable' \in Seq(Value)
            /\ Length \in Nat /\ Length' = Length + Len(element[w])
            /\ Len(element[w]) \in Nat
            /\ Len(element[w]) = 0 <=> element[w] = << >>
        BY <1>0, <3>1, AppendLength
      <3>3. Length' = 0 <=> Length = 0 /\ ~wake
        BY <3>2
      <3>4. lock = w /\ \A r \in Reader : pc[r] # "closing"
        BY <1>0, <3>1 DEF AppendWhen, LockInv
      <3>5. wake => isEmptyLock = Queue
        BY <1>0, <3>4 DEF EmptyInv
      <3>6. TypeOK'
        BY <1>0, <3>1, <3>2, EmptySeq DEF TypeOK, PC, AppendWhen, Goto,
           readerVars
      <3>7. LockInv' /\ NoError'
        BY <1>0, <3>1, <3>4, <3>5 DEF LockInv, NoError, TypeOK, AppendWhen,
           Goto
      <3>8. EmptyInv'
        BY <1>0, <3>1, <3>3, <3>4, <3>5 DEF EmptyInv, TypeOK, AppendWhen, Goto
      <3>9. QED
        BY <3>6, <3>7, <3>8 DEF IInv
    <2> QED
      BY <1>2, <2>1, <2>2, <2>3, <2>4 DEF Write, Put, PutMany
  <1>3. ASSUME NEW r \in Reader, Read(r) PROVE IInv'
    <2> USE <1>0
    <2>1. ASSUME NEW lo \in Nat, NEW hi \in Nat, Request(r, lo, hi) PROVE IInv'
      BY <2>1, QuietSteps DEF TypeOK, LockInv, EmptyInv, NoError, PC,
         Request, Goto
    <2>2. CASE Return(r)
      <3>1. << >> \in Seq(Value)
        OBVIOUS
      <3>2. QED
        BY <2>2, <3>1, QuietSteps DEF TypeOK, LockInv, EmptyInv, NoError, PC,
           Return, Goto
    <2>3. CASE Take(r)
      <3>1. /\ pushable' \in Seq(Value) /\ poppable' \in Seq(Value)
            /\ res' \in [Reader -> Seq(Value)]
            /\ Length \in Nat /\ Length > 0 /\ Length' = Length - 1
        BY <2>3, TakeLength
      <3>2. PICK front \in Seq(Value), back \in Seq(Value) :
                TakeFrom(r, front, back)
        BY <2>3, TakeCase
      <3>3. /\ lock = r /\ isEmptyLock # Queue
            /\ \A u \in Reader : pc[u] # "closing"
        BY <3>1, <3>2 DEF TakeFrom, LockInv, EmptyInv
      <3>4. TypeOK'
        BY <3>1, <3>2 DEF TakeFrom, TypeOK, PC, Goto
      <3>5. LockInv' /\ NoError'
        BY <3>2, <3>3 DEF TakeFrom, TypeOK, LockInv, NoError, Goto
      <3>6. EmptyInv'
        <4>1. /\ pc' = [pc EXCEPT ![r] = IF Length = 1 THEN "closing"
                                                       ELSE "locked"]
              /\ isEmptyLock' = isEmptyLock /\ pc[r] = "locked"
          BY <3>2 DEF TakeFrom, Goto
        <4>2. Length' = 0 <=> Length = 1
          BY <3>1
        <4>3. QED
          BY <3>3, <4>1, <4>2 DEF TypeOK, EmptyInv
      <3>7. QED
        BY <3>4, <3>5, <3>6 DEF IInv
    <2>4. CASE Close(r)
      <3>1. Length' = Length
        BY <2>4 DEF Close, Length
      <3>2. \A u \in Reader : pc[u] = "closing" <=> u = r
        BY <2>4 DEF Close, LockInv
      <3>3. TypeOK' /\ LockInv' /\ NoError'
        BY <2>4 DEF Close, TypeOK, LockInv, NoError, PC, Goto, readerVars
      <3>4. EmptyInv'
        BY <2>4, <3>1, <3>2 DEF Close, TypeOK, EmptyInv, Goto
      <3>5. QED
        BY <3>3, <3>4 DEF IInv
    <2>5. CASE Wait(r)
      BY <2>5, QuietSteps DEF TypeOK, LockInv, EmptyInv, NoError, PC, Wait,
         Goto, readerVars
    <2>6. CASE WakeUp(r)
      BY <2>6, QuietSteps DEF TypeOK, LockInv, EmptyInv, NoError, PC, WakeUp,
         Goto, readerVars
    <2>7. CASE PassOn(r)
      BY <2>7, QuietSteps DEF TypeOK, LockInv, EmptyInv, NoError, PC, PassOn,
         Goto, readerVars
    <2>8. 0 \in Nat /\ 1 \in Nat /\ Count \subseteq Nat
      BY DEF Count
    <2> QED
      BY <1>3, <2>1, <2>2, <2>3, <2>4, <2>5, <2>6, <2>7, <2>8
         DEF Read, GetNonblocking, Get, GetMany
  <1>4. CASE UNCHANGED vars
    BY <1>0, <1>4, QuietSteps DEF TypeOK, LockInv, EmptyInv, NoError, vars,
       readerVars
  <1> QED
    BY <1>1, <1>2, <1>3, <1>4 DEF Next

LEMMA Invariance == Spec => []IInv
  BY Initially, Inductive, PTL DEF Spec

\* Every variable keeps its type.
THEOREM Typing == Spec => []TypeOK
  BY Invariance, PTL DEF IInv

\* The queue holds _isEmptyLock exactly while it is empty.
THEOREM EmptyLock == Spec => []EmptyLockAgrees
  <1>1. IInv => EmptyLockAgrees
    BY DEF IInv, EmptyInv, EmptyLockAgrees
  <1>2. QED
    BY <1>1, Invariance, PTL

\* A thread that waits for _isEmptyLock with _lock held waits for a reader that
\* is awake, and such a reader needs no lock to go on: the order of the two
\* locks never deadlocks.
THEOREM NoLockCycle == Spec => []CloserNotStuck
  <1>1. IInv => CloserNotStuck
    <2> SUFFICES ASSUME IInv, NEW r \in Reader, pc[r] = "closing"
                 PROVE  /\ lock = r
                        /\ isEmptyLock = Nobody \/ \E u \in Reader :
                              isEmptyLock = u /\ pc[u] = "awake"
      BY DEF CloserNotStuck
    <2>1. lock = r
      BY DEF IInv, LockInv, Thread
    <2>2. isEmptyLock \in Reader \cup {Nobody}
      BY DEF IInv, TypeOK, EmptyInv
    <2>3. QED
      BY <2>1, <2>2 DEF IInv, EmptyInv
  <1>2. QED
    BY <1>1, Invariance, PTL

\* No lock is released that is not held.
THEOREM LocksAreHeld == Spec => []NoError
  BY Invariance, PTL DEF IInv

-----------------------------------------------------------------------------
(* The two lists and two locks implement a first-in first-out queue.       *)

LEMMA ContentsSeq == TypeOK => Contents \in Seq(Value)
  <1> SUFFICES ASSUME TypeOK PROVE Contents \in Seq(Value)
    OBVIOUS
  <1>1. Reverse(poppable) \in Seq(Value) /\ pushable \in Seq(Value)
    BY ReverseProperties DEF TypeOK
  <1>2. QED
    BY <1>1, ConcatProperties DEF Contents

LEMMA ContentsEmpty == TypeOK => (Contents = << >> <=> Length = 0)
  <1> SUFFICES ASSUME TypeOK PROVE Contents = << >> <=> Length = 0
    OBVIOUS
  <1>1. /\ Reverse(poppable) \in Seq(Value) /\ pushable \in Seq(Value)
        /\ Len(Reverse(poppable)) = Len(poppable)
    BY ReverseProperties DEF TypeOK
  <1>2. Contents \in Seq(Value) /\ Len(Contents) = Length
    <2>1. Len(poppable) \in Nat /\ Len(pushable) \in Nat
      BY DEF TypeOK
    <2>2. QED
      BY <1>1, <2>1, ConcatProperties DEF Contents, Length
  <1>3. QED
    BY <1>2, EmptySeq

\* A put extends the contents at the end.
LEMMA AppendContents ==
    ASSUME TypeOK, NEW w \in Writer, NEW wake, AppendWhen(w, wake)
    PROVE  /\ Contents' \in Seq(Value)
           /\ Len(Contents') >= Len(Contents)
           /\ SubSeq(Contents', 1, Len(Contents)) = Contents
  <1> DEFINE c == Contents
             e == element[w]
  <1>1. /\ c \in Seq(Value) /\ e \in Seq(Value)
        /\ Reverse(poppable) \in Seq(Value) /\ pushable \in Seq(Value)
    BY ContentsSeq, ReverseProperties DEF TypeOK
  <1>2. Contents' = c \o e
    <2> DEFINE rp == Reverse(poppable)
               p == pushable
    <2>1. rp \in Seq(Value) /\ p \in Seq(Value) /\ e \in Seq(Value)
      BY <1>1
    <2>2. Contents' = rp \o (p \o e) /\ c = rp \o p
      BY DEF AppendWhen, Contents
    <2> HIDE DEF rp, p, e, c
    <2>3. (rp \o p) \o e = rp \o (p \o e)
      BY <2>1, ConcatAssociative
    <2>4. QED
      BY <2>2, <2>3
  <1> HIDE DEF c, e
  <1>3. /\ c \o e \in Seq(Value)
        /\ Len(c \o e) = Len(c) + Len(e)
        /\ \A i \in 1..Len(c) + Len(e) :
              (c \o e)[i] = IF i <= Len(c) THEN c[i] ELSE e[i - Len(c)]
    BY <1>1, ConcatProperties
  <1>4. Len(c) \in Nat /\ Len(e) \in Nat
    BY <1>1
  <1>5. SubSeq(c \o e, 1, Len(c)) = c
    BY <1>1, <1>3, <1>4
  <1>6. QED
    BY <1>2, <1>3, <1>4, <1>5 DEF c

\* Taking a value removes the oldest one.
LEMMA TakeContents ==
    ASSUME TypeOK, NEW r \in Reader, Take(r)
    PROVE  /\ Contents # << >>
           /\ Contents' = Tail(Contents)
           /\ res' = [res EXCEPT ![r] = Append(@, Head(Contents))]
  <1>1. PICK f \in Seq(Value), b \in Seq(Value) :
            /\ TakeFrom(r, f, b)
            /\ f # << >>
            /\ Reverse(f) \o b = Contents
    BY TakeCase
  <1> DEFINE n == Len(f)
             rf == Reverse(f)
             rff == Reverse(Front(f))
  <1>2. n \in Nat /\ n # 0 /\ Len(b) \in Nat
    BY <1>1, EmptySeq
  <1>3. /\ Front(f) \in Seq(Value) /\ Len(Front(f)) = n - 1
        /\ \A i \in 1..(n - 1) : Front(f)[i] = f[i]
        /\ Last(f) = f[n]
    BY <1>1, FrontLast
  <1>4. /\ rf \in Seq(Value) /\ Len(rf) = n
        /\ \A i \in 1..n : rf[i] = f[n - i + 1]
    BY ReverseProperties
  <1>5. /\ rff \in Seq(Value) /\ Len(rff) = n - 1
        /\ \A i \in 1..(n - 1) : rff[i] = Front(f)[(n - 1) - i + 1]
    BY <1>3, ReverseProperties
  <1>6. Contents' = rff \o b
    BY <1>1 DEF TakeFrom, Contents
  <1> HIDE DEF n, rf, rff
  <1>7. /\ rf \o b \in Seq(Value) /\ Len(rf \o b) = n + Len(b)
        /\ \A i \in 1..n + Len(b) :
               (rf \o b)[i] = IF i <= n THEN rf[i] ELSE b[i - n]
    BY <1>4, ConcatProperties
  <1>8. /\ rff \o b \in Seq(Value) /\ Len(rff \o b) = (n - 1) + Len(b)
        /\ \A i \in 1..(n - 1) + Len(b) :
               (rff \o b)[i] = IF i <= n - 1 THEN rff[i] ELSE b[i - (n - 1)]
    <2>1. /\ rff \o b \in Seq(Value) /\ Len(rff \o b) = Len(rff) + Len(b)
          /\ \A i \in 1..Len(rff) + Len(b) :
                 (rff \o b)[i] = IF i <= Len(rff) THEN rff[i]
                                                  ELSE b[i - Len(rff)]
      BY <1>5, ConcatProperties
    <2>2. Len(rff) = n - 1
      BY <1>5
    <2>3. QED
      BY <2>1, <2>2
  <1>9. rf \o b # << >>
    BY <1>2, <1>7, EmptySeq
  <1>10. Head(rf \o b) = Last(f)
    <2>1. Head(rf \o b) = (rf \o b)[1]
      BY <1>7, <1>9
    <2>2. 1 \in 1..n + Len(b) /\ 1 <= n /\ 1 \in 1..n
      BY <1>2
    <2>3. (n - 1) + 1 = n
      BY <1>2
    <2>4. QED
      BY <1>3, <1>4, <1>7, <2>1, <2>2, <2>3
  <1>11. rff \o b = Tail(rf \o b)
    <2>1. /\ Tail(rf \o b) \in Seq(Value)
          /\ Len(Tail(rf \o b)) = n + Len(b) - 1
      BY <1>2, <1>7, <1>9
    <2>2. \A i \in 1..(n - 1) + Len(b) : Tail(rf \o b)[i] = (rf \o b)[i + 1]
      BY <1>2, <1>7, <1>9
    <2>3. ASSUME NEW i \in 1..(n - 1) + Len(b)
          PROVE  (rff \o b)[i] = Tail(rf \o b)[i]
      <3>1. i + 1 \in 1..n + Len(b)
        BY <1>2
      <3>2. CASE i <= n - 1
        <4>1. /\ i \in 1..(n - 1) /\ i + 1 \in 1..n
              /\ (n - 1) - i + 1 \in 1..(n - 1)
              /\ (n - 1) - i + 1 = n - (i + 1) + 1
          BY <1>2, <3>2
        <4>2. rff[i] = f[(n - 1) - i + 1]
          BY <1>3, <1>5, <4>1
        <4>3. rf[i + 1] = f[n - (i + 1) + 1]
          BY <1>4, <4>1
        <4>4. (rff \o b)[i] = rff[i] /\ (rf \o b)[i + 1] = rf[i + 1]
          BY <1>2, <1>7, <1>8, <3>1, <3>2, <4>1
        <4>5. QED
          BY <2>2, <4>1, <4>2, <4>3, <4>4
      <3>3. CASE ~(i <= n - 1)
        <4>1. ~(i + 1 <= n) /\ i - (n - 1) = (i + 1) - n
          BY <1>2, <3>3
        <4>2. QED
          BY <1>7, <1>8, <2>2, <3>1, <3>3, <4>1
      <3>4. QED
        BY <3>2, <3>3
    <2>4. Len(rff \o b) = Len(Tail(rf \o b))
      BY <1>2, <1>8, <2>1
    <2>5. QED
      BY <1>8, <2>1, <2>3, <2>4, SeqEqual
  <1>12. rf \o b = Contents
    BY <1>1 DEF rf
  <1>13. res' = [res EXCEPT ![r] = Append(@, Last(f))]
    BY <1>1 DEF TakeFrom
  <1>14. Contents # << >> /\ Contents' = Tail(Contents)
    BY <1>6, <1>9, <1>11, <1>12
  <1>15. Last(f) = Head(Contents)
    BY <1>10, <1>12
  <1>16. QED
    BY <1>13, <1>14, <1>15, Zenon

Busy == {r \in Reader : pc[r] # "idle"}

LEMMA RefineInit == Init => Fifo!Init
  <1> SUFFICES ASSUME Init PROVE Fifo!Init
    OBVIOUS
  <1>1. TypeOK /\ Length = 0
    BY Initially DEF IInv, Init, Length
  <1>2. Contents = << >>
    BY <1>1, ContentsEmpty
  <1>3. Busy = {}
    BY DEF Init, Busy, Thread
  <1>4. QED
    BY <1>2, <1>3 DEF Init, Fifo!Init, Busy

\* Every step is a put, a request, the taking of the oldest value or a return;
\* what concerns the locks, and the move between the two lists, is a stutter.
LEMMA RefineNext == IInv /\ [Next]_vars => [Fifo!Next]_(Fifo!fifoVars)
  <1> DEFINE rest == <<minCount, maxCount, res>>
             Stutter == UNCHANGED <<Contents, rest, Busy>>
  <1> SUFFICES ASSUME IInv, [Next]_vars PROVE Fifo!Next \/ Stutter
    BY DEF Fifo!fifoVars, Busy
  <1>0. TypeOK /\ LockInv
    BY DEF IInv
  <1> USE <1>0 DEF Goto, readerVars, Thread
  <1>1. UNCHANGED <<pushable, poppable>> => UNCHANGED Contents
    BY DEF Contents
  <1>2. ASSUME NEW t \in Thread, Lock(t) PROVE Stutter
    <2>1. UNCHANGED Busy
      BY <1>2 DEF Lock, TypeOK, Busy
    <2>2. QED
      BY <1>1, <1>2, <2>1 DEF Lock
  <1>3. ASSUME NEW w \in Writer, Write(w) PROVE Fifo!Next \/ Stutter
    <2>1. UNCHANGED Busy /\ UNCHANGED rest
      <3>1. w \notin Reader
        BY QueueAssumption
      <3>2. QED
        BY <1>3, <3>1 DEF TypeOK, Busy, Write, Put, PutMany, CallPut,
           AppendAndWake, AppendWhen
    <2>2. CASE \E items : CallPut(w, items)
      BY <1>1, <2>1, <2>2 DEF CallPut
    <2>3. CASE AppendAndWake(w)
      <3>1. /\ Contents' \in Seq(Value)
            /\ Len(Contents') >= Len(Contents)
            /\ SubSeq(Contents', 1, Len(Contents)) = Contents
        BY <2>3, AppendContents DEF AppendAndWake
      <3>2. Fifo!Put
        BY <2>1, <3>1 DEF Fifo!Put, Busy
      <3>3. QED
        BY <3>2 DEF Fifo!Next
    <2>4. QED
      BY <1>3, <2>2, <2>3 DEF Write, Put, PutMany
  <1>4. ASSUME NEW r \in Reader, Read(r) PROVE Fifo!Next \/ Stutter
    <2>1. ASSUME NEW lo \in Nat, NEW hi \in Nat, Request(r, lo, hi)
          PROVE  Fifo!Next
      <3>1. r \notin Busy /\ Busy' = Busy \cup {r}
        BY <2>1 DEF Request, TypeOK, Busy
      <3>2. /\ minCount' = [minCount EXCEPT ![r] = lo] /\ minCount'[r] = lo
            /\ maxCount' = [maxCount EXCEPT ![r] = hi] /\ maxCount'[r] = hi
            /\ UNCHANGED <<Contents, res>>
        BY <1>1, <2>1 DEF Request, TypeOK
      <3>3. Fifo!Ask(r)
        BY <3>1, <3>2 DEF Fifo!Ask, Busy
      <3>4. QED
        BY <3>3 DEF Fifo!Next
    <2>2. CASE Return(r)
      <3>1. r \in Busy /\ Busy' = Busy \ {r}
        BY <2>2 DEF Return, TypeOK, Busy
      <3>2. UNCHANGED Contents
        BY <1>1, <2>2 DEF Return
      <3>3. Length = 0 => Contents = << >>
        BY ContentsEmpty
      <3>4. Fifo!Done(r)
        BY <2>2, <3>1, <3>2, <3>3 DEF Return, Full, Enough, Fifo!Done, Busy
      <3>5. QED
        BY <3>4 DEF Fifo!Next
    <2>3. CASE Take(r)
      <3>1. /\ Contents # << >>
            /\ Contents' = Tail(Contents)
            /\ res' = [res EXCEPT ![r] = Append(@, Head(Contents))]
        BY <2>3, TakeContents
      <3>2. PICK front \in Seq(Value), back \in Seq(Value) :
                TakeFrom(r, front, back)
        BY <2>3, TakeCase
      <3>3. /\ r \in Busy /\ UNCHANGED <<Busy, minCount, maxCount>>
            /\ ~(Len(res[r]) >= maxCount[r])
        BY <3>2 DEF TakeFrom, TypeOK, Busy, Full
      <3>4. Len(res[r]) < maxCount[r]
        <4>1. Len(res[r]) \in Nat /\ maxCount[r] \in Nat
          BY DEF TypeOK
        <4>2. QED
          BY <3>3, <4>1
      <3>5. Fifo!Take(r)
        BY <3>1, <3>3, <3>4 DEF Fifo!Take, Busy
      <3>6. QED
        BY <3>5 DEF Fifo!Next
    <2>4. CASE Close(r) \/ Wait(r) \/ WakeUp(r) \/ PassOn(r)
      <3>1. UNCHANGED <<Busy, rest>>
        BY <2>4 DEF TypeOK, Busy, Close, Wait, WakeUp, PassOn
      <3>2. UNCHANGED Contents
        BY <1>1, <2>4 DEF Close, Wait, WakeUp, PassOn
      <3>3. QED
        BY <3>1, <3>2
    <2>5. 0 \in Nat /\ 1 \in Nat /\ Count \subseteq Nat
      BY QueueAssumption DEF Count
    <2>6. QED
      BY <1>4, <2>1, <2>2, <2>3, <2>4, <2>5
         DEF Read, GetNonblocking, Get, GetMany
  <1>5. CASE UNCHANGED vars
    BY <1>1, <1>5 DEF vars, Busy
  <1> QED
    BY <1>2, <1>3, <1>4, <1>5 DEF Next

\* TypedQueue implements a first-in first-out queue for any number of writers
\* and readers: nothing is lost, duplicated or reordered.
THEOREM Refinement == Spec => ImplementsFifo
  <1>1. Init => Fifo!Init
    BY RefineInit
  <1>2. IInv /\ [Next]_vars => [Fifo!Next]_(Fifo!fifoVars)
    BY RefineNext
  <1>3. QED
    BY <1>1, <1>2, Invariance, PTL DEF Spec, ImplementsFifo, Fifo!Spec
=============================================================================
