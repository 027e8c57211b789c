----------------------------- MODULE PmapProofs -----------------------------
(***************************************************************************)
(* No executor blocks on a job that nobody has begun; when a call of pmap  *)
(* has ended nobody works for it any more; and it has ended as a loop over *)
(* its list would: for any number of threads, any lists and granularities, *)
(* and any nesting of calls.                                               *)
(***************************************************************************)
EXTENDS Pmap, SequenceTheorems, FiniteSetTheorems, WellFoundedInduction, TLAPS

Typed ==
  /\ TypeOK
  /\ outputs \in [Pmap -> SUBSET Int] /\ exceptions \in [Pmap -> SUBSET Int] /\ initialized \in [Pmap -> SUBSET Int]
  /\ \A k \in DOMAIN work_queue : work_queue[k][2] \in Jobs(work_queue[k][1])

\* Who is on the queue or on a stack runs; a stack has pmap and execute in
\* turn, and an execute under a pmap is at an item; a caller has its own call
\* and nothing else.
Shaped(t, n) ==
  /\ result[stack[t][n].call] = Running
  /\ IF stack[t][n].phase = "execute"
       THEN stack[t][n].job \in Jobs(stack[t][n].call) /\ stack[t][n].job * Grain(stack[t][n].call) <= stack[t][n].at
       ELSE stack[t][n].job = -1
  /\ n > 1 => (stack[t][n].phase = "execute" <=> stack[t][n - 1].phase # "execute")
  /\ n < Len(stack[t]) /\ stack[t][n].phase = "execute" => stack[t][n].at < End(stack[t][n].call, stack[t][n].job)
  /\ t \in Caller => n = 1 /\ stack[t][n].call = program.start[t] /\ stack[t][n].phase \in {"put", "wait"}
Shapes ==
  /\ \A t \in Thread : \A n \in DOMAIN stack[t] : Shaped(t, n)
  /\ \A k \in DOMAIN work_queue : result[work_queue[k][1]] = Running

\* A job is on the queue once, or on one stack, or done; a call is on one stack.
Holds(t, n, p, i) == stack[t][n].call = p /\ stack[t][n].job = i
OnePlace ==
  /\ \A k, l \in DOMAIN work_queue : work_queue[k] = work_queue[l] => k = l
  /\ \A t, u \in Thread : \A n \in DOMAIN stack[t] : \A m \in DOMAIN stack[u] :
       Holds(t, n, stack[u][m].call, stack[u][m].job) => t = u /\ n = m
  /\ \A t \in Thread : \A n \in DOMAIN stack[t] : stack[t][n].job \notin outputs[stack[t][n].call]
  /\ \A k \in DOMAIN work_queue :
       /\ work_queue[k][2] \notin outputs[work_queue[k][1]]
       /\ \A t \in Thread : \A n \in DOMAIN stack[t] : ~Holds(t, n, work_queue[k][1], work_queue[k][2])

\* pmap puts its jobs in order, and there are none of a call that is not made.
PutInOrder ==
  /\ \A t \in Thread : \A n \in DOMAIN stack[t] : stack[t][n].phase = "put" =>
       /\ \A i \in outputs[stack[t][n].call] : i < stack[t][n].at
       /\ \A k \in DOMAIN work_queue : work_queue[k][1] = stack[t][n].call => work_queue[k][2] < stack[t][n].at
       /\ \A u \in Thread : \A m \in DOMAIN stack[u] :
            stack[u][m].call = stack[t][n].call => stack[u][m].job < stack[t][n].at
  /\ \A p \in Pmap : result[p] = Unborn => outputs[p] = {}

\* The calls that items of a list make have not been made yet: by those of a
\* call that is not made, of jobs that are not put or not taken, and of a job
\* from its item on, which itself may be waiting for its call.
Waits(p, from, to) ==
  \A k \in Items(p) : from <= k /\ k < to /\ Work(p)[k + 1] \in Pmap => result[Work(p)[k + 1]] = Unborn
JobWaits(p, i, from) == Waits(p, from, (i + 1) * Grain(p))
ItemsWait ==
  /\ \A p \in Pmap : result[p] = Unborn => Waits(p, 0, Size(p))
  /\ \A k \in DOMAIN work_queue :
       JobWaits(work_queue[k][1], work_queue[k][2], work_queue[k][2] * Grain(work_queue[k][1]))
  /\ \A t \in Thread : \A n \in DOMAIN stack[t] :
       /\ stack[t][n].phase = "put" => Waits(stack[t][n].call, stack[t][n].at * Grain(stack[t][n].call), Size(stack[t][n].call))
       /\ stack[t][n].phase = "execute" =>
            JobWaits(stack[t][n].call, stack[t][n].job, IF n = Len(stack[t]) THEN stack[t][n].at ELSE stack[t][n].at + 1)

NoneLeft ==
  \A t \in Executor : \A n \in DOMAIN stack[t] : stack[t][n].phase = "wait" =>
    \A k \in DOMAIN work_queue : work_queue[k][1] # stack[t][n].call

PmapInv == Typed /\ Shapes /\ OnePlace /\ PutInOrder /\ ItemsWait /\ NoneLeft

-----------------------------------------------------------------------------
(* Lists and jobs.                                                         *)

LEMMA Products == \A a, b \in Nat : a * b \in Nat
  OBVIOUS

\* Jobs do not share items.
LEMMA JobsApart ==
  ASSUME NEW i \in Int, NEW j \in Int, NEW g \in Nat, i < j
  PROVE  (i + 1) * g <= j * g
  <1>1. j - (i + 1) \in Nat
    OBVIOUS
  <1>2. (j - (i + 1)) * g \in Nat
    BY <1>1, Products
  <1>3. (j - (i + 1)) * g = j * g - (i + 1) * g
    OBVIOUS
  <1> QED
    BY <1>2, <1>3

LEMMA InSameJob ==
  ASSUME NEW i \in Int, NEW j \in Int, NEW g \in Nat, NEW k \in Int,
         i * g <= k, k < (i + 1) * g, j * g <= k, k < (j + 1) * g
  PROVE  i = j
  <1>1. CASE i < j
    BY <1>1, JobsApart
  <1>2. CASE j < i
    BY <1>2, JobsApart
  <1> QED
    BY <1>1, <1>2

LEMMA Lists ==
  ASSUME program \in Programs
  PROVE  /\ \A p \in Pmap : /\ Work(p) \in Seq(Item) /\ Grain(p) \in Nat \ {0} /\ Size(p) \in Nat
                            /\ JobCount(p) \in Int /\ Jobs(p) \subseteq Nat /\ Items(p) \subseteq Nat
                            /\ \A i \in Items(p) : i < Size(p) /\ Work(p)[i + 1] \in Item
         /\ program.start \in [Caller -> Pmap]
         /\ \A p, q \in Pmap : \A k \in Items(p) : \A l \in Items(q) :
              Work(p)[k + 1] \in Pmap /\ Work(p)[k + 1] = Work(q)[l + 1] => p = q /\ k = l
         /\ \A c, d \in Caller : c # d => program.start[c] # program.start[d]
         /\ \A c \in Caller : \A p \in Pmap : \A k \in Items(p) : Work(p)[k + 1] # program.start[c]
  <1>1. /\ program.work \in [Pmap -> Seq(Item)] /\ program.grain \in [Pmap -> Nat \ {0}] /\ program.start \in [Caller -> Pmap]
        /\ \A p, q \in Pmap : \A k \in DOMAIN program.work[p] : \A l \in DOMAIN program.work[q] :
             program.work[p][k] \in Pmap /\ program.work[p][k] = program.work[q][l] => p = q /\ k = l
        /\ \A c, d \in Caller : c # d => program.start[c] # program.start[d]
        /\ \A c \in Caller : \A p \in Pmap : \A k \in DOMAIN program.work[p] : program.work[p][k] # program.start[c]
    BY ProgramsAssumption
  <1>2. ASSUME NEW p \in Pmap
        PROVE  /\ Work(p) \in Seq(Item) /\ Grain(p) \in Nat \ {0} /\ Size(p) \in Nat
               /\ JobCount(p) \in Int /\ Items(p) \subseteq Nat
               /\ \A i \in Items(p) : i < Size(p) /\ i + 1 \in DOMAIN Work(p) /\ i + 1 \in Nat
               /\ DOMAIN Work(p) = 1 .. Size(p)
    <2>1. Work(p) \in Seq(Item) /\ Grain(p) \in Nat \ {0}
      BY <1>1 DEF Work, Grain
    <2>2. Size(p) \in Nat /\ DOMAIN Work(p) = 1 .. Size(p)
      BY <2>1 DEF Size
    <2>3. JobCount(p) \in Int
      <3>1. Size(p) \div Grain(p) \in Int
        BY <2>1, <2>2
      <3> QED
        BY <3>1 DEF JobCount
    <2> QED
      BY <2>1, <2>2, <2>3 DEF Items
  <1>3. \A p \in Pmap : Jobs(p) \subseteq Nat
    BY <1>2 DEF Jobs
  <1>4. \A p, q \in Pmap : \A k \in Items(p) : \A l \in Items(q) :
          Work(p)[k + 1] \in Pmap /\ Work(p)[k + 1] = Work(q)[l + 1] => p = q /\ k = l
    <2> SUFFICES ASSUME NEW p \in Pmap, NEW q \in Pmap, NEW k \in Items(p), NEW l \in Items(q),
                        Work(p)[k + 1] \in Pmap, Work(p)[k + 1] = Work(q)[l + 1]
                 PROVE  p = q /\ k = l
      OBVIOUS
    <2>1. k + 1 \in DOMAIN Work(p) /\ l + 1 \in DOMAIN Work(q) /\ k \in Nat /\ l \in Nat
      BY <1>2
    <2>2. p = q /\ k + 1 = l + 1
      BY <1>1, <2>1 DEF Work
    <2> QED
      BY <2>1, <2>2
  <1>5. \A c \in Caller : \A p \in Pmap : \A k \in Items(p) : Work(p)[k + 1] # program.start[c]
    BY <1>1, <1>2 DEF Work
  <1>6. \A p \in Pmap : \A i \in Items(p) : i < Size(p) /\ Work(p)[i + 1] \in Item
    BY <1>2
  <1> QED
    BY <1>1, <1>2, <1>3, <1>4, <1>5, <1>6

-----------------------------------------------------------------------------
(* Stacks.                                                                 *)

\* A step leaves all stacks but t's, which has L frames then, the last of them
\* g and the others as before.
TopIs(t, L, g) ==
  /\ stack' \in [Thread -> Seq(Frames)] /\ \A u \in Thread \ {t} : stack'[u] = stack[u]
  /\ L \in Nat \ {0} /\ Len(stack'[t]) = L /\ DOMAIN stack'[t] = 1 .. L /\ stack'[t][L] = g
  /\ \A n \in 1 .. L - 1 : n \in DOMAIN stack[t] /\ stack'[t][n] = stack[t][n]

LEMMA Stack ==
  ASSUME Typed, NEW t \in Thread
  PROVE  /\ stack[t] \in Seq(Frames) /\ Len(stack[t]) \in Nat /\ DOMAIN stack[t] = 1 .. Len(stack[t])
         /\ stack[t] # <<>> => Len(stack[t]) \in DOMAIN stack[t] /\ Top(t) = stack[t][Len(stack[t])] /\ Top(t) \in Frames
         /\ \A n \in DOMAIN stack[t] : stack[t][n] \in Frames /\ n \in Nat \ {0} /\ n <= Len(stack[t])
  <1>1. stack[t] \in Seq(Frames)
    BY DEF Typed, TypeOK
  <1> QED
    BY <1>1 DEF Top

LEMMA PushIs ==
  ASSUME Typed, NEW t \in Thread, NEW g \in Frames, Push(t, g)
  PROVE  TopIs(t, Len(stack[t]) + 1, g)
  <1>1. stack \in [Thread -> Seq(Frames)] /\ stack' = [stack EXCEPT ![t] = Append(stack[t], g)]
    BY DEF Push, Typed, TypeOK
  <1>2. stack'[t] = Append(stack[t], g) /\ stack' \in [Thread -> Seq(Frames)]
    BY <1>1
  <1>3. stack[t] \in Seq(Frames)
    BY <1>1
  <1> QED
    BY <1>1, <1>2, <1>3 DEF TopIs

LEMMA ReplaceIs ==
  ASSUME Typed, NEW t \in Thread, stack[t] # <<>>, NEW g \in Frames, Replace(t, g)
  PROVE  TopIs(t, Len(stack[t]), g)
  <1>1. stack \in [Thread -> Seq(Frames)] /\ stack' = [stack EXCEPT ![t] = Append(Below(t), g)]
    BY DEF Replace, Typed, TypeOK
  <1>2. stack[t] \in Seq(Frames) /\ Len(stack[t]) \in Nat \ {0} /\ DOMAIN stack[t] = 1 .. Len(stack[t])
    BY <1>1, EmptySeq
  <1>3. Below(t) \in Seq(Frames) /\ Len(Below(t)) = Len(stack[t]) - 1 /\ \A n \in 1 .. Len(stack[t]) - 1 : Below(t)[n] = stack[t][n]
    BY <1>2 DEF Below
  <1>4. stack'[t] = Append(Below(t), g) /\ stack' \in [Thread -> Seq(Frames)]
    BY <1>1, <1>3
  <1> DEFINE L == Len(stack[t])
  <1>5. Len(stack'[t]) = L /\ DOMAIN stack'[t] = 1 .. L /\ stack'[t][L] = g /\ \A n \in 1 .. L - 1 : stack'[t][n] = Below(t)[n]
    BY <1>2, <1>3, <1>4
  <1>6. \A n \in 1 .. L - 1 : n \in DOMAIN stack[t]
    BY <1>2
  <1> QED
    BY <1>1, <1>2, <1>3, <1>4, <1>5, <1>6 DEF TopIs

\* The last frame is gone.
PopIs(t) ==
  /\ stack' \in [Thread -> Seq(Frames)] /\ \A u \in Thread \ {t} : stack'[u] = stack[u]
  /\ Len(stack'[t]) = Len(stack[t]) - 1 /\ DOMAIN stack'[t] = 1 .. Len(stack[t]) - 1
  /\ \A n \in 1 .. Len(stack[t]) - 1 : n \in DOMAIN stack[t] /\ stack'[t][n] = stack[t][n]

LEMMA PopIsPop ==
  ASSUME Typed, NEW t \in Thread, stack[t] # <<>>, stack' = [stack EXCEPT ![t] = Below(t)]
  PROVE  PopIs(t)
  <1>1. stack \in [Thread -> Seq(Frames)]
    BY DEF Typed, TypeOK
  <1>2. stack[t] \in Seq(Frames) /\ Len(stack[t]) \in Nat \ {0} /\ DOMAIN stack[t] = 1 .. Len(stack[t])
    BY <1>1, EmptySeq
  <1>3. /\ Below(t) \in Seq(Frames) /\ Len(Below(t)) = Len(stack[t]) - 1 /\ DOMAIN Below(t) = 1 .. Len(stack[t]) - 1
        /\ \A n \in 1 .. Len(stack[t]) - 1 : Below(t)[n] = stack[t][n]
    BY <1>2 DEF Below
  <1>4. stack'[t] = Below(t) /\ stack' \in [Thread -> Seq(Frames)] /\ \A u \in Thread \ {t} : stack'[u] = stack[u]
    BY <1>1, <1>3
  <1>5. \A n \in 1 .. Len(stack[t]) - 1 : n \in DOMAIN stack[t]
    BY <1>2
  <1> QED
    BY <1>3, <1>4, <1>5 DEF PopIs

-----------------------------------------------------------------------------
(* What the invariant says of a frame and of a job on the queue.           *)

LEMMA Known ==
  ASSUME PmapInv
  PROVE  /\ Typed /\ program \in Programs
         /\ \A t \in Thread : \A n \in DOMAIN stack[t] :
              /\ stack[t][n] \in Frames /\ n \in Nat \ {0} /\ n <= Len(stack[t]) /\ Shaped(t, n)
              /\ stack[t][n].call \in Pmap /\ stack[t][n].job \in Int /\ stack[t][n].at \in Nat
              /\ result[stack[t][n].call] = Running
         /\ \A k \in DOMAIN work_queue :
              /\ work_queue[k] \in Pmap \X Nat /\ work_queue[k][1] \in Pmap /\ work_queue[k][2] \in Nat
              /\ work_queue[k][2] \in Jobs(work_queue[k][1]) /\ result[work_queue[k][1]] = Running
              /\ work_queue[k] = <<work_queue[k][1], work_queue[k][2]>>
  <1>1. Typed /\ program \in Programs /\ work_queue \in Seq(Pmap \X Nat)
    BY DEF PmapInv, Typed, TypeOK
  <1>2. ASSUME NEW t \in Thread, NEW n \in DOMAIN stack[t]
        PROVE  /\ stack[t][n] \in Frames /\ n \in Nat \ {0} /\ n <= Len(stack[t]) /\ Shaped(t, n)
               /\ stack[t][n].call \in Pmap /\ stack[t][n].job \in Int /\ stack[t][n].at \in Nat
               /\ result[stack[t][n].call] = Running
    <2>1. stack[t][n] \in Frames /\ n \in Nat \ {0} /\ n <= Len(stack[t])
      BY <1>1, Stack
    <2>2. Shaped(t, n)
      BY DEF PmapInv, Shapes
    <2>3. result[stack[t][n].call] = Running
      BY <2>2 DEF Shaped
    <2> QED
      BY <2>1, <2>2, <2>3 DEF Frames
  <1>3. ASSUME NEW k \in DOMAIN work_queue
        PROVE  /\ work_queue[k] \in Pmap \X Nat
               /\ work_queue[k][2] \in Jobs(work_queue[k][1]) /\ result[work_queue[k][1]] = Running
    <2>1. work_queue[k] \in Pmap \X Nat
      BY <1>1
    <2> QED
      BY <2>1 DEF PmapInv, Typed, Shapes
  <1>4. \A j \in Pmap \X Nat : j[1] \in Pmap /\ j[2] \in Nat /\ j = <<j[1], j[2]>>
    OBVIOUS
  <1> QED
    BY <1>1, <1>2, <1>3, <1>4

\* A call is on one stack, at one place.
LEMMA OnePmap ==
  ASSUME PmapInv, NEW t \in Thread, NEW u \in Thread, NEW n \in DOMAIN stack[t], NEW m \in DOMAIN stack[u],
         stack[t][n].phase # "execute", stack[u][m].phase # "execute", stack[t][n].call = stack[u][m].call
  PROVE  t = u /\ n = m
  <1>1. stack[t][n].job = -1 /\ stack[u][m].job = -1
    BY Known DEF Shaped
  <1>2. Holds(t, n, stack[u][m].call, stack[u][m].job)
    BY <1>1 DEF Holds
  <1> QED
    BY <1>2 DEF PmapInv, OnePlace

LEMMA SameLists ==
  ASSUME UNCHANGED program
  PROVE  /\ \A p : /\ Work(p)' = Work(p) /\ Grain(p)' = Grain(p) /\ Size(p)' = Size(p) /\ JobCount(p)' = JobCount(p)
                   /\ Jobs(p)' = Jobs(p) /\ Items(p)' = Items(p)
         /\ \A p, i : End(p, i)' = End(p, i)
  BY DEF Work, Grain, Size, Jobs, Items, JobCount, End

\* Where a stack keeps its frames, and t's last is g now.
LEMMA Replaced ==
  ASSUME Typed, NEW t \in Thread, stack[t] # <<>>, NEW g, TopIs(t, Len(stack[t]), g)
  PROVE  /\ stack' \in [Thread -> Seq(Frames)]
         /\ \A u \in Thread : DOMAIN stack'[u] = DOMAIN stack[u] /\ Len(stack'[u]) = Len(stack[u])
         /\ stack'[t][Len(stack[t])] = g /\ stack[t][Len(stack[t])] = Top(t)
         /\ \A u \in Thread : \A n \in DOMAIN stack[u] : u # t \/ n # Len(stack[t]) => stack'[u][n] = stack[u][n]
  <1> DEFINE L == Len(stack[t])
  <1>1. L \in DOMAIN stack[t] /\ Top(t) = stack[t][L] /\ DOMAIN stack[t] = 1 .. L /\ L \in Nat
    BY Stack
  <1>2. \A n \in 1 .. L : n = L \/ n \in 1 .. L - 1
    BY <1>1
  <1>3. ASSUME NEW u \in Thread PROVE DOMAIN stack'[u] = DOMAIN stack[u] /\ Len(stack'[u]) = Len(stack[u])
    BY <1>1 DEF TopIs
  <1>4. ASSUME NEW u \in Thread, NEW n \in DOMAIN stack[u]
        PROVE  u # t \/ n # L => stack'[u][n] = stack[u][n]
    BY <1>1, <1>2 DEF TopIs
  <1> QED
    BY <1>1, <1>3, <1>4 DEF TopIs

-----------------------------------------------------------------------------
(* An operation goes on: AllPut, Block, Apply and Fail.                    *)

\* The frame of the same job or call, further on.
GoesOn(f, g) ==
  /\ g \in Frames /\ g.call = f.call /\ g.job = f.job /\ f.at <= g.at
  /\ g.phase = "execute" <=> f.phase = "execute"
  /\ g.phase # "put"

LEMMA GoesOnKeeps ==
  ASSUME PmapInv, NEW t \in Thread, stack[t] # <<>>, NEW g, GoesOn(Top(t), g), Replace(t, g),
         UNCHANGED <<program, work_queue, result, outputs>>,
         g.phase = "wait" /\ t \in Executor => work_queue = <<>> \/ Top(t).phase = "wait",
         t \in Caller => g.phase = "wait",
         exceptions' \in [Pmap -> SUBSET Int], initialized' \in [Pmap -> SUBSET Int],
         \A p \in Pmap : exceptions'[p] \subseteq Items(p) /\ initialized'[p] \subseteq Items(p)
  PROVE  PmapInv'
  <1> DEFINE L == Len(stack[t])
             f == Top(t)
  <1>1. Typed /\ L \in DOMAIN stack[t] /\ f = stack[t][L] /\ f \in Frames /\ g \in Frames /\ DOMAIN stack[t] = 1 .. L
    BY Stack DEF PmapInv, GoesOn
  <1>2. TopIs(t, L, g)
    BY <1>1, ReplaceIs
  <1>3. /\ stack' \in [Thread -> Seq(Frames)] /\ \A u \in Thread : DOMAIN stack'[u] = DOMAIN stack[u] /\ Len(stack'[u]) = Len(stack[u])
        /\ \A u \in Thread : \A n \in DOMAIN stack[u] :
             IF u = t /\ n = L THEN stack'[u][n] = g /\ stack[u][n] = f ELSE stack'[u][n] = stack[u][n]
    <2>1. /\ stack' \in [Thread -> Seq(Frames)] /\ \A u \in Thread : DOMAIN stack'[u] = DOMAIN stack[u] /\ Len(stack'[u]) = Len(stack[u])
          /\ stack'[t][L] = g /\ stack[t][L] = f
          /\ \A u \in Thread : \A n \in DOMAIN stack[u] : u # t \/ n # L => stack'[u][n] = stack[u][n]
      <3>1. Typed /\ TopIs(t, Len(stack[t]), g)
        BY <1>1, <1>2
      <3> QED
        BY <3>1, Replaced, Zenon
    <2> HIDE DEF L, f
    <2>2. ASSUME NEW u \in Thread, NEW n \in DOMAIN stack[u]
          PROVE  IF u = t /\ n = L THEN stack'[u][n] = g /\ stack[u][n] = f ELSE stack'[u][n] = stack[u][n]
      <3>1. CASE u = t /\ n = L
        BY <2>1, <3>1
      <3>2. CASE ~(u = t /\ n = L)
        BY <2>1, <3>2
      <3> QED
        BY <3>1, <3>2
    <2> QED
      BY <2>1, <2>2
  <1>a. /\ \A p \in Pmap : /\ Work(p)' = Work(p) /\ Grain(p)' = Grain(p) /\ Size(p)' = Size(p)
                           /\ Jobs(p)' = Jobs(p) /\ Items(p)' = Items(p)
        /\ \A p, i : End(p, i)' = End(p, i)
    BY SameLists
  <1>4. Typed'
    BY <1>1, <1>3, <1>a DEF Typed, TypeOK
  <1>b. /\ g.call = f.call /\ g.job = f.job /\ f.at <= g.at /\ g.phase # "put" /\ f.at \in Nat /\ g.at \in Nat /\ f.call \in Pmap
        /\ g.phase = "execute" <=> f.phase = "execute"
    BY <1>1 DEF GoesOn, Frames
  <1>c. \A u \in Thread : \A n \in DOMAIN stack[u] :
          /\ stack'[u][n].call = stack[u][n].call /\ stack'[u][n].job = stack[u][n].job
          /\ stack'[u][n].phase = "execute" <=> stack[u][n].phase = "execute"
          /\ stack'[u][n].phase = "put" => stack'[u][n] = stack[u][n]
    BY <1>3, <1>b
  <1>5. Shapes'
    <2> SUFFICES ASSUME NEW u \in Thread, NEW n \in DOMAIN stack[u] PROVE Shaped(u, n)'
      BY <1>3 DEF Shapes, PmapInv
    <2>1. Shaped(u, n) /\ stack[u][n] \in Frames /\ n \in Nat \ {0} /\ DOMAIN stack[u] = 1 .. Len(stack[u]) /\ Len(stack[u]) \in Nat
      BY <1>1, Stack DEF PmapInv, Shapes
    <2>2. n > 1 => n - 1 \in DOMAIN stack[u]
      BY <2>1
    <2>3. n > 1 => (stack'[u][n].phase = "execute" <=> stack'[u][n - 1].phase # "execute")
      BY <1>c, <2>1, <2>2 DEF Shaped
    <2>4. u \in Caller => n = 1 /\ stack'[u][n].call = program'.start[u] /\ stack'[u][n].phase \in {"put", "wait"}
      BY <1>3, <1>b, <2>1 DEF Shaped
    <2>5. CASE u = t /\ n = L
      <3>1. f.phase = "execute" => f.job * Grain(f.call) \in Nat
        BY <2>1, <2>5, <1>1, <1>b, Lists, Products DEF Shaped, Typed, TypeOK
      <3>2. f.phase = "execute" => f.job * Grain(f.call) <= g.at
        BY <2>1, <2>5, <1>1, <1>b, <3>1 DEF Shaped
      <3>3. ~(n < Len(stack'[u]))
        BY <1>3, <2>1, <2>5
      <3>4. /\ stack'[u][n] = g /\ stack[u][n] = f /\ result[f.call] = Running
            /\ IF f.phase = "execute" THEN f.job \in Jobs(f.call) ELSE f.job = -1
        BY <1>1, <1>3, <2>1, <2>5 DEF Shaped
      <3>5. result'[stack'[u][n].call] = Running
        BY <1>b, <3>4
      <3> QED
        BY <1>a, <1>b, <2>3, <2>4, <3>2, <3>3, <3>4, <3>5 DEF Shaped
    <2>6. CASE ~(u = t /\ n = L)
      <3>1. stack'[u][n] = stack[u][n] /\ Len(stack'[u]) = Len(stack[u]) /\ stack[u][n].call \in Pmap
        BY <1>3, <2>1, <2>6 DEF Frames
      <3> QED
        BY <1>a, <2>1, <2>3, <2>4, <3>1 DEF Shaped
    <2> QED
      BY <2>5, <2>6
  <1>d. \A u \in Thread : \A n \in DOMAIN stack[u] : \A p, i : (Holds(u, n, p, i))' <=> Holds(u, n, p, i)
    BY <1>c DEF Holds
  <1>6. OnePlace'
    <2>1. ASSUME NEW u \in Thread, NEW v \in Thread, NEW n \in DOMAIN stack[u], NEW m \in DOMAIN stack[v],
                 stack'[u][n].call = stack'[v][m].call, stack'[u][n].job = stack'[v][m].job
          PROVE  u = v /\ n = m
      <3>1. Holds(u, n, stack[v][m].call, stack[v][m].job)
        BY <2>1, <1>c DEF Holds
      <3> QED
        BY <3>1 DEF PmapInv, OnePlace
    <2>2. ASSUME NEW u \in Thread, NEW n \in DOMAIN stack[u] PROVE stack'[u][n].job \notin outputs[stack'[u][n].call]
      BY <1>c DEF PmapInv, OnePlace
    <2>3. \A k \in DOMAIN work_queue :
            /\ work_queue[k][2] \notin outputs[work_queue[k][1]]
            /\ \A u \in Thread : \A n \in DOMAIN stack[u] : ~(Holds(u, n, work_queue[k][1], work_queue[k][2]))'
      BY <1>d DEF PmapInv, OnePlace
    <2>4. \A k, l \in DOMAIN work_queue : work_queue[k] = work_queue[l] => k = l
      BY DEF PmapInv, OnePlace
    <2>5. (\A k, l \in DOMAIN work_queue : work_queue[k] = work_queue[l] => k = l)'
      BY <2>4
    <2>6. (\A u, v \in Thread : \A n \in DOMAIN stack[u] : \A m \in DOMAIN stack[v] :
             Holds(u, n, stack[v][m].call, stack[v][m].job) => u = v /\ n = m)'
      <3>1. \A u, v \in Thread : \A n \in DOMAIN stack'[u] : \A m \in DOMAIN stack'[v] :
              stack'[u][n].call = stack'[v][m].call /\ stack'[u][n].job = stack'[v][m].job => u = v /\ n = m
        <4>1. \A u \in Thread : DOMAIN stack'[u] = DOMAIN stack[u]
          BY <1>3
        <4> QED
          BY <2>1, <4>1
      <3> QED
        BY <3>1 DEF Holds
    <2>7. (\A u \in Thread : \A n \in DOMAIN stack[u] : stack[u][n].job \notin outputs[stack[u][n].call])'
      BY <1>3, <2>2
    <2>8. (\A k \in DOMAIN work_queue :
            /\ work_queue[k][2] \notin outputs[work_queue[k][1]]
            /\ \A u \in Thread : \A n \in DOMAIN stack[u] : ~Holds(u, n, work_queue[k][1], work_queue[k][2]))'
      BY <1>3, <2>3
    <2> QED
      BY <2>5, <2>6, <2>7, <2>8 DEF OnePlace
  <1>7. PutInOrder'
    <2>1. ASSUME NEW u \in Thread, NEW n \in DOMAIN stack[u], stack'[u][n].phase = "put"
          PROVE  /\ \A i \in outputs[stack'[u][n].call] : i < stack'[u][n].at
                 /\ \A k \in DOMAIN work_queue : work_queue[k][1] = stack'[u][n].call => work_queue[k][2] < stack'[u][n].at
                 /\ \A v \in Thread : \A m \in DOMAIN stack[v] :
                      stack'[v][m].call = stack'[u][n].call => stack'[v][m].job < stack'[u][n].at
      <3>1. stack'[u][n] = stack[u][n]
        BY <2>1, <1>c
      <3> QED
        BY <2>1, <3>1, <1>c DEF PmapInv, PutInOrder
    <2>2. \A p \in Pmap : result[p] = Unborn => outputs[p] = {}
      BY DEF PmapInv, PutInOrder
    <2> QED
      BY <1>3, <2>1, <2>2 DEF PutInOrder
  <1>8. ItemsWait'
    <2>1. \A p \in Pmap : \A from, to : Waits(p, from, to)' <=> Waits(p, from, to)
      BY <1>a DEF Waits
    <2>2. \A p \in Pmap : \A i, from : JobWaits(p, i, from)' <=> JobWaits(p, i, from)
      BY <1>a, <2>1 DEF JobWaits
    <2>3. \A k \in DOMAIN work_queue : work_queue[k][1] \in Pmap
      BY <1>1 DEF Typed, TypeOK
    <2>4. ASSUME NEW u \in Thread, NEW n \in DOMAIN stack[u]
          PROVE  /\ stack'[u][n].phase = "put" =>
                      Waits(stack[u][n].call, stack'[u][n].at * Grain(stack[u][n].call), Size(stack[u][n].call))
                 /\ stack'[u][n].phase = "execute" =>
                      JobWaits(stack[u][n].call, stack[u][n].job, IF n = Len(stack[u]) THEN stack'[u][n].at ELSE stack'[u][n].at + 1)
      <3>1. stack[u][n] \in Frames
        BY <1>1, Stack
      <3>2. CASE u = t /\ n = L
        <4>1. f.phase = "execute" => JobWaits(f.call, f.job, f.at)
          BY <1>1, <3>2 DEF PmapInv, ItemsWait
        <4>2. JobWaits(f.call, f.job, f.at) => JobWaits(f.call, f.job, g.at)
          BY <1>b DEF JobWaits, Waits, Items
        <4> QED
          BY <1>3, <1>b, <3>2, <4>1, <4>2
      <3>3. CASE ~(u = t /\ n = L)
        BY <1>3, <3>3 DEF PmapInv, ItemsWait
      <3> QED
        BY <3>2, <3>3
    <2>5. ASSUME NEW u \in Thread, NEW n \in DOMAIN stack[u] PROVE stack[u][n].call \in Pmap
      BY <1>1, Stack DEF Frames
    <2>6. \A p \in Pmap : result[p] = Unborn => Waits(p, 0, Size(p))
      BY DEF PmapInv, ItemsWait
    <2>7. \A k \in DOMAIN work_queue :
            JobWaits(work_queue[k][1], work_queue[k][2], work_queue[k][2] * Grain(work_queue[k][1]))
      BY DEF PmapInv, ItemsWait
    <2>8. (\A p \in Pmap : result[p] = Unborn => Waits(p, 0, Size(p)))'
      BY <1>a, <2>1, <2>6
    <2>9. (\A k \in DOMAIN work_queue :
             JobWaits(work_queue[k][1], work_queue[k][2], work_queue[k][2] * Grain(work_queue[k][1])))'
      BY <1>a, <2>2, <2>3, <2>7
    <2> QED
      BY <1>3, <1>a, <1>c, <2>1, <2>2, <2>4, <2>5, <2>8, <2>9 DEF ItemsWait
  <1>9. NoneLeft'
    <2> SUFFICES ASSUME NEW u \in Thread, u \in Executor, NEW n \in DOMAIN stack[u], stack'[u][n].phase = "wait",
                        NEW k \in DOMAIN work_queue
                 PROVE  work_queue[k][1] # stack'[u][n].call
      BY <1>3 DEF NoneLeft, Thread
    <2>1. stack[u][n].phase = "wait" => work_queue[k][1] # stack[u][n].call
      BY DEF PmapInv, NoneLeft
    <2>2. CASE u = t /\ n = L
      <3>1. stack'[u][n] = g /\ stack[u][n] = f
        BY <1>3, <2>2
      <3>2. work_queue # <<>>
        BY EmptySeq
      <3> QED
        BY <2>1, <2>2, <3>1, <3>2, <1>b
    <2>3. CASE ~(u = t /\ n = L)
      <3>1. stack'[u][n] = stack[u][n]
        BY <1>3, <2>3
      <3> QED
        BY <2>1, <3>1
    <2> QED
      BY <2>2, <2>3
  <1> QED
    BY <1>4, <1>5, <1>6, <1>7, <1>8, <1>9 DEF PmapInv
-----------------------------------------------------------------------------
(* pmap puts a job.                                                        *)

LEMMA PutKeeps ==
  ASSUME PmapInv, NEW t \in Thread, Put(t)
  PROVE  PmapInv'
  <1> DEFINE L == Len(stack[t])
             p == Top(t).call
             i == Top(t).at
             g == [Top(t) EXCEPT !.at = i + 1]
  <1>1. stack[t] # <<>> /\ Top(t).phase = "put" /\ i < JobCount(p) /\ work_queue' = Append(work_queue, <<p, i>>)
        /\ Replace(t, g) /\ UNCHANGED <<program, result, outputs, exceptions, initialized>>
    BY DEF Put, In
  <1>2. /\ Typed /\ L \in DOMAIN stack[t] /\ Top(t) = stack[t][L] /\ Top(t) \in Frames /\ p \in Pmap /\ i \in Nat
        /\ Top(t).job = -1 /\ result[p] = Running /\ program \in Programs /\ L \in Nat \ {0}
    <2>1. Typed /\ L \in DOMAIN stack[t] /\ Top(t) = stack[t][L] /\ Top(t) \in Frames
      BY <1>1, Stack DEF PmapInv
    <2>2. Shaped(t, L) /\ result[stack[t][L].call] = Running /\ program \in Programs /\ L \in Nat \ {0}
      BY <2>1, Known
    <2> QED
      BY <1>1, <2>1, <2>2 DEF Shaped, Frames
  <1>3. g \in Frames /\ g.call = p /\ g.job = -1 /\ g.at = i + 1 /\ g.phase = "put"
    BY <1>1, <1>2 DEF Frames
  <1> HIDE DEF L, p, i, g
  <1>4. /\ stack' \in [Thread -> Seq(Frames)] /\ \A u \in Thread : DOMAIN stack'[u] = DOMAIN stack[u] /\ Len(stack'[u]) = Len(stack[u])
        /\ \A u \in Thread : \A n \in DOMAIN stack[u] :
             IF u = t /\ n = L THEN stack'[u][n] = g /\ stack[u][n] = Top(t) ELSE stack'[u][n] = stack[u][n]
    <2>1. TopIs(t, Len(stack[t]), g)
      BY <1>1, <1>2, <1>3, ReplaceIs
    <2>2. \A u \in Thread : \A n \in DOMAIN stack[u] :
            u # t \/ n # Len(stack[t]) => stack'[u][n] = stack[u][n]
      BY <1>1, <1>2, <2>1, Replaced
    <2>3. stack' \in [Thread -> Seq(Frames)] /\ \A u \in Thread : DOMAIN stack'[u] = DOMAIN stack[u] /\ Len(stack'[u]) = Len(stack[u])
      BY <1>1, <1>2, <2>1, Replaced
    <2>4. stack'[t][Len(stack[t])] = g /\ stack[t][Len(stack[t])] = Top(t)
      BY <1>1, <1>2, <2>1, Replaced
    <2> QED
      BY <2>2, <2>3, <2>4 DEF L
  <1>5. \A u \in Thread : \A n \in DOMAIN stack[u] :
          /\ stack'[u][n].call = stack[u][n].call /\ stack'[u][n].job = stack[u][n].job /\ stack'[u][n].phase = stack[u][n].phase
          /\ stack'[u][n].phase # "put" => stack'[u][n] = stack[u][n]
    BY <1>1, <1>2, <1>3, <1>4 DEF p
  <1>6. /\ work_queue \in Seq(Pmap \X Nat) /\ DOMAIN work_queue' = DOMAIN work_queue \cup {Len(work_queue) + 1}
        /\ \A k \in DOMAIN work_queue : work_queue'[k] = work_queue[k] /\ k # Len(work_queue) + 1
        /\ work_queue'[Len(work_queue) + 1] = <<p, i>> /\ work_queue' \in Seq(Pmap \X Nat)
    <2>1. work_queue \in Seq(Pmap \X Nat) /\ <<p, i>> \in Pmap \X Nat
      BY <1>2 DEF Typed, TypeOK
    <2> QED
      BY <1>1, <2>1
  <1> DEFINE M == Len(work_queue) + 1
  <1>7. DOMAIN work_queue' = DOMAIN work_queue \cup {M} /\ work_queue'[M] = <<p, i>>
        /\ \A k \in DOMAIN work_queue : work_queue'[k] = work_queue[k] /\ k # M
    BY <1>6
  <1> HIDE DEF M
  <1>a. /\ \A q \in Pmap : /\ Work(q)' = Work(q) /\ Grain(q)' = Grain(q) /\ Size(q)' = Size(q)
                           /\ Jobs(q)' = Jobs(q) /\ Items(q)' = Items(q)
        /\ \A q, j : End(q, j)' = End(q, j)
    BY <1>1, SameLists
  <1>b. i \in Jobs(p)
    BY <1>1, <1>2, Lists DEF Jobs, p, i
  \* No other frame of pmap is of this call.
  <1>c. \A u \in Thread : \A n \in DOMAIN stack[u] : stack[u][n].phase # "execute" /\ stack[u][n].call = p => u = t /\ n = L
    BY <1>1, <1>2, OnePmap DEF p
  <1>d. /\ \A j \in outputs[p] : j < i
        /\ \A k \in DOMAIN work_queue : work_queue[k][1] = p => work_queue[k][2] < i
        /\ \A u \in Thread : \A n \in DOMAIN stack[u] : stack[u][n].call = p => stack[u][n].job < i
    BY <1>1, <1>2 DEF PmapInv, PutInOrder, p, i
  <1>e. \A k \in DOMAIN work_queue : work_queue[k] # <<p, i>>
    BY <1>2, <1>d, Known DEF PmapInv
  <1>8. Typed'
    <2>1. \A k \in DOMAIN work_queue' : work_queue'[k][2] \in Jobs(work_queue'[k][1]) /\ work_queue'[k][1] \in Pmap
      BY <1>2, <1>7, <1>b, Known
    <2>2. (\A k \in DOMAIN work_queue : work_queue[k][2] \in Jobs(work_queue[k][1]))'
      BY <1>a, <2>1
    <2> QED
      BY <1>1, <1>2, <1>4, <1>6, <1>a, <2>2 DEF Typed, TypeOK
  <1>9. Shapes'
    <2>1. ASSUME NEW u \in Thread, NEW n \in DOMAIN stack[u] PROVE Shaped(u, n)'
      <3>1. Shaped(u, n) /\ n \in Nat \ {0} /\ stack[u][n].call \in Pmap /\ DOMAIN stack[u] = 1 .. Len(stack[u])
            /\ Len(stack[u]) \in Nat
        BY <1>2, Known, Stack
      <3>2. n > 1 => n - 1 \in DOMAIN stack[u]
        BY <3>1
      <3>3. n > 1 => stack'[u][n - 1].phase = stack[u][n - 1].phase
        BY <1>5, <3>2
      <3>4. stack'[u][n].phase = "execute" => stack'[u][n] = stack[u][n]
        BY <1>5
      <3> QED
        BY <1>1, <1>4, <1>5, <1>a, <3>1, <3>3, <3>4 DEF Shaped
    <2>2. \A k \in DOMAIN work_queue' : result'[work_queue'[k][1]] = Running
      BY <1>1, <1>2, <1>7, Known
    <2> QED
      BY <1>4, <2>1, <2>2 DEF Shapes
  <1>10. OnePlace'
    <2>1. (\A k, l \in DOMAIN work_queue : work_queue[k] = work_queue[l] => k = l)'
      BY <1>7, <1>e DEF PmapInv, OnePlace
    <2>2. (\A u, v \in Thread : \A n \in DOMAIN stack[u] : \A m \in DOMAIN stack[v] :
             Holds(u, n, stack[v][m].call, stack[v][m].job) => u = v /\ n = m)'
      <3>1. ASSUME NEW u \in Thread, NEW v \in Thread, NEW n \in DOMAIN stack[u], NEW m \in DOMAIN stack[v],
                   stack'[u][n].call = stack'[v][m].call, stack'[u][n].job = stack'[v][m].job
            PROVE  u = v /\ n = m
        <4>1. Holds(u, n, stack[v][m].call, stack[v][m].job)
          BY <1>5, <3>1 DEF Holds
        <4> QED
          BY <4>1 DEF PmapInv, OnePlace
      <3>2. \A u \in Thread : DOMAIN stack'[u] = DOMAIN stack[u]
        BY <1>4
      <3> QED
        BY <3>1, <3>2 DEF Holds
    <2>3. (\A u \in Thread : \A n \in DOMAIN stack[u] : stack[u][n].job \notin outputs[stack[u][n].call])'
      BY <1>1, <1>4, <1>5 DEF PmapInv, OnePlace
    <2>4. ASSUME NEW k \in DOMAIN work_queue'
          PROVE  /\ work_queue'[k][2] \notin outputs'[work_queue'[k][1]]
                 /\ \A u \in Thread : \A n \in DOMAIN stack[u] :
                      ~(stack'[u][n].call = work_queue'[k][1] /\ stack'[u][n].job = work_queue'[k][2])
      <3>1. CASE k = M
        BY <1>1, <1>2, <1>5, <1>7, <1>d, <3>1
      <3>2. CASE k \in DOMAIN work_queue
        BY <1>1, <1>5, <1>7, <3>2 DEF PmapInv, OnePlace, Holds
      <3> QED
        BY <1>7, <3>1, <3>2
    <2>5. (\A k \in DOMAIN work_queue :
            /\ work_queue[k][2] \notin outputs[work_queue[k][1]]
            /\ \A u \in Thread : \A n \in DOMAIN stack[u] : ~Holds(u, n, work_queue[k][1], work_queue[k][2]))'
      BY <1>4, <2>4 DEF Holds
    <2> QED
      BY <2>1, <2>2, <2>3, <2>5 DEF OnePlace
  <1>11. PutInOrder'
    <2>1. ASSUME NEW u \in Thread, NEW n \in DOMAIN stack[u], stack'[u][n].phase = "put"
          PROVE  /\ \A j \in outputs[stack'[u][n].call] : j < stack'[u][n].at
                 /\ \A k \in DOMAIN work_queue' : work_queue'[k][1] = stack'[u][n].call => work_queue'[k][2] < stack'[u][n].at
                 /\ \A v \in Thread : \A m \in DOMAIN stack[v] :
                      stack'[v][m].call = stack'[u][n].call => stack'[v][m].job < stack'[u][n].at
      <3>1. CASE u = t /\ n = L
        <4>1. stack'[u][n] = g
          BY <1>4, <3>1
        <4>2. (\A j \in outputs[p] : j \in Int) /\ \A k \in DOMAIN work_queue : work_queue[k][2] \in Int
          BY <1>2, Known DEF Typed
        <4>3. \A v \in Thread : \A m \in DOMAIN stack[v] : stack[v][m].job \in Int
          BY Known
        <4> QED
          BY <1>2, <1>3, <1>5, <1>7, <1>d, <4>1, <4>2, <4>3
      <3>2. CASE ~(u = t /\ n = L)
        <4>1. stack'[u][n] = stack[u][n] /\ stack[u][n].call # p
          BY <1>4, <1>c, <2>1, <3>2
        <4> QED
          BY <1>5, <1>7, <2>1, <4>1 DEF PmapInv, PutInOrder
      <3> QED
        BY <3>1, <3>2
    <2>2. \A q \in Pmap : result[q] = Unborn => outputs[q] = {}
      BY DEF PmapInv, PutInOrder
    <2> QED
      BY <1>1, <1>4, <2>1, <2>2 DEF PutInOrder
  <1>12. ItemsWait'
    <2>1. \A q \in Pmap : \A from, to : Waits(q, from, to)' <=> Waits(q, from, to)
      BY <1>1, <1>a DEF Waits
    <2>2. \A q \in Pmap : \A j, from : JobWaits(q, j, from)' <=> JobWaits(q, j, from)
      BY <1>a, <2>1 DEF JobWaits
    <2>3. Waits(p, i * Grain(p), Size(p)) /\ Grain(p) \in Nat /\ Size(p) \in Nat /\ \A k \in Items(p) : k \in Nat /\ k < Size(p)
      BY <1>1, <1>2, Lists DEF PmapInv, ItemsWait, p, i
    <2>4. JobWaits(p, i, i * Grain(p)) /\ Waits(p, (i + 1) * Grain(p), Size(p))
      <3>1. i * Grain(p) \in Nat /\ (i + 1) * Grain(p) = i * Grain(p) + Grain(p)
        BY <1>2, <2>3, Products
      <3> DEFINE a == i * Grain(p)
                 b == (i + 1) * Grain(p)
      <3>2. a \in Nat /\ b = a + Grain(p)
        BY <3>1
      <3> HIDE DEF a, b
      <3>3. Waits(p, a, b) /\ Waits(p, b, Size(p))
        BY <2>3, <3>2 DEF Waits, a
      <3> QED
        BY <3>3 DEF JobWaits, a, b
    <2>5. \A k \in DOMAIN work_queue' :
            work_queue'[k][1] \in Pmap /\ JobWaits(work_queue'[k][1], work_queue'[k][2], work_queue'[k][2] * Grain(work_queue'[k][1]))
      BY <1>2, <1>7, <2>4, Known DEF PmapInv, ItemsWait
    <2>6. (\A k \in DOMAIN work_queue :
             JobWaits(work_queue[k][1], work_queue[k][2], work_queue[k][2] * Grain(work_queue[k][1])))'
      BY <1>a, <2>2, <2>5
    <2>7. (\A q \in Pmap : result[q] = Unborn => Waits(q, 0, Size(q)))'
      BY <1>1, <1>a, <2>1 DEF PmapInv, ItemsWait
    <2>8. ASSUME NEW u \in Thread, NEW n \in DOMAIN stack[u]
          PROVE  /\ stack'[u][n].phase = "put" =>
                      Waits(stack[u][n].call, stack'[u][n].at * Grain(stack[u][n].call), Size(stack[u][n].call))
                 /\ stack'[u][n].phase = "execute" =>
                      JobWaits(stack[u][n].call, stack[u][n].job, IF n = Len(stack[u]) THEN stack'[u][n].at ELSE stack'[u][n].at + 1)
      <3>1. CASE u = t /\ n = L
        BY <1>2, <1>3, <1>4, <2>4, <3>1 DEF p
      <3>2. CASE ~(u = t /\ n = L)
        <4>1. stack'[u][n] = stack[u][n]
          BY <1>4, <3>2
        <4> QED
          BY <4>1 DEF PmapInv, ItemsWait
      <3> QED
        BY <3>1, <3>2
    <2>9. \A u \in Thread : \A n \in DOMAIN stack[u] : stack[u][n].call \in Pmap
      BY Known
    <2>10. (\A u \in Thread : \A n \in DOMAIN stack[u] :
              /\ stack[u][n].phase = "put" => Waits(stack[u][n].call, stack[u][n].at * Grain(stack[u][n].call), Size(stack[u][n].call))
              /\ stack[u][n].phase = "execute" =>
                   JobWaits(stack[u][n].call, stack[u][n].job, IF n = Len(stack[u]) THEN stack[u][n].at ELSE stack[u][n].at + 1))'
      BY <1>4, <1>a, <1>5, <2>1, <2>2, <2>8, <2>9
    <2> QED
      BY <2>6, <2>7, <2>10 DEF ItemsWait
  <1>13. NoneLeft'
    <2> SUFFICES ASSUME NEW u \in Thread, u \in Executor, NEW n \in DOMAIN stack[u], stack'[u][n].phase = "wait",
                        NEW k \in DOMAIN work_queue'
                 PROVE  work_queue'[k][1] # stack'[u][n].call
      BY <1>4 DEF NoneLeft, Thread
    <2>1. stack'[u][n] = stack[u][n]
      BY <1>5
    <2>2. stack[u][n].call # p
      BY <1>1, <1>2, <1>c, <2>1
    <2> QED
      BY <1>7, <2>1, <2>2 DEF PmapInv, NoneLeft
  <1> QED
    BY <1>8, <1>9, <1>10, <1>11, <1>12, <1>13 DEF PmapInv
-----------------------------------------------------------------------------
(* A thread takes a job off the queue: Help and Idle.                      *)

\* Where the frames are when t has one more, g.
LEMMA Pushed ==
  ASSUME Typed, NEW t \in Thread, NEW g \in Frames, Push(t, g)
  PROVE  /\ stack' \in [Thread -> Seq(Frames)] /\ Len(stack[t]) \in Nat /\ Len(stack'[t]) = Len(stack[t]) + 1
         /\ \A u \in Thread : u # t => Len(stack'[u]) = Len(stack[u])
         /\ Len(stack[t]) + 1 \in DOMAIN stack'[t] /\ stack'[t][Len(stack[t]) + 1] = g
         /\ \A u \in Thread : \A n \in DOMAIN stack[u] : n \in DOMAIN stack'[u] /\ stack'[u][n] = stack[u][n]
         /\ \A u \in Thread : \A n \in DOMAIN stack'[u] : n \in DOMAIN stack[u] \/ (u = t /\ n = Len(stack[t]) + 1)
  <1> DEFINE L == Len(stack[t]) + 1
  <1>1. L - 1 \in Nat /\ DOMAIN stack[t] = 1 .. L - 1
    BY Stack
  <1>2. TopIs(t, L, g)
    BY PushIs
  <1>3. \A n \in 1 .. L : n = L \/ n \in 1 .. L - 1
    BY <1>1
  <1>4. \A u \in Thread : \A n \in DOMAIN stack[u] : n \in DOMAIN stack'[u] /\ stack'[u][n] = stack[u][n]
    BY <1>1, <1>2 DEF TopIs
  <1>5. \A u \in Thread : \A n \in DOMAIN stack'[u] : n \in DOMAIN stack[u] \/ (u = t /\ n = L)
    BY <1>1, <1>2, <1>3 DEF TopIs
  <1>6. L \in DOMAIN stack'[t]
    BY <1>1, <1>2 DEF TopIs
  <1> QED
    BY <1>1, <1>2, <1>4, <1>5, <1>6 DEF TopIs

LEMMA TakeKeeps ==
  ASSUME PmapInv, NEW t \in Thread, TakeJob(t), t \notin Caller,
         stack[t] # <<>> => Top(t).phase # "execute"
  PROVE  PmapInv'
  <1>0. PICK L, p, i, g : L = Len(stack[t]) + 1 /\ p = Head(work_queue)[1] /\ i = Head(work_queue)[2] /\ g = JobFrame(p, i)
    OBVIOUS
  <1>1. /\ work_queue # <<>> /\ work_queue' = Tail(work_queue) /\ Push(t, g)
        /\ UNCHANGED <<program, result, outputs, exceptions, initialized>>
    BY <1>0 DEF TakeJob
  <1>2. /\ Typed /\ program \in Programs /\ work_queue \in Seq(Pmap \X Nat) /\ 1 \in DOMAIN work_queue
        /\ Head(work_queue) = work_queue[1]
    BY <1>1, Known, EmptySeq DEF Typed, TypeOK
  <1>3. /\ p \in Pmap /\ i \in Nat /\ i \in Jobs(p) /\ result[p] = Running /\ Grain(p) \in Nat
        /\ JobWaits(p, i, i * Grain(p)) /\ i \notin outputs[p]
        /\ \A u \in Thread : \A n \in DOMAIN stack[u] : ~Holds(u, n, p, i)
        /\ \A u \in Thread : \A n \in DOMAIN stack[u] : stack[u][n].phase = "put" /\ stack[u][n].call = p => i < stack[u][n].at
    <2>1. p = work_queue[1][1] /\ i = work_queue[1][2]
      BY <1>0, <1>2
    <2>2. p \in Pmap /\ i \in Nat /\ i \in Jobs(p) /\ result[p] = Running
      BY <1>2, <2>1, Known
    <2>3. Grain(p) \in Nat
      BY <1>2, <2>2, Lists
    <2>4. JobWaits(p, i, i * Grain(p))
      BY <1>2, <2>1 DEF PmapInv, ItemsWait
    <2>5. i \notin outputs[p] /\ \A u \in Thread : \A n \in DOMAIN stack[u] : ~Holds(u, n, p, i)
      BY <1>2, <2>1 DEF PmapInv, OnePlace
    <2>6. \A u \in Thread : \A n \in DOMAIN stack[u] : stack[u][n].phase = "put" /\ stack[u][n].call = p => i < stack[u][n].at
      BY <1>2, <2>1 DEF PmapInv, PutInOrder
    <2> QED
      BY <2>2, <2>3, <2>4, <2>5, <2>6
  <1>4. /\ work_queue' \in Seq(Pmap \X Nat)
        /\ \A k \in DOMAIN work_queue' : /\ k + 1 \in DOMAIN work_queue /\ k + 1 # 1 /\ work_queue'[k] = work_queue[k + 1]
                                         /\ k \in Nat /\ work_queue[k + 1] # <<p, i>>
    <2>1. /\ work_queue' \in Seq(Pmap \X Nat)
          /\ \A k \in DOMAIN work_queue' : k \in Nat \ {0} /\ k + 1 \in DOMAIN work_queue /\ work_queue'[k] = work_queue[k + 1]
      BY <1>1, <1>2
    <2>2. work_queue[1] = <<p, i>>
      BY <1>0, <1>2, Known
    <2>3. ASSUME NEW k \in DOMAIN work_queue' PROVE k + 1 # 1 /\ work_queue[k + 1] # <<p, i>>
      <3>1. k + 1 # 1 /\ k + 1 \in DOMAIN work_queue
        BY <2>1
      <3>2. work_queue[k + 1] = work_queue[1] => k + 1 = 1
        BY <1>2, <3>1 DEF PmapInv, OnePlace
      <3> QED
        BY <2>2, <3>1, <3>2
    <2> QED
      BY <2>1, <2>3
  <1>5. g \in Frames /\ g.call = p /\ g.job = i /\ g.at = i * Grain(p) /\ g.phase = "execute"
    BY <1>0, <1>3, Products DEF JobFrame, Frames
  <1>6. /\ stack' \in [Thread -> Seq(Frames)] /\ L - 1 \in Nat /\ Len(stack'[t]) = L /\ L - 1 = Len(stack[t])
        /\ \A u \in Thread : u # t => Len(stack'[u]) = Len(stack[u])
        /\ L \in DOMAIN stack'[t] /\ stack'[t][L] = g
        /\ \A u \in Thread : \A n \in DOMAIN stack[u] : n \in DOMAIN stack'[u] /\ stack'[u][n] = stack[u][n]
        /\ \A u \in Thread : \A n \in DOMAIN stack'[u] : n \in DOMAIN stack[u] \/ (u = t /\ n = L)
    BY <1>0, <1>1, <1>2, <1>5, Pushed
  <1>a. /\ \A q \in Pmap : /\ Work(q)' = Work(q) /\ Grain(q)' = Grain(q) /\ Size(q)' = Size(q)
                           /\ Jobs(q)' = Jobs(q) /\ Items(q)' = Items(q)
        /\ \A q, j : End(q, j)' = End(q, j)
    BY <1>1, SameLists
  <1>b. \A k \in DOMAIN work_queue' :
          /\ work_queue'[k][1] \in Pmap /\ work_queue'[k][2] \in Jobs(work_queue'[k][1])
          /\ result[work_queue'[k][1]] = Running /\ work_queue'[k] = <<work_queue'[k][1], work_queue'[k][2]>>
    BY <1>4, Known
  <1>8. Typed'
    <2>1. (\A k \in DOMAIN work_queue : work_queue[k][2] \in Jobs(work_queue[k][1]))'
      BY <1>a, <1>b
    <2> QED
      BY <1>1, <1>2, <1>4, <1>6, <1>a, <2>1 DEF Typed, TypeOK
  <1>9. Shapes'
    <2>1. ASSUME NEW u \in Thread, NEW n \in DOMAIN stack[u] PROVE Shaped(u, n)'
      <3>1. Shaped(u, n) /\ n \in Nat \ {0} /\ stack[u][n].call \in Pmap /\ DOMAIN stack[u] = 1 .. Len(stack[u])
            /\ Len(stack[u]) \in Nat
        BY <1>2, Known, Stack
      <3>2. n > 1 => n - 1 \in DOMAIN stack[u]
        BY <3>1
      <3>3. stack'[u][n] = stack[u][n] /\ (n > 1 => stack'[u][n - 1] = stack[u][n - 1])
        BY <1>6, <3>2
      <3>4. n < Len(stack'[u]) /\ stack[u][n].phase = "execute" => n < Len(stack[u])
        <4>1. CASE u = t /\ n = Len(stack[t])
          <5>1. stack[t] # <<>> /\ stack[u][n] = Top(t)
            BY <3>1, <4>1, EmptySeq DEF Top
          <5> QED
            BY <5>1
        <4>2. CASE u = t /\ n # Len(stack[t])
          BY <3>1, <4>2
        <4>3. CASE u # t
          BY <1>6, <4>3
        <4> QED
          BY <4>1, <4>2, <4>3
      <3> QED
        BY <1>1, <1>a, <3>1, <3>3, <3>4 DEF Shaped
    <2>2. Shaped(t, L)'
      <3>1. L > 1 => stack'[t][L - 1].phase # "execute"
        <4> SUFFICES ASSUME L > 1 PROVE stack'[t][L - 1].phase # "execute"
          OBVIOUS
        <4>1. stack[t] # <<>> /\ L - 1 = Len(stack[t])
          BY <1>6, EmptySeq
        <4>2. L - 1 \in DOMAIN stack[t] /\ stack[t][L - 1] = Top(t)
          BY <1>2, <4>1, Stack
        <4> QED
          BY <1>6, <4>1, <4>2
      <3>2. ~(L < Len(stack'[t]))
        BY <1>6
      <3>3. g.job * Grain(p) <= g.at
        BY <1>3, <1>5, Products
      <3>4. stack'[t][L] = g /\ result'[g.call] = Running /\ g.job \in Jobs(p)'
        BY <1>1, <1>3, <1>5, <1>6, <1>a
      <3>5. (stack[t][L].job * Grain(stack[t][L].call) <= stack[t][L].at)'
        BY <1>3, <1>5, <1>a, <3>3, <3>4
      <3>6. (stack[t][L].job \in Jobs(stack[t][L].call))'
        BY <1>3, <1>5, <1>a, <3>4
      <3> QED
        BY <1>5, <3>1, <3>2, <3>4, <3>5, <3>6 DEF Shaped
    <2>3. (\A u \in Thread : \A n \in DOMAIN stack[u] : Shaped(u, n))'
      <3> SUFFICES ASSUME NEW u \in Thread, NEW n \in DOMAIN stack'[u] PROVE Shaped(u, n)'
        OBVIOUS
      <3>1. CASE n \in DOMAIN stack[u]
        BY <2>1, <3>1
      <3>2. CASE u = t /\ n = L
        BY <2>2, <3>2
      <3> QED
        BY <1>6, <3>1, <3>2
    <2>4. (\A k \in DOMAIN work_queue : result[work_queue[k][1]] = Running)'
      BY <1>1, <1>b
    <2> QED
      BY <2>3, <2>4 DEF Shapes
  <1>10. OnePlace'
    <2>1. (\A k, l \in DOMAIN work_queue : work_queue[k] = work_queue[l] => k = l)'
      <3> SUFFICES ASSUME NEW k \in DOMAIN work_queue', NEW l \in DOMAIN work_queue', work_queue'[k] = work_queue'[l] PROVE k = l
        OBVIOUS
      <3>1. k + 1 = l + 1
        BY <1>4 DEF PmapInv, OnePlace
      <3> QED
        BY <1>4, <3>1
    <2>2. ASSUME NEW u \in Thread, NEW v \in Thread, NEW n \in DOMAIN stack'[u], NEW m \in DOMAIN stack'[v],
                 stack'[u][n].call = stack'[v][m].call, stack'[u][n].job = stack'[v][m].job
          PROVE  u = v /\ n = m
      <3>1. CASE n \in DOMAIN stack[u] /\ m \in DOMAIN stack[v]
        <4>1. Holds(u, n, stack[v][m].call, stack[v][m].job)
          BY <1>6, <2>2, <3>1 DEF Holds
        <4> QED
          BY <3>1, <4>1 DEF PmapInv, OnePlace
      <3>2. CASE n \in DOMAIN stack[u] /\ v = t /\ m = L
        BY <1>3, <1>5, <1>6, <2>2, <3>2 DEF Holds
      <3>3. CASE m \in DOMAIN stack[v] /\ u = t /\ n = L
        BY <1>3, <1>5, <1>6, <2>2, <3>3 DEF Holds
      <3> QED
        BY <1>6, <3>1, <3>2, <3>3
    <2>3. (\A u \in Thread : \A n \in DOMAIN stack[u] : stack[u][n].job \notin outputs[stack[u][n].call])'
      <3> SUFFICES ASSUME NEW u \in Thread, NEW n \in DOMAIN stack'[u] PROVE stack'[u][n].job \notin outputs'[stack'[u][n].call]
        OBVIOUS
      <3>1. CASE n \in DOMAIN stack[u]
        <4>1. stack'[u][n] = stack[u][n] /\ stack[u][n].job \notin outputs[stack[u][n].call]
          BY <1>6, <3>1 DEF PmapInv, OnePlace
        <4> QED
          BY <1>1, <4>1
      <3>2. CASE u = t /\ n = L
        BY <1>1, <1>3, <1>5, <1>6, <3>2
      <3> QED
        BY <1>6, <3>1, <3>2
    <2>4. (\A k \in DOMAIN work_queue :
            /\ work_queue[k][2] \notin outputs[work_queue[k][1]]
            /\ \A u \in Thread : \A n \in DOMAIN stack[u] : ~Holds(u, n, work_queue[k][1], work_queue[k][2]))'
      <3> SUFFICES ASSUME NEW k \in DOMAIN work_queue'
                   PROVE  /\ work_queue'[k][2] \notin outputs'[work_queue'[k][1]]
                          /\ \A u \in Thread : \A n \in DOMAIN stack'[u] :
                               ~(stack'[u][n].call = work_queue'[k][1] /\ stack'[u][n].job = work_queue'[k][2])
        BY DEF Holds
      <3>1. work_queue[k + 1][2] \notin outputs[work_queue[k + 1][1]]
        BY <1>4 DEF PmapInv, OnePlace
      <3>2. \A u \in Thread : \A n \in DOMAIN stack[u] : ~Holds(u, n, work_queue[k + 1][1], work_queue[k + 1][2])
        BY <1>4 DEF PmapInv, OnePlace
      <3>3. ~(g.call = work_queue'[k][1] /\ g.job = work_queue'[k][2])
        BY <1>4, <1>5, <1>b
      <3>4. work_queue'[k][2] \notin outputs'[work_queue'[k][1]]
        BY <1>1, <1>4, <3>1
      <3>5. ASSUME NEW u \in Thread, NEW n \in DOMAIN stack'[u]
            PROVE  ~(stack'[u][n].call = work_queue'[k][1] /\ stack'[u][n].job = work_queue'[k][2])
        <4>1. CASE n \in DOMAIN stack[u]
          <5>1. stack'[u][n] = stack[u][n] /\ work_queue'[k] = work_queue[k + 1]
            BY <1>4, <1>6, <4>1
          <5> QED
            BY <3>2, <4>1, <5>1 DEF Holds
        <4>2. CASE u = t /\ n = L
          BY <1>6, <3>3, <4>2
        <4> QED
          BY <1>6, <4>1, <4>2
      <3> QED
        BY <3>4, <3>5
    <2>5. (\A u, v \in Thread : \A n \in DOMAIN stack[u] : \A m \in DOMAIN stack[v] :
             Holds(u, n, stack[v][m].call, stack[v][m].job) => u = v /\ n = m)'
      BY <2>2 DEF Holds
    <2> QED
      BY <2>1, <2>3, <2>4, <2>5 DEF OnePlace
  <1>11. PutInOrder'
    <2>1. ASSUME NEW u \in Thread, NEW n \in DOMAIN stack'[u], stack'[u][n].phase = "put"
          PROVE  /\ \A j \in outputs'[stack'[u][n].call] : j < stack'[u][n].at
                 /\ \A k \in DOMAIN work_queue' : work_queue'[k][1] = stack'[u][n].call => work_queue'[k][2] < stack'[u][n].at
                 /\ \A v \in Thread : \A m \in DOMAIN stack'[v] :
                      stack'[v][m].call = stack'[u][n].call => stack'[v][m].job < stack'[u][n].at
      <3>1. n \in DOMAIN stack[u] /\ stack'[u][n] = stack[u][n]
        BY <1>5, <1>6, <2>1
      <3>2. /\ \A j \in outputs[stack[u][n].call] : j < stack[u][n].at
            /\ \A k \in DOMAIN work_queue : work_queue[k][1] = stack[u][n].call => work_queue[k][2] < stack[u][n].at
            /\ \A v \in Thread : \A m \in DOMAIN stack[v] : stack[v][m].call = stack[u][n].call => stack[v][m].job < stack[u][n].at
        BY <2>1, <3>1 DEF PmapInv, PutInOrder
      <3>3. g.call = stack[u][n].call => g.job < stack[u][n].at
        <4>1. g.call = p /\ g.job = i
          BY <1>5
        <4>2. stack[u][n].phase = "put" /\ stack[u][n].call = p => i < stack[u][n].at
          BY <1>3, <3>1
        <4> QED
          BY <2>1, <3>1, <4>1, <4>2
      <3>4. \A k \in DOMAIN work_queue' : work_queue'[k][1] = stack[u][n].call => work_queue'[k][2] < stack[u][n].at
        BY <1>4, <3>2
      <3>5. \A v \in Thread : \A m \in DOMAIN stack'[v] : stack'[v][m].call = stack[u][n].call => stack'[v][m].job < stack[u][n].at
        <4> SUFFICES ASSUME NEW v \in Thread, NEW m \in DOMAIN stack'[v], stack'[v][m].call = stack[u][n].call
                     PROVE  stack'[v][m].job < stack[u][n].at
          OBVIOUS
        <4>1. CASE m \in DOMAIN stack[v]
          <5>1. stack'[v][m] = stack[v][m]
            BY <1>6, <4>1
          <5> QED
            BY <3>2, <4>1, <5>1
        <4>2. CASE v = t /\ m = L
          BY <1>6, <3>3, <4>2
        <4> QED
          BY <1>6, <4>1, <4>2
      <3> QED
        BY <1>1, <3>1, <3>2, <3>4, <3>5
    <2>2. (\A q \in Pmap : result[q] = Unborn => outputs[q] = {})'
      BY <1>1 DEF PmapInv, PutInOrder
    <2> QED
      BY <2>1, <2>2 DEF PutInOrder
  <1>12. ItemsWait'
    <2>1. \A q \in Pmap : \A from, to : Waits(q, from, to)' <=> Waits(q, from, to)
      BY <1>1, <1>a DEF Waits
    <2>2. \A q \in Pmap : \A j, from : JobWaits(q, j, from)' <=> JobWaits(q, j, from)
      BY <1>a, <2>1 DEF JobWaits
    <2>3. \A k \in DOMAIN work_queue' : JobWaits(work_queue'[k][1], work_queue'[k][2], work_queue'[k][2] * Grain(work_queue'[k][1]))
      BY <1>4 DEF PmapInv, ItemsWait
    <2>4. (\A k \in DOMAIN work_queue :
             JobWaits(work_queue[k][1], work_queue[k][2], work_queue[k][2] * Grain(work_queue[k][1])))'
      BY <1>a, <1>b, <2>2, <2>3
    <2>5. (\A q \in Pmap : result[q] = Unborn => Waits(q, 0, Size(q)))'
      BY <1>1, <1>a, <2>1 DEF PmapInv, ItemsWait
    <2>6. ASSUME NEW u \in Thread, NEW n \in DOMAIN stack'[u]
          PROVE  /\ stack'[u][n].phase = "put" =>
                      Waits(stack'[u][n].call, stack'[u][n].at * Grain(stack'[u][n].call), Size(stack'[u][n].call))
                 /\ stack'[u][n].phase = "execute" =>
                      JobWaits(stack'[u][n].call, stack'[u][n].job, IF n = Len(stack'[u]) THEN stack'[u][n].at ELSE stack'[u][n].at + 1)
      <3>1. CASE u = t /\ n = L
        BY <1>3, <1>5, <1>6, <3>1
      <3>2. CASE n \in DOMAIN stack[u]
        <4>1. stack'[u][n] = stack[u][n]
          BY <1>6, <3>2
        <4>2. stack[u][n].phase = "execute" => (n = Len(stack'[u]) <=> n = Len(stack[u]))
          <5>1. CASE u = t
            <6>1. DOMAIN stack[t] = 1 .. Len(stack[t]) /\ Len(stack[t]) \in Nat
              BY <1>2, Stack
            <6>2. n # Len(stack'[t])
              BY <1>6, <3>2, <5>1, <6>1
            <6>3. n = Len(stack[t]) => stack[t] # <<>> /\ stack[t][n] = Top(t)
              BY <3>2, <5>1, <6>1, EmptySeq DEF Top
            <6> QED
              BY <5>1, <6>2, <6>3
          <5>2. CASE u # t
            BY <1>6, <5>2
          <5> QED
            BY <5>1, <5>2
        <4> QED
          BY <3>2, <4>1, <4>2 DEF PmapInv, ItemsWait
      <3> QED
        BY <1>6, <3>1, <3>2
    <2>7. \A u \in Thread : \A n \in DOMAIN stack'[u] : stack'[u][n].call \in Pmap
      BY <1>3, <1>5, <1>6, Known
    <2>8. (\A u \in Thread : \A n \in DOMAIN stack[u] :
             /\ stack[u][n].phase = "put" => Waits(stack[u][n].call, stack[u][n].at * Grain(stack[u][n].call), Size(stack[u][n].call))
             /\ stack[u][n].phase = "execute" =>
                  JobWaits(stack[u][n].call, stack[u][n].job, IF n = Len(stack[u]) THEN stack[u][n].at ELSE stack[u][n].at + 1))'
      BY <1>a, <2>1, <2>2, <2>6, <2>7
    <2> QED
      BY <2>4, <2>5, <2>8 DEF ItemsWait
  <1>13. NoneLeft'
    <2> SUFFICES ASSUME NEW u \in Thread, u \in Executor, NEW n \in DOMAIN stack'[u], stack'[u][n].phase = "wait",
                        NEW k \in DOMAIN work_queue'
                 PROVE  work_queue'[k][1] # stack'[u][n].call
      BY DEF NoneLeft, Thread
    <2>1. n \in DOMAIN stack[u] /\ stack'[u][n] = stack[u][n]
      BY <1>5, <1>6
    <2> QED
      BY <1>4, <2>1 DEF PmapInv, NoneLeft
  <1> QED
    BY <1>8, <1>9, <1>10, <1>11, <1>12, <1>13 DEF PmapInv
-----------------------------------------------------------------------------
(* pmap is called: Call, and Nest out of the item an execute is at.        *)

LEMMA CallKeeps ==
  ASSUME PmapInv, NEW t \in Thread, NEW p \in Pmap, result[p] = Unborn,
         Push(t, PmapFrame(p)), result' = [result EXCEPT ![p] = Running],
         UNCHANGED <<program, work_queue, outputs, exceptions, initialized>>,
         stack[t] # <<>> => Executing(t) /\ t \notin Caller,
         t \in Caller => p = program.start[t],
         \A q \in Pmap : \A k \in Items(q) :
           Work(q)[k + 1] = p => stack[t] # <<>> /\ q = Top(t).call /\ k = Top(t).at
  PROVE  PmapInv'
  <1>0. PICK L, f, g : L = Len(stack[t]) + 1 /\ f = Top(t) /\ g = PmapFrame(p)
    OBVIOUS
  <1>1. Typed /\ program \in Programs /\ work_queue \in Seq(Pmap \X Nat)
    BY Known DEF Typed, TypeOK
  <1>2. g \in Frames /\ g.call = p /\ g.job = -1 /\ g.at = 0 /\ g.phase = "put"
    BY <1>0 DEF PmapFrame, Frames
  <1>3. /\ stack' \in [Thread -> Seq(Frames)] /\ L - 1 \in Nat /\ Len(stack'[t]) = L /\ L - 1 = Len(stack[t])
        /\ \A u \in Thread : u # t => Len(stack'[u]) = Len(stack[u])
        /\ L \in DOMAIN stack'[t] /\ stack'[t][L] = g
        /\ \A u \in Thread : \A n \in DOMAIN stack[u] : n \in DOMAIN stack'[u] /\ stack'[u][n] = stack[u][n]
        /\ \A u \in Thread : \A n \in DOMAIN stack'[u] : n \in DOMAIN stack[u] \/ (u = t /\ n = L)
    BY <1>0, <1>1, <1>2, Pushed
  <1>a. /\ \A q \in Pmap : /\ Work(q)' = Work(q) /\ Grain(q)' = Grain(q) /\ Size(q)' = Size(q)
                           /\ Jobs(q)' = Jobs(q) /\ Items(q)' = Items(q)
        /\ \A q, j : End(q, j)' = End(q, j)
    BY SameLists
  \* The item the call is made out of is of the job on top.
  <1>4. stack[t] # <<>> =>
          /\ L - 1 \in DOMAIN stack[t] /\ stack[t][L - 1] = f /\ f.phase = "execute" /\ f.call \in Pmap /\ result[f.call] = Running
          /\ f.job \in Int /\ f.at \in Nat /\ Grain(f.call) \in Nat /\ t \notin Caller /\ f.at < End(f.call, f.job)
          /\ f.job * Grain(f.call) <= f.at /\ f.at < (f.job + 1) * Grain(f.call)
    <2> SUFFICES ASSUME stack[t] # <<>>
                 PROVE  /\ L - 1 \in DOMAIN stack[t] /\ stack[t][L - 1] = f /\ f.phase = "execute" /\ f.call \in Pmap /\ result[f.call] = Running
                        /\ f.job \in Int /\ f.at \in Nat /\ Grain(f.call) \in Nat /\ t \notin Caller /\ f.at < End(f.call, f.job)
                        /\ f.job * Grain(f.call) <= f.at /\ f.at < (f.job + 1) * Grain(f.call)
      OBVIOUS
    <2>1. L - 1 \in DOMAIN stack[t] /\ stack[t][L - 1] = f
      BY <1>0, <1>1, <1>3, Stack
    <2>2. f.phase = "execute" /\ f.at < End(f.call, f.job) /\ t \notin Caller
      BY <1>0 DEF Executing, In
    <2>3. f.call \in Pmap /\ f.job \in Int /\ f.at \in Nat /\ result[f.call] = Running /\ Shaped(t, L - 1)
      BY <2>1, Known
    <2>4. Grain(f.call) \in Nat /\ Size(f.call) \in Nat
      BY <1>1, <2>3, Lists
    <2>5. f.job * Grain(f.call) <= f.at
      BY <2>1, <2>2, <2>3 DEF Shaped
    <2> DEFINE e == (f.job + 1) * Grain(f.call)
    <2>6. e \in Int
      BY <2>3, <2>4
    <2>7. f.at < e
      <3> HIDE DEF e
      <3>1. f.at < IF Size(f.call) < e THEN Size(f.call) ELSE e
        BY <2>2 DEF End, e
      <3> QED
        BY <2>3, <2>4, <2>6, <3>1
    <2> QED
      BY <2>1, <2>2, <2>3, <2>4, <2>5, <2>7
  <1>5. \A q \in Pmap : /\ result[q] = Running => q # p /\ result'[q] = Running
                        /\ result'[q] = Unborn => q # p /\ result[q] = Unborn
    BY <1>1 DEF Typed, TypeOK, Running, Unborn
  <1>6. /\ \A u \in Thread : \A n \in DOMAIN stack[u] : stack[u][n].call \in Pmap /\ stack[u][n].call # p
        /\ \A k \in DOMAIN work_queue : work_queue[k][1] \in Pmap /\ work_queue[k][1] # p
    BY <1>5, Known
  <1>8. Typed'
    <2>1. result' \in [Pmap -> Nat \cup {-3, -2, -1}]
      BY <1>1 DEF Typed, TypeOK, Running
    <2>2. (\A k \in DOMAIN work_queue : work_queue[k][2] \in Jobs(work_queue[k][1]))'
      BY <1>a, <1>6, Known
    <2> QED
      BY <1>1, <1>3, <1>a, <2>1, <2>2 DEF Typed, TypeOK
  <1>9. Shapes'
    <2>1. ASSUME NEW u \in Thread, NEW n \in DOMAIN stack[u] PROVE Shaped(u, n)'
      <3>1. Shaped(u, n) /\ n \in Nat \ {0} /\ stack[u][n].call \in Pmap /\ DOMAIN stack[u] = 1 .. Len(stack[u])
            /\ Len(stack[u]) \in Nat /\ result[stack[u][n].call] = Running
        BY <1>1, Known, Stack
      <3>2. n > 1 => n - 1 \in DOMAIN stack[u]
        BY <3>1
      <3>3. stack'[u][n] = stack[u][n] /\ (n > 1 => stack'[u][n - 1] = stack[u][n - 1])
        BY <1>3, <3>2
      <3>4. n < Len(stack'[u]) /\ stack[u][n].phase = "execute" => stack[u][n].at < End(stack[u][n].call, stack[u][n].job)
        <4>1. CASE u = t /\ n = L - 1
          <5>1. stack[t] # <<>>
            BY <4>1, <3>1, EmptySeq
          <5> QED
            BY <1>4, <4>1, <5>1
        <4>2. CASE u = t /\ n # L - 1
          BY <1>3, <3>1, <4>2 DEF Shaped
        <4>3. CASE u # t
          BY <1>3, <3>1, <4>3 DEF Shaped
        <4> QED
          BY <4>1, <4>2, <4>3
      <3>5. result'[stack[u][n].call] = Running
        BY <1>5, <3>1
      <3> QED
        BY <1>a, <3>1, <3>3, <3>4, <3>5 DEF Shaped
    <2>2. Shaped(t, L)'
      <3>1. L > 1 => stack'[t][L - 1].phase = "execute"
        <4> SUFFICES ASSUME L > 1 PROVE stack'[t][L - 1].phase = "execute"
          OBVIOUS
        <4>1. stack[t] # <<>>
          BY <1>3, EmptySeq
        <4> QED
          BY <1>3, <1>4, <4>1
      <3>2. ~(L < Len(stack'[t]))
        BY <1>3
      <3>3. stack'[t][L] = g /\ result'[p] = Running
        BY <1>1, <1>3 DEF Typed, TypeOK
      <3>4. t \in Caller => L = 1 /\ p = program'.start[t]
        <4>1. t \in Caller => stack[t] = <<>>
          OBVIOUS
        <4> QED
          BY <1>3, <4>1, EmptySeq
      <3> QED
        BY <1>2, <3>1, <3>2, <3>3, <3>4 DEF Shaped
    <2>3. (\A u \in Thread : \A n \in DOMAIN stack[u] : Shaped(u, n))'
      <3> SUFFICES ASSUME NEW u \in Thread, NEW n \in DOMAIN stack'[u] PROVE Shaped(u, n)'
        OBVIOUS
      <3>1. CASE n \in DOMAIN stack[u]
        BY <2>1, <3>1
      <3>2. CASE u = t /\ n = L
        BY <2>2, <3>2
      <3> QED
        BY <1>3, <3>1, <3>2
    <2>4. (\A k \in DOMAIN work_queue : result[work_queue[k][1]] = Running)'
      BY <1>5, <1>6, Known
    <2> QED
      BY <2>3, <2>4 DEF Shapes
  <1>7. outputs[p] = {} /\ outputs' = outputs /\ work_queue' = work_queue
    BY DEF PmapInv, PutInOrder
  <1>10. OnePlace'
    <2>1. (\A k, l \in DOMAIN work_queue : work_queue[k] = work_queue[l] => k = l)'
      BY <1>7 DEF PmapInv, OnePlace
    <2>2. ASSUME NEW u \in Thread, NEW v \in Thread, NEW n \in DOMAIN stack'[u], NEW m \in DOMAIN stack'[v],
                 stack'[u][n].call = stack'[v][m].call, stack'[u][n].job = stack'[v][m].job
          PROVE  u = v /\ n = m
      <3>1. CASE n \in DOMAIN stack[u] /\ m \in DOMAIN stack[v]
        <4>1. Holds(u, n, stack[v][m].call, stack[v][m].job)
          BY <1>3, <2>2, <3>1 DEF Holds
        <4> QED
          BY <3>1, <4>1 DEF PmapInv, OnePlace
      <3>2. CASE n \in DOMAIN stack[u] /\ v = t /\ m = L
        BY <1>2, <1>3, <1>6, <2>2, <3>2
      <3>3. CASE m \in DOMAIN stack[v] /\ u = t /\ n = L
        BY <1>2, <1>3, <1>6, <2>2, <3>3
      <3> QED
        BY <1>3, <3>1, <3>2, <3>3
    <2>3. (\A u \in Thread : \A n \in DOMAIN stack[u] : stack[u][n].job \notin outputs[stack[u][n].call])'
      <3> SUFFICES ASSUME NEW u \in Thread, NEW n \in DOMAIN stack'[u] PROVE stack'[u][n].job \notin outputs'[stack'[u][n].call]
        OBVIOUS
      <3>1. CASE n \in DOMAIN stack[u]
        <4>1. stack'[u][n] = stack[u][n] /\ stack[u][n].job \notin outputs[stack[u][n].call]
          BY <1>3, <3>1 DEF PmapInv, OnePlace
        <4> QED
          BY <1>7, <4>1
      <3>2. CASE u = t /\ n = L
        BY <1>2, <1>3, <1>7, <3>2
      <3> QED
        BY <1>3, <3>1, <3>2
    <2>4. (\A k \in DOMAIN work_queue :
            /\ work_queue[k][2] \notin outputs[work_queue[k][1]]
            /\ \A u \in Thread : \A n \in DOMAIN stack[u] : ~Holds(u, n, work_queue[k][1], work_queue[k][2]))'
      <3> SUFFICES ASSUME NEW k \in DOMAIN work_queue, NEW u \in Thread, NEW n \in DOMAIN stack'[u]
                   PROVE  ~(stack'[u][n].call = work_queue[k][1] /\ stack'[u][n].job = work_queue[k][2])
        BY <1>7 DEF Holds, PmapInv, OnePlace
      <3>1. CASE n \in DOMAIN stack[u]
        BY <1>3, <3>1 DEF PmapInv, OnePlace, Holds
      <3>2. CASE u = t /\ n = L
        BY <1>2, <1>3, <1>6, <3>2
      <3> QED
        BY <1>3, <3>1, <3>2
    <2>5. (\A u, v \in Thread : \A n \in DOMAIN stack[u] : \A m \in DOMAIN stack[v] :
             Holds(u, n, stack[v][m].call, stack[v][m].job) => u = v /\ n = m)'
      BY <2>2 DEF Holds
    <2> QED
      BY <2>1, <2>3, <2>4, <2>5 DEF OnePlace
  <1>11. PutInOrder'
    <2>1. ASSUME NEW u \in Thread, NEW n \in DOMAIN stack'[u], stack'[u][n].phase = "put"
          PROVE  /\ \A j \in outputs[stack'[u][n].call] : j < stack'[u][n].at
                 /\ \A k \in DOMAIN work_queue : work_queue[k][1] = stack'[u][n].call => work_queue[k][2] < stack'[u][n].at
                 /\ \A v \in Thread : \A m \in DOMAIN stack'[v] :
                      stack'[v][m].call = stack'[u][n].call => stack'[v][m].job < stack'[u][n].at
      <3>1. CASE n \in DOMAIN stack[u]
        <4>1. stack'[u][n] = stack[u][n]
          BY <1>3, <3>1
        <4>2. /\ \A j \in outputs[stack[u][n].call] : j < stack[u][n].at
              /\ \A k \in DOMAIN work_queue : work_queue[k][1] = stack[u][n].call => work_queue[k][2] < stack[u][n].at
              /\ \A v \in Thread : \A m \in DOMAIN stack[v] : stack[v][m].call = stack[u][n].call => stack[v][m].job < stack[u][n].at
          BY <2>1, <3>1, <4>1 DEF PmapInv, PutInOrder
        <4>3. g.call # stack[u][n].call
          BY <1>2, <1>6, <3>1
        <4>4. \A v \in Thread : \A m \in DOMAIN stack'[v] : stack'[v][m].call = stack[u][n].call => stack'[v][m].job < stack[u][n].at
          <5> SUFFICES ASSUME NEW v \in Thread, NEW m \in DOMAIN stack'[v], stack'[v][m].call = stack[u][n].call
                       PROVE  stack'[v][m].job < stack[u][n].at
            OBVIOUS
          <5>1. m \in DOMAIN stack[v] /\ stack'[v][m] = stack[v][m]
            BY <1>3, <4>3
          <5> QED
            BY <4>2, <5>1
        <4> QED
          BY <4>1, <4>2, <4>4
      <3>2. CASE u = t /\ n = L
        <4>1. \A v \in Thread : \A m \in DOMAIN stack'[v] : stack'[v][m].call = p => stack'[v][m] = g
          BY <1>3, <1>6
        <4> QED
          BY <1>2, <1>3, <1>6, <1>7, <3>2, <4>1
      <3> QED
        BY <1>3, <3>1, <3>2
    <2>2. (\A q \in Pmap : result[q] = Unborn => outputs[q] = {})'
      BY <1>5, <1>7 DEF PmapInv, PutInOrder
    <2> QED
      BY <1>7, <2>1, <2>2 DEF PutInOrder
  <1>12. ItemsWait'
    \* Only the item the call is made out of does not wait any more.
    <2>1. ASSUME NEW q \in Pmap, NEW from, NEW to, Waits(q, from, to),
                 ~(stack[t] # <<>> /\ q = f.call /\ from <= f.at /\ f.at < to)
          PROVE  Waits(q, from, to)'
      <3> SUFFICES ASSUME NEW k \in Items(q), from <= k, k < to, Work(q)[k + 1] \in Pmap
                   PROVE  result'[Work(q)[k + 1]] = Unborn
        BY <1>a DEF Waits
      <3>1. result[Work(q)[k + 1]] = Unborn
        BY <2>1 DEF Waits
      <3>2. Work(q)[k + 1] # p
        BY <1>0, <2>1
      <3> QED
        BY <1>1, <3>1, <3>2 DEF Typed, TypeOK
    <2>2. ASSUME NEW q \in Pmap, NEW j, NEW from, JobWaits(q, j, from),
                 ~(stack[t] # <<>> /\ q = f.call /\ from <= f.at /\ f.at < (j + 1) * Grain(q))
          PROVE  JobWaits(q, j, from)'
      <3>1. Waits(q, from, (j + 1) * Grain(q))
        BY <2>2 DEF JobWaits
      <3> DEFINE to == (j + 1) * Grain(q)
      <3>2. PICK x : x = (j + 1) * Grain(q)
        OBVIOUS
      <3>3. Waits(q, from, x)'
        BY <2>1, <2>2, <3>1, <3>2
      <3> QED
        BY <1>a, <3>2, <3>3 DEF JobWaits
    <2>3. ASSUME NEW q \in Pmap, result'[q] = Unborn PROVE Waits(q, 0, Size(q))'
      <3>1. PICK x : x = Size(q)
        OBVIOUS
      <3>2. Waits(q, 0, x) /\ (stack[t] # <<>> => q # f.call)
        BY <1>4, <1>5, <2>3, <3>1 DEF PmapInv, ItemsWait, Running, Unborn
      <3>3. Waits(q, 0, x)'
        BY <2>1, <3>2
      <3> QED
        BY <1>a, <3>1, <3>3
    <2>4. ASSUME NEW k \in DOMAIN work_queue
          PROVE  (JobWaits(work_queue[k][1], work_queue[k][2], work_queue[k][2] * Grain(work_queue[k][1])))'
      <3>1. PICK q \in Pmap, j \in Nat : work_queue[k][1] = q /\ work_queue[k][2] = j
        BY Known
      <3>2. PICK x : x = j * Grain(q)
        OBVIOUS
      <3>3. JobWaits(q, j, x)
        BY <3>1, <3>2 DEF PmapInv, ItemsWait
      <3>4. ~(stack[t] # <<>> /\ q = f.call /\ x <= f.at /\ f.at < (j + 1) * Grain(q))
        <4> SUFFICES ASSUME stack[t] # <<>>, q = f.call, x <= f.at, f.at < (j + 1) * Grain(q) PROVE FALSE
          OBVIOUS
        <4>1. j = f.job
          <5>1. PICK w \in Nat : w = Grain(q)
            BY <1>4
          <5>2. /\ j \in Int /\ f.job \in Int /\ f.at \in Int
                /\ f.job * w <= f.at /\ f.at < (f.job + 1) * w /\ j * w <= f.at /\ f.at < (j + 1) * w
            BY <1>4, <3>2, <5>1
          <5> QED
            BY <5>2, InSameJob
        <4>2. Holds(t, L - 1, work_queue[k][1], work_queue[k][2])
          BY <1>4, <3>1, <4>1 DEF Holds
        <4> QED
          BY <1>4, <4>2 DEF PmapInv, OnePlace
      <3>5. JobWaits(q, j, x)'
        BY <2>2, <3>3, <3>4
      <3> QED
        BY <1>7, <1>a, <3>1, <3>2, <3>5
    <2>5. ASSUME NEW u \in Thread, NEW n \in DOMAIN stack'[u]
          PROVE  (/\ stack[u][n].phase = "put" => Waits(stack[u][n].call, stack[u][n].at * Grain(stack[u][n].call), Size(stack[u][n].call))
                  /\ stack[u][n].phase = "execute" =>
                       JobWaits(stack[u][n].call, stack[u][n].job, IF n = Len(stack[u]) THEN stack[u][n].at ELSE stack[u][n].at + 1))'
      <3>1. CASE u = t /\ n = L
        <4>1. PICK x : x = Size(p)
          OBVIOUS
        <4>2. Waits(p, 0, x) /\ (stack[t] # <<>> => p # f.call) /\ Grain(p) \in Nat
          BY <1>1, <1>4, <1>5, <4>1, Lists DEF PmapInv, ItemsWait
        <4>3. Waits(p, 0, x)'
          BY <2>1, <4>2
        <4>4. stack'[u][n].at * Grain(p) = 0
          BY <1>2, <1>3, <3>1, <4>2
        <4> QED
          BY <1>2, <1>3, <1>a, <3>1, <4>1, <4>3, <4>4
      <3>2. CASE n \in DOMAIN stack[u]
        <4>1. PICK h, q, j, a : h = stack[u][n] /\ q = h.call /\ j = h.job /\ a = h.at
          OBVIOUS
        <4>2. /\ stack'[u][n] = h /\ q \in Pmap /\ j \in Int /\ a \in Nat /\ Grain(q) \in Nat /\ Size(q) \in Nat
              /\ h.phase = "execute" => j * Grain(q) <= a
          <5>1. Shaped(u, n) /\ stack'[u][n] = h /\ q \in Pmap /\ j \in Int /\ a \in Nat
            BY <1>3, <3>2, <4>1, Known
          <5> QED
            BY <1>1, <3>2, <4>1, <5>1, Lists DEF Shaped
        <4>3. ASSUME h.phase = "put" PROVE (Waits(stack[u][n].call, stack[u][n].at * Grain(stack[u][n].call), Size(stack[u][n].call)))'
          <5>1. PICK x, y : x = a * Grain(q) /\ y = Size(q)
            OBVIOUS
          <5>2. Waits(q, x, y)
            BY <3>2, <4>1, <4>3, <5>1 DEF PmapInv, ItemsWait
          <5>3. ~(stack[t] # <<>> /\ q = f.call /\ x <= f.at /\ f.at < y)
            <6> SUFFICES ASSUME stack[t] # <<>>, q = f.call, x <= f.at PROVE FALSE
              OBVIOUS
            <6>1. f.job < a
              BY <1>4, <3>2, <4>1, <4>3 DEF PmapInv, PutInOrder
            <6>2. (f.job + 1) * Grain(q) <= a * Grain(q)
              <7>1. f.job \in Int /\ a \in Int /\ Grain(q) \in Nat
                BY <1>4, <4>2, <6>1
              <7> QED
                BY <6>1, <7>1, JobsApart
            <6> DEFINE e == (f.job + 1) * Grain(q)
            <6>3. f.at < e /\ e <= x /\ e \in Int /\ x \in Int
              BY <1>4, <4>2, <5>1, <6>2
            <6> HIDE DEF e
            <6> QED
              BY <1>4, <6>3
          <5>4. Waits(q, x, y)'
            BY <2>1, <4>2, <5>2, <5>3
          <5> QED
            BY <1>a, <4>1, <4>2, <5>1, <5>4
        <4>4. ASSUME h.phase = "execute"
              PROVE  (JobWaits(stack[u][n].call, stack[u][n].job, IF n = Len(stack[u]) THEN stack[u][n].at ELSE stack[u][n].at + 1))'
          <5>1. PICK x : x = IF n = Len(stack[u]) THEN a ELSE a + 1
            OBVIOUS
          <5>2. JobWaits(q, j, x) /\ x \in Nat /\ j * Grain(q) <= x
            <6>1. JobWaits(q, j, x)
              BY <3>2, <4>1, <4>4, <5>1 DEF PmapInv, ItemsWait
            <6> DEFINE e == j * Grain(q)
            <6>2. e \in Int /\ e <= a
              BY <4>2, <4>4
            <6> HIDE DEF e
            <6>3. x \in Nat /\ e <= x
              <7>1. x = a \/ x = a + 1
                BY <5>1
              <7> QED
                BY <4>2, <6>2, <7>1
            <6>4. j * Grain(q) <= x
              BY <6>3 DEF e
            <6> QED
              BY <6>1, <6>3, <6>4, Zenon
          <5>3. CASE u = t /\ n = L - 1
            <6>1. stack[t] # <<>> /\ h = f /\ x = a /\ n # Len(stack'[u])
              BY <1>3, <1>4, <3>2, <4>1, <5>1, <5>3, EmptySeq
            <6>2. JobWaits(q, j, a + 1)
              <7>1. \A k \in Items(q) : a + 1 <= k => x <= k
                BY <4>2, <6>1, <1>1, Lists
              <7> QED
                BY <5>2, <7>1 DEF JobWaits, Waits
            <6>3. ~(a + 1 <= f.at)
              BY <4>1, <4>2, <6>1
            <6>4. JobWaits(q, j, a + 1)'
              <7>1. PICK z : z = a + 1
                OBVIOUS
              <7>2. JobWaits(q, j, z)'
                BY <2>2, <4>2, <6>2, <6>3, <7>1
              <7> QED
                BY <7>1, <7>2
            <6> QED
              BY <4>1, <4>2, <6>1, <6>4
          <5>4. CASE ~(u = t /\ n = L - 1)
            <6>1. n = Len(stack'[u]) <=> n = Len(stack[u])
              <7>1. CASE u = t
                <8>1. n <= Len(stack[t]) /\ n \in Nat
                  BY <3>2, <7>1, Known
                <8> QED
                  BY <1>3, <5>4, <7>1, <8>1
              <7>2. CASE u # t
                BY <1>3, <7>2
              <7> QED
                BY <7>1, <7>2
            <6>2. ~(stack[t] # <<>> /\ q = f.call /\ x <= f.at /\ f.at < (j + 1) * Grain(q))
              <7> SUFFICES ASSUME stack[t] # <<>>, q = f.call, x <= f.at, f.at < (j + 1) * Grain(q) PROVE FALSE
                OBVIOUS
              <7> DEFINE e == j * Grain(q)
              <7>1. e \in Int /\ e <= x
                BY <4>2, <5>2
              <7>2. e <= f.at
                <8> HIDE DEF e
                <8> QED
                  BY <1>4, <5>2, <7>1
              <7>3. j = f.job
                <8>1. PICK w \in Nat : w = Grain(q)
                  BY <4>2
                <8>2. /\ j \in Int /\ f.job \in Int /\ f.at \in Int
                      /\ f.job * w <= f.at /\ f.at < (f.job + 1) * w /\ j * w <= f.at /\ f.at < (j + 1) * w
                  BY <1>4, <4>2, <7>2, <8>1
                <8> QED
                  BY <8>2, InSameJob
              <7>4. Holds(t, L - 1, stack[u][n].call, stack[u][n].job)
                BY <1>4, <4>1, <7>3 DEF Holds
              <7> QED
                BY <1>4, <3>2, <5>4, <7>4 DEF PmapInv, OnePlace
            <6>3. JobWaits(q, j, x)'
              BY <2>2, <4>2, <5>2, <6>2
            <6> QED
              BY <4>1, <4>2, <5>1, <6>1, <6>3
          <5> QED
            BY <5>3, <5>4
        <4> QED
          BY <4>1, <4>2, <4>3, <4>4
      <3> QED
        BY <1>3, <3>1, <3>2
    <2>6. (\A q \in Pmap : result[q] = Unborn => Waits(q, 0, Size(q)))'
      BY <2>3
    <2>7. (\A k \in DOMAIN work_queue :
             JobWaits(work_queue[k][1], work_queue[k][2], work_queue[k][2] * Grain(work_queue[k][1])))'
      BY <1>7, <2>4
    <2> QED
      BY <2>5, <2>6, <2>7 DEF ItemsWait
  <1>13. NoneLeft'
    <2> SUFFICES ASSUME NEW u \in Thread, u \in Executor, NEW n \in DOMAIN stack'[u], stack'[u][n].phase = "wait",
                        NEW k \in DOMAIN work_queue
                 PROVE  work_queue[k][1] # stack'[u][n].call
      BY <1>7 DEF NoneLeft, Thread
    <2>1. n \in DOMAIN stack[u] /\ stack'[u][n] = stack[u][n]
      BY <1>2, <1>3
    <2> QED
      BY <2>1 DEF PmapInv, NoneLeft
  <1> QED
    BY <1>8, <1>9, <1>10, <1>11, <1>12, <1>13 DEF PmapInv
-----------------------------------------------------------------------------
(* A job is done: Output.                                                  *)

LEMMA Popped ==
  ASSUME Typed, NEW t \in Thread, stack[t] # <<>>, stack' = [stack EXCEPT ![t] = Below(t)]
  PROVE  /\ stack' \in [Thread -> Seq(Frames)] /\ Len(stack'[t]) = Len(stack[t]) - 1
         /\ \A u \in Thread : u # t => stack'[u] = stack[u]
         /\ \A u \in Thread : \A n \in DOMAIN stack'[u] :
              n \in DOMAIN stack[u] /\ stack'[u][n] = stack[u][n] /\ ~(u = t /\ n = Len(stack[t]))
  <1>1. PopIs(t)
    BY PopIsPop
  <1>2. Len(stack[t]) \in Nat
    BY Stack
  <1>3. \A u \in Thread : \A n \in DOMAIN stack'[u] :
          n \in DOMAIN stack[u] /\ stack'[u][n] = stack[u][n] /\ ~(u = t /\ n = Len(stack[t]))
    BY <1>1, <1>2 DEF PopIs
  <1> QED
    BY <1>1, <1>3 DEF PopIs

LEMMA OutputKeeps ==
  ASSUME PmapInv, NEW t \in Thread, Output(t)
  PROVE  PmapInv'
  <1>0. PICK L, p, i : L = Len(stack[t]) /\ p = Top(t).call /\ i = Top(t).job
    OBVIOUS
  <1>1. /\ stack[t] # <<>> /\ Top(t).phase = "execute" /\ stack' = [stack EXCEPT ![t] = Below(t)]
        /\ outputs' = [outputs EXCEPT ![p] = outputs[p] \cup {i}]
        /\ UNCHANGED <<program, work_queue, result, exceptions, initialized>>
    BY <1>0 DEF Output, In, Pop
  <1>2. /\ Typed /\ program \in Programs /\ L \in DOMAIN stack[t] /\ L \in Nat /\ DOMAIN stack[t] = 1 .. L
        /\ stack[t][L].call = p /\ stack[t][L].job = i /\ stack[t][L].phase = "execute"
        /\ p \in Pmap /\ result[p] = Running /\ i \in Jobs(p) /\ i \in Int /\ Shaped(t, L)
    <2>1. Typed /\ program \in Programs /\ L \in DOMAIN stack[t] /\ L \in Nat /\ DOMAIN stack[t] = 1 .. L /\ stack[t][L] = Top(t)
      BY <1>0, <1>1, Known, Stack
    <2>2. Shaped(t, L) /\ p \in Pmap /\ result[p] = Running /\ i \in Int
      BY <1>0, <2>1, Known
    <2> QED
      BY <1>0, <1>1, <2>1, <2>2 DEF Shaped
  <1>3. /\ stack' \in [Thread -> Seq(Frames)] /\ Len(stack'[t]) = L - 1
        /\ \A u \in Thread : u # t => stack'[u] = stack[u]
        /\ \A u \in Thread : \A n \in DOMAIN stack'[u] :
             n \in DOMAIN stack[u] /\ stack'[u][n] = stack[u][n] /\ ~(u = t /\ n = L)
    <2>1. /\ stack' \in [Thread -> Seq(Frames)] /\ Len(stack'[t]) = Len(stack[t]) - 1
          /\ \A u \in Thread : u # t => stack'[u] = stack[u]
          /\ \A u \in Thread : \A n \in DOMAIN stack'[u] :
               n \in DOMAIN stack[u] /\ stack'[u][n] = stack[u][n] /\ ~(u = t /\ n = Len(stack[t]))
      BY <1>1, <1>2, Popped, Zenon
    <2> QED
      BY <1>0, <2>1
  <1>a. /\ \A q \in Pmap : /\ Work(q)' = Work(q) /\ Grain(q)' = Grain(q) /\ Size(q)' = Size(q)
                           /\ Jobs(q)' = Jobs(q) /\ Items(q)' = Items(q)
        /\ \A q, j : End(q, j)' = End(q, j)
    BY <1>1, SameLists
  <1>4. \A q \in Pmap : outputs'[q] = IF q = p THEN outputs[p] \cup {i} ELSE outputs[q]
    BY <1>1, <1>2 DEF Typed
  <1>5. /\ \A k \in DOMAIN work_queue : work_queue[k][1] \in Pmap /\ work_queue[k][2] \in Int
        /\ \A u \in Thread : \A n \in DOMAIN stack[u] : stack[u][n].call \in Pmap
    BY Known
  <1>8. Typed'
    <2>1. outputs' \in [Pmap -> SUBSET Int] /\ \A q \in Pmap : outputs'[q] \subseteq Jobs(q)
      BY <1>1, <1>2, <1>4 DEF Typed, TypeOK
    <2>2. (\A k \in DOMAIN work_queue : work_queue[k][2] \in Jobs(work_queue[k][1]))'
      BY <1>1, <1>a, Known
    <2> QED
      BY <1>1, <1>2, <1>3, <1>a, <2>1, <2>2 DEF Typed, TypeOK
  <1>9. Shapes'
    <2>1. ASSUME NEW u \in Thread, NEW n \in DOMAIN stack'[u] PROVE Shaped(u, n)'
      <3>1. Shaped(u, n) /\ n \in Nat \ {0} /\ stack[u][n].call \in Pmap /\ stack'[u][n] = stack[u][n]
        BY <1>2, <1>3, Known
      <3>2. n > 1 => n - 1 \in DOMAIN stack'[u]
        <4>1. stack'[u] \in Seq(Frames)
          BY <1>3
        <4> QED
          BY <3>1, <4>1
      <3>3. n > 1 => stack'[u][n - 1] = stack[u][n - 1]
        BY <1>3, <3>2
      <3>4. n < Len(stack'[u]) => n < Len(stack[u])
        BY <1>0, <1>2, <1>3, <3>1
      <3> QED
        BY <1>1, <1>a, <3>1, <3>3, <3>4 DEF Shaped
    <2>2. (\A k \in DOMAIN work_queue : result[work_queue[k][1]] = Running)'
      BY <1>1, Known
    <2> QED
      BY <2>1, <2>2 DEF Shapes
  <1>10. OnePlace'
    <2>1. (\A k, l \in DOMAIN work_queue : work_queue[k] = work_queue[l] => k = l)'
      BY <1>1 DEF PmapInv, OnePlace
    <2>2. ASSUME NEW u \in Thread, NEW v \in Thread, NEW n \in DOMAIN stack'[u], NEW m \in DOMAIN stack'[v],
                 stack'[u][n].call = stack'[v][m].call, stack'[u][n].job = stack'[v][m].job
          PROVE  u = v /\ n = m
      <3>1. Holds(u, n, stack[v][m].call, stack[v][m].job) /\ n \in DOMAIN stack[u] /\ m \in DOMAIN stack[v]
        BY <1>3, <2>2 DEF Holds
      <3> QED
        BY <3>1 DEF PmapInv, OnePlace
    <2>3. (\A u \in Thread : \A n \in DOMAIN stack[u] : stack[u][n].job \notin outputs[stack[u][n].call])'
      <3> SUFFICES ASSUME NEW u \in Thread, NEW n \in DOMAIN stack'[u] PROVE stack'[u][n].job \notin outputs'[stack'[u][n].call]
        OBVIOUS
      <3>1. stack'[u][n] = stack[u][n] /\ n \in DOMAIN stack[u] /\ ~(u = t /\ n = L) /\ stack[u][n].call \in Pmap
            /\ stack[u][n].job \notin outputs[stack[u][n].call]
        BY <1>3, <1>5 DEF PmapInv, OnePlace
      <3>2. ~(stack[u][n].call = p /\ stack[u][n].job = i)
        <4>1. ~Holds(t, L, stack[u][n].call, stack[u][n].job)
          BY <1>2, <3>1 DEF PmapInv, OnePlace
        <4> QED
          BY <1>2, <4>1 DEF Holds
      <3> QED
        BY <1>4, <3>1, <3>2
    <2>4. (\A k \in DOMAIN work_queue :
            /\ work_queue[k][2] \notin outputs[work_queue[k][1]]
            /\ \A u \in Thread : \A n \in DOMAIN stack[u] : ~Holds(u, n, work_queue[k][1], work_queue[k][2]))'
      <3> SUFFICES ASSUME NEW k \in DOMAIN work_queue
                   PROVE  /\ work_queue[k][2] \notin outputs'[work_queue[k][1]]
                          /\ \A u \in Thread : \A n \in DOMAIN stack'[u] :
                               ~(stack'[u][n].call = work_queue[k][1] /\ stack'[u][n].job = work_queue[k][2])
        BY <1>1 DEF Holds
      <3>1. work_queue[k][2] \notin outputs[work_queue[k][1]]
        BY DEF PmapInv, OnePlace
      <3>2. ~(work_queue[k][1] = p /\ work_queue[k][2] = i)
        BY <1>2 DEF PmapInv, OnePlace, Holds
      <3>3. work_queue[k][2] \notin outputs'[work_queue[k][1]]
        BY <1>4, <1>5, <3>1, <3>2
      <3>4. ASSUME NEW u \in Thread, NEW n \in DOMAIN stack'[u]
            PROVE  ~(stack'[u][n].call = work_queue[k][1] /\ stack'[u][n].job = work_queue[k][2])
        BY <1>3 DEF PmapInv, OnePlace, Holds
      <3> QED
        BY <3>3, <3>4
    <2>5. (\A u, v \in Thread : \A n \in DOMAIN stack[u] : \A m \in DOMAIN stack[v] :
             Holds(u, n, stack[v][m].call, stack[v][m].job) => u = v /\ n = m)'
      BY <2>2 DEF Holds
    <2> QED
      BY <2>1, <2>3, <2>4, <2>5 DEF OnePlace
  <1>11. PutInOrder'
    <2>1. ASSUME NEW u \in Thread, NEW n \in DOMAIN stack'[u], stack'[u][n].phase = "put"
          PROVE  /\ \A j \in outputs'[stack'[u][n].call] : j < stack'[u][n].at
                 /\ \A k \in DOMAIN work_queue : work_queue[k][1] = stack'[u][n].call => work_queue[k][2] < stack'[u][n].at
                 /\ \A v \in Thread : \A m \in DOMAIN stack'[v] :
                      stack'[v][m].call = stack'[u][n].call => stack'[v][m].job < stack'[u][n].at
      <3>1. stack'[u][n] = stack[u][n] /\ n \in DOMAIN stack[u] /\ stack[u][n].call \in Pmap
        BY <1>3, <1>5
      <3>2. /\ \A j \in outputs[stack[u][n].call] : j < stack[u][n].at
            /\ \A k \in DOMAIN work_queue : work_queue[k][1] = stack[u][n].call => work_queue[k][2] < stack[u][n].at
            /\ \A v \in Thread : \A m \in DOMAIN stack[v] : stack[v][m].call = stack[u][n].call => stack[v][m].job < stack[u][n].at
        BY <2>1, <3>1 DEF PmapInv, PutInOrder
      <3>3. p = stack[u][n].call => i < stack[u][n].at
        BY <1>2, <3>2
      <3>4. \A j \in outputs'[stack[u][n].call] : j < stack[u][n].at
        BY <1>4, <3>1, <3>2, <3>3
      <3>5. \A v \in Thread : \A m \in DOMAIN stack'[v] : stack'[v][m].call = stack[u][n].call => stack'[v][m].job < stack[u][n].at
        BY <1>3, <3>2
      <3> QED
        BY <3>1, <3>2, <3>4, <3>5
    <2>2. (\A q \in Pmap : result[q] = Unborn => outputs[q] = {})'
      BY <1>1, <1>2, <1>4 DEF PmapInv, PutInOrder, Running, Unborn
    <2> QED
      BY <1>1, <2>1, <2>2 DEF PutInOrder
  <1>12. ItemsWait'
    <2>1. \A q \in Pmap : \A from, to : Waits(q, from, to)' <=> Waits(q, from, to)
      BY <1>1, <1>a DEF Waits
    <2>2. \A q \in Pmap : \A j, from : JobWaits(q, j, from)' <=> JobWaits(q, j, from)
      BY <1>a, <2>1 DEF JobWaits
    <2>3. \A k \in DOMAIN work_queue : JobWaits(work_queue[k][1], work_queue[k][2], work_queue[k][2] * Grain(work_queue[k][1]))
      BY DEF PmapInv, ItemsWait
    <2>4. (\A k \in DOMAIN work_queue :
             JobWaits(work_queue[k][1], work_queue[k][2], work_queue[k][2] * Grain(work_queue[k][1])))'
      BY <1>1, <1>5, <1>a, <2>2, <2>3
    <2>5. (\A q \in Pmap : result[q] = Unborn => Waits(q, 0, Size(q)))'
      BY <1>1, <1>a, <2>1 DEF PmapInv, ItemsWait
    <2>6. ASSUME NEW u \in Thread, NEW n \in DOMAIN stack'[u]
          PROVE  /\ stack'[u][n].phase = "put" =>
                      Waits(stack'[u][n].call, stack'[u][n].at * Grain(stack'[u][n].call), Size(stack'[u][n].call))
                 /\ stack'[u][n].phase = "execute" =>
                      JobWaits(stack'[u][n].call, stack'[u][n].job, IF n = Len(stack'[u]) THEN stack'[u][n].at ELSE stack'[u][n].at + 1)
      <3>1. stack'[u][n] = stack[u][n] /\ n \in DOMAIN stack[u]
        BY <1>3
      \* What is on top of t's stack now is no job.
      <3>2. stack[u][n].phase = "execute" => (n = Len(stack'[u]) <=> n = Len(stack[u]))
        <4>1. CASE u = t
          <5>1. n = L - 1 => L > 1 /\ stack[t][L - 1].phase # "execute"
            BY <1>2, <3>1, <4>1 DEF Shaped
          <5>2. n # L
            BY <1>3, <4>1
          <5> QED
            BY <1>0, <1>3, <4>1, <5>1, <5>2
        <4>2. CASE u # t
          BY <1>3, <4>2
        <4> QED
          BY <4>1, <4>2
      <3> QED
        BY <3>1, <3>2 DEF PmapInv, ItemsWait
    <2>7. \A u \in Thread : \A n \in DOMAIN stack'[u] : stack'[u][n].call \in Pmap
      BY <1>3, <1>5
    <2>8. (\A u \in Thread : \A n \in DOMAIN stack[u] :
             /\ stack[u][n].phase = "put" => Waits(stack[u][n].call, stack[u][n].at * Grain(stack[u][n].call), Size(stack[u][n].call))
             /\ stack[u][n].phase = "execute" =>
                  JobWaits(stack[u][n].call, stack[u][n].job, IF n = Len(stack[u]) THEN stack[u][n].at ELSE stack[u][n].at + 1))'
      BY <1>a, <2>1, <2>2, <2>6, <2>7
    <2> QED
      BY <2>4, <2>5, <2>8 DEF ItemsWait
  <1>13. NoneLeft'
    <2> SUFFICES ASSUME NEW u \in Thread, u \in Executor, NEW n \in DOMAIN stack'[u], stack'[u][n].phase = "wait",
                        NEW k \in DOMAIN work_queue
                 PROVE  work_queue[k][1] # stack'[u][n].call
      BY <1>1 DEF NoneLeft, Thread
    <2>1. n \in DOMAIN stack[u] /\ stack'[u][n] = stack[u][n]
      BY <1>3
    <2> QED
      BY <2>1 DEF PmapInv, NoneLeft
  <1> QED
    BY <1>8, <1>9, <1>10, <1>11, <1>12, <1>13 DEF PmapInv
-----------------------------------------------------------------------------
(* A call of pmap ends: Finish.                                            *)

LEMMA LeastOf ==
  ASSUME NEW S, S \subseteq Nat, S # {}
  PROVE  \E i \in S : \A j \in S : i <= j
  <1>1. IsWellFoundedOn(OpToRel(<, Nat), Nat)
    BY NatLessThanWellFounded
  <1>2. PICK i \in S : \A j \in S : <<j, i>> \notin OpToRel(<, Nat)
    BY <1>1, WFMin
  <1>3. ASSUME NEW j \in S PROVE i <= j
    <2>1. <<j, i>> \in Nat \X Nat /\ ~(j < i)
      BY <1>2 DEF OpToRel
    <2> QED
      BY <2>1
  <1> QED
    BY <1>3

\* All jobs of p are out when there are as many as it has.
LEMMA AllAreOut ==
  ASSUME Typed, NEW p \in Pmap, AllOut(p)
  PROVE  outputs[p] = Jobs(p)
  <1>1. outputs[p] \subseteq Jobs(p) /\ JobCount(p) \in Int
    BY Lists DEF Typed, TypeOK
  <1>2. CASE JobCount(p) > 0
    <2>1. IsFiniteSet(Jobs(p)) /\ Cardinality(Jobs(p)) = JobCount(p)
      BY <1>1, <1>2, FS_Interval DEF Jobs
    <2>2. Cardinality(outputs[p]) <= Cardinality(Jobs(p)) /\ IsFiniteSet(outputs[p])
      BY <1>1, <2>1, FS_Subset
    <2>3. Cardinality(outputs[p]) = Cardinality(Jobs(p))
      <3>1. Cardinality(outputs[p]) \in Nat
        BY <2>2, FS_CardinalityType
      <3> QED
        BY <1>1, <2>1, <2>2, <3>1 DEF AllOut
    <2> QED
      BY <1>1, <2>1, <2>3, FS_Subset
  <1>3. CASE ~(JobCount(p) > 0)
    <2>1. PICK n \in Int : n = JobCount(p)
      BY <1>1
    <2>2. 0 .. n - 1 = {}
      BY <1>3, <2>1
    <2> QED
      BY <1>1, <2>1, <2>2 DEF Jobs
  <1> QED
    BY <1>2, <1>3

\* t's stack without its last frame, and with the one under it gone on.
LeftIs(t) ==
  /\ stack' \in [Thread -> Seq(Frames)] /\ Len(stack'[t]) = Len(stack[t]) - 1
  /\ \A u \in Thread : u # t => stack'[u] = stack[u]
  /\ \A u \in Thread : \A n \in DOMAIN stack'[u] : n \in DOMAIN stack[u] /\ ~(u = t /\ n = Len(stack[t]))
  /\ \A u \in Thread : \A n \in DOMAIN stack'[u] : u # t \/ n # Len(stack[t]) - 1 => stack'[u][n] = stack[u][n]
  /\ Len(stack[t]) > 1 =>
       LET f == stack[t][Len(stack[t]) - 1]
           g == stack'[t][Len(stack[t]) - 1]
       IN  g.call = f.call /\ g.job = f.job /\ g.phase = f.phase /\ f.phase = "execute" /\ f.at + 1 <= g.at

LEMMA LeaveIs ==
  ASSUME PmapInv, NEW t \in Thread, NEW p \in Pmap, stack[t] # <<>>, Top(t).phase = "wait", Leave(t, p)
  PROVE  /\ LeftIs(t)
         /\ exceptions' \in [Pmap -> SUBSET Int] /\ initialized' \in [Pmap -> SUBSET Int]
         /\ \A q \in Pmap : exceptions'[q] \subseteq Items(q) /\ initialized'[q] \subseteq Items(q)
  <1>0. PICK L : L = Len(stack[t])
    OBVIOUS
  <1>1. /\ Typed /\ program \in Programs /\ L \in Nat \ {0} /\ L \in DOMAIN stack[t] /\ stack[t] \in Seq(Frames)
        /\ stack[t][L].phase = "wait" /\ DOMAIN stack[t] = 1 .. L /\ stack \in [Thread -> Seq(Frames)]
    BY <1>0, Known, Stack DEF Typed, TypeOK
  <1>2. /\ exceptions \in [Pmap -> SUBSET Int] /\ initialized \in [Pmap -> SUBSET Int]
        /\ \A q \in Pmap : exceptions[q] \subseteq Items(q) /\ initialized[q] \subseteq Items(q)
    BY <1>1 DEF Typed, TypeOK
  <1>3. PICK kept : kept = [initialized EXCEPT ![p] = IF exceptions[p] = {} THEN initialized[p] ELSE {}]
    OBVIOUS
  <1>4. kept \in [Pmap -> SUBSET Int] /\ \A q \in Pmap : kept[q] \subseteq Items(q)
    BY <1>2, <1>3
  <1>5. CASE L = 1
    <2>1. stack' = [stack EXCEPT ![t] = <<>>] /\ initialized' = kept /\ exceptions' = exceptions
      BY <1>0, <1>3, <1>5 DEF Leave
    <2>2. stack'[t] = <<>> /\ \A u \in Thread : u # t => stack'[u] = stack[u]
      BY <1>1, <2>1
    <2>3. stack' \in [Thread -> Seq(Frames)]
      BY <1>1, <2>1, EmptySeq
    <2>4. Len(stack'[t]) = 0 /\ DOMAIN stack'[t] = {}
      BY <2>2, EmptySeq
    <2>5. LeftIs(t)
      BY <1>0, <1>1, <1>5, <2>2, <2>3, <2>4 DEF LeftIs
    <2> QED
      BY <1>2, <1>4, <2>1, <2>5
  <1>6. CASE L # 1
    <2>1. PICK c : c = stack[t][L - 1]
      OBVIOUS
    <2>2. L > 1 /\ L - 1 \in DOMAIN stack[t] /\ c \in Frames /\ Below(t)[L - 1] = c
      BY <1>0, <1>1, <1>6, <2>1 DEF Below
    <2>3. c.phase = "execute" /\ c.call \in Pmap /\ c.job \in Int /\ c.at \in Nat /\ c.at < End(c.call, c.job)
      <3>1. Shaped(t, L) /\ Shaped(t, L - 1) /\ c.call \in Pmap /\ c.job \in Int /\ c.at \in Nat
        BY <1>1, <2>1, <2>2, Known
      <3>2. c.phase = "execute"
        BY <1>1, <2>1, <2>2, <3>1 DEF Shaped
      <3> QED
        BY <1>0, <1>1, <2>1, <3>1, <3>2 DEF Shaped
    <2>4. End(c.call, c.job) \in Nat /\ c.at \in Items(c.call)
      <3>1. PICK e : e = (c.job + 1) * Grain(c.call)
        OBVIOUS
      <3>2. e \in Int /\ Size(c.call) \in Nat
        BY <1>1, <2>3, <3>1, Lists
      <3>3. End(c.call, c.job) = IF Size(c.call) < e THEN Size(c.call) ELSE e
        BY <3>1 DEF End
      <3> QED
        BY <2>3, <3>2, <3>3 DEF Items
    <2>5. PICK g : g = IF exceptions[p] = {} THEN Next1(c) ELSE Stopped(c)
      OBVIOUS
    <2>6. g \in Frames /\ g.call = c.call /\ g.job = c.job /\ g.phase = c.phase /\ c.at + 1 <= g.at
      <3>1. CASE exceptions[p] = {}
        BY <2>2, <2>3, <2>5, <3>1 DEF Next1, Frames
      <3>2. CASE exceptions[p] # {}
        BY <2>2, <2>3, <2>4, <2>5, <3>2 DEF Stopped, Frames
      <3> QED
        BY <3>1, <3>2
    <2>7. PICK s : s = SubSeq(stack[t], 1, L - 2)
      OBVIOUS
    <2>8. s \in Seq(Frames) /\ Len(s) = L - 2 /\ \A n \in 1 .. L - 2 : s[n] = stack[t][n]
      BY <1>1, <2>2, <2>7
    <2>9. stack' = [stack EXCEPT ![t] = Append(s, g)]
      BY <1>0, <1>6, <2>2, <2>5, <2>7 DEF Leave
    <2>10. stack'[t] = Append(s, g) /\ stack' \in [Thread -> Seq(Frames)] /\ \A u \in Thread : u # t => stack'[u] = stack[u]
      BY <1>1, <2>6, <2>8, <2>9
    <2>11. Len(stack'[t]) = L - 1 /\ DOMAIN stack'[t] = 1 .. L - 1 /\ stack'[t][L - 1] = g
           /\ \A n \in 1 .. L - 2 : stack'[t][n] = stack[t][n]
      <3>1. PICK r : r = Append(s, g)
        OBVIOUS
      <3>2. Len(r) = Len(s) + 1 /\ DOMAIN r = 1 .. Len(s) + 1 /\ r[Len(s) + 1] = g /\ \A n \in 1 .. Len(s) : r[n] = s[n]
        BY <2>6, <2>8, <3>1
      <3>3. Len(s) + 1 = L - 1 /\ Len(s) = L - 2
        BY <1>1, <2>8
      <3> QED
        BY <2>8, <2>10, <3>1, <3>2, <3>3
    <2>12. LeftIs(t)
      <3>1. \A n \in 1 .. L - 1 : n \in 1 .. L /\ n # L /\ (n # L - 1 => n \in 1 .. L - 2)
        BY <1>1
      <3>2. \A u \in Thread : \A n \in DOMAIN stack'[u] : n \in DOMAIN stack[u] /\ ~(u = t /\ n = L)
        BY <1>1, <2>10, <2>11, <3>1
      <3>3. \A u \in Thread : \A n \in DOMAIN stack'[u] : u # t \/ n # L - 1 => stack'[u][n] = stack[u][n]
        BY <2>10, <2>11, <3>1
      <3> QED
        BY <1>0, <2>1, <2>3, <2>6, <2>10, <2>11, <3>2, <3>3 DEF LeftIs
    <2>13. /\ exceptions' \in [Pmap -> SUBSET Int] /\ initialized' \in [Pmap -> SUBSET Int]
           /\ \A q \in Pmap : exceptions'[q] \subseteq Items(q) /\ initialized'[q] \subseteq Items(q)
      <3>1. c.at \in Int
        BY <2>3
      <3>2. CASE exceptions[p] = {}
        <4>1. exceptions' = exceptions /\ initialized' = [kept EXCEPT ![c.call] = kept[c.call] \cup {c.at}]
          BY <1>0, <1>3, <1>6, <2>2, <3>2 DEF Leave
        <4> QED
          BY <1>2, <1>4, <2>3, <2>4, <3>1, <4>1
      <3>3. CASE exceptions[p] # {}
        <4>1. exceptions' = [exceptions EXCEPT ![c.call] = exceptions[c.call] \cup {c.at}] /\ initialized' = kept
          BY <1>0, <1>3, <1>6, <2>2, <3>3 DEF Leave
        <4> QED
          BY <1>2, <1>4, <2>3, <2>4, <3>1, <4>1
      <3> QED
        BY <3>2, <3>3
    <2> QED
      BY <2>12, <2>13
  <1> QED
    BY <1>5, <1>6
LEMMA FinishKeeps ==
  ASSUME PmapInv, NEW t \in Thread, Finish(t)
  PROVE  PmapInv'
  <1>0. PICK L, p : L = Len(stack[t]) /\ p = Top(t).call
    OBVIOUS
  <1>1. /\ stack[t] # <<>> /\ Top(t).phase = "wait" /\ AllOut(p) /\ Leave(t, p)
        /\ result' = [result EXCEPT ![p] = IF exceptions[p] = {} THEN Returned ELSE Earliest(p)]
        /\ UNCHANGED <<program, work_queue, outputs>>
    BY <1>0 DEF Finish, In
  <1>2. /\ Typed /\ program \in Programs /\ L \in DOMAIN stack[t] /\ L \in Nat /\ DOMAIN stack[t] = 1 .. L
        /\ stack[t][L].call = p /\ stack[t][L].phase = "wait" /\ p \in Pmap /\ result[p] = Running
    <2>1. Typed /\ program \in Programs /\ L \in DOMAIN stack[t] /\ L \in Nat /\ DOMAIN stack[t] = 1 .. L /\ stack[t][L] = Top(t)
      BY <1>0, <1>1, Known, Stack
    <2> QED
      BY <1>0, <1>1, <2>1, Known
  <1>3. /\ exceptions' \in [Pmap -> SUBSET Int] /\ initialized' \in [Pmap -> SUBSET Int]
        /\ \A q \in Pmap : exceptions'[q] \subseteq Items(q) /\ initialized'[q] \subseteq Items(q)
        /\ LeftIs(t)
    BY <1>1, <1>2, LeaveIs
  <1>4. /\ stack' \in [Thread -> Seq(Frames)] /\ Len(stack'[t]) = L - 1
        /\ \A u \in Thread : u # t => stack'[u] = stack[u]
        /\ \A u \in Thread : \A n \in DOMAIN stack'[u] :
             /\ n \in DOMAIN stack[u] /\ ~(u = t /\ n = L)
             /\ u # t \/ n # L - 1 => stack'[u][n] = stack[u][n]
             /\ stack'[u][n].call = stack[u][n].call /\ stack'[u][n].job = stack[u][n].job /\ stack'[u][n].phase = stack[u][n].phase
             /\ stack[u][n].phase # "execute" => stack'[u][n] = stack[u][n]
             /\ u = t /\ n = L - 1 => stack[u][n].at + 1 <= stack'[u][n].at
    <2>1. stack' \in [Thread -> Seq(Frames)] /\ Len(stack'[t]) = L - 1 /\ \A u \in Thread : u # t => stack'[u] = stack[u]
      BY <1>0, <1>3 DEF LeftIs
    <2>2. ASSUME NEW u \in Thread, NEW n \in DOMAIN stack'[u]
          PROVE  /\ n \in DOMAIN stack[u] /\ ~(u = t /\ n = L)
                 /\ u # t \/ n # L - 1 => stack'[u][n] = stack[u][n]
                 /\ stack'[u][n].call = stack[u][n].call /\ stack'[u][n].job = stack[u][n].job /\ stack'[u][n].phase = stack[u][n].phase
                 /\ stack[u][n].phase # "execute" => stack'[u][n] = stack[u][n]
                 /\ u = t /\ n = L - 1 => stack[u][n].at + 1 <= stack'[u][n].at
      <3>1. /\ n \in DOMAIN stack[u] /\ ~(u = t /\ n = L)
            /\ u # t \/ n # L - 1 => stack'[u][n] = stack[u][n]
        BY <1>0, <1>3 DEF LeftIs
      <3>2. CASE u = t /\ n = L - 1
        <4>1. L > 1
          BY <1>2, <3>1, <3>2
        <4> QED
          BY <1>0, <1>3, <3>1, <3>2, <4>1 DEF LeftIs
      <3> QED
        BY <3>1, <3>2
    <2> QED
      BY <2>1, <2>2
  <1>a. /\ \A q \in Pmap : /\ Work(q)' = Work(q) /\ Grain(q)' = Grain(q) /\ Size(q)' = Size(q)
                           /\ Jobs(q)' = Jobs(q) /\ Items(q)' = Items(q)
        /\ \A q, j : End(q, j)' = End(q, j)
    BY <1>1, SameLists
  \* Nobody works for p any more.
  <1>5. outputs[p] = Jobs(p)
    BY <1>1, <1>2, AllAreOut
  <1>6. /\ \A k \in DOMAIN work_queue : work_queue[k][1] # p /\ work_queue[k][1] \in Pmap
        /\ \A u \in Thread : \A n \in DOMAIN stack'[u] : stack[u][n].call # p /\ stack[u][n].call \in Pmap
    <2>1. ASSUME NEW k \in DOMAIN work_queue PROVE work_queue[k][1] # p /\ work_queue[k][1] \in Pmap
      BY <1>5, Known DEF PmapInv, OnePlace
    <2>2. ASSUME NEW u \in Thread, NEW n \in DOMAIN stack'[u] PROVE stack[u][n].call # p /\ stack[u][n].call \in Pmap
      <3>1. n \in DOMAIN stack[u] /\ ~(u = t /\ n = L)
        BY <1>4
      <3>2. CASE stack[u][n].phase = "execute"
        <4>1. stack[u][n].job \in Jobs(stack[u][n].call) /\ stack[u][n].job \notin outputs[stack[u][n].call]
          BY <3>1, <3>2, Known DEF PmapInv, OnePlace, Shaped
        <4> QED
          BY <1>5, <3>1, <4>1, Known
      <3>3. CASE stack[u][n].phase # "execute"
        BY <1>2, <3>1, <3>3, OnePmap, Known
      <3> QED
        BY <3>2, <3>3
    <2> QED
      BY <2>1, <2>2
  <1>7. /\ result' \in [Pmap -> Nat \cup {-3, -2, -1}] /\ result'[p] \notin {Running, Unborn}
        /\ \A q \in Pmap : q # p => result'[q] = result[q]
    <2>1. result \in [Pmap -> Nat \cup {-3, -2, -1}] /\ exceptions[p] \subseteq Nat
      BY <1>2, Lists DEF Typed, TypeOK
    <2>2. exceptions[p] # {} => Earliest(p) \in Nat
      BY <2>1, LeastOf DEF Earliest
    <2> QED
      BY <1>1, <1>2, <2>1, <2>2 DEF Running, Unborn, Returned
  <1>8. Typed'
    <2>1. (\A k \in DOMAIN work_queue : work_queue[k][2] \in Jobs(work_queue[k][1]))'
      BY <1>1, <1>a, Known
    <2> QED
      BY <1>1, <1>2, <1>3, <1>4, <1>7, <1>a, <2>1 DEF Typed, TypeOK
  <1>9. Shapes'
    <2>1. ASSUME NEW u \in Thread, NEW n \in DOMAIN stack'[u] PROVE Shaped(u, n)'
      <3>1. Shaped(u, n) /\ n \in Nat \ {0} /\ stack[u][n].call \in Pmap /\ stack[u][n].at \in Nat /\ n \in DOMAIN stack[u]
            /\ stack[u][n].job \in Int
        BY <1>2, <1>4, Known
      <3>2. n > 1 => n - 1 \in DOMAIN stack'[u]
        <4>1. stack'[u] \in Seq(Frames)
          BY <1>4
        <4> QED
          BY <3>1, <4>1
      <3>3. n > 1 => stack'[u][n - 1].phase = stack[u][n - 1].phase
        BY <1>4, <3>2
      <3>4. /\ stack'[u][n].call = stack[u][n].call /\ stack'[u][n].job = stack[u][n].job /\ stack'[u][n].phase = stack[u][n].phase
            /\ result'[stack[u][n].call] = Running
        BY <1>4, <1>6, <1>7, <3>1 DEF Shaped
      <3>5. n < Len(stack'[u]) => n < Len(stack[u]) /\ stack'[u][n] = stack[u][n]
        BY <1>0, <1>2, <1>4, <3>1
      <3>6. stack[u][n].phase = "execute" => stack[u][n].job * Grain(stack[u][n].call) <= stack'[u][n].at
        <4> SUFFICES ASSUME stack[u][n].phase = "execute" PROVE stack[u][n].job * Grain(stack[u][n].call) <= stack'[u][n].at
          OBVIOUS
        <4>1. PICK x : x = stack[u][n].job * Grain(stack[u][n].call)
          OBVIOUS
        <4>2. x <= stack[u][n].at /\ x \in Int
          <5>1. Grain(stack[u][n].call) \in Nat
            BY <1>2, <3>1, Lists
          <5> QED
            BY <3>1, <4>1, <5>1 DEF Shaped
        <4>3. stack[u][n].at <= stack'[u][n].at /\ stack'[u][n].at \in Nat
          <5>1. stack'[u][n] \in Frames
            BY <1>4
          <5>2. stack'[u][n].at \in Nat
            BY <5>1 DEF Frames
          <5>3. stack'[u][n] = stack[u][n] \/ stack[u][n].at + 1 <= stack'[u][n].at
            BY <1>4
          <5> QED
            BY <3>1, <5>2, <5>3
        <4> QED
          BY <3>1, <4>1, <4>2, <4>3
      <3>7. (IF stack[u][n].phase = "execute"
               THEN stack[u][n].job \in Jobs(stack[u][n].call) /\ stack[u][n].job * Grain(stack[u][n].call) <= stack[u][n].at
               ELSE stack[u][n].job = -1)'
        BY <1>a, <3>1, <3>4, <3>6 DEF Shaped
      <3>8. (n < Len(stack[u]) /\ stack[u][n].phase = "execute" => stack[u][n].at < End(stack[u][n].call, stack[u][n].job))'
        BY <1>a, <3>1, <3>5 DEF Shaped
      <3>9. (n > 1 => (stack[u][n].phase = "execute" <=> stack[u][n - 1].phase # "execute"))'
        BY <3>1, <3>3, <3>4 DEF Shaped
      <3>10. (u \in Caller => n = 1 /\ stack[u][n].call = program.start[u] /\ stack[u][n].phase \in {"put", "wait"})'
        BY <1>1, <3>1, <3>4 DEF Shaped
      <3> QED
        BY <3>4, <3>7, <3>8, <3>9, <3>10 DEF Shaped
    <2>2. (\A k \in DOMAIN work_queue : result[work_queue[k][1]] = Running)'
      BY <1>1, <1>6, <1>7, Known
    <2> QED
      BY <2>1, <2>2 DEF Shapes
  <1>10. OnePlace'
    <2>1. (\A k, l \in DOMAIN work_queue : work_queue[k] = work_queue[l] => k = l)'
      BY <1>1 DEF PmapInv, OnePlace
    <2>2. ASSUME NEW u \in Thread, NEW v \in Thread, NEW n \in DOMAIN stack'[u], NEW m \in DOMAIN stack'[v],
                 stack'[u][n].call = stack'[v][m].call, stack'[u][n].job = stack'[v][m].job
          PROVE  u = v /\ n = m
      <3>1. Holds(u, n, stack[v][m].call, stack[v][m].job) /\ n \in DOMAIN stack[u] /\ m \in DOMAIN stack[v]
        BY <1>4, <2>2 DEF Holds
      <3> QED
        BY <3>1 DEF PmapInv, OnePlace
    <2>3. (\A u \in Thread : \A n \in DOMAIN stack[u] : stack[u][n].job \notin outputs[stack[u][n].call])'
      BY <1>1, <1>4 DEF PmapInv, OnePlace
    <2>4. (\A k \in DOMAIN work_queue :
            /\ work_queue[k][2] \notin outputs[work_queue[k][1]]
            /\ \A u \in Thread : \A n \in DOMAIN stack[u] : ~Holds(u, n, work_queue[k][1], work_queue[k][2]))'
      BY <1>1, <1>4 DEF PmapInv, OnePlace, Holds
    <2>5. (\A u, v \in Thread : \A n \in DOMAIN stack[u] : \A m \in DOMAIN stack[v] :
             Holds(u, n, stack[v][m].call, stack[v][m].job) => u = v /\ n = m)'
      BY <2>2 DEF Holds
    <2> QED
      BY <2>1, <2>3, <2>4, <2>5 DEF OnePlace
  <1>11. PutInOrder'
    <2>1. ASSUME NEW u \in Thread, NEW n \in DOMAIN stack'[u], stack'[u][n].phase = "put"
          PROVE  /\ \A j \in outputs[stack'[u][n].call] : j < stack'[u][n].at
                 /\ \A k \in DOMAIN work_queue : work_queue[k][1] = stack'[u][n].call => work_queue[k][2] < stack'[u][n].at
                 /\ \A v \in Thread : \A m \in DOMAIN stack'[v] :
                      stack'[v][m].call = stack'[u][n].call => stack'[v][m].job < stack'[u][n].at
      <3>1. stack'[u][n] = stack[u][n] /\ n \in DOMAIN stack[u]
        BY <1>4, <2>1
      <3>2. /\ \A j \in outputs[stack[u][n].call] : j < stack[u][n].at
            /\ \A k \in DOMAIN work_queue : work_queue[k][1] = stack[u][n].call => work_queue[k][2] < stack[u][n].at
            /\ \A v \in Thread : \A m \in DOMAIN stack[v] : stack[v][m].call = stack[u][n].call => stack[v][m].job < stack[u][n].at
        BY <2>1, <3>1 DEF PmapInv, PutInOrder
      <3>3. \A v \in Thread : \A m \in DOMAIN stack'[v] : stack'[v][m].call = stack[u][n].call => stack'[v][m].job < stack[u][n].at
        <4> SUFFICES ASSUME NEW v \in Thread, NEW m \in DOMAIN stack'[v], stack'[v][m].call = stack[u][n].call
                     PROVE  stack'[v][m].job < stack[u][n].at
          OBVIOUS
        <4>1. m \in DOMAIN stack[v] /\ stack[v][m].call = stack[u][n].call /\ stack'[v][m].job = stack[v][m].job
          BY <1>4
        <4> QED
          BY <3>2, <4>1
      <3> QED
        BY <3>1, <3>2, <3>3
    <2>2. (\A q \in Pmap : result[q] = Unborn => outputs[q] = {})'
      BY <1>1, <1>7 DEF PmapInv, PutInOrder
    <2> QED
      BY <1>1, <2>1, <2>2 DEF PutInOrder
  <1>12. ItemsWait'
    <2>1. ASSUME NEW q \in Pmap, NEW from, NEW to, Waits(q, from, to) PROVE Waits(q, from, to)'
      <3> SUFFICES ASSUME NEW k \in Items(q), from <= k, k < to, Work(q)[k + 1] \in Pmap
                   PROVE  result'[Work(q)[k + 1]] = Unborn
        BY <1>a DEF Waits
      <3>1. result[Work(q)[k + 1]] = Unborn
        BY <2>1 DEF Waits
      <3> QED
        BY <1>2, <1>7, <3>1 DEF Running, Unborn
    <2>2. ASSUME NEW q \in Pmap, NEW j, NEW from, JobWaits(q, j, from) PROVE JobWaits(q, j, from)'
      <3>1. PICK x : x = (j + 1) * Grain(q)
        OBVIOUS
      <3>2. Waits(q, from, x)
        BY <2>2, <3>1 DEF JobWaits
      <3>3. Waits(q, from, x)'
        BY <2>1, <3>2
      <3> QED
        BY <1>a, <3>1, <3>3 DEF JobWaits
    <2>3. (\A q \in Pmap : result[q] = Unborn => Waits(q, 0, Size(q)))'
      <3> SUFFICES ASSUME NEW q \in Pmap, result'[q] = Unborn PROVE Waits(q, 0, Size(q))'
        OBVIOUS
      <3>1. PICK x : x = Size(q)
        OBVIOUS
      <3>2. Waits(q, 0, x)
        BY <1>7, <3>1 DEF PmapInv, ItemsWait
      <3>3. Waits(q, 0, x)'
        BY <2>1, <3>2
      <3> QED
        BY <1>a, <3>1, <3>3
    <2>4. (\A k \in DOMAIN work_queue :
             JobWaits(work_queue[k][1], work_queue[k][2], work_queue[k][2] * Grain(work_queue[k][1])))'
      <3> SUFFICES ASSUME NEW k \in DOMAIN work_queue
                   PROVE  (JobWaits(work_queue[k][1], work_queue[k][2], work_queue[k][2] * Grain(work_queue[k][1])))'
        BY <1>1
      <3>1. PICK q \in Pmap, j \in Nat : work_queue[k][1] = q /\ work_queue[k][2] = j
        BY Known
      <3>2. PICK x : x = j * Grain(q)
        OBVIOUS
      <3>3. JobWaits(q, j, x)
        BY <3>1, <3>2 DEF PmapInv, ItemsWait
      <3>4. JobWaits(q, j, x)'
        BY <2>2, <3>3
      <3> QED
        BY <1>1, <1>a, <3>1, <3>2, <3>4
    <2>5. ASSUME NEW u \in Thread, NEW n \in DOMAIN stack'[u]
          PROVE  (/\ stack[u][n].phase = "put" => Waits(stack[u][n].call, stack[u][n].at * Grain(stack[u][n].call), Size(stack[u][n].call))
                  /\ stack[u][n].phase = "execute" =>
                       JobWaits(stack[u][n].call, stack[u][n].job, IF n = Len(stack[u]) THEN stack[u][n].at ELSE stack[u][n].at + 1))'
      <3>1. PICK h, q, j, a : h = stack[u][n] /\ q = h.call /\ j = h.job /\ a = h.at
        OBVIOUS
      <3>2. /\ n \in DOMAIN stack[u] /\ q \in Pmap /\ j \in Int /\ a \in Nat
            /\ stack'[u][n].call = q /\ stack'[u][n].job = j /\ stack'[u][n].phase = h.phase
        BY <1>4, <3>1, Known
      <3>3. ASSUME h.phase = "put" PROVE (Waits(stack[u][n].call, stack[u][n].at * Grain(stack[u][n].call), Size(stack[u][n].call)))'
        <4>1. PICK x, y : x = a * Grain(q) /\ y = Size(q)
          OBVIOUS
        <4>2. Waits(q, x, y) /\ stack'[u][n] = h
          BY <1>4, <3>1, <3>2, <3>3, <4>1 DEF PmapInv, ItemsWait
        <4>3. Waits(q, x, y)'
          BY <2>1, <3>2, <4>2
        <4> QED
          BY <1>a, <3>1, <3>2, <4>1, <4>2, <4>3
      <3>4. ASSUME h.phase = "execute"
            PROVE  (JobWaits(stack[u][n].call, stack[u][n].job, IF n = Len(stack[u]) THEN stack[u][n].at ELSE stack[u][n].at + 1))'
        <4>1. PICK x : x = IF n = Len(stack'[u]) THEN stack'[u][n].at ELSE stack'[u][n].at + 1
          OBVIOUS
        <4>2. JobWaits(q, j, x)
          <5>1. PICK y : y = IF n = Len(stack[u]) THEN a ELSE a + 1
            OBVIOUS
          <5>2. JobWaits(q, j, y)
            BY <3>1, <3>2, <3>4, <5>1 DEF PmapInv, ItemsWait
          <5>3. CASE u = t /\ n = L - 1
            <6>1. y = a + 1 /\ x = stack'[u][n].at /\ a + 1 <= x
              BY <1>0, <1>2, <1>4, <3>1, <4>1, <5>1, <5>3
            <6>2. x \in Nat
              <7>1. stack'[u][n] \in Frames
                BY <1>4
              <7> QED
                BY <6>1, <7>1 DEF Frames
            <6>3. \A k \in Items(q) : k \in Nat
              BY <1>2, <3>2, Lists
            <6> QED
              BY <3>2, <5>2, <6>1, <6>2, <6>3 DEF JobWaits, Waits
          <5>4. CASE ~(u = t /\ n = L - 1)
            <6>1. stack'[u][n] = h /\ (n = Len(stack'[u]) <=> n = Len(stack[u]))
              BY <1>0, <1>4, <3>1, <5>4
            <6> QED
              BY <3>1, <4>1, <5>1, <5>2, <6>1
          <5> QED
            BY <5>3, <5>4
        <4>3. JobWaits(q, j, x)'
          BY <2>2, <3>2, <4>2
        <4> QED
          BY <3>2, <4>1, <4>3
      <3> QED
        BY <3>2, <3>3, <3>4
    <2> QED
      BY <2>3, <2>4, <2>5 DEF ItemsWait
  <1>13. NoneLeft'
    <2> SUFFICES ASSUME NEW u \in Thread, u \in Executor, NEW n \in DOMAIN stack'[u], stack'[u][n].phase = "wait",
                        NEW k \in DOMAIN work_queue
                 PROVE  work_queue[k][1] # stack'[u][n].call
      BY <1>1 DEF NoneLeft, Thread
    <2>1. n \in DOMAIN stack[u] /\ stack'[u][n] = stack[u][n]
      BY <1>4
    <2> QED
      BY <2>1 DEF PmapInv, NoneLeft
  <1> QED
    BY <1>8, <1>9, <1>10, <1>11, <1>12, <1>13 DEF PmapInv

-----------------------------------------------------------------------------
(* Every step keeps the invariant.                                         *)

LEMMA PmapStarts == Init => PmapInv
  <1> SUFFICES ASSUME Init PROVE PmapInv
    OBVIOUS
  <1>1. program \in Programs /\ work_queue = <<>> /\ DOMAIN work_queue = {} /\ work_queue \in Seq(Pmap \X Nat)
    BY EmptySeq DEF Init
  <1>2. /\ stack = [t \in Thread |-> <<>>] /\ result = [p \in Pmap |-> Unborn]
        /\ outputs = [p \in Pmap |-> {}] /\ exceptions = [p \in Pmap |-> {}] /\ initialized = [p \in Pmap |-> {}]
    BY DEF Init
  <1>3. \A t \in Thread : stack[t] = <<>> /\ DOMAIN stack[t] = {} /\ stack[t] \in Seq(Frames)
    BY <1>2, EmptySeq
  <1>4. Typed
    <2>1. stack \in [Thread -> Seq(Frames)]
      BY <1>2, <1>3
    <2>2. result \in [Pmap -> Nat \cup {-3, -2, -1}]
      BY <1>2 DEF Unborn
    <2> QED
      BY <1>1, <1>2, <2>1, <2>2 DEF Typed, TypeOK
  <1>5. ItemsWait
    <2>1. ASSUME NEW p \in Pmap PROVE Waits(p, 0, Size(p))
      BY <1>2 DEF Waits
    <2> QED
      BY <1>1, <1>3, <2>1 DEF ItemsWait
  <1>6. Shapes
    BY <1>1, <1>3 DEF Shapes
  <1>7. OnePlace
    BY <1>1, <1>3 DEF OnePlace
  <1>8. PutInOrder
    BY <1>2, <1>3 DEF PutInOrder
  <1>9. NoneLeft
    BY <1>3 DEF NoneLeft, Thread
  <1> QED
    BY <1>4, <1>5, <1>6, <1>7, <1>8, <1>9 DEF PmapInv

LEMMA StepKeeps ==
  ASSUME PmapInv, NEW t \in Thread, Step(t)
  PROVE  PmapInv'
  <1> DEFINE L == Len(stack[t])
             f == Top(t)
  <1>1. /\ Typed /\ program \in Programs
        /\ exceptions \in [Pmap -> SUBSET Int] /\ initialized \in [Pmap -> SUBSET Int]
        /\ \A p \in Pmap : exceptions[p] \subseteq Items(p) /\ initialized[p] \subseteq Items(p)
    BY Known DEF Typed, TypeOK
  <1>2. stack[t] # <<>> =>
          /\ f \in Frames /\ f.call \in Pmap /\ f.job \in Int /\ f.at \in Nat /\ result[f.call] = Running
          /\ t \in Caller => f.phase \in {"put", "wait"}
    <2>1. stack[t] # <<>> => L \in DOMAIN stack[t] /\ f = stack[t][L]
      BY <1>1, Stack
    <2>2. stack[t] # <<>> => Shaped(t, L)
      BY <2>1, Known
    <2> QED
      BY <2>1, <2>2, Known DEF Shaped
  <1>3. t \in Executor => t \notin Caller
    BY PmapAssumption
  \* An execute that is not done is at an item of its job.
  <1>4. Executing(t) =>
          /\ stack[t] # <<>> /\ f.phase = "execute" /\ f.at < End(f.call, f.job) /\ t \notin Caller
          /\ f.at \in Items(f.call) /\ End(f.call, f.job) \in Nat
    <2> SUFFICES ASSUME Executing(t)
                 PROVE  /\ stack[t] # <<>> /\ f.phase = "execute" /\ f.at < End(f.call, f.job) /\ t \notin Caller
                        /\ f.at \in Items(f.call) /\ End(f.call, f.job) \in Nat
      OBVIOUS
    <2>1. stack[t] # <<>> /\ f.phase = "execute" /\ f.at < End(f.call, f.job) /\ t \notin Caller
      BY <1>2 DEF Executing, In
    <2> HIDE DEF f
    <2>2. PICK e : e = (f.job + 1) * Grain(f.call)
      OBVIOUS
    <2>3. e \in Int /\ Size(f.call) \in Nat
      BY <1>1, <1>2, <2>1, <2>2, Lists
    <2>4. End(f.call, f.job) = IF Size(f.call) < e THEN Size(f.call) ELSE e
      BY <2>2 DEF End
    <2> QED
      BY <1>2, <2>1, <2>3, <2>4 DEF Items
  <1>5. CASE Call(t)
    <2>1. PICK p : p = program.start[t]
      OBVIOUS
    <2>2. /\ t \in Caller /\ result[p] = Unborn /\ Push(t, PmapFrame(p)) /\ result' = [result EXCEPT ![p] = Running]
          /\ UNCHANGED <<program, work_queue, outputs, exceptions, initialized>>
      BY <1>5, <2>1 DEF Call
    <2>3. p \in Pmap /\ \A q \in Pmap : \A k \in Items(q) : Work(q)[k + 1] # p
      BY <1>1, <2>1, <2>2, Lists
    <2>4. stack[t] = <<>>
      <3> SUFFICES ASSUME stack[t] # <<>> PROVE FALSE
        OBVIOUS
      <3>1. L \in DOMAIN stack[t]
        BY <1>1, Stack
      <3>2. stack[t][L].call = p /\ result[stack[t][L].call] = Running
        BY <2>1, <2>2, <3>1, Known DEF Shaped
      <3> QED
        BY <2>2, <3>2 DEF Running, Unborn
    <2> QED
      BY <2>1, <2>2, <2>3, <2>4, CallKeeps
  <1>6. CASE Put(t)
    BY <1>6, PutKeeps
  <1>7. CASE AllPut(t)
    <2>1. PICK g : g = [Top(t) EXCEPT !.phase = IF t \in Executor THEN "work" ELSE "wait"]
      OBVIOUS
    <2>2. stack[t] # <<>> /\ Top(t).phase = "put" /\ Replace(t, g) /\ UNCHANGED <<program, work_queue, result, outputs, exceptions, initialized>>
      BY <1>7, <2>1 DEF AllPut, In
    <2>3. GoesOn(Top(t), g) /\ g.phase = IF t \in Executor THEN "work" ELSE "wait"
      BY <1>2, <2>1, <2>2 DEF GoesOn, Frames
    <2>4. (g.phase = "wait" /\ t \in Executor => work_queue = <<>> \/ Top(t).phase = "wait") /\ (t \in Caller => g.phase = "wait")
      BY <1>3, <2>3
    <2>5. /\ exceptions' \in [Pmap -> SUBSET Int] /\ initialized' \in [Pmap -> SUBSET Int]
          /\ \A p \in Pmap : exceptions'[p] \subseteq Items(p) /\ initialized'[p] \subseteq Items(p)
      BY <1>1, <2>2
    <2>6. UNCHANGED <<program, work_queue, result, outputs>>
      BY <2>2
    <2> QED
      BY <2>2, <2>3, <2>4, <2>5, <2>6, GoesOnKeeps
  <1>8. CASE Help(t)
    <2>1. stack[t] # <<>> /\ Top(t).phase = "work" /\ TakeJob(t)
      BY <1>8 DEF Help, In
    <2> QED
      BY <1>2, <2>1, TakeKeeps
  <1>9. CASE Block(t)
    <2>1. PICK g : g = [Top(t) EXCEPT !.phase = "wait"]
      OBVIOUS
    <2>2. stack[t] # <<>> /\ Top(t).phase = "work" /\ work_queue = <<>> /\ Replace(t, g)
          /\ UNCHANGED <<program, work_queue, result, outputs, exceptions, initialized>>
      BY <1>9, <2>1 DEF Block, In
    <2>3. GoesOn(Top(t), g) /\ g.phase = "wait"
      BY <1>2, <2>1, <2>2 DEF GoesOn, Frames
    <2> QED
      BY <1>1, <2>2, <2>3, GoesOnKeeps
  <1>10. CASE Idle(t)
    BY <1>3, <1>10, TakeKeeps DEF Idle
  <1>11. CASE Apply(t)
    <2>1. PICK g : g = Next1(Top(t))
      OBVIOUS
    <2>2. Executing(t) /\ Replace(t, g) /\ UNCHANGED <<program, work_queue, result, outputs, exceptions>>
          /\ initialized' = [initialized EXCEPT ![f.call] = initialized[f.call] \cup {f.at}]
      BY <1>11, <2>1 DEF Apply, Return
    <2>3. GoesOn(Top(t), g) /\ g.phase = "execute"
      BY <1>2, <1>4, <2>1, <2>2 DEF GoesOn, Frames, Next1
    <2>4. initialized' \in [Pmap -> SUBSET Int] /\ \A p \in Pmap : initialized'[p] \subseteq Items(p)
      <3>1. f.at \in Int /\ f.at \in Items(f.call) /\ f.call \in Pmap
        BY <1>2, <1>4, <2>2
      <3> HIDE DEF f
      <3> QED
        BY <1>1, <2>2, <3>1
    <2> QED
      BY <1>1, <1>4, <2>2, <2>3, <2>4, GoesOnKeeps
  <1>12. CASE Fail(t)
    <2>1. PICK g : g = Stopped(Top(t))
      OBVIOUS
    <2>2. Executing(t) /\ Replace(t, g) /\ UNCHANGED <<program, work_queue, result, outputs, initialized>>
          /\ exceptions' = [exceptions EXCEPT ![f.call] = exceptions[f.call] \cup {f.at}]
      BY <1>12, <2>1 DEF Fail, Except
    <2>3. GoesOn(Top(t), g) /\ g.phase = "execute"
      BY <1>2, <1>4, <2>1, <2>2 DEF GoesOn, Frames, Stopped
    <2>4. exceptions' \in [Pmap -> SUBSET Int] /\ \A p \in Pmap : exceptions'[p] \subseteq Items(p)
      <3>1. f.at \in Int /\ f.at \in Items(f.call) /\ f.call \in Pmap
        BY <1>2, <1>4, <2>2
      <3> HIDE DEF f
      <3> QED
        BY <1>1, <2>2, <3>1
    <2> QED
      BY <1>1, <1>4, <2>2, <2>3, <2>4, GoesOnKeeps
  <1>13. CASE Nest(t)
    <2>1. PICK p : p = Work(f.call)[f.at + 1]
      OBVIOUS
    <2>2. /\ Executing(t) /\ p \in Pmap /\ Push(t, PmapFrame(p)) /\ result' = [result EXCEPT ![p] = Running]
          /\ UNCHANGED <<program, work_queue, outputs, exceptions, initialized>>
      BY <1>13, <2>1 DEF Nest, ItemOf
    <2>3. f.at \in Items(f.call) /\ stack[t] # <<>> /\ t \notin Caller /\ f.call \in Pmap
      BY <1>2, <1>4, <2>2
    <2>4. \A q \in Pmap : \A k \in Items(q) : Work(q)[k + 1] = p => q = f.call /\ k = f.at
      <3> HIDE DEF f
      <3> QED
        BY <1>1, <2>1, <2>2, <2>3, Lists
    <2>5. result[p] = Unborn
      <3>1. L \in DOMAIN stack[t] /\ f = stack[t][L] /\ Shaped(t, L)
        BY <1>1, <2>3, Stack, Known
      <3>2. JobWaits(f.call, f.job, f.at)
        BY <1>4, <2>2, <3>1 DEF PmapInv, ItemsWait
      <3> HIDE DEF f, L
      <3>3. PICK e : e = (f.job + 1) * Grain(f.call)
        OBVIOUS
      <3>4. e \in Int /\ Size(f.call) \in Nat
        BY <1>1, <1>2, <2>3, <3>3, Lists
      <3>5. f.at < IF Size(f.call) < e THEN Size(f.call) ELSE e
        BY <1>4, <2>2, <3>3 DEF End
      <3>6. f.at <= f.at /\ f.at < e
        BY <1>2, <2>3, <3>4, <3>5
      <3> QED
        BY <2>1, <2>2, <2>3, <3>2, <3>3, <3>6 DEF JobWaits, Waits
    <2>6. /\ stack[t] # <<>> => Executing(t) /\ t \notin Caller
          /\ t \in Caller => p = program.start[t]
          /\ \A q \in Pmap : \A k \in Items(q) :
               Work(q)[k + 1] = p => stack[t] # <<>> /\ q = Top(t).call /\ k = Top(t).at
      BY <2>2, <2>3, <2>4
    <2> HIDE DEF f, L
    <2> QED
      BY <2>2, <2>5, <2>6, CallKeeps
  <1>14. CASE Output(t)
    BY <1>14, OutputKeeps
  <1>15. CASE Finish(t)
    BY <1>15, FinishKeeps
  <1> QED
    BY <1>5, <1>6, <1>7, <1>8, <1>9, <1>10, <1>11, <1>12, <1>13, <1>14, <1>15 DEF Step

LEMMA StutterKeeps == PmapInv /\ UNCHANGED vars => PmapInv'
  <1> SUFFICES ASSUME PmapInv, UNCHANGED vars PROVE PmapInv'
    OBVIOUS
  <1>1. UNCHANGED <<program, work_queue, stack, result, outputs, exceptions, initialized>>
    BY DEF vars
  <1>2. /\ UNCHANGED program
        /\ \A p : /\ Work(p)' = Work(p) /\ Grain(p)' = Grain(p) /\ Size(p)' = Size(p) /\ JobCount(p)' = JobCount(p)
                  /\ Jobs(p)' = Jobs(p) /\ Items(p)' = Items(p)
        /\ \A p, i : End(p, i)' = End(p, i)
    BY <1>1, SameLists
  <1> QED
    BY <1>1, <1>2 DEF PmapInv, Typed, TypeOK, Shapes, Shaped, OnePlace, Holds, PutInOrder, ItemsWait, JobWaits, Waits, NoneLeft

-----------------------------------------------------------------------------
(* The invariant holds of every execution: who is on the queue or on a     *)
(* stack runs, a job is in one place, calls are made when they are reached *)
(* and once, and an executor that waits has left none of its jobs behind.  *)
THEOREM PmapInvariant == Spec => []PmapInv
  <1>1. Init => PmapInv
    BY PmapStarts
  <1>2. PmapInv /\ [Next]_vars => PmapInv'
    <2> SUFFICES ASSUME PmapInv, [Next]_vars PROVE PmapInv'
      OBVIOUS
    <2>1. CASE \E t \in Thread : Step(t)
      BY <2>1, StepKeeps
    <2>2. CASE AllDone
      BY <2>2, StutterKeeps DEF AllDone
    <2>3. CASE UNCHANGED vars
      BY <2>3, StutterKeeps
    <2> QED
      BY <2>1, <2>2, <2>3 DEF Next
  <1> QED
    BY <1>1, <1>2, PTL DEF Spec

(* "It's OK to block now": an executor that waits for the results of its   *)
(* pmap has left no job of it on the queue, whatever runs beside it.       *)
THEOREM BlockingIsOk == Spec => []BlockedJobsAreTaken
  <1>1. PmapInv => BlockedJobsAreTaken
    <2> SUFFICES ASSUME PmapInv, NEW t \in Executor, stack[t] # <<>>, Top(t).phase = "wait", NEW k \in DOMAIN work_queue
                 PROVE  work_queue[k][1] # Top(t).call
      BY DEF BlockedJobsAreTaken, In
    <2>1. Typed /\ t \in Thread
      BY DEF PmapInv, Thread
    <2>2. Len(stack[t]) \in DOMAIN stack[t] /\ Top(t) = stack[t][Len(stack[t])]
      BY <2>1, Stack
    <2> QED
      BY <2>2 DEF PmapInv, NoneLeft
  <1> QED
    BY <1>1, PmapInvariant, PTL

(* When a call of pmap has returned or raised nobody works for it any      *)
(* more, and no job ever wrote outside of its list.                        *)
THEOREM NobodyWritesAfterTheEnd == Spec => []EndedIsQuiet
  <1>1. PmapInv => EndedIsQuiet
    <2> SUFFICES ASSUME PmapInv PROVE EndedIsQuiet
      OBVIOUS
    <2>1. /\ \A t \in Thread : \A n \in DOMAIN stack[t] : result[stack[t][n].call] = Running
          /\ \A k \in DOMAIN work_queue : result[work_queue[k][1]] = Running
      BY Known
    <2> QED
      BY <2>1 DEF EndedIsQuiet, Ended, PmapInv, Typed
  <1> QED
    BY <1>1, PmapInvariant, PTL

-----------------------------------------------------------------------------
(* What a loop would do.  A call makes calls of lower numbers, so which of *)
(* its items raise is defined from the bottom up.                          *)

Fails(B, p) == {i \in Items(p) : Work(p)[i + 1] = Raise \/ (Work(p)[i + 1] \in Pmap /\ B[Work(p)[i + 1]] # {})}
UpTo(B, n) == B \in [Pmap -> SUBSET Nat] /\ \A p \in Pmap : p < n => B[p] = Fails(B, p)

LEMMA CallsAreLower ==
  ASSUME program \in Programs, NEW p \in Pmap, NEW i \in Items(p), Work(p)[i + 1] \in Pmap
  PROVE  Work(p)[i + 1] < p
  <1>1. \A q \in Pmap : \A k \in DOMAIN program.work[q] : program.work[q][k] \in Pmap => program.work[q][k] < q
    BY ProgramsAssumption
  <1>2. Work(p) \in Seq(Item) /\ Size(p) \in Nat /\ i \in Nat /\ i < Size(p)
    BY Lists
  <1>3. i + 1 \in DOMAIN Work(p)
    BY <1>2 DEF Size
  <1> QED
    BY <1>1, <1>3 DEF Work

LEMMA FailsLower ==
  ASSUME program \in Programs, NEW p \in Pmap, NEW B, NEW C, \A q \in Pmap : q < p => B[q] = C[q]
  PROVE  Fails(B, p) = Fails(C, p)
  <1>1. \A i \in Items(p) : Work(p)[i + 1] \in Pmap => B[Work(p)[i + 1]] = C[Work(p)[i + 1]]
    BY CallsAreLower
  <1> QED
    BY <1>1 DEF Fails

LEMMA FailsAre == ASSUME program \in Programs, NEW p \in Pmap, NEW B PROVE Fails(B, p) \subseteq Nat
  BY Lists DEF Fails

LEMMA PmapIs == \A p \in Pmap : p \in Nat /\ p > 0
  BY PmapAssumption

LEMMA UpToExists ==
  ASSUME program \in Programs
  PROVE  \A n \in Nat : \E B : UpTo(B, n)
  <1> DEFINE S == {n \in Nat : ~\E B : UpTo(B, n)}
  <1>1. SUFFICES ASSUME S # {} PROVE FALSE
    OBVIOUS
  <1>2. PICK m \in S : \A n \in S : m <= n
    BY <1>1, LeastOf
  <1>3. m \in Nat /\ ~\E B : UpTo(B, m)
    OBVIOUS
  <1>4. CASE m = 0
    <2>1. UpTo([p \in Pmap |-> {}], 0)
      BY PmapIs DEF UpTo
    <2> QED
      BY <1>3, <1>4, <2>1
  <1>5. CASE m # 0
    <2>1. m - 1 \in Nat /\ m - 1 \notin S
      BY <1>2, <1>3, <1>5
    <2>2. PICK B : UpTo(B, m - 1)
      BY <2>1
    <2>3. PICK C : C = [p \in Pmap |-> Fails(B, p)]
      OBVIOUS
    <2>4. C \in [Pmap -> SUBSET Nat]
      BY <2>3, FailsAre
    <2>5. ASSUME NEW p \in Pmap, p < m
          PROVE  C[p] = Fails(C, p)
      <3>1. \A q \in Pmap : q < p => B[q] = C[q]
        <4> SUFFICES ASSUME NEW q \in Pmap, q < p PROVE B[q] = C[q]
          OBVIOUS
        <4>1. q < m - 1
          BY <1>3, <2>5, PmapIs
        <4> QED
          BY <2>2, <2>3, <4>1 DEF UpTo
      <3>2. Fails(B, p) = Fails(C, p)
        BY <3>1, FailsLower
      <3> QED
        BY <2>3, <3>2
    <2>6. UpTo(C, m)
      BY <2>4, <2>5 DEF UpTo
    <2> QED
      BY <1>3, <2>6
  <1> QED
    BY <1>4, <1>5

LEMMA UpToUnique ==
  ASSUME program \in Programs, NEW n \in Nat, NEW B, NEW C, UpTo(B, n), UpTo(C, n)
  PROVE  \A p \in Pmap : p < n => B[p] = C[p]
  <1> DEFINE S == {p \in Pmap : p < n /\ B[p] # C[p]}
  <1>1. SUFFICES ASSUME S # {} PROVE FALSE
    OBVIOUS
  <1>2. S \subseteq Nat
    BY PmapIs
  <1>3. PICK p \in S : \A q \in S : p <= q
    BY <1>1, <1>2, LeastOf
  <1>4. p \in Pmap /\ p < n /\ B[p] # C[p]
    OBVIOUS
  <1>5. \A q \in Pmap : q < p => B[q] = C[q]
    <2> SUFFICES ASSUME NEW q \in Pmap, q < p PROVE B[q] = C[q]
      OBVIOUS
    <2>1. q \in Nat /\ p \in Nat /\ q < n /\ ~(p <= q)
      BY <1>4, PmapIs
    <2>2. q \notin S
      BY <1>3, <2>1
    <2> QED
      BY <2>1, <2>2
  <1>6. Fails(B, p) = Fails(C, p)
    BY <1>4, <1>5, FailsLower
  <1> QED
    BY <1>4, <1>6 DEF UpTo

LEMMA FailingIs ==
  ASSUME program \in Programs
  PROVE  \A p \in Pmap : Failing[p] = Fails(Failing, p)
  <1> DEFINE Up(p) == CHOOSE B : UpTo(B, p + 1)
  <1>1. \A p \in Pmap : UpTo(Up(p), p + 1)
    <2> SUFFICES ASSUME NEW p \in Pmap PROVE UpTo(Up(p), p + 1)
      OBVIOUS
    <2>1. p + 1 \in Nat
      BY PmapIs
    <2> QED
      BY <2>1, UpToExists
  <1> HIDE DEF Up
  <1>2. PICK D : D = [p \in Pmap |-> Up(p)[p]]
    OBVIOUS
  <1>3. ASSUME NEW p \in Pmap PROVE D[p] = Fails(D, p)
    <2>1. \A q \in Pmap : q < p => D[q] = Up(p)[q]
      <3> SUFFICES ASSUME NEW q \in Pmap, q < p PROVE D[q] = Up(p)[q]
        OBVIOUS
      <3>1. p \in Nat /\ q \in Nat
        BY PmapIs
      <3>2. UpTo(Up(q), q + 1) /\ UpTo(Up(p), p + 1)
        BY <1>1
      <3>3. \A r \in Pmap : r < q + 1 => r < p + 1
        BY <3>1, PmapIs
      <3>4. UpTo(Up(p), q + 1)
        BY <3>2, <3>3 DEF UpTo
      <3>5. q + 1 \in Nat /\ q < q + 1
        BY <3>1
      <3>6. Up(q)[q] = Up(p)[q]
        BY <3>2, <3>4, <3>5, UpToUnique
      <3> QED
        BY <1>2, <3>6
    <2>2. Up(p)[p] = Fails(Up(p), p)
      <3>1. p < p + 1
        BY PmapIs
      <3> QED
        BY <1>1, <3>1 DEF UpTo
    <2> QED
      BY <1>2, <2>1, <2>2, FailsLower
  <1>4. D = [p \in Pmap |-> {i \in Items(p) : Work(p)[i + 1] = Raise \/ (Work(p)[i + 1] \in Pmap /\ D[Work(p)[i + 1]] # {})}]
    <2>1. D = [p \in Pmap |-> D[p]]
      BY <1>2
    <2> QED
      BY <1>3, <2>1 DEF Fails
  <1>5. Failing = [p \in Pmap |-> {i \in Items(p) : Work(p)[i + 1] = Raise \/ (Work(p)[i + 1] \in Pmap /\ Failing[Work(p)[i + 1]] # {})}]
    BY <1>4 DEF Failing
  <1> QED
    BY <1>5 DEF Fails

\* An item is done when it is in the result, or one that is not after it raised.
Covered(p, k) == k \in initialized[p] \/ \E x \in exceptions[p] : x <= k
CoveredBetween(p, from, to) == \A k \in Items(p) : from <= k /\ k < to => Covered(p, k)

\* Only items that raise in the loop are blamed or missing, every job that is
\* out and every job so far has done its items, and a pmap on an execute is what
\* its item calls.
Blamed ==
  \A p \in Pmap : /\ exceptions[p] \subseteq Failing[p]
                  /\ result[p] \in {Unborn, Running} => initialized[p] \cap Failing[p] = {}
OutputsDone ==
  \A p \in Pmap : result[p] = Running => \A i \in outputs[p] : CoveredBetween(p, i * Grain(p), (i + 1) * Grain(p))
JobsDone ==
  \A t \in Thread : \A n \in DOMAIN stack[t] :
    LET f == stack[t][n] IN f.phase = "execute" => CoveredBetween(f.call, f.job * Grain(f.call), f.at)
CallsNamed ==
  \A t \in Thread : \A n \in DOMAIN stack[t] :
    n > 1 /\ stack[t][n].phase # "execute" => ItemOf(stack[t][n - 1]) = stack[t][n].call

LoopInv == Blamed /\ OutputsDone /\ JobsDone /\ CallsNamed /\ LikeALoop

-----------------------------------------------------------------------------
(* Steps by which no item gets done.                                       *)

LEMMA SameFailing == ASSUME UNCHANGED program PROVE Failing' = Failing
  BY DEF Failing, Items, Size, Work

LEMMA SameItems ==
  ASSUME UNCHANGED program
  PROVE  /\ \A p : Items(p)' = Items(p) /\ Grain(p)' = Grain(p)
         /\ \A f : ItemOf(f)' = ItemOf(f)
  BY SameLists DEF ItemOf, Work

LEMMA SameCovered ==
  ASSUME UNCHANGED <<program, exceptions, initialized>>
  PROVE  \A p : \A from, to : CoveredBetween(p, from, to)' <=> CoveredBetween(p, from, to)
  BY SameItems DEF CoveredBetween, Covered

LEMMA JobsDoneNext ==
  ASSUME UNCHANGED program,
         \A u \in Thread : \A n \in DOMAIN stack'[u] : stack'[u][n].phase = "execute" =>
           \A p, from, to : p = stack'[u][n].call /\ from = stack'[u][n].job * Grain(p) /\ to = stack'[u][n].at =>
             CoveredBetween(p, from, to)'
  PROVE  JobsDone'
  <1>1. \A p : Grain(p)' = Grain(p)
    BY SameItems
  <1> QED
    BY <1>1 DEF JobsDone

LEMMA CallsNamedNext ==
  ASSUME UNCHANGED program,
         \A u \in Thread : \A n \in DOMAIN stack'[u] :
           n > 1 /\ stack'[u][n].phase # "execute" => ItemOf(stack'[u][n - 1]) = stack'[u][n].call
  PROVE  CallsNamed'
  BY DEF CallsNamed, ItemOf, Work

LEMMA QuietKeeps ==
  ASSUME PmapInv, LoopInv, UNCHANGED <<program, outputs, exceptions, initialized>>,
         \A p \in Pmap : result'[p] = result[p] \/ (result[p] = Unborn /\ result'[p] = Running),
         JobsDone', CallsNamed'
  PROVE  LoopInv'
  <1>1. Failing' = Failing
    BY SameFailing
  <1>2. Blamed'
    BY <1>1 DEF LoopInv, Blamed, Running, Unborn
  <1>3. OutputsDone'
    <2> SUFFICES ASSUME NEW p \in Pmap, result'[p] = Running, NEW i \in outputs[p]
                 PROVE  CoveredBetween(p, i * Grain(p), (i + 1) * Grain(p))'
      BY DEF OutputsDone
    <2>1. result[p] = Running
      BY DEF PmapInv, PutInOrder, Running, Unborn
    <2>2. CoveredBetween(p, i * Grain(p), (i + 1) * Grain(p))
      BY <2>1 DEF LoopInv, OutputsDone
    <2>3. Grain(p)' = Grain(p)
      BY SameItems
    <2> QED
      BY <2>2, <2>3, SameCovered
  <1>4. LikeALoop'
    <2> SUFFICES ASSUME NEW p \in Pmap, Ended(p)'
                 PROVE  (IF Failing[p] = {} THEN result[p] = Returned /\ initialized[p] = Items(p)
                         ELSE result[p] \in Failing[p] /\ (\A i \in Failing[p] : result[p] <= i) /\ initialized[p] = {})'
      BY DEF LikeALoop
    <2>1. result'[p] = result[p] /\ Ended(p)
      BY DEF Ended, Running, Unborn
    <2>2. Items(p)' = Items(p)
      BY SameItems
    <2> QED
      BY <1>1, <2>1, <2>2 DEF LoopInv, LikeALoop
  <1> QED
    BY <1>2, <1>3, <1>4 DEF LoopInv

LEMMA PushedLoop ==
  ASSUME PmapInv, LoopInv, NEW t \in Thread, NEW g \in Frames, Push(t, g), UNCHANGED <<program, exceptions, initialized>>,
         g.phase = "execute" => g.at = g.job * Grain(g.call),
         g.phase # "execute" /\ stack[t] # <<>> => ItemOf(Top(t)) = g.call
  PROVE  JobsDone' /\ CallsNamed'
  <1>1. /\ Typed /\ program \in Programs /\ Len(stack[t]) \in Nat
        /\ Len(stack[t]) + 1 \in DOMAIN stack'[t] /\ stack'[t][Len(stack[t]) + 1] = g
        /\ \A u \in Thread : \A n \in DOMAIN stack[u] : n \in DOMAIN stack'[u] /\ stack'[u][n] = stack[u][n]
        /\ \A u \in Thread : \A n \in DOMAIN stack'[u] : n \in DOMAIN stack[u] \/ (u = t /\ n = Len(stack[t]) + 1)
    BY Known, Pushed
  <1>2. JobsDone'
    <2> SUFFICES ASSUME NEW u \in Thread, NEW n \in DOMAIN stack'[u], stack'[u][n].phase = "execute",
                        NEW p, p = stack'[u][n].call, NEW from, from = stack'[u][n].job * Grain(p),
                        NEW to, to = stack'[u][n].at
                 PROVE  CoveredBetween(p, from, to)'
      BY JobsDoneNext
    <2>2. CASE n \in DOMAIN stack[u]
      <3>1. CoveredBetween(stack[u][n].call, stack[u][n].job * Grain(stack[u][n].call), stack[u][n].at)
        BY <1>1, <2>2 DEF LoopInv, JobsDone
      <3>2. stack'[u][n] = stack[u][n]
        BY <1>1, <2>2
      <3> QED
        BY <3>1, <3>2, SameCovered
    <2>3. CASE u = t /\ n = Len(stack[t]) + 1
      <3>1. stack'[u][n] = g /\ g.at \in Nat /\ g.call \in Pmap
        BY <1>1, <2>3 DEF Frames
      <3>2. PICK a : a = g.at
        OBVIOUS
      <3>3. \A k \in Items(g.call) : k \in Nat
        BY <1>1, <3>1, Lists
      <3>4. CoveredBetween(g.call, a, a)
        BY <3>1, <3>2, <3>3 DEF CoveredBetween
      <3> QED
        BY <3>1, <3>2, <3>4, SameCovered
    <2> QED
      BY <1>1, <2>2, <2>3
  <1>3. CallsNamed'
    <2> SUFFICES ASSUME NEW u \in Thread, NEW n \in DOMAIN stack'[u], n > 1, stack'[u][n].phase # "execute"
                 PROVE  ItemOf(stack'[u][n - 1]) = stack'[u][n].call
      BY CallsNamedNext
    <2>2. CASE n \in DOMAIN stack[u]
      <3>1. n - 1 \in DOMAIN stack[u]
        BY <1>1, <2>2, Stack
      <3>2. stack'[u][n] = stack[u][n] /\ stack'[u][n - 1] = stack[u][n - 1]
        BY <1>1, <2>2, <3>1
      <3> QED
        BY <2>2, <3>2 DEF LoopInv, CallsNamed
    <2>3. CASE u = t /\ n = Len(stack[t]) + 1
      <3>1. stack'[u][n] = g /\ n - 1 = Len(stack[t])
        BY <1>1, <2>3
      <3>2. n - 1 # 0
        OBVIOUS
      <3>3. stack[t] # <<>> /\ Len(stack[t]) \in DOMAIN stack[t] /\ Top(t) = stack[t][n - 1]
        BY <1>1, <3>1, <3>2, Stack, EmptySeq
      <3>4. stack'[u][n - 1] = Top(t)
        BY <1>1, <2>3, <3>1, <3>3
      <3> QED
        BY <3>1, <3>3, <3>4
    <2> QED
      BY <1>1, <2>2, <2>3
  <1> QED
    BY <1>2, <1>3

\* A pmap goes on.
LEMMA PmapGoesOn ==
  ASSUME PmapInv, LoopInv, NEW t \in Thread, stack[t] # <<>>, NEW g \in Frames, Replace(t, g),
         Top(t).phase # "execute", g.phase # "execute", g.call = Top(t).call,
         UNCHANGED <<program, result, outputs, exceptions, initialized>>
  PROVE  LoopInv'
  <1>1. Typed /\ TopIs(t, Len(stack[t]), g)
    BY Known, ReplaceIs
  <1>2. /\ \A u \in Thread : DOMAIN stack'[u] = DOMAIN stack[u]
        /\ stack'[t][Len(stack[t])] = g /\ stack[t][Len(stack[t])] = Top(t)
        /\ \A u \in Thread : \A n \in DOMAIN stack[u] : u # t \/ n # Len(stack[t]) => stack'[u][n] = stack[u][n]
    BY <1>1, Replaced
  <1>3. JobsDone'
    <2> SUFFICES ASSUME NEW u \in Thread, NEW n \in DOMAIN stack'[u], stack'[u][n].phase = "execute",
                        NEW p, p = stack'[u][n].call, NEW from, from = stack'[u][n].job * Grain(p),
                        NEW to, to = stack'[u][n].at
                 PROVE  CoveredBetween(p, from, to)'
      BY JobsDoneNext
    <2>1. n \in DOMAIN stack[u] /\ stack'[u][n] = stack[u][n]
      BY <1>2
    <2>2. CoveredBetween(stack[u][n].call, stack[u][n].job * Grain(stack[u][n].call), stack[u][n].at)
      BY <2>1 DEF LoopInv, JobsDone
    <2> QED
      BY <2>1, <2>2, SameCovered
  <1>4. CallsNamed'
    <2> SUFFICES ASSUME NEW u \in Thread, NEW n \in DOMAIN stack'[u], n > 1, stack'[u][n].phase # "execute"
                 PROVE  ItemOf(stack'[u][n - 1]) = stack'[u][n].call
      BY CallsNamedNext
    <2>1. n \in DOMAIN stack[u] /\ n - 1 \in DOMAIN stack[u] /\ (u = t => n - 1 # Len(stack[t]))
      BY <1>1, <1>2, Stack
    <2>2. stack'[u][n - 1] = stack[u][n - 1] /\ stack'[u][n].call = stack[u][n].call /\ stack[u][n].phase # "execute"
      BY <1>2, <2>1
    <2> QED
      BY <2>1, <2>2 DEF LoopInv, CallsNamed
  <1> QED
    BY <1>3, <1>4, QuietKeeps

-----------------------------------------------------------------------------
(* Steps by which items get done: Apply, Fail and Output.                  *)

LEMMA GrowCovered ==
  ASSUME UNCHANGED program, NEW p, initialized[p] \subseteq initialized'[p], exceptions[p] \subseteq exceptions'[p]
  PROVE  /\ \A k : Covered(p, k) => Covered(p, k)'
         /\ \A from, to : CoveredBetween(p, from, to) => CoveredBetween(p, from, to)'
  <1>1. \A k : Covered(p, k) => Covered(p, k)'
    BY DEF Covered
  <1> QED
    BY <1>1, SameItems DEF CoveredBetween

\* An item raises in the loop if it does, or if the call it makes has one that does.
LEMMA ItemFails ==
  ASSUME program \in Programs, NEW p \in Pmap, NEW i \in Items(p)
  PROVE  i \in Failing[p] <=> Work(p)[i + 1] = Raise \/ (Work(p)[i + 1] \in Pmap /\ Failing[Work(p)[i + 1]] # {})
  BY FailingIs DEF Fails

LEMMA ItemKeeps ==
  ASSUME PmapInv, LoopInv, NEW t \in Thread, Executing(t), NEW f, f = Top(t),
         NEW g \in Frames, Replace(t, g), g.call = f.call, g.job = f.job, g.phase = "execute",
         UNCHANGED <<program, result, outputs>>,
         \A p \in Pmap : initialized[p] \subseteq initialized'[p] /\ exceptions[p] \subseteq exceptions'[p],
         \A p \in Pmap : p # f.call => initialized'[p] = initialized[p] /\ exceptions'[p] = exceptions[p],
         Blamed',
         \A k \in Items(f.call) : f.at <= k /\ k < g.at => Covered(f.call, k)'
  PROVE  LoopInv'
  <1>0. PICK L : L = Len(stack[t])
    OBVIOUS
  <1>1. /\ Typed /\ program \in Programs /\ stack[t] # <<>> /\ L \in Nat /\ L \in DOMAIN stack[t] /\ stack[t][L] = f
        /\ f.phase = "execute" /\ f.call \in Pmap /\ f.at \in Nat /\ g.at \in Nat /\ result[f.call] = Running
    <2>1. Typed /\ program \in Programs /\ stack[t] # <<>> /\ f.phase = "execute"
      BY Known DEF Executing, In
    <2>2. L \in Nat /\ L \in DOMAIN stack[t] /\ stack[t][L] = f
      BY <1>0, <2>1, Stack
    <2> QED
      BY <2>1, <2>2, Known DEF Frames
  <1>2. /\ \A u \in Thread : DOMAIN stack'[u] = DOMAIN stack[u]
        /\ stack'[t][L] = g
        /\ \A u \in Thread : \A n \in DOMAIN stack[u] : u # t \/ n # L => stack'[u][n] = stack[u][n]
    <2>1. TopIs(t, Len(stack[t]), g)
      BY <1>1, ReplaceIs
    <2>2. /\ \A u \in Thread : DOMAIN stack'[u] = DOMAIN stack[u]
          /\ stack'[t][Len(stack[t])] = g
          /\ \A u \in Thread : \A n \in DOMAIN stack[u] : u # t \/ n # Len(stack[t]) => stack'[u][n] = stack[u][n]
      BY <1>1, <2>1, Replaced
    <2> QED
      BY <1>0, <2>2
  <1>3. Failing' = Failing
    BY SameFailing
  <1>4. OutputsDone'
    <2> SUFFICES ASSUME NEW p \in Pmap, result[p] = Running, NEW i \in outputs[p]
                 PROVE  CoveredBetween(p, i * Grain(p), (i + 1) * Grain(p))'
      BY DEF OutputsDone
    <2>1. CoveredBetween(p, i * Grain(p), (i + 1) * Grain(p))
      BY DEF LoopInv, OutputsDone
    <2>2. Grain(p)' = Grain(p)
      BY SameItems
    <2> QED
      BY <2>1, <2>2, GrowCovered
  <1>5. JobsDone'
    <2> SUFFICES ASSUME NEW u \in Thread, NEW n \in DOMAIN stack'[u], stack'[u][n].phase = "execute",
                        NEW p, p = stack'[u][n].call, NEW from, from = stack'[u][n].job * Grain(p),
                        NEW to, to = stack'[u][n].at
                 PROVE  CoveredBetween(p, from, to)'
      BY JobsDoneNext
    <2>1. CASE u = t /\ n = L
      <3>1. p = f.call /\ from = f.job * Grain(p) /\ to = g.at /\ p \in Pmap
        BY <1>1, <1>2, <2>1
      <3>2. CoveredBetween(p, from, f.at)
        BY <1>1, <3>1 DEF LoopInv, JobsDone
      <3>3. ASSUME NEW k \in Items(p), from <= k, k < to
            PROVE  Covered(p, k)'
        <4>1. k \in Nat
          BY <1>1, <3>1, Lists
        <4>2. CASE k < f.at
          <5>1. Covered(p, k)
            BY <3>2, <3>3, <4>2 DEF CoveredBetween
          <5> QED
            BY <3>1, <5>1, GrowCovered
        <4>3. CASE f.at <= k
          BY <3>1, <3>3, <4>3
        <4> QED
          BY <1>1, <4>1, <4>2, <4>3
      <3> QED
        BY <3>3, SameItems DEF CoveredBetween
    <2>2. CASE ~(u = t /\ n = L)
      <3>1. n \in DOMAIN stack[u] /\ stack'[u][n] = stack[u][n]
        BY <1>2, <2>2
      <3>2. CoveredBetween(p, from, to) /\ p \in Pmap
        BY <3>1, Known DEF LoopInv, JobsDone
      <3> QED
        BY <3>2, GrowCovered
    <2> QED
      BY <2>1, <2>2
  <1>6. CallsNamed'
    <2> SUFFICES ASSUME NEW u \in Thread, NEW n \in DOMAIN stack'[u], n > 1, stack'[u][n].phase # "execute"
                 PROVE  ItemOf(stack'[u][n - 1]) = stack'[u][n].call
      BY CallsNamedNext
    <2>1. n \in DOMAIN stack[u] /\ n - 1 \in DOMAIN stack[u] /\ (u = t => n # L /\ n - 1 # L)
      BY <1>0, <1>1, <1>2, Stack
    <2>2. stack'[u][n - 1] = stack[u][n - 1] /\ stack'[u][n] = stack[u][n]
      BY <1>2, <2>1
    <2> QED
      BY <2>1, <2>2 DEF LoopInv, CallsNamed
  <1>7. LikeALoop'
    <2> SUFFICES ASSUME NEW p \in Pmap, Ended(p)'
                 PROVE  (IF Failing[p] = {} THEN result[p] = Returned /\ initialized[p] = Items(p)
                         ELSE result[p] \in Failing[p] /\ (\A i \in Failing[p] : result[p] <= i) /\ initialized[p] = {})'
      BY DEF LikeALoop
    <2>1. Ended(p) /\ p # f.call /\ result'[p] = result[p]
      BY <1>1 DEF Ended
    <2>2. initialized'[p] = initialized[p] /\ Items(p)' = Items(p)
      BY <2>1, SameItems
    <2> QED
      BY <1>3, <2>1, <2>2 DEF LoopInv, LikeALoop
  <1> QED
    BY <1>4, <1>5, <1>6, <1>7 DEF LoopInv

\* A job whose items are done is out.
LEMMA OutputLoop ==
  ASSUME PmapInv, LoopInv, NEW t \in Thread, Output(t)
  PROVE  LoopInv'
  <1>0. PICK L, p, i : L = Len(stack[t]) /\ p = Top(t).call /\ i = Top(t).job
    OBVIOUS
  <1>1. /\ Typed /\ program \in Programs /\ stack[t] # <<>> /\ Top(t).phase = "execute" /\ ~Executing(t)
        /\ L \in DOMAIN stack[t] /\ stack[t][L] = Top(t) /\ Top(t).at \in Nat /\ p \in Pmap /\ i \in Int /\ result[p] = Running
    <2>1. Typed /\ program \in Programs /\ stack[t] # <<>> /\ Top(t).phase = "execute" /\ ~Executing(t)
      BY Known DEF Output, In
    <2>2. L \in DOMAIN stack[t] /\ stack[t][L] = Top(t)
      BY <1>0, <2>1, Stack
    <2> QED
      BY <1>0, <2>1, <2>2, Known
  <1>2. /\ stack' = [stack EXCEPT ![t] = Below(t)] /\ outputs' = [outputs EXCEPT ![p] = outputs[p] \cup {i}]
        /\ UNCHANGED <<program, result, exceptions, initialized>>
    BY <1>0 DEF Output, Pop
  <1>3. \A u \in Thread : \A n \in DOMAIN stack'[u] :
          n \in DOMAIN stack[u] /\ stack'[u][n] = stack[u][n] /\ ~(u = t /\ n = L)
    BY <1>0, <1>1, <1>2, Popped
  <1>4. CoveredBetween(p, i * Grain(p), (i + 1) * Grain(p))
    <2>1. ~(Top(t).at < End(p, i))
      BY <1>0, <1>1 DEF Executing, In
    <2>2. PICK e : e = (i + 1) * Grain(p)
      OBVIOUS
    <2>3. e \in Int /\ Size(p) \in Nat /\ \A k \in Items(p) : k \in Nat /\ k < Size(p)
      BY <1>1, <2>2, Lists
    <2>4. \A k \in Items(p) : k < e => k < Top(t).at
      BY <1>1, <2>1, <2>2, <2>3 DEF End
    <2>5. CoveredBetween(p, i * Grain(p), Top(t).at)
      BY <1>0, <1>1 DEF LoopInv, JobsDone
    <2> QED
      BY <2>2, <2>4, <2>5 DEF CoveredBetween
  <1>5. Blamed'
    BY <1>2, SameFailing DEF LoopInv, Blamed
  <1>6. OutputsDone'
    <2> SUFFICES ASSUME NEW q \in Pmap, result[q] = Running, NEW j \in outputs'[q]
                 PROVE  CoveredBetween(q, j * Grain(q), (j + 1) * Grain(q))'
      BY <1>2 DEF OutputsDone
    <2>1. j \in outputs[q] \/ (q = p /\ j = i)
      BY <1>1, <1>2 DEF Typed
    <2>2. CoveredBetween(q, j * Grain(q), (j + 1) * Grain(q))
      BY <1>4, <2>1 DEF LoopInv, OutputsDone
    <2>3. Grain(q)' = Grain(q)
      BY <1>2, SameItems
    <2> QED
      BY <1>2, <2>2, <2>3, SameCovered
  <1>7. JobsDone'
    <2> SUFFICES ASSUME NEW u \in Thread, NEW n \in DOMAIN stack'[u], stack'[u][n].phase = "execute",
                        NEW q, q = stack'[u][n].call, NEW from, from = stack'[u][n].job * Grain(q),
                        NEW to, to = stack'[u][n].at
                 PROVE  CoveredBetween(q, from, to)'
      BY <1>2, JobsDoneNext
    <2>1. CoveredBetween(q, from, to)
      BY <1>3 DEF LoopInv, JobsDone
    <2> QED
      BY <1>2, <2>1, SameCovered
  <1>8. CallsNamed'
    <2> SUFFICES ASSUME NEW u \in Thread, NEW n \in DOMAIN stack'[u], n > 1, stack'[u][n].phase # "execute"
                 PROVE  ItemOf(stack'[u][n - 1]) = stack'[u][n].call
      BY <1>2, CallsNamedNext
    <2>1. stack' \in [Thread -> Seq(Frames)]
      BY <1>1, <1>2, Popped
    <2>2. n - 1 \in DOMAIN stack'[u]
      <3>1. stack'[u] \in Seq(Frames)
        BY <2>1
      <3> QED
        BY <3>1
    <2>3. n \in DOMAIN stack[u] /\ stack'[u][n] = stack[u][n] /\ stack'[u][n - 1] = stack[u][n - 1]
      BY <1>3, <2>2
    <2> QED
      BY <2>3 DEF LoopInv, CallsNamed
  <1>9. LikeALoop'
    BY <1>2, SameFailing, SameItems DEF LoopInv, LikeALoop, Ended
  <1> QED
    BY <1>5, <1>6, <1>7, <1>8, <1>9 DEF LoopInv

-----------------------------------------------------------------------------
(* A call of pmap ends: Finish.                                            *)

\* Every item is of some job.
LEMMA JobsCover ==
  ASSUME program \in Programs, NEW p \in Pmap, NEW k \in Items(p)
  PROVE  \E i \in Jobs(p) : i * Grain(p) <= k /\ k < (i + 1) * Grain(p)
  <1>1. PICK g, s, d, i : g = Grain(p) /\ s = Size(p) /\ d = Size(p) \div Grain(p) /\ i = k \div Grain(p)
    OBVIOUS
  <1>2. g \in Nat \ {0} /\ s \in Nat /\ k \in Nat /\ k < s /\ JobCount(p) \in Int
    BY <1>1, Lists
  <1>3. /\ d \in Nat /\ d * g <= s /\ s < (d + 1) * g
        /\ i \in Nat /\ i * g <= k /\ k < (i + 1) * g
    <2>1. \A a \in Nat : \A b \in Nat \ {0} : a \div b \in Nat /\ (a \div b) * b <= a /\ a < (a \div b + 1) * b
      OBVIOUS
    <2> QED
      BY <1>1, <1>2, <2>1
  <1>4. JobCount(p) = d + (IF d * g < s THEN 1 ELSE 0)
    BY <1>1 DEF JobCount
  <1>5. i < JobCount(p)
    <2>1. SUFFICES ASSUME JobCount(p) <= i PROVE FALSE
      BY <1>2, <1>3
    <2>2. PICK x, y : x = i * g /\ y = d * g
      OBVIOUS
    <2>3. x \in Nat /\ y \in Nat /\ (d + 1) * g \in Nat
      BY <1>2, <1>3, <2>2, Products
    <2>4. CASE y < s
      <3>1. d < i
        BY <1>2, <1>3, <1>4, <2>1, <2>2, <2>4
      <3>2. (d + 1) * g <= i * g
        BY <1>2, <1>3, <3>1, JobsApart
      <3> QED
        BY <1>2, <1>3, <2>2, <2>3, <3>2
    <2>5. CASE ~(y < s)
      <3>1. d <= i
        BY <1>2, <1>3, <1>4, <2>1, <2>2, <2>5
      <3>2. d = i \/ d < i
        BY <1>3, <3>1
      <3>3. d < i => (d + 1) * g <= i * g
        BY <1>2, <1>3, JobsApart
      <3> QED
        BY <1>2, <1>3, <2>2, <2>3, <2>5, <3>2, <3>3
    <2> QED
      BY <2>4, <2>5
  <1> QED
    BY <1>1, <1>2, <1>3, <1>5 DEF Jobs

\* What is left of a call, and what its caller makes of it.
LEMMA LeaveDoes ==
  ASSUME PmapInv, NEW t \in Thread, NEW p \in Pmap, stack[t] # <<>>, Top(t).phase = "wait", Leave(t, p),
         NEW L, L = Len(stack[t]), NEW c, c = stack[t][L - 1], L > 1 => c.call # p
  PROVE  /\ \A q \in Pmap : exceptions'[q] = exceptions[q] \cup IF L > 1 /\ exceptions[p] # {} /\ q = c.call THEN {c.at} ELSE {}
         /\ \A q \in Pmap : q # p =>
              initialized'[q] = initialized[q] \cup IF L > 1 /\ exceptions[p] = {} /\ q = c.call THEN {c.at} ELSE {}
         /\ initialized'[p] = IF exceptions[p] = {} THEN initialized[p] ELSE {}
         /\ L > 1 => stack'[t][L - 1] = IF exceptions[p] = {} THEN Next1(c) ELSE Stopped(c)
  <1>1. /\ Typed /\ L \in Nat \ {0} /\ L \in DOMAIN stack[t] /\ stack[t] \in Seq(Frames)
        /\ DOMAIN stack[t] = 1 .. L /\ stack \in [Thread -> Seq(Frames)]
    BY Known, Stack DEF Typed, TypeOK
  <1>2. exceptions \in [Pmap -> SUBSET Int] /\ initialized \in [Pmap -> SUBSET Int]
    BY <1>1 DEF Typed
  <1>3. PICK kept : kept = [initialized EXCEPT ![p] = IF exceptions[p] = {} THEN initialized[p] ELSE {}]
    OBVIOUS
  <1>4. kept \in [Pmap -> SUBSET Int] /\ kept[p] = (IF exceptions[p] = {} THEN initialized[p] ELSE {})
        /\ \A q \in Pmap : q # p => kept[q] = initialized[q]
    BY <1>2, <1>3
  <1>5. CASE L = 1
    <2>1. initialized' = kept /\ exceptions' = exceptions
      BY <1>3, <1>5 DEF Leave
    <2> QED
      BY <1>4, <1>5, <2>1
  <1>6. CASE L # 1
    <2>1. L > 1 /\ L - 1 \in DOMAIN stack[t] /\ c \in Frames /\ Below(t)[L - 1] = c /\ c.call \in Pmap /\ c.call # p
      <3>1. L > 1 /\ L - 1 \in 1 .. L
        BY <1>1, <1>6
      <3>2. c \in Frames /\ c.call \in Pmap
        <4>1. c \in Frames
          BY <1>1, <3>1, Stack
        <4> QED
          BY <4>1 DEF Frames
      <3>3. Below(t) = SubSeq(stack[t], 1, L - 1)
        BY DEF Below
      <3>4. \A n \in 1 .. L - 1 : SubSeq(stack[t], 1, L - 1)[n] = stack[t][n]
        BY <1>1, <3>1
      <3> QED
        BY <1>1, <3>1, <3>2, <3>3, <3>4
    <2>2. PICK s, g : s = SubSeq(stack[t], 1, L - 2) /\ g = IF exceptions[p] = {} THEN Next1(c) ELSE Stopped(c)
      OBVIOUS
    <2>3. s \in Seq(Frames) /\ Len(s) = L - 2
      BY <1>1, <2>1, <2>2
    <2>4. stack' = [stack EXCEPT ![t] = Append(s, g)]
      BY <1>6, <2>1, <2>2 DEF Leave
    <2>5. stack'[t][L - 1] = g
      <3>1. stack'[t] = Append(s, g)
        BY <1>1, <2>4
      <3> QED
        BY <1>1, <2>3, <3>1
    <2>6. CASE exceptions[p] = {}
      <3>1. initialized' = [kept EXCEPT ![c.call] = kept[c.call] \cup {c.at}] /\ exceptions' = exceptions
        BY <1>3, <1>6, <2>1, <2>6 DEF Leave
      <3> QED
        BY <1>4, <2>1, <2>2, <2>5, <2>6, <3>1
    <2>7. CASE exceptions[p] # {}
      <3>1. exceptions' = [exceptions EXCEPT ![c.call] = exceptions[c.call] \cup {c.at}] /\ initialized' = kept
        BY <1>3, <1>6, <2>1, <2>7 DEF Leave
      <3> QED
        BY <1>2, <1>4, <2>1, <2>2, <2>5, <2>7, <3>1
    <2> QED
      BY <2>6, <2>7
  <1> QED
    BY <1>5, <1>6

\* When all jobs of p are out, it has what a loop would have.
LEMMA AllIsDone ==
  ASSUME PmapInv, LoopInv, NEW p \in Pmap, result[p] = Running, AllOut(p)
  PROVE  /\ exceptions[p] = {} <=> Failing[p] = {}
         /\ exceptions[p] = {} => initialized[p] = Items(p)
         /\ exceptions[p] # {} => Earliest(p) \in Failing[p] /\ \A i \in Failing[p] : Earliest(p) <= i
  <1>1. /\ Typed /\ program \in Programs /\ exceptions[p] \subseteq Failing[p] /\ initialized[p] \cap Failing[p] = {}
        /\ initialized[p] \subseteq Items(p) /\ Items(p) \subseteq Nat /\ exceptions[p] \subseteq Items(p)
    BY Known, Lists DEF LoopInv, Blamed, Typed, TypeOK
  <1>2. Failing[p] \subseteq Items(p)
    BY <1>1, FailingIs DEF Fails
  <1>3. \A k \in Items(p) : Covered(p, k)
    <2> SUFFICES ASSUME NEW k \in Items(p) PROVE Covered(p, k)
      OBVIOUS
    <2>1. PICK i \in Jobs(p) : i * Grain(p) <= k /\ k < (i + 1) * Grain(p)
      BY <1>1, JobsCover
    <2>2. i \in outputs[p]
      BY <1>1, AllAreOut
    <2> QED
      BY <2>1, <2>2 DEF LoopInv, OutputsDone, CoveredBetween
  <1>4. CASE exceptions[p] = {}
    <2>1. initialized[p] = Items(p)
      BY <1>1, <1>3, <1>4 DEF Covered
    <2> QED
      BY <1>1, <1>2, <1>4, <2>1
  <1>5. CASE exceptions[p] # {}
    <2>1. \E i \in exceptions[p] : \A j \in exceptions[p] : i <= j
      <3>1. exceptions[p] \subseteq Nat
        BY <1>1
      <3> QED
        BY <1>5, <3>1, LeastOf
    <2>2. PICK e : e = Earliest(p)
      OBVIOUS
    <2>3. e \in exceptions[p] /\ \A j \in exceptions[p] : e <= j
      BY <2>1, <2>2 DEF Earliest
    <2>4. ASSUME NEW i \in Failing[p] PROVE e <= i
      <3>1. PICK x \in exceptions[p] : x <= i
        BY <1>1, <1>2, <1>3 DEF Covered
      <3>2. e \in Nat /\ x \in Nat /\ i \in Nat /\ e <= x
        BY <1>1, <1>2, <2>3
      <3> QED
        BY <3>1, <3>2
    <2> QED
      BY <1>1, <1>5, <2>2, <2>3, <2>4
  <1> QED
    BY <1>4, <1>5

LEMMA FinishLoop ==
  ASSUME PmapInv, LoopInv, NEW t \in Thread, Finish(t), PmapInv'
  PROVE  LoopInv'
  <1>0. PICK L, p, c : L = Len(stack[t]) /\ p = Top(t).call /\ c = stack[t][L - 1]
    OBVIOUS
  <1>1. /\ stack[t] # <<>> /\ Top(t).phase = "wait" /\ AllOut(p) /\ Leave(t, p)
        /\ result' = [result EXCEPT ![p] = IF exceptions[p] = {} THEN Returned ELSE Earliest(p)]
        /\ UNCHANGED <<program, work_queue, outputs>>
    BY <1>0 DEF Finish, In
  <1>2. /\ Typed /\ program \in Programs /\ L \in Nat \ {0} /\ L \in DOMAIN stack[t] /\ stack[t][L] = Top(t)
        /\ p \in Pmap /\ result[p] = Running /\ result \in [Pmap -> Nat \cup {-3, -2, -1}]
    <2>1. Typed /\ program \in Programs /\ L \in Nat \ {0} /\ L \in DOMAIN stack[t] /\ stack[t][L] = Top(t)
      BY <1>0, <1>1, Known, Stack
    <2> QED
      BY <1>0, <2>1, Known DEF Typed, TypeOK
  \* The caller, if there is one, is at the item that calls p.
  <1>3. L > 1 => /\ c.phase = "execute" /\ c.call \in Pmap /\ c.job \in Int /\ c.at \in Nat /\ c \in Frames
                 /\ c.at \in Items(c.call) /\ Work(c.call)[c.at + 1] = p /\ result[c.call] = Running /\ c.call # p
                 /\ L - 1 \in DOMAIN stack[t]
    <2> SUFFICES ASSUME L > 1
                 PROVE  /\ c.phase = "execute" /\ c.call \in Pmap /\ c.job \in Int /\ c.at \in Nat /\ c \in Frames
                        /\ c.at \in Items(c.call) /\ Work(c.call)[c.at + 1] = p /\ result[c.call] = Running /\ c.call # p
                        /\ L - 1 \in DOMAIN stack[t]
      OBVIOUS
    <2>1. L - 1 \in DOMAIN stack[t]
      BY <1>2, Stack
    <2>2. Shaped(t, L) /\ Shaped(t, L - 1) /\ c \in Frames /\ c.call \in Pmap /\ c.job \in Int /\ c.at \in Nat /\ result[c.call] = Running
      BY <1>0, <1>2, <2>1, Known
    <2>3. c.phase = "execute"
      BY <1>0, <1>1, <1>2, <2>2 DEF Shaped
    <2>4. c.at < End(c.call, c.job)
      BY <1>0, <1>2, <2>2, <2>3 DEF Shaped
    <2>5. c.at \in Items(c.call)
      <3>1. PICK e : e = (c.job + 1) * Grain(c.call)
        OBVIOUS
      <3>2. e \in Int /\ Size(c.call) \in Nat
        BY <1>2, <2>2, <3>1, Lists
      <3>3. End(c.call, c.job) = IF Size(c.call) < e THEN Size(c.call) ELSE e
        BY <3>1 DEF End
      <3> QED
        BY <2>2, <2>4, <3>2, <3>3 DEF Items
    <2>6. Work(c.call)[c.at + 1] = p
      BY <1>0, <1>1, <1>2 DEF LoopInv, CallsNamed, ItemOf
    <2>7. c.call # p
      <3>1. p < c.call
        BY <1>2, <2>2, <2>5, <2>6, CallsAreLower
      <3> QED
        BY <1>2, <3>1, PmapIs
    <2> QED
      BY <2>1, <2>2, <2>3, <2>5, <2>6, <2>7
  <1>4. /\ \A q \in Pmap : exceptions'[q] = exceptions[q] \cup IF L > 1 /\ exceptions[p] # {} /\ q = c.call THEN {c.at} ELSE {}
        /\ \A q \in Pmap : q # p =>
             initialized'[q] = initialized[q] \cup IF L > 1 /\ exceptions[p] = {} /\ q = c.call THEN {c.at} ELSE {}
        /\ initialized'[p] = IF exceptions[p] = {} THEN initialized[p] ELSE {}
        /\ L > 1 => stack'[t][L - 1] = IF exceptions[p] = {} THEN Next1(c) ELSE Stopped(c)
    BY <1>0, <1>1, <1>2, <1>3, LeaveDoes
  <1>5. /\ exceptions[p] = {} <=> Failing[p] = {}
        /\ exceptions[p] = {} => initialized[p] = Items(p)
        /\ exceptions[p] # {} => Earliest(p) \in Failing[p] /\ \A i \in Failing[p] : Earliest(p) <= i
    BY <1>1, <1>2, AllIsDone
  <1>6. /\ \A q \in Pmap : q # p => result'[q] = result[q]
        /\ result'[p] = IF exceptions[p] = {} THEN Returned ELSE Earliest(p)
        /\ result'[p] \notin {Unborn, Running}
    <2>1. Failing[p] \subseteq Nat
      BY <1>2, FailingIs, FailsAre
    <2> QED
      BY <1>1, <1>2, <1>5, <2>1 DEF Unborn, Running, Returned
  <1>7. L > 1 => (c.at \in Failing[c.call] <=> exceptions[p] # {})
    <2>1. p # Raise
      BY <1>2, PmapIs DEF Raise
    <2>2. L > 1 => (c.at \in Failing[c.call] <=> Work(c.call)[c.at + 1] = Raise \/
                                                (Work(c.call)[c.at + 1] \in Pmap /\ Failing[Work(c.call)[c.at + 1]] # {}))
      BY <1>2, <1>3, ItemFails
    <2> QED
      BY <1>2, <1>3, <1>5, <2>1, <2>2
  <1>8. Failing' = Failing
    BY <1>1, SameFailing
  <1>9. \A q \in Pmap : q # p => initialized[q] \subseteq initialized'[q] /\ exceptions[q] \subseteq exceptions'[q]
    BY <1>4
  <1>10. Blamed'
    <2> SUFFICES ASSUME NEW q \in Pmap
                 PROVE  /\ exceptions'[q] \subseteq Failing[q]
                        /\ result'[q] \in {Unborn, Running} => initialized'[q] \cap Failing[q] = {}
      BY <1>8 DEF Blamed, Unborn, Running
    <2>1. exceptions[q] \subseteq Failing[q] /\ (result[q] \in {Unborn, Running} => initialized[q] \cap Failing[q] = {})
      BY DEF LoopInv, Blamed
    <2>2. exceptions'[q] \subseteq Failing[q]
      BY <1>4, <1>7, <2>1
    <2>3. ASSUME result'[q] \in {Unborn, Running} PROVE initialized'[q] \cap Failing[q] = {}
      <3>1. q # p /\ result[q] \in {Unborn, Running}
        BY <1>6, <2>3
      <3> QED
        BY <1>4, <1>7, <2>1, <3>1
    <2> QED
      BY <2>2, <2>3
  <1>11. OutputsDone'
    <2> SUFFICES ASSUME NEW q \in Pmap, result'[q] = Running, NEW i \in outputs[q]
                 PROVE  CoveredBetween(q, i * Grain(q), (i + 1) * Grain(q))'
      BY <1>1 DEF OutputsDone
    <2>1. q # p /\ result[q] = Running
      BY <1>6
    <2>2. CoveredBetween(q, i * Grain(q), (i + 1) * Grain(q))
      BY <2>1 DEF LoopInv, OutputsDone
    <2>3. Grain(q)' = Grain(q)
      BY <1>1, SameItems
    <2> QED
      BY <1>1, <1>9, <2>1, <2>2, <2>3, GrowCovered
  <1>12. /\ stack' \in [Thread -> Seq(Frames)] /\ Len(stack'[t]) = L - 1
         /\ \A u \in Thread : \A n \in DOMAIN stack'[u] : n \in DOMAIN stack[u] /\ ~(u = t /\ n = L)
         /\ \A u \in Thread : \A n \in DOMAIN stack'[u] : u # t \/ n # L - 1 => stack'[u][n] = stack[u][n]
    BY <1>0, <1>1, <1>2, LeaveIs DEF LeftIs
  <1>13. \A u \in Thread : \A n \in DOMAIN stack'[u] : stack'[u][n].call \in Pmap /\ stack'[u][n].call # p
    <2>1. \A u \in Thread : \A n \in DOMAIN stack'[u] : result'[stack'[u][n].call] = Running
      BY DEF PmapInv, Shapes, Shaped
    <2>2. \A u \in Thread : \A n \in DOMAIN stack'[u] : stack'[u][n] \in Frames
      BY <1>12
    <2> QED
      BY <1>6, <2>1, <2>2 DEF Frames
  <1>14. JobsDone'
    <2> SUFFICES ASSUME NEW u \in Thread, NEW n \in DOMAIN stack'[u], stack'[u][n].phase = "execute",
                        NEW q, q = stack'[u][n].call, NEW from, from = stack'[u][n].job * Grain(q),
                        NEW to, to = stack'[u][n].at
                 PROVE  CoveredBetween(q, from, to)'
      BY <1>1, JobsDoneNext
    <2>1. q \in Pmap /\ q # p
      BY <1>13
    <2>2. CASE u = t /\ n = L - 1
      <3>1. L > 1 /\ stack'[u][n] = IF exceptions[p] = {} THEN Next1(c) ELSE Stopped(c)
        <4>1. n \in Nat \ {0}
          BY <1>12, Known
        <4> QED
          BY <1>2, <1>4, <2>2, <4>1
      <3>2. q = c.call /\ from = c.job * Grain(q) /\ (exceptions[p] = {} => to = c.at + 1)
        BY <1>3, <3>1 DEF Next1, Stopped, Frames
      <3>3. CoveredBetween(q, from, c.at)
        BY <1>0, <1>3, <3>1, <3>2 DEF LoopInv, JobsDone
      <3>4. ASSUME NEW k \in Items(q), from <= k, k < to
            PROVE  Covered(q, k)'
        <4>1. k \in Nat /\ c.at \in Nat
          BY <1>2, <1>3, <2>1, <3>1, Lists
        <4>2. CASE k < c.at
          <5>1. Covered(q, k)
            BY <3>3, <3>4, <4>2 DEF CoveredBetween
          <5> QED
            BY <1>1, <1>9, <2>1, <5>1, GrowCovered
        <4>3. CASE c.at <= k /\ exceptions[p] = {}
          <5>1. k = c.at
            BY <3>2, <3>4, <4>1, <4>3
          <5>2. k \in initialized'[q]
            BY <1>4, <2>1, <3>1, <3>2, <4>3, <5>1
          <5> QED
            BY <5>2 DEF Covered
        <4>4. CASE c.at <= k /\ exceptions[p] # {}
          <5>1. c.at \in exceptions'[q]
            BY <1>4, <2>1, <3>1, <3>2, <4>4
          <5> QED
            BY <4>4, <5>1 DEF Covered
        <4> QED
          BY <4>1, <4>2, <4>3, <4>4
      <3> QED
        BY <1>1, <3>4, SameItems DEF CoveredBetween
    <2>3. CASE ~(u = t /\ n = L - 1)
      <3>1. n \in DOMAIN stack[u] /\ stack'[u][n] = stack[u][n]
        BY <1>12, <2>3
      <3>2. CoveredBetween(q, from, to)
        BY <3>1 DEF LoopInv, JobsDone
      <3> QED
        BY <1>1, <1>9, <2>1, <3>2, GrowCovered
    <2> QED
      BY <2>2, <2>3
  <1>15. CallsNamed'
    <2> SUFFICES ASSUME NEW u \in Thread, NEW n \in DOMAIN stack'[u], n > 1, stack'[u][n].phase # "execute"
                 PROVE  ItemOf(stack'[u][n - 1]) = stack'[u][n].call
      BY <1>1, CallsNamedNext
    <2>1. stack'[u] \in Seq(Frames) /\ (u = t => Len(stack'[u]) = L - 1)
      BY <1>12
    <2>2. n - 1 \in DOMAIN stack'[u] /\ (u = t => n - 1 # L - 1)
      BY <1>2, <2>1
    <2>3. ~(u = t /\ n = L - 1)
      <3> SUFFICES ASSUME u = t, n = L - 1 PROVE FALSE
        OBVIOUS
      <3>1. L > 1
        BY <1>2
      <3>2. stack'[u][n].phase = "execute"
        BY <1>3, <1>4, <3>1 DEF Next1, Stopped, Frames
      <3> QED
        BY <3>2
    <2>4. stack'[u][n] = stack[u][n] /\ stack'[u][n - 1] = stack[u][n - 1] /\ n \in DOMAIN stack[u]
      BY <1>12, <2>2, <2>3
    <2> QED
      BY <2>4 DEF LoopInv, CallsNamed
  <1>16. LikeALoop'
    <2> SUFFICES ASSUME NEW q \in Pmap, Ended(q)'
                 PROVE  (IF Failing[q] = {} THEN result[q] = Returned /\ initialized[q] = Items(q)
                         ELSE result[q] \in Failing[q] /\ (\A i \in Failing[q] : result[q] <= i) /\ initialized[q] = {})'
      BY DEF LikeALoop
    <2>1. Items(q)' = Items(q)
      BY <1>1, SameItems
    <2>2. CASE q = p
      BY <1>4, <1>5, <1>6, <1>8, <2>1, <2>2
    <2>3. CASE q # p
      <3>1. Ended(q) /\ result'[q] = result[q]
        BY <1>6, <2>3 DEF Ended
      <3>2. L > 1 => q # c.call
        BY <1>3, <3>1 DEF Ended
      <3>3. initialized'[q] = initialized[q]
        <4>1. initialized'[q] = initialized[q] \cup IF L > 1 /\ exceptions[p] = {} /\ q = c.call THEN {c.at} ELSE {}
          BY <1>4, <2>3
        <4>2. ~(L > 1 /\ exceptions[p] = {} /\ q = c.call)
          BY <3>2
        <4> QED
          BY <4>1, <4>2
      <3> QED
        BY <1>8, <2>1, <3>1, <3>3 DEF LoopInv, LikeALoop
    <2> QED
      BY <2>2, <2>3
  <1> QED
    BY <1>10, <1>11, <1>14, <1>15, <1>16 DEF LoopInv

-----------------------------------------------------------------------------
(* Every step.                                                             *)

LEMMA LoopStarts == Init => LoopInv
  <1> SUFFICES ASSUME Init PROVE LoopInv
    OBVIOUS
  <1>1. /\ stack = [t \in Thread |-> <<>>] /\ result = [p \in Pmap |-> Unborn]
        /\ exceptions = [p \in Pmap |-> {}] /\ initialized = [p \in Pmap |-> {}]
    BY DEF Init
  <1>2. \A t \in Thread : DOMAIN stack[t] = {}
    BY <1>1, EmptySeq
  <1>3. Blamed /\ OutputsDone /\ LikeALoop
    BY <1>1 DEF Blamed, OutputsDone, LikeALoop, Ended, Unborn, Running
  <1>4. JobsDone /\ CallsNamed
    BY <1>2 DEF JobsDone, CallsNamed
  <1> QED
    BY <1>3, <1>4 DEF LoopInv

LEMMA LoopStep ==
  ASSUME PmapInv, LoopInv, NEW t \in Thread, Step(t), PmapInv'
  PROVE  LoopInv'
  <1>0. PICK f, L : f = Top(t) /\ L = Len(stack[t])
    OBVIOUS
  <1>1. Typed /\ program \in Programs /\ result \in [Pmap -> Nat \cup {-3, -2, -1}]
        /\ exceptions \in [Pmap -> SUBSET Int] /\ initialized \in [Pmap -> SUBSET Int]
    BY Known DEF Typed, TypeOK
  <1>2. stack[t] # <<>> => /\ f \in Frames /\ f.call \in Pmap /\ f.job \in Int /\ f.at \in Nat /\ result[f.call] = Running
                           /\ L \in DOMAIN stack[t] /\ f = stack[t][L] /\ Shaped(t, L)
    BY <1>0, <1>1, Known, Stack
  \* An execute that is not done is at an item.
  <1>3. Executing(t) => /\ stack[t] # <<>> /\ f.phase = "execute" /\ f.at < End(f.call, f.job)
                        /\ f.at \in Items(f.call) /\ End(f.call, f.job) \in Nat
    <2> SUFFICES ASSUME Executing(t)
                 PROVE  /\ stack[t] # <<>> /\ f.phase = "execute" /\ f.at < End(f.call, f.job)
                        /\ f.at \in Items(f.call) /\ End(f.call, f.job) \in Nat
      OBVIOUS
    <2>1. stack[t] # <<>> /\ f.phase = "execute" /\ f.at < End(f.call, f.job)
      BY <1>0 DEF Executing, In
    <2>2. PICK e : e = (f.job + 1) * Grain(f.call)
      OBVIOUS
    <2>3. e \in Int /\ Size(f.call) \in Nat
      BY <1>1, <1>2, <2>1, <2>2, Lists
    <2>4. End(f.call, f.job) = IF Size(f.call) < e THEN Size(f.call) ELSE e
      BY <2>2 DEF End
    <2> QED
      BY <1>2, <2>1, <2>3, <2>4 DEF Items
  \* A call is made.
  <1>4. ASSUME NEW p \in Pmap, result[p] = Unborn, Push(t, PmapFrame(p)), result' = [result EXCEPT ![p] = Running],
               UNCHANGED <<program, work_queue, outputs, exceptions, initialized>>,
               stack[t] # <<>> => ItemOf(f) = p
        PROVE  LoopInv'
    <2>1. PICK g : g = PmapFrame(p)
      OBVIOUS
    <2>2. g \in Frames /\ g.phase # "execute" /\ g.call = p
      BY <2>1 DEF PmapFrame, Frames
    <2>3. JobsDone' /\ CallsNamed'
      BY <1>0, <1>4, <2>1, <2>2, PushedLoop
    <2>4. \A q \in Pmap : result'[q] = result[q] \/ (result[q] = Unborn /\ result'[q] = Running)
      BY <1>1, <1>4
    <2> QED
      BY <1>4, <2>3, <2>4, QuietKeeps
  \* A job is taken.
  <1>5. ASSUME TakeJob(t)
        PROVE  LoopInv'
    <2>1. PICK p, i, g : p = Head(work_queue)[1] /\ i = Head(work_queue)[2] /\ g = JobFrame(p, i)
      OBVIOUS
    <2>2. 1 \in DOMAIN work_queue /\ Head(work_queue) = work_queue[1]
      BY <1>1, <1>5 DEF TakeJob, Typed, TypeOK
    <2>3. p \in Pmap /\ i \in Nat /\ i * Grain(p) \in Nat
      <3>1. p \in Pmap /\ i \in Nat
        BY <2>1, <2>2, Known
      <3> QED
        BY <1>1, <3>1, Lists, Products
    <2>4. g \in Frames /\ g.phase = "execute" /\ g.call = p /\ g.job = i /\ g.at = i * Grain(p)
      BY <2>1, <2>3 DEF JobFrame, Frames
    <2>5. Push(t, g) /\ UNCHANGED <<program, result, outputs, exceptions, initialized>>
      BY <1>5, <2>1 DEF TakeJob
    <2>6. JobsDone' /\ CallsNamed'
      BY <2>4, <2>5, PushedLoop
    <2> QED
      BY <2>5, <2>6, QuietKeeps
  <1>6. CASE Call(t)
    <2>1. PICK p : p = program.start[t]
      OBVIOUS
    <2>2. /\ t \in Caller /\ result[p] = Unborn /\ Push(t, PmapFrame(p)) /\ result' = [result EXCEPT ![p] = Running]
          /\ UNCHANGED <<program, work_queue, outputs, exceptions, initialized>>
      BY <1>6, <2>1 DEF Call
    <2>3. p \in Pmap
      BY <1>1, <2>1, <2>2, Lists
    <2>4. stack[t] = <<>>
      <3> SUFFICES ASSUME stack[t] # <<>> PROVE FALSE
        OBVIOUS
      <3>1. f.call = p /\ result[f.call] = Running
        BY <1>2, <2>1, <2>2 DEF Shaped
      <3> QED
        BY <2>2, <3>1 DEF Running, Unborn
    <2> QED
      BY <1>4, <2>2, <2>3, <2>4
  <1>7. CASE Put(t)
    <2>1. PICK g : g = [f EXCEPT !.at = f.at + 1]
      OBVIOUS
    <2>2. stack[t] # <<>> /\ f.phase = "put" /\ Replace(t, g) /\ UNCHANGED <<program, result, outputs, exceptions, initialized>>
      BY <1>0, <1>7, <2>1 DEF Put, In
    <2>3. g \in Frames /\ g.phase # "execute" /\ g.call = f.call
      BY <1>2, <2>1, <2>2 DEF Frames
    <2> QED
      BY <1>0, <2>2, <2>3, PmapGoesOn
  <1>8. CASE AllPut(t)
    <2>1. PICK g : g = [f EXCEPT !.phase = IF t \in Executor THEN "work" ELSE "wait"]
      OBVIOUS
    <2>2. stack[t] # <<>> /\ f.phase = "put" /\ Replace(t, g) /\ UNCHANGED <<program, result, outputs, exceptions, initialized>>
      BY <1>0, <1>8, <2>1 DEF AllPut, In
    <2>3. g \in Frames /\ g.phase # "execute" /\ g.call = f.call
      BY <1>2, <2>1, <2>2 DEF Frames
    <2> QED
      BY <1>0, <2>2, <2>3, PmapGoesOn
  <1>9. CASE Block(t)
    <2>1. PICK g : g = [f EXCEPT !.phase = "wait"]
      OBVIOUS
    <2>2. stack[t] # <<>> /\ f.phase = "work" /\ Replace(t, g) /\ UNCHANGED <<program, result, outputs, exceptions, initialized>>
      BY <1>0, <1>9, <2>1 DEF Block, In
    <2>3. g \in Frames /\ g.phase # "execute" /\ g.call = f.call
      BY <1>2, <2>1, <2>2 DEF Frames
    <2> QED
      BY <1>0, <2>2, <2>3, PmapGoesOn
  <1>10. CASE Help(t) \/ Idle(t)
    BY <1>5, <1>10 DEF Help, Idle
  <1>11. CASE Apply(t)
    <2>1. PICK g : g = Next1(f)
      OBVIOUS
    <2>2. Executing(t) /\ Work(f.call)[f.at + 1] = Ok /\ Replace(t, g) /\ UNCHANGED <<program, work_queue, result, outputs, exceptions>>
          /\ initialized' = [initialized EXCEPT ![f.call] = initialized[f.call] \cup {f.at}]
      BY <1>0, <1>11, <2>1 DEF Apply, Return, ItemOf
    <2>3. g \in Frames /\ g.call = f.call /\ g.job = f.job /\ g.phase = "execute" /\ g.at = f.at + 1
      BY <1>2, <1>3, <2>1, <2>2 DEF Frames, Next1
    <2>4. /\ initialized'[f.call] = initialized[f.call] \cup {f.at}
          /\ \A p \in Pmap : p # f.call => initialized'[p] = initialized[p]
      BY <1>1, <1>2, <1>3, <2>2
    <2>5. f.at \notin Failing[f.call]
      <3>1. 0 \notin Pmap /\ Ok = 0 /\ Raise = -1
        BY PmapIs DEF Ok, Raise
      <3> QED
        BY <1>1, <1>2, <1>3, <2>2, <3>1, ItemFails
    <2>6. Blamed'
      BY <1>2, <1>3, <2>2, <2>4, <2>5, SameFailing DEF LoopInv, Blamed
    <2>7. \A k \in Items(f.call) : f.at <= k /\ k < g.at => Covered(f.call, k)'
      <3> SUFFICES ASSUME NEW k \in Items(f.call), f.at <= k, k < g.at PROVE Covered(f.call, k)'
        OBVIOUS
      <3>1. k \in Nat /\ f.at \in Nat
        BY <1>1, <1>2, <1>3, <2>2, Lists
      <3>2. k = f.at
        BY <2>3, <3>1
      <3> QED
        BY <2>4, <3>2 DEF Covered
    <2>8. \A p \in Pmap : initialized[p] \subseteq initialized'[p] /\ exceptions[p] \subseteq exceptions'[p]
      BY <2>2, <2>4
    <2> QED
      BY <1>0, <2>2, <2>3, <2>4, <2>6, <2>7, <2>8, ItemKeeps
  <1>12. CASE Fail(t)
    <2>1. PICK g : g = Stopped(f)
      OBVIOUS
    <2>2. Executing(t) /\ Work(f.call)[f.at + 1] = Raise /\ Replace(t, g) /\ UNCHANGED <<program, work_queue, result, outputs, initialized>>
          /\ exceptions' = [exceptions EXCEPT ![f.call] = exceptions[f.call] \cup {f.at}]
      BY <1>0, <1>12, <2>1 DEF Fail, Except, ItemOf
    <2>3. g \in Frames /\ g.call = f.call /\ g.job = f.job /\ g.phase = "execute"
      BY <1>2, <1>3, <2>1, <2>2 DEF Frames, Stopped
    <2>4. /\ exceptions'[f.call] = exceptions[f.call] \cup {f.at}
          /\ \A p \in Pmap : p # f.call => exceptions'[p] = exceptions[p]
      BY <1>1, <1>2, <1>3, <2>2
    <2>5. f.at \in Failing[f.call]
      BY <1>1, <1>2, <1>3, <2>2, ItemFails
    <2>6. Blamed'
      BY <1>2, <1>3, <2>2, <2>4, <2>5, SameFailing DEF LoopInv, Blamed
    <2>7. \A k \in Items(f.call) : f.at <= k /\ k < g.at => Covered(f.call, k)'
      BY <2>4 DEF Covered
    <2>8. \A p \in Pmap : initialized[p] \subseteq initialized'[p] /\ exceptions[p] \subseteq exceptions'[p]
      BY <2>2, <2>4
    <2> QED
      BY <1>0, <2>2, <2>3, <2>4, <2>6, <2>7, <2>8, ItemKeeps
  <1>13. CASE Nest(t)
    <2>1. PICK p : p = ItemOf(f)
      OBVIOUS
    <2>2. /\ Executing(t) /\ p \in Pmap /\ Push(t, PmapFrame(p)) /\ result' = [result EXCEPT ![p] = Running]
          /\ UNCHANGED <<program, work_queue, outputs, exceptions, initialized>>
      BY <1>0, <1>13, <2>1 DEF Nest
    <2>3. JobWaits(f.call, f.job, f.at)
      BY <1>2, <1>3, <2>2, <1>0 DEF PmapInv, ItemsWait
    <2>4. PICK e : e = (f.job + 1) * Grain(f.call)
      OBVIOUS
    <2>5. e \in Int /\ Size(f.call) \in Nat
      BY <1>1, <1>2, <1>3, <2>2, <2>4, Lists
    <2>6. f.at < IF Size(f.call) < e THEN Size(f.call) ELSE e
      BY <1>3, <2>2, <2>4 DEF End
    <2>7. f.at <= f.at /\ f.at < e
      BY <1>2, <1>3, <2>2, <2>5, <2>6
    <2>8. result[p] = Unborn
      BY <1>3, <2>1, <2>2, <2>3, <2>4, <2>7 DEF JobWaits, Waits, ItemOf
    <2> QED
      BY <1>4, <2>1, <2>2, <2>8
  <1>14. CASE Output(t)
    BY <1>14, OutputLoop
  <1>15. CASE Finish(t)
    BY <1>15, FinishLoop
  <1> QED
    BY <1>6, <1>7, <1>8, <1>9, <1>10, <1>11, <1>12, <1>13, <1>14, <1>15 DEF Step

LEMMA LoopStutter == LoopInv /\ UNCHANGED vars => LoopInv'
  <1> SUFFICES ASSUME LoopInv, UNCHANGED vars PROVE LoopInv'
    OBVIOUS
  <1>1. UNCHANGED <<program, stack, result, outputs, exceptions, initialized>>
    BY DEF vars
  <1>2. Failing' = Failing
    BY <1>1, SameFailing
  <1> QED
    BY <1>1, <1>2, SameItems
       DEF LoopInv, Blamed, OutputsDone, JobsDone, CallsNamed, CoveredBetween, Covered, LikeALoop, Ended

(* pmap does what a loop would: when it returns every item is constructed, *)
(* when it raises it is the exception of the first item that does, and     *)
(* nothing is left constructed; whoever runs the jobs in whatever order,   *)
(* and whatever the calls within it do.                                    *)
THEOREM DoesWhatALoopDoes == Spec => []LikeALoop
  <1>1. Init => LoopInv
    BY LoopStarts
  <1>2. PmapInv /\ PmapInv' /\ LoopInv /\ [Next]_vars => LoopInv'
    <2> SUFFICES ASSUME PmapInv, PmapInv', LoopInv, [Next]_vars PROVE LoopInv'
      OBVIOUS
    <2>1. CASE \E t \in Thread : Step(t)
      BY <2>1, LoopStep
    <2>2. CASE UNCHANGED vars
      BY <2>2, LoopStutter
    <2> QED
      BY <2>1, <2>2 DEF Next, AllDone
  <1>3. LoopInv => LikeALoop
    BY DEF LoopInv
  <1> QED
    BY <1>1, <1>2, <1>3, PmapInvariant, PTL DEF Spec
=============================================================================
