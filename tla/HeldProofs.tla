----------------------------- MODULE HeldProofs -----------------------------
(***************************************************************************)
(* References into a list end with the statement that asked for them, and  *)
(* members are where their flags say: for any threads, frames and objects, *)
(* and however deep the calls go.                                          *)
(***************************************************************************)
EXTENDS HeldReferences, TLAPS

Instances == [flag : BOOLEAN, built : BOOLEAN, spoilt : BOOLEAN]
FrameRecords ==
  [id : Frame, line : {1, 2, 3}, stmt : Statements, temp : Obj \cup {NoObj}, name : Obj \cup {NoObj}, raised : BOOLEAN]
Objects ==
  [ref : BOOLEAN, own : Instances, maker : Frame \cup {NoObj}, line : {0, 1, 2, 3}, was : {"not popped", "set", "unset"}]
Actions == [obj : Obj, line : {1, 2, 3}]

HeldTypes ==
  /\ stack \in [HeldThread -> Seq(FrameRecords)] /\ frameToActions \in [Frame -> SUBSET Actions]
  /\ tracefunc \in [HeldThread -> {"none", "user", "ours"}] /\ prior \in {"none", "user"}
  /\ objs \in [Obj -> Objects] /\ list \in [count : {0, 1}, item : Instances] /\ running \subseteq Obj
  /\ users \subseteq HeldThread /\ mine = [t \in HeldThread |-> IF users = {t} THEN "user" ELSE "none"]
  /\ \A t \in users : stack[t] # <<>>

\* A frame is on one stack, and what it has to resolve was made in its
\* statement; then it has not raised, and its thread is traced.
FrameRight(t, i) ==
  /\ stack[t][i].line \in {stack[t][i].stmt, 2}
  /\ \A a \in frameToActions[stack[t][i].id] : a.line \in {stack[t][i].stmt, 2}
  /\ frameToActions[stack[t][i].id] # {} => tracefunc[t] = "ours" /\ ~stack[t][i].raised
  /\ \A u \in HeldThread : \A j \in DOMAIN stack[u] : stack[u][j].id = stack[t][i].id => u = t /\ j = i
FramesRight ==
  /\ \A t \in HeldThread : \A i \in DOMAIN stack[t] : FrameRight(t, i)
  /\ \A f \in Frame : frameToActions[f] # {} => f \in FramesInUse

\* What is to be resolved are the references, each by the frame and line that
\* made it, whose statement runs.
RefsAre(os, run, acts) ==
  /\ \A f \in Frame : \A a \in acts[f] :
       a.obj \in run /\ os[a.obj].ref /\ os[a.obj].maker = f /\ os[a.obj].line = a.line
  /\ \A o \in Obj : os[o].ref => \E f \in Frame : \E a \in acts[f] : a.obj = o
  /\ \A o \in run : os[o].line \in Statements => os[o].ref
RefsRight == RefsAre(objs, running, frameToActions)

\* A thread that is alone has its own trace function, or ours and something to
\* resolve.
PriorRight ==
  \A t \in HeldThread : users = {t} =>
    /\ \A u \in HeldThread \ {t} : tracefunc[u] = mine[u]
    /\ IF tracefunc[t] = "ours" THEN prior = mine[t] /\ \E f \in Frame : frameToActions[f] # {}
       ELSE tracefunc[t] = mine[t]

\* Memory without an instance has no member that the flag does not know of.
Flagged(i) == i.flag \/ i.spoilt \/ ~i.built
MembersRight == MembersAreOwned /\ Flagged(list.item)

HeldInv == HeldTypes /\ FramesRight /\ RefsRight /\ PriorRight /\ MembersRight

-----------------------------------------------------------------------------
(* Instances.                                                              *)

LEMMA RawIs == \A raw \in RawMemory : raw \in Instances /\ Flagged(raw)
  <1> SUFFICES ASSUME NEW b \in BOOLEAN, NEW raw, raw = [flag |-> b, built |-> FALSE, spoilt |-> FALSE]
               PROVE  raw \in Instances /\ Flagged(raw)
    BY DEF RawMemory
  <1>1. raw \in Instances
    BY DEF Instances
  <1>2. raw.built = FALSE
    OBVIOUS
  <1> QED
    BY <1>1, <1>2 DEF Flagged

LEMMA SpoiltIs == \A b \in BOOLEAN : Spoilt(b) \in Instances /\ Owned(Spoilt(b))
  BY DEF Spoilt, Instances, Owned

LEMMA MadeIs == \A i \in Instances : HeldMade(i) \in Instances /\ Owned(HeldMade(i)) /\ Flagged(HeldMade(i))
  BY DEF HeldMade, Instances, Owned, Flagged

LEMMA OwnedIsFlagged == \A i \in Instances : Owned(i) => Flagged(i)
  BY DEF Instances, Flagged, Owned

LEMMA CopiedIs ==
  ASSUME NEW self \in Instances, NEW other \in Instances, Flagged(self)
  PROVE  HeldCopied(self, other) \in Instances /\ Owned(HeldCopied(self, other))
  <1>1. CASE other.spoilt \/ other.flag # other.built
    <2>1. HeldCopied(self, other) = Spoilt(other.flag \/ self.flag)
      BY <1>1 DEF HeldCopied
    <2>2. (other.flag \/ self.flag) \in BOOLEAN
      OBVIOUS
    <2> QED
      BY <2>1, <2>2, SpoiltIs
  <1>2. CASE ~other.spoilt /\ other.flag = other.built /\ other.flag
    <2>1. HeldCopied(self, other) = other
      BY <1>2 DEF HeldCopied
    <2> QED
      BY <1>2, <2>1 DEF Owned
  <1>3. CASE ~other.spoilt /\ other.flag = other.built /\ ~other.flag /\ self.flag
    <2>1. HeldCopied(self, other) = Spoilt(TRUE)
      BY <1>3 DEF HeldCopied
    <2> QED
      BY <2>1, SpoiltIs
  <1>4. CASE ~other.spoilt /\ other.flag = other.built /\ ~other.flag /\ ~self.flag
    <2>1. HeldCopied(self, other) = self
      BY <1>4 DEF HeldCopied
    <2> QED
      BY <1>4, <2>1 DEF Owned, Flagged, Instances
  <1> QED
    BY <1>1, <1>2, <1>3, <1>4

LEMMA AssignedIs ==
  ASSUME NEW self \in Instances, NEW other \in Instances, Owned(self)
  PROVE  HeldAssigned(self, other) \in Instances /\ Owned(HeldAssigned(self, other))
  <1> DEFINE wrong == self.spoilt \/ other.spoilt \/ other.flag # other.built \/ (other.flag /\ ~self.flag)
  <1>1. CASE wrong
    <2>1. HeldAssigned(self, other) = Spoilt(self.flag /\ other.flag)
      BY <1>1 DEF HeldAssigned
    <2>2. (self.flag /\ other.flag) \in BOOLEAN
      OBVIOUS
    <2> QED
      BY <2>1, <2>2, SpoiltIs
  <1>2. CASE ~wrong
    <2>1. HeldAssigned(self, other) = [self EXCEPT !.flag = @ /\ other.flag, !.built = @ /\ other.flag]
      BY <1>2 DEF HeldAssigned
    <2> QED
      BY <1>2, <2>1 DEF Owned, Instances
  <1> QED
    BY <1>1, <1>2

LEMMA MemberChanges ==
  ASSUME NEW i \in Instances
  PROVE  /\ HeldSet(i) \in Instances /\ (Owned(i) => Owned(HeldSet(i))) /\ Flagged(HeldSet(i))
         /\ HeldDeleted(i) \in Instances /\ Owned(HeldDeleted(i)) /\ Flagged(HeldDeleted(i))
         /\ HeldDestroyed(i) \in Instances /\ Flagged(HeldDestroyed(i))
  <1>1. HeldSet(i) \in Instances /\ (Owned(i) => Owned(HeldSet(i))) /\ Flagged(HeldSet(i))
    <2>1. CASE i.flag
      BY <2>1 DEF HeldSet, Flagged
    <2>2. CASE ~i.flag
      BY <2>2 DEF HeldSet, Flagged, Owned, Instances
    <2> QED
      BY <2>1, <2>2
  <1>2. HeldDeleted(i) \in Instances /\ Owned(HeldDeleted(i)) /\ Flagged(HeldDeleted(i))
    BY DEF HeldDeleted, Owned, Flagged, Instances
  <1>3. HeldDestroyed(i) \in Instances /\ Flagged(HeldDestroyed(i))
    BY DEF HeldDestroyed, Flagged, Instances
  <1> QED
    BY <1>1, <1>2, <1>3

LEMMA DeadIs == Dead \in Objects /\ ~Dead.ref /\ Owned(Dead.own) /\ Dead.line = 0
  BY DEF Dead, Objects, NoInstance, Instances, Owned
-----------------------------------------------------------------------------
(* What is alive.                                                          *)

LEMMA LiveIs ==
  ASSUME NEW os \in [Obj -> Objects], NEW run \in SUBSET Obj, Live(os, run)
  PROVE  /\ objs' \in [Obj -> Objects] /\ running' \subseteq run
         /\ \A o \in running' : objs'[o] = os[o]
         /\ \A o \in Obj \ running' :
              objs'[o] = Dead \/ (o \notin run /\ objs'[o].ref = os[o].ref /\ objs'[o].own = os[o].own)
         /\ \A f \in Frame : \A a \in frameToActions'[f] : a.obj \in run => a.obj \in running'
  <1> DEFINE held == HeldBy(stack', frameToActions')
  <1>1. /\ running' = run \cap held
        /\ objs' = [o \in Obj |-> IF o \notin held THEN Dead
                                  ELSE IF o \in run THEN os[o] ELSE [os[o] EXCEPT !.maker = NoObj, !.line = 0]]
    BY DEF Live
  <1>2. \A f \in Frame : \A a \in frameToActions'[f] : a.obj \in run => a.obj \in held
    BY DEF HeldBy
  <1> HIDE DEF held
  <1>3. ASSUME NEW o \in Obj
        PROVE  /\ [os[o] EXCEPT !.maker = NoObj, !.line = 0] \in Objects
               /\ [os[o] EXCEPT !.maker = NoObj, !.line = 0].ref = os[o].ref
               /\ [os[o] EXCEPT !.maker = NoObj, !.line = 0].own = os[o].own
    BY DEF Objects
  <1>4. objs' \in [Obj -> Objects]
    BY <1>1, <1>3, DeadIs
  <1>5. ASSUME NEW o \in Obj \ running'
        PROVE  objs'[o] = Dead \/ (o \notin run /\ objs'[o].ref = os[o].ref /\ objs'[o].own = os[o].own)
    <2>1. CASE o \notin held
      BY <1>1, <2>1
    <2>2. CASE o \in held
      <3>1. o \notin run
        BY <1>1, <2>2
      <3>2. objs'[o] = [os[o] EXCEPT !.maker = NoObj, !.line = 0]
        BY <1>1, <2>2, <3>1
      <3> QED
        BY <1>3, <3>1, <3>2
    <2> QED
      BY <2>1, <2>2
  <1>6. \A o \in running' : objs'[o] = os[o]
    BY <1>1
  <1> QED
    BY <1>1, <1>2, <1>4, <1>5, <1>6

LEMMA LiveKeeps ==
  ASSUME NEW os \in [Obj -> Objects], NEW run \in SUBSET Obj, Live(os, run),
         RefsAre(os, run, frameToActions'), frameToActions' \in [Frame -> SUBSET Actions],
         \A o \in Obj : os[o].ref \/ Owned(os[o].own)
  PROVE  /\ objs' \in [Obj -> Objects] /\ running' \subseteq Obj /\ RefsRight'
         /\ \A o \in Obj : objs'[o].ref \/ Owned(objs'[o].own)
  <1>1. /\ objs' \in [Obj -> Objects] /\ running' \subseteq run
        /\ \A o \in running' : objs'[o] = os[o]
        /\ \A o \in Obj \ running' :
             objs'[o] = Dead \/ (o \notin run /\ objs'[o].ref = os[o].ref /\ objs'[o].own = os[o].own)
        /\ \A f \in Frame : \A a \in frameToActions'[f] : a.obj \in run => a.obj \in running'
    BY LiveIs
  <1>2. \A o \in Obj : os[o].ref => o \in run
    BY DEF RefsAre
  <1>3. \A o \in Obj : objs'[o].ref => os[o].ref
    BY <1>1, <1>2, DeadIs
  <1>4. \A o \in Obj : objs'[o].ref \/ Owned(objs'[o].own)
    BY <1>1, <1>2, DeadIs
  <1>5. RefsAre(objs', running', frameToActions')
    <2>1. ASSUME NEW f \in Frame, NEW a \in frameToActions'[f]
          PROVE  a.obj \in running' /\ objs'[a.obj].ref /\ objs'[a.obj].maker = f /\ objs'[a.obj].line = a.line
      BY <1>1 DEF RefsAre
    <2>2. \A o \in Obj : objs'[o].ref => \E f \in Frame : \E a \in frameToActions'[f] : a.obj = o
      BY <1>3 DEF RefsAre
    <2>3. \A o \in running' : objs'[o].line \in Statements => objs'[o].ref
      BY <1>1 DEF RefsAre
    <2> QED
      BY <2>1, <2>2, <2>3 DEF RefsAre
  <1> QED
    BY <1>1, <1>4, <1>5 DEF RefsRight

-----------------------------------------------------------------------------
(* Events.                                                                 *)

\* An event of frame f = stack[t][i], after which the stack is st: a frame that
\* goes is f itself or has raised, and only f gets on.
EventIn(t, i, line, force, ends, st) ==
  LET f == stack[t][i].id
  IN  /\ Event(t, f, line, force, ends, st)
      /\ st \in Seq(FrameRecords) /\ st # <<>> /\ DOMAIN st \subseteq DOMAIN stack[t]
      /\ \A k \in DOMAIN st : st[k].id = stack[t][k].id /\ st[k].line \in {st[k].stmt, 2}
      /\ \A k \in DOMAIN st : (ends /\ k = i) \/ (st[k].stmt = stack[t][k].stmt /\ st[k].raised = stack[t][k].raised)
      /\ \A k \in DOMAIN stack[t] \ DOMAIN st : (ends /\ k = i) \/ stack[t][k].raised
      /\ IF ends THEN (isLineNewStatement(line) \/ force) /\ \A a \in frameToActions[f] : a.line # line \/ force
         ELSE ~force /\ \A a \in frameToActions[f] : line \in Statements /\ a.line # line => a.line \notin Statements
\* What an event makes due, and what its objects become.
DueIn(t, f, line, force) ==
  IF tracefunc[t] = "ours" /\ (isLineNewStatement(line) \/ force) THEN Due(f, line, force) ELSE {}
Resolved(due, raw) == [o \in Obj |-> IF \E a \in due : a.obj = o THEN Resolve(o, raw) ELSE objs[o]]
StillRun(f, ends) == {o \in running : ~ends \/ objs[o].maker # f}

LEMMA EventIs ==
  ASSUME NEW t, NEW f, NEW line, NEW force, NEW ends, NEW st, Event(t, f, line, force, ends, st)
  PROVE  /\ stack' = [stack EXCEPT ![t] = st]
         /\ frameToActions' = [frameToActions EXCEPT ![f] = frameToActions[f] \ DueIn(t, f, line, force)]
         /\ \E raw \in RawMemory : Live(Resolved(DueIn(t, f, line, force), raw), StillRun(f, ends))
         /\ IF tracefunc[t] = "ours" /\ \A g \in Frame : frameToActions'[g] = {}
            THEN tracefunc' = [tracefunc EXCEPT ![t] = prior] /\ prior' = "none"
            ELSE UNCHANGED <<tracefunc, prior>>
         /\ UNCHANGED <<list, mine, users>>
  BY DEF Event, DueIn, Resolved, StillRun

\* A statement that ends has all that is due resolved; one that goes on what is
\* on other lines than its first.
LEMMA DueIs ==
  ASSUME HeldInv, NEW t \in HeldThread, NEW i \in DOMAIN stack[t], NEW line, NEW force, NEW ends \in BOOLEAN, NEW st,
         EventIn(t, i, line, force, ends, st)
  PROVE  /\ DueIn(t, stack[t][i].id, line, force) \subseteq frameToActions[stack[t][i].id]
         /\ ends => DueIn(t, stack[t][i].id, line, force) = frameToActions[stack[t][i].id]
         /\ ~ends => \A a \in DueIn(t, stack[t][i].id, line, force) : a.line \notin Statements
  <1>1. PICK f : f = stack[t][i].id
    OBVIOUS
  <1>2. DueIn(t, f, line, force) \subseteq frameToActions[f]
    BY DEF DueIn, Due
  <1>3. frameToActions[f] # {} => tracefunc[t] = "ours"
    BY <1>1 DEF HeldInv, FramesRight, FrameRight
  <1>4. ASSUME ends
        PROVE  DueIn(t, f, line, force) = frameToActions[f]
    <2>1. (isLineNewStatement(line) \/ force) /\ \A a \in frameToActions[f] : a.line # line \/ force
      BY <1>1, <1>4 DEF EventIn
    <2> QED
      BY <1>2, <1>3, <2>1 DEF DueIn, Due
  <1>5. ASSUME ~ends
        PROVE  \A a \in DueIn(t, f, line, force) : a.line \notin Statements
    <2>1. ~force /\ \A a \in frameToActions[f] : line \in Statements /\ a.line # line => a.line \notin Statements
      BY <1>1, <1>5 DEF EventIn
    <2> QED
      BY <2>1 DEF DueIn, Due, isLineNewStatement
  <1> QED
    BY <1>1, <1>2, <1>4, <1>5

LEMMA ResolvedIs ==
  ASSUME HeldInv, NEW due, NEW raw \in RawMemory
  PROVE  /\ Resolved(due, raw) \in [Obj -> Objects]
         /\ \A o \in Obj : Resolved(due, raw)[o].ref = (objs[o].ref /\ \A a \in due : a.obj # o)
         /\ \A o \in Obj : Resolved(due, raw)[o].maker = objs[o].maker /\ Resolved(due, raw)[o].line = objs[o].line
         /\ \A o \in Obj : Resolved(due, raw)[o].ref \/ Owned(Resolved(due, raw)[o].own)
  <1>1. objs \in [Obj -> Objects] /\ list.item \in Instances
    BY DEF HeldInv, HeldTypes
  <1>2. \A o \in Obj : objs[o].ref \/ Owned(objs[o].own)
    BY DEF HeldInv, MembersRight, MembersAreOwned
  <1>3. raw \in Instances /\ Flagged(raw)
    BY RawIs
  <1>4. PICK copy : copy = HeldCopied(raw, list.item)
    OBVIOUS
  <1>5. copy \in Instances /\ Owned(copy)
    BY <1>1, <1>3, <1>4, CopiedIs
  <1>6. ASSUME NEW o \in Obj
        PROVE  /\ Resolve(o, raw) \in Objects /\ ~Resolve(o, raw).ref /\ Owned(Resolve(o, raw).own)
               /\ Resolve(o, raw).maker = objs[o].maker /\ Resolve(o, raw).line = objs[o].line
    <2>1. PICK x : x = objs[o]
      OBVIOUS
    <2>2. x \in Objects
      BY <1>1, <2>1
    <2>3. CASE x.ref
      <3>1. Resolve(o, raw) = [x EXCEPT !.ref = FALSE, !.own = copy]
        BY <1>4, <2>1, <2>3 DEF Resolve
      <3>2. [x EXCEPT !.ref = FALSE, !.own = copy].own = copy
        BY <2>2 DEF Objects
      <3>3. /\ [x EXCEPT !.ref = FALSE, !.own = copy] \in Objects
            /\ [x EXCEPT !.ref = FALSE, !.own = copy].ref = FALSE
            /\ [x EXCEPT !.ref = FALSE, !.own = copy].maker = x.maker
            /\ [x EXCEPT !.ref = FALSE, !.own = copy].line = x.line
        BY <1>5, <2>2 DEF Objects
      <3> QED
        BY <1>5, <2>1, <3>1, <3>2, <3>3
    <2>4. CASE ~x.ref
      BY <1>2, <2>1, <2>2, <2>4 DEF Resolve
    <2> QED
      BY <2>3, <2>4
  <1>7. ASSUME NEW o \in Obj, \E a \in due : a.obj = o
        PROVE  Resolved(due, raw)[o] = Resolve(o, raw)
    BY <1>7 DEF Resolved
  <1>8. ASSUME NEW o \in Obj, \A a \in due : a.obj # o
        PROVE  Resolved(due, raw)[o] = objs[o]
    BY <1>8 DEF Resolved
  <1>9. ASSUME NEW o \in Obj
        PROVE  /\ Resolved(due, raw)[o] \in Objects
               /\ Resolved(due, raw)[o].ref = (objs[o].ref /\ \A a \in due : a.obj # o)
               /\ Resolved(due, raw)[o].maker = objs[o].maker /\ Resolved(due, raw)[o].line = objs[o].line
               /\ Resolved(due, raw)[o].ref \/ Owned(Resolved(due, raw)[o].own)
    <2>1. CASE \E a \in due : a.obj = o
      <3>1. Resolve(o, raw).ref = FALSE
        BY <1>6 DEF Objects
      <3> QED
        BY <1>6, <1>7, <2>1, <3>1
    <2>2. CASE \A a \in due : a.obj # o
      <3>1. objs[o].ref \in BOOLEAN
        BY <1>1 DEF Objects
      <3> QED
        BY <1>1, <1>2, <1>8, <2>2, <3>1
    <2> QED
      BY <2>1, <2>2
  <1>10. Resolved(due, raw) \in [Obj -> Objects]
    <2>1. Resolved(due, raw) = [o \in Obj |-> Resolved(due, raw)[o]]
      BY DEF Resolved
    <2> QED
      BY <1>9, <2>1
  <1> QED
    BY <1>9, <1>10
\* The references are right after an event, and members owned.
LEMMA EventReferences ==
  ASSUME HeldInv, NEW t \in users, NEW i \in DOMAIN stack[t], NEW line, NEW force, NEW ends \in BOOLEAN, NEW st,
         EventIn(t, i, line, force, ends, st)
  PROVE  /\ frameToActions' \in [Frame -> SUBSET Actions] /\ objs' \in [Obj -> Objects] /\ running' \subseteq Obj
         /\ \A g \in Frame : frameToActions'[g] \subseteq frameToActions[g]
         /\ ends => frameToActions'[stack[t][i].id] = {}
         /\ RefsRight' /\ MembersRight'
  <1>1. PICK f : f = stack[t][i].id
    OBVIOUS
  <1>2. PICK due : due = DueIn(t, f, line, force)
    OBVIOUS
  <1>3. /\ frameToActions \in [Frame -> SUBSET Actions] /\ running \subseteq Obj /\ t \in HeldThread
        /\ stack[t] \in Seq(FrameRecords)
    BY DEF HeldInv, HeldTypes
  <1>4. f \in Frame
    <2>1. stack[t][i] \in FrameRecords
      BY <1>3
    <2> QED
      BY <1>1, <2>1 DEF FrameRecords
  <1>5. Event(t, f, line, force, ends, st)
    BY <1>1 DEF EventIn
  <1>6. /\ due \subseteq frameToActions[f]
        /\ ends => due = frameToActions[f]
        /\ ~ends => \A a \in due : a.line \notin Statements
    <2>1. due = DueIn(t, stack[t][i].id, line, force)
      BY <1>1, <1>2
    <2>2. t \in HeldThread
      BY <1>3
    <2>3. /\ DueIn(t, stack[t][i].id, line, force) \subseteq frameToActions[stack[t][i].id]
          /\ ends => DueIn(t, stack[t][i].id, line, force) = frameToActions[stack[t][i].id]
          /\ ~ends => \A a \in DueIn(t, stack[t][i].id, line, force) : a.line \notin Statements
      BY <2>2, DueIs
    <2> QED
      BY <1>1, <2>1, <2>3
  <1>7. /\ frameToActions' = [frameToActions EXCEPT ![f] = frameToActions[f] \ due]
        /\ \E raw \in RawMemory : Live(Resolved(due, raw), StillRun(f, ends))
        /\ UNCHANGED list
    BY <1>2, <1>5, EventIs
  <1>8. PICK raw \in RawMemory : Live(Resolved(due, raw), StillRun(f, ends))
    BY <1>7
  <1>9. PICK os : os = Resolved(due, raw)
    OBVIOUS
  <1>10. PICK run : run = StillRun(f, ends)
    OBVIOUS
  <1>11. /\ os \in [Obj -> Objects]
         /\ \A o \in Obj : os[o].ref = (objs[o].ref /\ \A a \in due : a.obj # o)
         /\ \A o \in Obj : os[o].maker = objs[o].maker /\ os[o].line = objs[o].line
         /\ \A o \in Obj : os[o].ref \/ Owned(os[o].own)
    BY <1>8, <1>9, ResolvedIs
  <1>12. run \in SUBSET Obj /\ run \subseteq running /\ \A o \in running : o \in run <=> (~ends \/ objs[o].maker # f)
    BY <1>3, <1>10 DEF StillRun
  <1>13. /\ frameToActions' \in [Frame -> SUBSET Actions]
         /\ \A g \in Frame : frameToActions'[g] \subseteq frameToActions[g]
         /\ \A g \in Frame : g # f => frameToActions'[g] = frameToActions[g]
         /\ frameToActions'[f] = frameToActions[f] \ due
    BY <1>3, <1>4, <1>6, <1>7
  <1>14. /\ \A g \in Frame : \A a \in frameToActions[g] :
              a.obj \in running /\ objs[a.obj].ref /\ objs[a.obj].maker = g /\ objs[a.obj].line = a.line
         /\ \A o \in Obj : objs[o].ref => \E g \in Frame : \E a \in frameToActions[g] : a.obj = o
         /\ \A o \in running : objs[o].line \in Statements => objs[o].ref
    BY DEF HeldInv, RefsRight, RefsAre
  <1>15. RefsAre(os, run, frameToActions')
    <2>1. ASSUME NEW g \in Frame, NEW a \in frameToActions'[g]
          PROVE  a.obj \in run /\ os[a.obj].ref /\ os[a.obj].maker = g /\ os[a.obj].line = a.line
      <3>1. a \in frameToActions[g] /\ a \in Actions /\ a.obj \in Obj
        BY <1>13 DEF Actions
      <3>2. a.obj \in running /\ objs[a.obj].ref /\ objs[a.obj].maker = g /\ objs[a.obj].line = a.line
        BY <1>14, <3>1
      <3>3. ~ends \/ g # f
        BY <1>6, <1>13
      <3>4. a.obj \in run
        BY <1>12, <3>2, <3>3
      <3>5. ASSUME NEW b \in due
            PROVE  b.obj # a.obj
        <4> SUFFICES ASSUME b.obj = a.obj  PROVE FALSE
          OBVIOUS
        <4>1. b \in frameToActions[f] /\ b \in Actions
          BY <1>3, <1>4, <1>6
        <4>2. objs[b.obj].maker = f /\ objs[b.obj].line = b.line
          BY <1>4, <1>14, <4>1
        <4>3. a = b
          BY <3>1, <3>2, <4>1, <4>2 DEF Actions
        <4> QED
          BY <1>13, <3>2, <4>2, <4>3
      <3> QED
        BY <1>11, <3>1, <3>2, <3>4, <3>5
    <2>2. ASSUME NEW o \in Obj, os[o].ref
          PROVE  \E g \in Frame : \E a \in frameToActions'[g] : a.obj = o
      <3>1. objs[o].ref /\ \A a \in due : a.obj # o
        BY <1>11, <2>2
      <3>2. PICK g \in Frame : \E a \in frameToActions[g] : a.obj = o
        BY <1>14, <3>1
      <3>3. PICK a \in frameToActions[g] : a.obj = o
        BY <3>2
      <3>4. a \in frameToActions'[g]
        BY <1>13, <3>1, <3>3
      <3> QED
        BY <3>3, <3>4
    <2>3. ASSUME NEW o \in run, os[o].line \in Statements
          PROVE  os[o].ref
      <3>1. o \in Obj /\ o \in running /\ objs[o].line \in Statements
        BY <1>11, <1>12, <2>3
      <3>2. objs[o].ref
        BY <1>14, <3>1
      <3>3. ASSUME NEW a \in due, a.obj = o  PROVE FALSE
        <4>1. a \in frameToActions[f]
          BY <1>6
        <4>2. objs[o].maker = f /\ objs[o].line = a.line
          BY <1>4, <1>14, <3>3, <4>1
        <4> QED
          BY <1>6, <1>12, <3>1, <4>2
      <3> QED
        BY <1>11, <3>1, <3>2, <3>3
    <2> QED
      BY <2>1, <2>2, <2>3 DEF RefsAre
  <1>16. Live(os, run)
    BY <1>8, <1>9, <1>10
  <1>17. /\ objs' \in [Obj -> Objects] /\ running' \subseteq Obj /\ RefsRight'
         /\ \A o \in Obj : objs'[o].ref \/ Owned(objs'[o].own)
    BY <1>11, <1>12, <1>13, <1>15, <1>16, LiveKeeps
  <1>18. MembersRight'
    <2>1. (list.count = 1 => Owned(list.item)) /\ Flagged(list.item)
      BY DEF HeldInv, MembersRight, MembersAreOwned
    <2> QED
      BY <1>7, <1>17, <2>1 DEF MembersRight, MembersAreOwned
  <1>19. ends => frameToActions'[f] = {}
    BY <1>6, <1>13
  <1> QED
    BY <1>1, <1>13, <1>17, <1>18, <1>19
\* The frames are right after an event.
LEMMA EventFrames ==
  ASSUME HeldInv, NEW t \in users, NEW i \in DOMAIN stack[t], NEW line, NEW force, NEW ends \in BOOLEAN, NEW st,
         EventIn(t, i, line, force, ends, st), frameToActions' \in [Frame -> SUBSET Actions]
  PROVE  FramesRight'
  <1>1. PICK f : f = stack[t][i].id
    OBVIOUS
  <1>2. /\ t \in HeldThread /\ stack \in [HeldThread -> Seq(FrameRecords)] /\ tracefunc \in [HeldThread -> {"none", "user", "ours"}]
    BY DEF HeldInv, HeldTypes
  <1>3. Event(t, f, line, force, ends, st)
    BY <1>1 DEF EventIn
  <1>4. /\ stack' = [stack EXCEPT ![t] = st]
        /\ IF tracefunc[t] = "ours" /\ \A g \in Frame : frameToActions'[g] = {}
           THEN tracefunc' = [tracefunc EXCEPT ![t] = prior] /\ prior' = "none"
           ELSE UNCHANGED <<tracefunc, prior>>
    BY <1>3, EventIs
  <1>5. /\ \A g \in Frame : frameToActions'[g] \subseteq frameToActions[g]
        /\ ends => frameToActions'[f] = {}
    <2>1. /\ \A g \in Frame : frameToActions'[g] \subseteq frameToActions[g]
          /\ ends => frameToActions'[stack[t][i].id] = {}
      BY EventReferences, SMTT(30)
    <2> QED
      BY <1>1, <2>1
  <1>6. /\ st \in Seq(FrameRecords) /\ DOMAIN st \subseteq DOMAIN stack[t]
        /\ \A k \in DOMAIN st : st[k].id = stack[t][k].id /\ st[k].line \in {st[k].stmt, 2}
        /\ \A k \in DOMAIN st : (ends /\ k = i) \/ (st[k].stmt = stack[t][k].stmt /\ st[k].raised = stack[t][k].raised)
        /\ \A k \in DOMAIN stack[t] \ DOMAIN st : (ends /\ k = i) \/ stack[t][k].raised
    BY DEF EventIn
  <1>7. stack'[t] = st /\ \A u \in HeldThread : u # t => stack'[u] = stack[u]
    BY <1>2, <1>4
  <1>8. \A u \in HeldThread : DOMAIN stack'[u] \subseteq DOMAIN stack[u] /\ \A j \in DOMAIN stack'[u] : stack'[u][j].id = stack[u][j].id
    BY <1>6, <1>7
  <1>9. \A u \in HeldThread : \A j \in DOMAIN stack[u] :
          /\ stack[u][j].line \in {stack[u][j].stmt, 2}
          /\ \A a \in frameToActions[stack[u][j].id] : a.line \in {stack[u][j].stmt, 2}
          /\ frameToActions[stack[u][j].id] # {} => tracefunc[u] = "ours" /\ ~stack[u][j].raised
          /\ \A v \in HeldThread : \A k \in DOMAIN stack[v] : stack[v][k].id = stack[u][j].id => v = u /\ k = j
    BY DEF HeldInv, FramesRight, FrameRight
  <1>10. \A u \in HeldThread : \A j \in DOMAIN stack[u] : stack[u][j].id \in Frame
    <2> SUFFICES ASSUME NEW u \in HeldThread, NEW j \in DOMAIN stack[u]
                 PROVE  stack[u][j].id \in Frame
      OBVIOUS
    <2>1. stack[u] \in Seq(FrameRecords)
      BY <1>2
    <2>2. stack[u][j] \in FrameRecords
      BY <2>1
    <2> QED
      BY <2>2 DEF FrameRecords
  <1>11. \A g \in Frame : frameToActions'[g] # {} => tracefunc' = tracefunc
    BY <1>4
  <1>12. ASSUME NEW u \in HeldThread, NEW j \in DOMAIN stack'[u]
         PROVE  FrameRight(u, j)'
    <2>1. j \in DOMAIN stack[u] /\ stack'[u][j].id = stack[u][j].id /\ stack[u][j].id \in Frame
      BY <1>8, <1>10
    <2>2. \A v \in HeldThread : \A k \in DOMAIN stack'[v] : stack'[v][k].id = stack'[u][j].id => v = u /\ k = j
      BY <1>8, <1>9, <2>1
    <2>3. stack'[u][j].line \in {stack'[u][j].stmt, 2}
      BY <1>6, <1>7, <1>9, <2>1
    <2>4. \/ frameToActions'[stack'[u][j].id] = {}
          \/ stack'[u][j].stmt = stack[u][j].stmt /\ stack'[u][j].raised = stack[u][j].raised
      <3>1. CASE u # t
        BY <1>7, <3>1
      <3>2. CASE u = t /\ ends /\ j = i
        BY <1>1, <1>5, <2>1, <3>2
      <3>3. CASE u = t /\ ~(ends /\ j = i)
        BY <1>6, <1>7, <3>3
      <3> QED
        BY <3>1, <3>2, <3>3
    <2>5. \A a \in frameToActions'[stack'[u][j].id] : a.line \in {stack'[u][j].stmt, 2}
      BY <1>5, <1>9, <2>1, <2>4
    <2>6. frameToActions'[stack'[u][j].id] # {} => tracefunc'[u] = "ours" /\ ~stack'[u][j].raised
      <3> SUFFICES ASSUME frameToActions'[stack'[u][j].id] # {}
                   PROVE  tracefunc'[u] = "ours" /\ ~stack'[u][j].raised
        OBVIOUS
      <3>1. frameToActions[stack[u][j].id] # {}
        BY <1>5, <2>1
      <3>2. tracefunc[u] = "ours" /\ ~stack[u][j].raised
        BY <1>9, <2>1, <3>1
      <3>3. tracefunc' = tracefunc
        BY <1>11, <2>1
      <3> QED
        BY <2>4, <3>2, <3>3
    <2> QED
      BY <2>2, <2>3, <2>5, <2>6 DEF FrameRight
  <1>13. ASSUME NEW g \in Frame, frameToActions'[g] # {}
         PROVE  \E u \in HeldThread : \E j \in DOMAIN stack'[u] : stack'[u][j].id = g
    <2>1. frameToActions[g] # {}
      BY <1>5, <1>13
    <2>2. PICK u \in HeldThread : \E j \in DOMAIN stack[u] : stack[u][j].id = g
      BY <2>1 DEF HeldInv, FramesRight, FramesInUse
    <2>3. PICK j \in DOMAIN stack[u] : stack[u][j].id = g
      BY <2>2
    <2>4. ~stack[u][j].raised
      BY <1>9, <2>1, <2>3
    <2>5. j \in DOMAIN stack'[u]
      <3>1. CASE u # t
        BY <1>7, <3>1
      <3>2. CASE u = t
        <4>1. ~(ends /\ j = i)
          BY <1>1, <1>5, <1>13, <2>3, <3>2
        <4> QED
          BY <1>6, <1>7, <2>3, <2>4, <3>2, <4>1
      <3> QED
        BY <3>1, <3>2
    <2> QED
      BY <1>8, <2>3, <2>5
  <1>14. \A g \in Frame : frameToActions'[g] # {} => g \in FramesInUse'
    BY <1>13 DEF FramesInUse
  <1> QED
    BY <1>12, <1>14 DEF FramesRight

LEMMA EventKeeps ==
  ASSUME HeldInv, NEW t \in users, NEW i \in DOMAIN stack[t], NEW line, NEW force, NEW ends \in BOOLEAN, NEW st,
         EventIn(t, i, line, force, ends, st)
  PROVE  HeldInv'
  <1>1. PICK f : f = stack[t][i].id
    OBVIOUS
  <1>2. Event(t, f, line, force, ends, st)
    BY <1>1 DEF EventIn
  <1>3. /\ stack' = [stack EXCEPT ![t] = st]
        /\ IF tracefunc[t] = "ours" /\ \A g \in Frame : frameToActions'[g] = {}
           THEN tracefunc' = [tracefunc EXCEPT ![t] = prior] /\ prior' = "none"
           ELSE UNCHANGED <<tracefunc, prior>>
        /\ UNCHANGED <<list, mine, users>>
    BY <1>2, EventIs
  <1>4. /\ frameToActions' \in [Frame -> SUBSET Actions] /\ objs' \in [Obj -> Objects] /\ running' \subseteq Obj
        /\ RefsRight' /\ MembersRight'
    BY EventReferences
  <1>5. FramesRight'
    BY <1>4, EventFrames
  <1>6. st \in Seq(FrameRecords) /\ st # <<>>
    BY DEF EventIn
  <1>7. HeldTypes
    BY DEF HeldInv
  <1>8. HeldTypes'
    <2>1. stack' \in [HeldThread -> Seq(FrameRecords)] /\ \A u \in users : stack'[u] # <<>>
      BY <1>3, <1>6, <1>7 DEF HeldTypes
    <2>2. tracefunc' \in [HeldThread -> {"none", "user", "ours"}] /\ prior' \in {"none", "user"}
      BY <1>3, <1>7 DEF HeldTypes
    <2> QED
      BY <1>3, <1>4, <1>7, <2>1, <2>2 DEF HeldTypes
  <1>9. PriorRight'
    <2> SUFFICES ASSUME NEW u \in HeldThread, users = {u}
                 PROVE  /\ \A v \in HeldThread \ {u} : tracefunc'[v] = mine[v]
                        /\ IF tracefunc'[u] = "ours" THEN prior' = mine[u] /\ \E g \in Frame : frameToActions'[g] # {}
                           ELSE tracefunc'[u] = mine[u]
      BY <1>3 DEF PriorRight
    <2>1. /\ \A v \in HeldThread \ {u} : tracefunc[v] = mine[v]
          /\ IF tracefunc[u] = "ours" THEN prior = mine[u] /\ \E g \in Frame : frameToActions[g] # {}
             ELSE tracefunc[u] = mine[u]
      BY DEF HeldInv, PriorRight
    <2>2. t = u /\ mine[u] # "ours" /\ tracefunc \in [HeldThread -> {"none", "user", "ours"}]
      BY <1>7 DEF HeldTypes
    <2>3. CASE tracefunc[t] = "ours" /\ \A g \in Frame : frameToActions'[g] = {}
      BY <1>3, <2>1, <2>2, <2>3
    <2>4. CASE ~(tracefunc[t] = "ours" /\ \A g \in Frame : frameToActions'[g] = {})
      BY <1>3, <2>1, <2>2, <2>4
    <2> QED
      BY <2>3, <2>4
  <1> QED
    BY <1>4, <1>5, <1>8, <1>9 DEF HeldInv
-----------------------------------------------------------------------------
(* Every action that is an event.                                          *)

LEMMA ElementsAre ==
  ASSUME NEW S, NEW s \in Seq(S), NEW j \in DOMAIN s
  PROVE  s[j] \in S
  OBVIOUS

LEMMA TopIs ==
  ASSUME HeldInv, NEW t \in users
  PROVE  /\ t \in HeldThread /\ stack[t] \in Seq(FrameRecords) /\ Depth(t) \in Nat \ {0} /\ Depth(t) = Len(stack[t])
         /\ DOMAIN stack[t] = 1..Depth(t) /\ Depth(t) \in DOMAIN stack[t]
         /\ Top(t) = stack[t][Depth(t)] /\ Top(t) \in FrameRecords
         /\ \A j \in DOMAIN stack[t] : stack[t][j] \in FrameRecords /\ FrameRight(t, j)
  <1>1. t \in HeldThread /\ stack[t] \in Seq(FrameRecords) /\ stack[t] # <<>>
    BY DEF HeldInv, HeldTypes
  <1>2. Len(stack[t]) \in Nat \ {0} /\ DOMAIN stack[t] = 1..Len(stack[t])
    BY <1>1
  <1>3. \A j \in DOMAIN stack[t] : stack[t][j] \in FrameRecords
    BY <1>1
  <1>4. \A j \in DOMAIN stack[t] : FrameRight(t, j)
    BY <1>1 DEF HeldInv, FramesRight
  <1> QED
    BY <1>1, <1>2, <1>3, <1>4 DEF Depth, Top

LEMMA WithTopIs ==
  ASSUME HeldInv, NEW t \in users, NEW frame \in FrameRecords
  PROVE  /\ WithTop(t, frame) \in Seq(FrameRecords) /\ WithTop(t, frame) # <<>>
         /\ DOMAIN WithTop(t, frame) = DOMAIN stack[t] /\ WithTop(t, frame)[Depth(t)] = frame
         /\ \A k \in DOMAIN stack[t] : k # Depth(t) => WithTop(t, frame)[k] = stack[t][k]
  <1>1. PICK s : s = stack[t]
    OBVIOUS
  <1>2. PICK n : n = Depth(t)
    OBVIOUS
  <1>3. s \in Seq(FrameRecords) /\ n \in DOMAIN s /\ n = Len(s) /\ n \in Nat \ {0}
    BY <1>1, <1>2, TopIs
  <1>4. WithTop(t, frame) = [s EXCEPT ![n] = frame]
    BY <1>1, <1>2 DEF WithTop
  <1>5. [s EXCEPT ![n] = frame] \in Seq(FrameRecords) /\ DOMAIN [s EXCEPT ![n] = frame] = DOMAIN s
    BY <1>3
  <1>6. [s EXCEPT ![n] = frame][n] = frame /\ \A k \in DOMAIN s : k # n => [s EXCEPT ![n] = frame][k] = s[k]
    BY <1>3
  <1>7. [s EXCEPT ![n] = frame] # <<>>
    BY <1>3, <1>5
  <1> QED
    BY <1>1, <1>2, <1>4, <1>5, <1>6, <1>7

\* The stack that a function leaves, whose caller becomes frame.
Left(t, m, frame) == [SubSeq(stack[t], 1, m) EXCEPT ![m] = frame]

LEMMA LeftIs ==
  ASSUME HeldInv, NEW t \in users, NEW m \in Nat \ {0}, Depth(t) = m + 1, NEW frame \in FrameRecords, NEW st,
         st = Left(t, m, frame)
  PROVE  /\ st \in Seq(FrameRecords) /\ st # <<>> /\ DOMAIN st = 1..m /\ st[m] = frame
         /\ \A k \in DOMAIN st : k # m => st[k] = stack[t][k]
  <1>1. PICK s : s = stack[t]
    OBVIOUS
  <1>2. s \in Seq(FrameRecords) /\ Len(s) = m + 1
    BY <1>1, TopIs
  <1>3. PICK low : low = SubSeq(s, 1, m)
    OBVIOUS
  <1>4. low \in Seq(FrameRecords) /\ Len(low) = m /\ \A k \in 1..m : low[k] = s[k]
    BY <1>2, <1>3
  <1>5. DOMAIN low = 1..m /\ m \in DOMAIN low
    BY <1>4
  <1>6. st = [low EXCEPT ![m] = frame]
    BY <1>1, <1>3 DEF Left
  <1>7. [low EXCEPT ![m] = frame] \in Seq(FrameRecords) /\ DOMAIN [low EXCEPT ![m] = frame] = DOMAIN low
    BY <1>4
  <1>8. [low EXCEPT ![m] = frame][m] = frame /\ \A k \in DOMAIN low : k # m => [low EXCEPT ![m] = frame][k] = low[k]
    BY <1>5
  <1>9. st # <<>>
    BY <1>5, <1>6, <1>7
  <1> QED
    BY <1>1, <1>4, <1>5, <1>6, <1>7, <1>8, <1>9

LEMMA NextStatementKeeps ==
  ASSUME HeldInv, NEW t \in users, NextStatement(t)
  PROVE  HeldInv'
  <1>1. PICK n : n = Depth(t)
    OBVIOUS
  <1>2. PICK x : x = Top(t)
    OBVIOUS
  <1>3. /\ n \in DOMAIN stack[t] /\ x = stack[t][n] /\ x \in FrameRecords /\ FrameRight(t, n)
    BY <1>1, <1>2, TopIs
  <1>4. PICK line \in Statements \ {x.stmt} :
          Event(t, x.id, line, FALSE, TRUE,
                WithTop(t, [x EXCEPT !.line = line, !.stmt = line, !.temp = NoObj, !.raised = FALSE]))
    BY <1>2 DEF NextStatement
  <1>5. PICK y : y = [x EXCEPT !.line = line, !.stmt = line, !.temp = NoObj, !.raised = FALSE]
    OBVIOUS
  <1>6. y \in FrameRecords /\ y.id = x.id /\ y.line = line /\ y.stmt = line
    BY <1>3, <1>4, <1>5 DEF FrameRecords, Statements
  <1>7. PICK st : st = WithTop(t, y)
    OBVIOUS
  <1>8. /\ st \in Seq(FrameRecords) /\ st # <<>> /\ DOMAIN st = DOMAIN stack[t] /\ st[n] = y
        /\ \A k \in DOMAIN stack[t] : k # n => st[k] = stack[t][k]
    BY <1>1, <1>6, <1>7, WithTopIs
  <1>9. \A k \in DOMAIN stack[t] : stack[t][k].line \in {stack[t][k].stmt, 2}
    BY TopIs DEF FrameRight
  <1>10. \A a \in frameToActions[x.id] : a.line # line
    BY <1>3, <1>4 DEF FrameRight, Statements
  <1>11. EventIn(t, n, line, FALSE, TRUE, st)
    <2>1. Event(t, stack[t][n].id, line, FALSE, TRUE, st)
      BY <1>3, <1>4, <1>5, <1>7
    <2>2. \A k \in DOMAIN st : st[k].id = stack[t][k].id /\ st[k].line \in {st[k].stmt, 2}
      BY <1>3, <1>6, <1>8, <1>9
    <2>3. \A k \in DOMAIN st : k = n \/ (st[k].stmt = stack[t][k].stmt /\ st[k].raised = stack[t][k].raised)
      BY <1>8
    <2>4. isLineNewStatement(line) /\ \A a \in frameToActions[stack[t][n].id] : a.line # line
      BY <1>3, <1>4, <1>10 DEF isLineNewStatement
    <2> QED
      BY <1>8, <2>1, <2>2, <2>3, <2>4 DEF EventIn
  <1> QED
    BY <1>3, <1>11, EventKeeps

LEMMA ContinueKeeps ==
  ASSUME HeldInv, NEW t \in users, Continue(t)
  PROVE  HeldInv'
  <1>1. PICK n : n = Depth(t)
    OBVIOUS
  <1>2. PICK x : x = Top(t)
    OBVIOUS
  <1>3. /\ n \in DOMAIN stack[t] /\ x = stack[t][n] /\ x \in FrameRecords /\ FrameRight(t, n)
    BY <1>1, <1>2, TopIs
  <1>4. PICK line : line = 3 - x.line
    OBVIOUS
  <1>5. PICK y : y = [x EXCEPT !.line = line]
    OBVIOUS
  <1>6. x.stmt = 1 /\ Event(t, x.id, line, FALSE, FALSE, WithTop(t, y))
    BY <1>2, <1>4, <1>5 DEF Continue
  <1>7. x.line \in {1, 2} /\ line \in {1, 2} /\ \A a \in frameToActions[x.id] : a.line \in {1, 2}
    BY <1>3, <1>4, <1>6 DEF FrameRight
  <1>8. y \in FrameRecords /\ y.id = x.id /\ y.line = line /\ y.stmt = x.stmt /\ y.raised = x.raised
    BY <1>3, <1>5, <1>7 DEF FrameRecords
  <1>9. PICK st : st = WithTop(t, y)
    OBVIOUS
  <1>10. /\ st \in Seq(FrameRecords) /\ st # <<>> /\ DOMAIN st = DOMAIN stack[t] /\ st[n] = y
         /\ \A k \in DOMAIN stack[t] : k # n => st[k] = stack[t][k]
    BY <1>1, <1>8, <1>9, WithTopIs
  <1>11. \A k \in DOMAIN stack[t] : stack[t][k].line \in {stack[t][k].stmt, 2}
    BY TopIs DEF FrameRight
  <1>12. EventIn(t, n, line, FALSE, FALSE, st)
    <2>1. Event(t, stack[t][n].id, line, FALSE, FALSE, st)
      BY <1>3, <1>6, <1>9
    <2>2. \A k \in DOMAIN st : st[k].id = stack[t][k].id /\ st[k].line \in {st[k].stmt, 2}
      BY <1>3, <1>6, <1>7, <1>8, <1>10, <1>11
    <2>3. \A k \in DOMAIN st : st[k].stmt = stack[t][k].stmt /\ st[k].raised = stack[t][k].raised
      BY <1>3, <1>8, <1>10
    <2>4. \A a \in frameToActions[stack[t][n].id] : line \in Statements /\ a.line # line => a.line \notin Statements
      BY <1>3, <1>7 DEF Statements
    <2> QED
      BY <1>10, <2>1, <2>2, <2>3, <2>4 DEF EventIn
  <1> QED
    BY <1>3, <1>12, EventKeeps

LEMMA RaiseKeeps ==
  ASSUME HeldInv, NEW t \in users, Raise(t)
  PROVE  HeldInv'
  <1>1. PICK n : n = Depth(t)
    OBVIOUS
  <1>2. PICK x : x = Top(t)
    OBVIOUS
  <1>3. /\ n \in DOMAIN stack[t] /\ x = stack[t][n] /\ x \in FrameRecords
    BY <1>1, <1>2, TopIs
  <1>4. PICK y : y = [x EXCEPT !.raised = TRUE, !.temp = NoObj]
    OBVIOUS
  <1>5. Event(t, x.id, x.line, TRUE, TRUE, WithTop(t, y))
    BY <1>2, <1>4 DEF Raise
  <1>6. y \in FrameRecords /\ y.id = x.id /\ y.line = x.line /\ y.stmt = x.stmt
    BY <1>3, <1>4 DEF FrameRecords
  <1>7. PICK st : st = WithTop(t, y)
    OBVIOUS
  <1>8. /\ st \in Seq(FrameRecords) /\ st # <<>> /\ DOMAIN st = DOMAIN stack[t] /\ st[n] = y
        /\ \A k \in DOMAIN stack[t] : k # n => st[k] = stack[t][k]
    BY <1>1, <1>6, <1>7, WithTopIs
  <1>9. \A k \in DOMAIN stack[t] : stack[t][k].line \in {stack[t][k].stmt, 2}
    BY TopIs DEF FrameRight
  <1>10. EventIn(t, n, x.line, TRUE, TRUE, st)
    <2>1. Event(t, stack[t][n].id, x.line, TRUE, TRUE, st)
      BY <1>3, <1>5, <1>7
    <2>2. \A k \in DOMAIN st : st[k].id = stack[t][k].id /\ st[k].line \in {st[k].stmt, 2}
      BY <1>3, <1>6, <1>8, <1>9
    <2>3. \A k \in DOMAIN st : k = n \/ (st[k].stmt = stack[t][k].stmt /\ st[k].raised = stack[t][k].raised)
      BY <1>8
    <2> QED
      BY <1>8, <2>1, <2>2, <2>3 DEF EventIn
  <1> QED
    BY <1>3, <1>10, EventKeeps

LEMMA ReturnKeeps ==
  ASSUME HeldInv, NEW t \in users, Return(t)
  PROVE  HeldInv'
  <1>1. PICK n : n = Depth(t)
    OBVIOUS
  <1>2. PICK x : x = Top(t)
    OBVIOUS
  <1>3. /\ n \in DOMAIN stack[t] /\ x = stack[t][n] /\ x \in FrameRecords /\ n \in Nat /\ DOMAIN stack[t] = 1..n
    BY <1>1, <1>2, TopIs
  <1>4. PICK o \in {NoObj, x.temp, x.name} :
          n > 1 /\ Event(t, x.id, x.line, TRUE, TRUE, [SubSeq(stack[t], 1, n - 1) EXCEPT ![n - 1].temp = o])
    BY <1>1, <1>2 DEF Return
  <1>5. n - 1 \in DOMAIN stack[t] /\ SubSeq(stack[t], 1, n - 1)[n - 1] = stack[t][n - 1]
    <2>1. stack[t] \in Seq(FrameRecords) /\ n = Len(stack[t])
      BY <1>1, TopIs
    <2> QED
      BY <1>3, <1>4, <2>1
  <1>6. PICK z : z = stack[t][n - 1]
    OBVIOUS
  <1>7. PICK y : y = [z EXCEPT !.temp = o]
    OBVIOUS
  <1>8. z \in FrameRecords
    BY <1>5, <1>6, TopIs
  <1>9. o \in Obj \cup {NoObj}
    BY <1>3, <1>4 DEF FrameRecords
  <1>10. y \in FrameRecords /\ y.id = z.id /\ y.line = z.line /\ y.stmt = z.stmt /\ y.raised = z.raised
    BY <1>7, <1>8, <1>9 DEF FrameRecords
  <1>11. PICK st : st = [SubSeq(stack[t], 1, n - 1) EXCEPT ![n - 1] = y]
    OBVIOUS
  <1>12. Event(t, x.id, x.line, TRUE, TRUE, st)
    BY <1>4, <1>5, <1>6, <1>7, <1>11
  <1>13. /\ st \in Seq(FrameRecords) /\ st # <<>> /\ DOMAIN st = 1..(n - 1) /\ st[n - 1] = y
         /\ \A k \in DOMAIN st : k # n - 1 => st[k] = stack[t][k]
    <2>1. PICK m : m = n - 1
      OBVIOUS
    <2>2. m \in Nat \ {0} /\ Depth(t) = m + 1
      BY <1>1, <1>3, <1>4, <2>1
    <2>3. st = Left(t, m, y)
      BY <1>11, <2>1 DEF Left
    <2>4. /\ st \in Seq(FrameRecords) /\ st # <<>> /\ DOMAIN st = 1..m /\ st[m] = y
          /\ \A k \in DOMAIN st : k # m => st[k] = stack[t][k]
      BY <1>10, <2>2, <2>3, LeftIs
    <2> QED
      BY <2>1, <2>4
  <1>14. \A k \in DOMAIN stack[t] : stack[t][k].line \in {stack[t][k].stmt, 2}
    BY TopIs DEF FrameRight
  <1>15. DOMAIN st \subseteq DOMAIN stack[t] /\ DOMAIN stack[t] \ DOMAIN st = {n}
    BY <1>3, <1>4, <1>13
  <1>16. EventIn(t, n, x.line, TRUE, TRUE, st)
    <2>1. Event(t, stack[t][n].id, x.line, TRUE, TRUE, st)
      BY <1>3, <1>12
    <2>2. \A k \in DOMAIN st : st[k].id = stack[t][k].id /\ st[k].line \in {st[k].stmt, 2}
      BY <1>5, <1>6, <1>10, <1>13, <1>14, <1>15
    <2>3. \A k \in DOMAIN st : st[k].stmt = stack[t][k].stmt /\ st[k].raised = stack[t][k].raised
      BY <1>6, <1>10, <1>13
    <2> QED
      BY <1>13, <1>15, <2>1, <2>2, <2>3 DEF EventIn
  <1> QED
    BY <1>3, <1>16, EventKeeps

LEMMA UnwindKeeps ==
  ASSUME HeldInv, NEW t \in users, Unwind(t)
  PROVE  HeldInv'
  <1>1. PICK n : n = Depth(t)
    OBVIOUS
  <1>2. PICK x : x = Top(t)
    OBVIOUS
  <1>3. /\ n \in DOMAIN stack[t] /\ x = stack[t][n] /\ x \in FrameRecords /\ n \in Nat /\ DOMAIN stack[t] = 1..n
    BY <1>1, <1>2, TopIs
  <1>4. PICK z : z = stack[t][n - 1]
    OBVIOUS
  <1>5. /\ x.raised /\ n > 1
        /\ Event(t, z.id, z.line, TRUE, TRUE,
                 [SubSeq(stack[t], 1, n - 1) EXCEPT ![n - 1] = [@ EXCEPT !.raised = TRUE, !.temp = NoObj]])
    BY <1>1, <1>2, <1>4 DEF Unwind
  <1>6. n - 1 \in DOMAIN stack[t] /\ SubSeq(stack[t], 1, n - 1)[n - 1] = z
    <2>1. stack[t] \in Seq(FrameRecords) /\ n = Len(stack[t])
      BY <1>1, TopIs
    <2> QED
      BY <1>3, <1>4, <1>5, <2>1
  <1>7. PICK y : y = [z EXCEPT !.raised = TRUE, !.temp = NoObj]
    OBVIOUS
  <1>8. z \in FrameRecords
    BY <1>4, <1>6, TopIs
  <1>9. y \in FrameRecords /\ y.id = z.id /\ y.line = z.line /\ y.stmt = z.stmt
    BY <1>7, <1>8 DEF FrameRecords
  <1>10. PICK st : st = [SubSeq(stack[t], 1, n - 1) EXCEPT ![n - 1] = y]
    OBVIOUS
  <1>11. Event(t, z.id, z.line, TRUE, TRUE, st)
    BY <1>5, <1>6, <1>7, <1>10
  <1>12. /\ st \in Seq(FrameRecords) /\ st # <<>> /\ DOMAIN st = 1..(n - 1) /\ st[n - 1] = y
         /\ \A k \in DOMAIN st : k # n - 1 => st[k] = stack[t][k]
    <2>1. PICK m : m = n - 1
      OBVIOUS
    <2>2. m \in Nat \ {0} /\ Depth(t) = m + 1
      BY <1>1, <1>3, <1>5, <2>1
    <2>3. st = Left(t, m, y)
      BY <1>10, <2>1 DEF Left
    <2>4. /\ st \in Seq(FrameRecords) /\ st # <<>> /\ DOMAIN st = 1..m /\ st[m] = y
          /\ \A k \in DOMAIN st : k # m => st[k] = stack[t][k]
      BY <1>9, <2>2, <2>3, LeftIs
    <2> QED
      BY <2>1, <2>4
  <1>13. \A k \in DOMAIN stack[t] : stack[t][k].line \in {stack[t][k].stmt, 2}
    BY TopIs DEF FrameRight
  <1>14. DOMAIN st \subseteq DOMAIN stack[t] /\ DOMAIN stack[t] \ DOMAIN st = {n}
    BY <1>3, <1>5, <1>12
  <1>15. EventIn(t, n - 1, z.line, TRUE, TRUE, st)
    <2>1. Event(t, stack[t][n - 1].id, z.line, TRUE, TRUE, st)
      BY <1>4, <1>11
    <2>2. \A k \in DOMAIN st : st[k].id = stack[t][k].id /\ st[k].line \in {st[k].stmt, 2}
      BY <1>4, <1>6, <1>9, <1>12, <1>13, <1>14
    <2>3. \A k \in DOMAIN st : k = n - 1 \/ (st[k].stmt = stack[t][k].stmt /\ st[k].raised = stack[t][k].raised)
      BY <1>12
    <2>4. \A k \in DOMAIN stack[t] \ DOMAIN st : stack[t][k].raised
      BY <1>3, <1>5, <1>14
    <2> QED
      BY <1>12, <1>14, <2>1, <2>2, <2>3, <2>4 DEF EventIn
  <1> QED
    BY <1>6, <1>15, EventKeeps
-----------------------------------------------------------------------------
(* Every other action.                                                     *)

\* A step by which a frame is another's name, value or expression, keeps FrameRight.
SameFrames(t, st) ==
  /\ stack' = [stack EXCEPT ![t] = st] /\ st \in Seq(FrameRecords) /\ DOMAIN st = DOMAIN stack[t] /\ st # <<>>
  /\ \A k \in DOMAIN st : /\ st[k].id = stack[t][k].id /\ st[k].line = stack[t][k].line
                          /\ st[k].stmt = stack[t][k].stmt /\ st[k].raised = stack[t][k].raised

LEMMA SameFramesKeep ==
  ASSUME HeldInv, NEW t \in users, NEW st, SameFrames(t, st)
  PROVE  /\ stack' \in [HeldThread -> Seq(FrameRecords)] /\ \A u \in users : stack'[u] # <<>>
         /\ \A u \in HeldThread :
              /\ DOMAIN stack'[u] = DOMAIN stack[u]
              /\ \A j \in DOMAIN stack[u] : /\ stack'[u][j].id = stack[u][j].id /\ stack'[u][j].line = stack[u][j].line
                                            /\ stack'[u][j].stmt = stack[u][j].stmt /\ stack'[u][j].raised = stack[u][j].raised
         /\ FramesInUse' = FramesInUse
  <1>1. stack \in [HeldThread -> Seq(FrameRecords)] /\ \A u \in users : u \in HeldThread /\ stack[u] # <<>>
    BY DEF HeldInv, HeldTypes
  <1>2. stack'[t] = st /\ \A u \in HeldThread : u # t => stack'[u] = stack[u]
    BY <1>1 DEF SameFrames
  <1>3. stack' \in [HeldThread -> Seq(FrameRecords)] /\ \A u \in users : stack'[u] # <<>>
    BY <1>1, <1>2 DEF SameFrames
  <1>4. \A u \in HeldThread :
          /\ DOMAIN stack'[u] = DOMAIN stack[u]
          /\ \A j \in DOMAIN stack[u] : /\ stack'[u][j].id = stack[u][j].id /\ stack'[u][j].line = stack[u][j].line
                                        /\ stack'[u][j].stmt = stack[u][j].stmt /\ stack'[u][j].raised = stack[u][j].raised
    BY <1>2 DEF SameFrames
  <1>5. FramesInUse' = FramesInUse
    BY <1>4 DEF FramesInUse
  <1> QED
    BY <1>3, <1>4, <1>5

LEMMA FramesStay ==
  ASSUME HeldInv, NEW t \in users, NEW st, SameFrames(t, st), UNCHANGED <<frameToActions, tracefunc>>
  PROVE  FramesRight'
  <1>1. /\ \A u \in HeldThread :
             /\ DOMAIN stack'[u] = DOMAIN stack[u]
             /\ \A j \in DOMAIN stack[u] : /\ stack'[u][j].id = stack[u][j].id /\ stack'[u][j].line = stack[u][j].line
                                           /\ stack'[u][j].stmt = stack[u][j].stmt /\ stack'[u][j].raised = stack[u][j].raised
        /\ FramesInUse' = FramesInUse
    BY SameFramesKeep
  <1>2. ASSUME NEW u \in HeldThread, NEW j \in DOMAIN stack'[u]
        PROVE  FrameRight(u, j)'
    <2>1. j \in DOMAIN stack[u] /\ FrameRight(u, j)
      BY <1>1 DEF HeldInv, FramesRight
    <2> QED
      BY <1>1, <2>1 DEF FrameRight
  <1>3. \A f \in Frame : frameToActions'[f] # {} => f \in FramesInUse'
    BY <1>1 DEF HeldInv, FramesRight
  <1> QED
    BY <1>2, <1>3 DEF FramesRight

LEMMA PriorStays == ASSUME HeldInv, UNCHANGED <<tracefunc, prior, frameToActions, mine, users>>  PROVE PriorRight'
  BY DEF HeldInv, PriorRight

\* The frame on top is another with the same line and so on.
LEMMA TopChanges ==
  ASSUME HeldInv, NEW t \in users, NEW y \in FrameRecords, stack' = [stack EXCEPT ![t] = WithTop(t, y)],
         y.id = Top(t).id, y.line = Top(t).line, y.stmt = Top(t).stmt, y.raised = Top(t).raised
  PROVE  SameFrames(t, WithTop(t, y))
  <1>1. PICK n : n = Depth(t)
    OBVIOUS
  <1>2. PICK st : st = WithTop(t, y)
    OBVIOUS
  <1>3. n \in DOMAIN stack[t] /\ Top(t) = stack[t][n]
    BY <1>1, TopIs
  <1>4. /\ st \in Seq(FrameRecords) /\ st # <<>> /\ DOMAIN st = DOMAIN stack[t] /\ st[n] = y
        /\ \A k \in DOMAIN stack[t] : k # n => st[k] = stack[t][k]
    BY <1>1, <1>2, WithTopIs
  <1> QED
    BY <1>2, <1>3, <1>4 DEF SameFrames

LEMMA BindKeeps ==
  ASSUME HeldInv, NEW t \in users, Bind(t)
  PROVE  HeldInv'
  <1>1. PICK x : x = Top(t)
    OBVIOUS
  <1>2. x \in FrameRecords
    BY <1>1, TopIs
  <1>3. PICK y : y = [x EXCEPT !.name = x.temp, !.temp = NoObj]
    OBVIOUS
  <1>4. y \in FrameRecords /\ y.id = x.id /\ y.line = x.line /\ y.stmt = x.stmt /\ y.raised = x.raised
    BY <1>2, <1>3 DEF FrameRecords
  <1>5. /\ stack' = [stack EXCEPT ![t] = WithTop(t, y)] /\ Live(objs, running)
        /\ UNCHANGED <<frameToActions, tracefunc, prior, list, mine, users>>
    BY <1>1, <1>3 DEF Bind
  <1>6. SameFrames(t, WithTop(t, y))
    BY <1>1, <1>4, <1>5, TopChanges
  <1>7. /\ HeldTypes /\ RefsAre(objs, running, frameToActions') /\ \A o \in Obj : objs[o].ref \/ Owned(objs[o].own)
        /\ (list.count = 1 => Owned(list.item)) /\ Flagged(list.item)
    BY <1>5 DEF HeldInv, RefsRight, MembersRight, MembersAreOwned
  <1>8. objs \in [Obj -> Objects] /\ running \in SUBSET Obj /\ frameToActions' \in [Frame -> SUBSET Actions]
    BY <1>5, <1>7 DEF HeldTypes
  <1>9. /\ objs' \in [Obj -> Objects] /\ running' \subseteq Obj /\ RefsRight'
        /\ \A o \in Obj : objs'[o].ref \/ Owned(objs'[o].own)
    BY <1>5, <1>7, <1>8, LiveKeeps
  <1>10. HeldTypes'
    BY <1>5, <1>6, <1>7, <1>9, SameFramesKeep DEF HeldTypes
  <1>11. FramesRight'
    BY <1>5, <1>6, FramesStay
  <1>12. MembersRight'
    BY <1>5, <1>7, <1>9 DEF MembersRight, MembersAreOwned
  <1> QED
    BY <1>5, <1>9, <1>10, <1>11, <1>12, PriorStays DEF HeldInv

\* An object that is made has no action yet.
LEMMA FreeObjIs ==
  ASSUME HeldInv, FreeObj # {}
  PROVE  /\ (CHOOSE p \in FreeObj : TRUE) \in Obj
         /\ \A f \in Frame : \A a \in frameToActions[f] : a.obj # (CHOOSE p \in FreeObj : TRUE)
  <1>1. PICK o : o = CHOOSE p \in FreeObj : TRUE
    OBVIOUS
  <1>2. o \in FreeObj
    BY <1>1
  <1>3. o \in Obj /\ \A f \in Frame : \A a \in frameToActions[f] : a.obj # o
    BY <1>2 DEF FreeObj, HeldBy
  <1> QED
    BY <1>1, <1>3

LEMMA ConstructKeeps ==
  ASSUME HeldInv, NEW t \in users, Construct(t)
  PROVE  HeldInv'
  <1>1. PICK x : x = Top(t)
    OBVIOUS
  <1>2. x \in FrameRecords
    BY <1>1, TopIs
  <1>3. PICK o : o = CHOOSE p \in FreeObj : TRUE
    OBVIOUS
  <1>4. PICK y : y = [x EXCEPT !.temp = o]
    OBVIOUS
  <1>5. /\ FreeObj # {} /\ stack' = [stack EXCEPT ![t] = WithTop(t, y)]
        /\ UNCHANGED <<frameToActions, tracefunc, prior, list, mine, users>>
        /\ \E raw \in RawMemory : Live([objs EXCEPT ![o] = [Dead EXCEPT !.own = HeldMade(raw)]], running)
    BY <1>1, <1>3, <1>4 DEF Construct
  <1>6. PICK raw \in RawMemory : Live([objs EXCEPT ![o] = [Dead EXCEPT !.own = HeldMade(raw)]], running)
    BY <1>5
  <1>7. o \in Obj /\ \A f \in Frame : \A a \in frameToActions[f] : a.obj # o
    BY <1>3, <1>5, FreeObjIs
  <1>8. y \in FrameRecords /\ y.id = x.id /\ y.line = x.line /\ y.stmt = x.stmt /\ y.raised = x.raised
    BY <1>2, <1>4, <1>7 DEF FrameRecords
  <1>9. SameFrames(t, WithTop(t, y))
    BY <1>1, <1>5, <1>8, TopChanges
  <1>10. PICK new : new = [Dead EXCEPT !.own = HeldMade(raw)]
    OBVIOUS
  <1>11. new \in Objects /\ ~new.ref /\ Owned(new.own) /\ new.line = 0
    <2>1. HeldMade(raw) \in Instances /\ Owned(HeldMade(raw))
      BY RawIs, MadeIs
    <2>2. new = [ref |-> FALSE, own |-> HeldMade(raw), maker |-> NoObj, line |-> 0, was |-> "not popped"]
      BY <1>10 DEF Dead
    <2> QED
      BY <2>1, <2>2 DEF Objects
  <1>12. PICK os : os = [objs EXCEPT ![o] = new]
    OBVIOUS
  <1>13. /\ HeldTypes /\ \A p \in Obj : objs[p].ref \/ Owned(objs[p].own)
         /\ (list.count = 1 => Owned(list.item)) /\ Flagged(list.item)
    BY DEF HeldInv, MembersRight, MembersAreOwned
  <1>14. objs \in [Obj -> Objects] /\ running \in SUBSET Obj /\ frameToActions' \in [Frame -> SUBSET Actions]
    BY <1>5, <1>13 DEF HeldTypes
  <1>15. os \in [Obj -> Objects] /\ os[o] = new /\ \A p \in Obj : p # o => os[p] = objs[p]
    BY <1>7, <1>11, <1>12, <1>14
  <1>16. \A p \in Obj : os[p].ref \/ Owned(os[p].own)
    BY <1>11, <1>13, <1>15
  <1>17. RefsAre(os, running, frameToActions')
    <2>1. /\ \A f \in Frame : \A a \in frameToActions[f] :
               a.obj \in running /\ objs[a.obj].ref /\ objs[a.obj].maker = f /\ objs[a.obj].line = a.line
          /\ \A p \in Obj : objs[p].ref => \E f \in Frame : \E a \in frameToActions[f] : a.obj = p
          /\ \A p \in running : objs[p].line \in Statements => objs[p].ref
      BY DEF HeldInv, RefsRight, RefsAre
    <2>2. ASSUME NEW f \in Frame, NEW a \in frameToActions[f]
          PROVE  a.obj \in running /\ os[a.obj].ref /\ os[a.obj].maker = f /\ os[a.obj].line = a.line
      BY <1>7, <1>14, <1>15, <2>1
    <2>3. \A p \in Obj : os[p].ref => \E f \in Frame : \E a \in frameToActions[f] : a.obj = p
      BY <1>11, <1>15, <2>1
    <2>4. \A p \in running : os[p].line \in Statements => os[p].ref
      BY <1>11, <1>14, <1>15, <2>1 DEF Statements
    <2> QED
      BY <1>5, <2>2, <2>3, <2>4 DEF RefsAre
  <1>18. Live(os, running)
    BY <1>6, <1>10, <1>12
  <1>19. /\ objs' \in [Obj -> Objects] /\ running' \subseteq Obj /\ RefsRight'
         /\ \A p \in Obj : objs'[p].ref \/ Owned(objs'[p].own)
    BY <1>14, <1>15, <1>16, <1>17, <1>18, LiveKeeps
  <1>20. HeldTypes'
    BY <1>5, <1>9, <1>13, <1>19, SameFramesKeep DEF HeldTypes
  <1>21. FramesRight'
    BY <1>5, <1>9, FramesStay
  <1>22. MembersRight'
    BY <1>5, <1>13, <1>19 DEF MembersRight, MembersAreOwned
  <1> QED
    BY <1>5, <1>19, <1>20, <1>21, <1>22, PriorStays DEF HeldInv
\* An object that comes from the list is the reference that its action resolves.
LEMMA ExtractKeeps ==
  ASSUME HeldInv, NEW t \in users, NEW was \in {"not popped", "set", "unset"}, Extract(t, was)
  PROVE  /\ stack' \in [HeldThread -> Seq(FrameRecords)] /\ frameToActions' \in [Frame -> SUBSET Actions]
         /\ tracefunc' \in [HeldThread -> {"none", "user", "ours"}] /\ prior' \in {"none", "user"}
         /\ objs' \in [Obj -> Objects] /\ running' \subseteq Obj /\ UNCHANGED <<mine, users>>
         /\ \A u \in users : stack'[u] # <<>>
         /\ FramesRight' /\ RefsRight' /\ PriorRight'
         /\ \A p \in Obj : objs'[p].ref \/ Owned(objs'[p].own)
  <1>1. PICK n : n = Depth(t)
    OBVIOUS
  <1>2. PICK x : x = Top(t)
    OBVIOUS
  <1>3. t \in HeldThread /\ x \in FrameRecords /\ n \in DOMAIN stack[t] /\ x = stack[t][n]
    BY <1>1, <1>2, TopIs
  <1>4. PICK o : o = CHOOSE p \in FreeObj : TRUE
    OBVIOUS
  <1>5. PICK y : y = [x EXCEPT !.temp = o]
    OBVIOUS
  <1>6. PICK a : a = [obj |-> o, line |-> x.line]
    OBVIOUS
  <1>7. PICK new : new = [Dead EXCEPT !.ref = TRUE, !.maker = x.id, !.line = x.line, !.was = was]
    OBVIOUS
  <1>8. PICK os : os = [objs EXCEPT ![o] = new]
    OBVIOUS
  <1>9. /\ FreeObj # {} /\ ~x.raised /\ stack' = [stack EXCEPT ![t] = WithTop(t, y)]
        /\ frameToActions' = [frameToActions EXCEPT ![x.id] = frameToActions[x.id] \cup {a}]
        /\ IF tracefunc[t] = "ours" THEN UNCHANGED <<tracefunc, prior>>
           ELSE tracefunc' = [tracefunc EXCEPT ![t] = "ours"] /\ prior' = tracefunc[t]
        /\ UNCHANGED <<mine, users>>
        /\ Live(os, running \cup {o})
    BY <1>2, <1>4, <1>5, <1>6, <1>7, <1>8 DEF Extract, TraceObject, Computing
  <1>10. o \in Obj /\ \A f \in Frame : \A b \in frameToActions[f] : b.obj # o
    BY <1>4, <1>9, FreeObjIs
  <1>11. y \in FrameRecords /\ y.id = x.id /\ y.line = x.line /\ y.stmt = x.stmt /\ y.raised = x.raised
    BY <1>3, <1>5, <1>10 DEF FrameRecords
  <1>12. SameFrames(t, WithTop(t, y))
    BY <1>2, <1>9, <1>11, TopChanges
  <1>13. /\ HeldTypes /\ \A p \in Obj : objs[p].ref \/ Owned(objs[p].own)
    BY DEF HeldInv, MembersRight, MembersAreOwned
  <1>14. /\ objs \in [Obj -> Objects] /\ running \cup {o} \in SUBSET Obj /\ frameToActions \in [Frame -> SUBSET Actions]
         /\ tracefunc \in [HeldThread -> {"none", "user", "ours"}] /\ prior \in {"none", "user"}
    BY <1>10, <1>13 DEF HeldTypes
  <1>15. x.id \in Frame /\ x.line \in {1, 2, 3} /\ a \in Actions /\ a.obj = o /\ a.line = x.line
    BY <1>3, <1>6, <1>10 DEF FrameRecords, Actions
  <1>16. /\ frameToActions' \in [Frame -> SUBSET Actions] /\ frameToActions'[x.id] = frameToActions[x.id] \cup {a}
         /\ \A f \in Frame : f # x.id => frameToActions'[f] = frameToActions[f]
    BY <1>9, <1>14, <1>15
  <1>17. /\ tracefunc' \in [HeldThread -> {"none", "user", "ours"}] /\ prior' \in {"none", "user"}
         /\ tracefunc'[t] = "ours" /\ \A u \in HeldThread : u # t => tracefunc'[u] = tracefunc[u]
    <2>1. CASE tracefunc[t] = "ours"
      BY <1>9, <1>14, <2>1
    <2>2. CASE tracefunc[t] # "ours"
      <3>1. tracefunc[t] \in {"none", "user"}
        BY <1>3, <1>14, <2>2
      <3> QED
        BY <1>3, <1>9, <1>14, <2>2, <3>1
    <2> QED
      BY <2>1, <2>2
  <1>18. new \in Objects /\ new.ref /\ new.maker = x.id /\ new.line = x.line
    <2>1. new = [ref |-> TRUE, own |-> NoInstance, maker |-> x.id, line |-> x.line, was |-> was]
      BY <1>7 DEF Dead
    <2>2. NoInstance \in Instances
      BY DEF NoInstance, Instances
    <2> QED
      BY <1>15, <2>1, <2>2 DEF Objects
  <1>19. os \in [Obj -> Objects] /\ os[o] = new /\ \A p \in Obj : p # o => os[p] = objs[p]
    BY <1>8, <1>10, <1>14, <1>18
  <1>20. \A p \in Obj : os[p].ref \/ Owned(os[p].own)
    BY <1>13, <1>18, <1>19
  <1>21. RefsAre(os, running \cup {o}, frameToActions')
    <2>1. /\ \A f \in Frame : \A b \in frameToActions[f] :
               b.obj \in running /\ objs[b.obj].ref /\ objs[b.obj].maker = f /\ objs[b.obj].line = b.line
          /\ \A p \in Obj : objs[p].ref => \E f \in Frame : \E b \in frameToActions[f] : b.obj = p
          /\ \A p \in running : objs[p].line \in Statements => objs[p].ref
      BY DEF HeldInv, RefsRight, RefsAre
    <2>2. ASSUME NEW f \in Frame, NEW b \in frameToActions[f]
          PROVE  b.obj \in running /\ os[b.obj].ref /\ os[b.obj].maker = f /\ os[b.obj].line = b.line
      <3>1. b \in Actions /\ b.obj \in Obj /\ b.obj # o
        <4>1. b \in Actions
          BY <1>14
        <4>2. b.obj \in Obj
          BY <4>1 DEF Actions
        <4> QED
          BY <1>10, <4>1, <4>2
      <3>2. b.obj \in running /\ objs[b.obj].ref /\ objs[b.obj].maker = f /\ objs[b.obj].line = b.line
        BY <2>1
      <3> QED
        BY <1>19, <3>1, <3>2
    <2>3. a.obj = o /\ os[o].ref /\ os[o].maker = x.id /\ os[o].line = a.line
      BY <1>15, <1>18, <1>19
    <2>4. ASSUME NEW f \in Frame, NEW b \in frameToActions'[f]
          PROVE  b.obj \in running \cup {o} /\ os[b.obj].ref /\ os[b.obj].maker = f /\ os[b.obj].line = b.line
      <3>1. CASE b \in frameToActions[f]
        BY <2>2, <3>1
      <3>2. CASE b \notin frameToActions[f]
        <4>1. b = a /\ f = x.id
          BY <1>16, <2>4, <3>2
        <4> QED
          BY <2>3, <4>1
      <3> QED
        BY <3>1, <3>2
    <2>5. ASSUME NEW p \in Obj, os[p].ref
          PROVE  \E f \in Frame : \E b \in frameToActions'[f] : b.obj = p
      <3>1. CASE p = o
        BY <1>15, <1>16, <3>1
      <3>2. CASE p # o
        <4>1. PICK f \in Frame : \E b \in frameToActions[f] : b.obj = p
          BY <1>19, <2>1, <2>5, <3>2
        <4>2. frameToActions[f] \subseteq frameToActions'[f]
          BY <1>16
        <4> QED
          BY <4>1, <4>2
      <3> QED
        BY <3>1, <3>2
    <2>6. \A p \in running \cup {o} : os[p].line \in Statements => os[p].ref
      BY <1>14, <1>18, <1>19, <2>1
    <2> QED
      BY <2>4, <2>5, <2>6 DEF RefsAre
  <1>22. /\ objs' \in [Obj -> Objects] /\ running' \subseteq Obj /\ RefsRight'
         /\ \A p \in Obj : objs'[p].ref \/ Owned(objs'[p].own)
    BY <1>9, <1>14, <1>16, <1>19, <1>20, <1>21, LiveKeeps
  <1>23. /\ stack' \in [HeldThread -> Seq(FrameRecords)] /\ \A u \in users : stack'[u] # <<>>
         /\ \A u \in HeldThread :
              /\ DOMAIN stack'[u] = DOMAIN stack[u]
              /\ \A j \in DOMAIN stack[u] : /\ stack'[u][j].id = stack[u][j].id /\ stack'[u][j].line = stack[u][j].line
                                            /\ stack'[u][j].stmt = stack[u][j].stmt /\ stack'[u][j].raised = stack[u][j].raised
         /\ FramesInUse' = FramesInUse
    BY <1>12, SameFramesKeep
  <1>24. FramesRight'
    <2>1. ASSUME NEW u \in HeldThread, NEW j \in DOMAIN stack'[u]
          PROVE  FrameRight(u, j)'
      <3>1. j \in DOMAIN stack[u] /\ FrameRight(u, j)
        BY <1>23 DEF HeldInv, FramesRight
      <3>2. FrameRight(t, n)
        BY <1>3 DEF HeldInv, FramesRight
      <3>3. CASE u = t /\ j = n
        <4>1. /\ stack'[u][j].id = x.id /\ stack'[u][j].line = x.line /\ stack'[u][j].stmt = x.stmt
              /\ stack'[u][j].raised = x.raised
          BY <1>3, <1>23, <3>3
        <4>2. \A b \in frameToActions'[x.id] : b.line \in {x.stmt, 2}
          BY <1>3, <1>15, <1>16, <3>2 DEF FrameRight
        <4>3. x.line \in {x.stmt, 2} /\ tracefunc'[u] = "ours" /\ ~x.raised
          BY <1>3, <1>9, <1>17, <3>2, <3>3 DEF FrameRight
        <4>4. \A v \in HeldThread : \A k \in DOMAIN stack'[v] : stack'[v][k].id = x.id => v = u /\ k = j
          <5>1. \A v \in HeldThread : \A k \in DOMAIN stack[v] : stack[v][k].id = x.id => v = t /\ k = n
            BY <1>3, <3>2 DEF FrameRight
          <5>2. \A v \in HeldThread : \A k \in DOMAIN stack'[v] : k \in DOMAIN stack[v] /\ stack'[v][k].id = stack[v][k].id
            BY <1>23
          <5> QED
            BY <3>3, <5>1, <5>2
        <4> QED
          BY <4>1, <4>2, <4>3, <4>4 DEF FrameRight
      <3>4. CASE ~(u = t /\ j = n)
        <4>1. stack[u][j].id # x.id
          BY <1>3, <3>1, <3>2, <3>4 DEF FrameRight
        <4>2. stack[u][j].id \in Frame
          <5>1. PICK s : s = stack[u]
            OBVIOUS
          <5>2. s \in Seq(FrameRecords) /\ j \in DOMAIN s
            BY <1>13, <3>1, <5>1 DEF HeldTypes
          <5>3. s[j] \in FrameRecords
            BY <5>2, ElementsAre
          <5> QED
            BY <5>1, <5>3 DEF FrameRecords
        <4>3. frameToActions'[stack'[u][j].id] = frameToActions[stack[u][j].id]
          BY <1>16, <1>23, <3>1, <4>1, <4>2
        <4>4. tracefunc[u] = "ours" => tracefunc'[u] = "ours"
          BY <1>17
        <4>5. /\ stack[u][j].line \in {stack[u][j].stmt, 2}
              /\ \A b \in frameToActions[stack[u][j].id] : b.line \in {stack[u][j].stmt, 2}
              /\ frameToActions[stack[u][j].id] # {} => tracefunc[u] = "ours" /\ ~stack[u][j].raised
              /\ \A v \in HeldThread : \A k \in DOMAIN stack[v] : stack[v][k].id = stack[u][j].id => v = u /\ k = j
          BY <3>1 DEF FrameRight
        <4>6. /\ stack'[u][j].id = stack[u][j].id /\ stack'[u][j].line = stack[u][j].line
              /\ stack'[u][j].stmt = stack[u][j].stmt /\ stack'[u][j].raised = stack[u][j].raised
          BY <1>23, <3>1
        <4>7. \A v \in HeldThread : \A k \in DOMAIN stack'[v] : stack'[v][k].id = stack'[u][j].id => v = u /\ k = j
          <5>1. \A v \in HeldThread : \A k \in DOMAIN stack'[v] : k \in DOMAIN stack[v] /\ stack'[v][k].id = stack[v][k].id
            BY <1>23
          <5>2. PICK id : id = stack[u][j].id
            OBVIOUS
          <5>3. \A v \in HeldThread : \A k \in DOMAIN stack[v] : stack[v][k].id = id => v = u /\ k = j
            BY <4>5, <5>2
          <5>4. stack'[u][j].id = id
            BY <4>6, <5>2
          <5> QED
            BY <5>1, <5>3, <5>4
        <4> QED
          BY <4>3, <4>4, <4>5, <4>6, <4>7 DEF FrameRight
      <3> QED
        BY <3>3, <3>4
    <2>2. ASSUME NEW f \in Frame, frameToActions'[f] # {}
          PROVE  f \in FramesInUse'
      <3>1. x.id \in FramesInUse
        BY <1>3, <1>15 DEF FramesInUse
      <3>2. frameToActions[f] # {} => f \in FramesInUse
        BY DEF HeldInv, FramesRight
      <3> QED
        BY <1>16, <1>23, <2>2, <3>1, <3>2
    <2> QED
      BY <2>1, <2>2 DEF FramesRight
  <1>25. PriorRight'
    <2> SUFFICES ASSUME NEW u \in HeldThread, users = {u}
                 PROVE  /\ \A v \in HeldThread \ {u} : tracefunc'[v] = mine[v]
                        /\ tracefunc'[u] = "ours" /\ prior' = mine[u] /\ \E g \in Frame : frameToActions'[g] # {}
      BY <1>9 DEF PriorRight
    <2>1. u = t
      OBVIOUS
    <2>2. /\ \A v \in HeldThread \ {u} : tracefunc[v] = mine[v]
          /\ IF tracefunc[u] = "ours" THEN prior = mine[u] /\ \E g \in Frame : frameToActions[g] # {}
             ELSE tracefunc[u] = mine[u]
      BY DEF HeldInv, PriorRight
    <2>3. \E g \in Frame : frameToActions'[g] # {}
      BY <1>15, <1>16
    <2>4. prior' = mine[u]
      BY <1>9, <2>1, <2>2
    <2> QED
      BY <1>17, <2>1, <2>2, <2>3, <2>4
  <1> QED
    BY <1>9, <1>16, <1>17, <1>22, <1>23, <1>24, <1>25

LEMMA GetItemKeeps ==
  ASSUME HeldInv, NEW t \in users, GetItem(t)
  PROVE  HeldInv'
  <1>1. Extract(t, "not popped") /\ UNCHANGED list
    BY DEF GetItem
  <1>2. HeldTypes /\ MembersRight
    BY DEF HeldInv
  <1>3. /\ stack' \in [HeldThread -> Seq(FrameRecords)] /\ frameToActions' \in [Frame -> SUBSET Actions]
        /\ tracefunc' \in [HeldThread -> {"none", "user", "ours"}] /\ prior' \in {"none", "user"}
        /\ objs' \in [Obj -> Objects] /\ running' \subseteq Obj /\ UNCHANGED <<mine, users>>
        /\ \A u \in users : stack'[u] # <<>>
        /\ FramesRight' /\ RefsRight' /\ PriorRight'
        /\ \A p \in Obj : objs'[p].ref \/ Owned(objs'[p].own)
    BY <1>1, ExtractKeeps
  <1>4. HeldTypes'
    BY <1>1, <1>2, <1>3 DEF HeldTypes
  <1>5. MembersRight'
    BY <1>1, <1>2, <1>3 DEF MembersRight, MembersAreOwned
  <1> QED
    BY <1>3, <1>4, <1>5 DEF HeldInv

LEMMA ZeroIsNotOne == \A c : c = 0 => c # 1
  OBVIOUS

LEMMA PopKeeps ==
  ASSUME HeldInv, NEW t \in users, Pop(t)
  PROVE  HeldInv'
  <1>1. PICK was \in {"not popped", "set", "unset"} : Extract(t, was)
    BY DEF Pop
  <1>2. HeldTypes /\ list.item \in Instances
    BY DEF HeldInv, HeldTypes
  <1>3. list' = [count |-> 0, item |-> HeldDestroyed(list.item)]
    BY DEF Pop
  <1>4. HeldDestroyed(list.item) \in Instances /\ Flagged(HeldDestroyed(list.item))
    BY <1>2, MemberChanges
  <1>5. /\ stack' \in [HeldThread -> Seq(FrameRecords)] /\ frameToActions' \in [Frame -> SUBSET Actions]
        /\ tracefunc' \in [HeldThread -> {"none", "user", "ours"}] /\ prior' \in {"none", "user"}
        /\ objs' \in [Obj -> Objects] /\ running' \subseteq Obj /\ UNCHANGED <<mine, users>>
        /\ \A u \in users : stack'[u] # <<>>
        /\ FramesRight' /\ RefsRight' /\ PriorRight'
        /\ \A p \in Obj : objs'[p].ref \/ Owned(objs'[p].own)
    BY <1>1, ExtractKeeps
  <1>6. list' \in [count : {0, 1}, item : Instances] /\ (list.count = 0 /\ Flagged(list.item))'
    BY <1>3, <1>4
  <1>7. HeldTypes'
    BY <1>2, <1>5, <1>6 DEF HeldTypes
  <1>8. MembersRight'
    <2>1. (\A p \in Obj : objs[p].ref \/ Owned(objs[p].own))'
      BY <1>5
    <2>2. (list.count = 0 /\ Flagged(list.item))'
      BY <1>6
    <2>3. list'.count # 1
      BY <2>2, ZeroIsNotOne
    <2>4. (list.count = 1 => Owned(list.item))'
      BY <2>3
    <2> QED
      BY <2>1, <2>2, <2>4 DEF MembersRight, MembersAreOwned
  <1> QED
    BY <1>5, <1>7, <1>8 DEF HeldInv
LEMMA CallKeeps ==
  ASSUME HeldInv, NEW t \in users, Call(t)
  PROVE  HeldInv'
  <1>1. PICK n : n = Depth(t)
    OBVIOUS
  <1>2. PICK x : x = Top(t)
    OBVIOUS
  <1>3. t \in HeldThread /\ x \in FrameRecords /\ stack[t] \in Seq(FrameRecords) /\ n \in Nat /\ n = Len(stack[t])
    BY <1>1, <1>2, TopIs
  <1>4. PICK o \in {x.temp, x.name} :
          LET f == CHOOSE g \in Frame \ FramesInUse : TRUE
          IN  /\ Frame # FramesInUse /\ stack' = [stack EXCEPT ![t] = Append(stack[t], NewFrame(f, o))]
              /\ UNCHANGED <<frameToActions, tracefunc, prior, objs, list, running, mine, users>>
    BY <1>2 DEF Call
  <1>5. PICK f : f = CHOOSE g \in Frame \ FramesInUse : TRUE
    OBVIOUS
  <1>6. Frame # FramesInUse
    BY <1>4
  <1>7. f \in Frame /\ f \notin FramesInUse
    BY <1>5, <1>6 DEF FramesInUse
  <1>8. o \in Obj \cup {NoObj}
    BY <1>3, <1>4 DEF FrameRecords
  <1>9. PICK y : y = NewFrame(f, o)
    OBVIOUS
  <1>10. y \in FrameRecords /\ y.id = f /\ y.line = 1 /\ y.stmt = 1
    BY <1>7, <1>8, <1>9 DEF NewFrame, FrameRecords, Statements
  <1>11. PICK s : s = stack[t]
    OBVIOUS
  <1>12. PICK st : st = Append(s, y)
    OBVIOUS
  <1>13. stack' = [stack EXCEPT ![t] = st] /\ UNCHANGED <<frameToActions, tracefunc, prior, objs, list, running, mine, users>>
    BY <1>4, <1>5, <1>9, <1>11, <1>12
  <1>14. /\ st \in Seq(FrameRecords) /\ Len(st) = n + 1 /\ DOMAIN st = 1..(n + 1) /\ DOMAIN s = 1..n
         /\ st[n + 1] = y /\ \A k \in DOMAIN s : st[k] = s[k]
    BY <1>3, <1>10, <1>11, <1>12
  <1>15. st # <<>> /\ \A k \in DOMAIN st : k \in DOMAIN s \/ k = n + 1
    BY <1>3, <1>14
  <1>16. HeldTypes
    BY DEF HeldInv
  <1>17. stack'[t] = st /\ \A u \in HeldThread : u # t => stack'[u] = stack[u]
    BY <1>3, <1>13, <1>16 DEF HeldTypes
  <1>18. HeldTypes'
    <2>1. stack' \in [HeldThread -> Seq(FrameRecords)] /\ \A u \in users : stack'[u] # <<>>
      BY <1>3, <1>13, <1>14, <1>15, <1>16 DEF HeldTypes
    <2> QED
      BY <1>13, <1>16, <2>1 DEF HeldTypes
  <1>19. frameToActions[f] = {}
    BY <1>7 DEF HeldInv, FramesRight
  <1>20. \A u \in HeldThread : \A j \in DOMAIN stack[u] : stack[u][j].id # f
    BY <1>7 DEF FramesInUse
  <1>21. \A u \in HeldThread : \A j \in DOMAIN stack'[u] :
           (j \in DOMAIN stack[u] /\ stack'[u][j] = stack[u][j]) \/ (u = t /\ j = n + 1 /\ stack'[u][j] = y)
    <2> SUFFICES ASSUME NEW u \in HeldThread, NEW j \in DOMAIN stack'[u]
                 PROVE  (j \in DOMAIN stack[u] /\ stack'[u][j] = stack[u][j]) \/ (u = t /\ j = n + 1 /\ stack'[u][j] = y)
      OBVIOUS
    <2>1. CASE u # t
      BY <1>17, <2>1
    <2>2. CASE u = t
      BY <1>11, <1>14, <1>15, <1>17, <2>2
    <2> QED
      BY <2>1, <2>2
  <1>22. \A u \in HeldThread : \A j \in DOMAIN stack[u] : j \in DOMAIN stack'[u] /\ stack'[u][j] = stack[u][j]
    <2> SUFFICES ASSUME NEW u \in HeldThread, NEW j \in DOMAIN stack[u]
                 PROVE  j \in DOMAIN stack'[u] /\ stack'[u][j] = stack[u][j]
      OBVIOUS
    <2>1. CASE u # t
      BY <1>17, <2>1
    <2>2. CASE u = t
      <3>1. j \in 1..n /\ j \in 1..(n + 1)
        BY <1>3, <1>11, <1>14, <2>2
      <3> QED
        BY <1>11, <1>14, <1>17, <2>2, <3>1
    <2> QED
      BY <2>1, <2>2
  <1>23. FramesRight'
    <2>1. ASSUME NEW u \in HeldThread, NEW j \in DOMAIN stack'[u]
          PROVE  FrameRight(u, j)'
      <3>1. CASE j \in DOMAIN stack[u] /\ stack'[u][j] = stack[u][j]
        <4>1. /\ stack[u][j].line \in {stack[u][j].stmt, 2}
              /\ \A b \in frameToActions[stack[u][j].id] : b.line \in {stack[u][j].stmt, 2}
              /\ frameToActions[stack[u][j].id] # {} => tracefunc[u] = "ours" /\ ~stack[u][j].raised
              /\ \A v \in HeldThread : \A k \in DOMAIN stack[v] : stack[v][k].id = stack[u][j].id => v = u /\ k = j
          BY <3>1 DEF HeldInv, FramesRight, FrameRight
        <4>2. \A v \in HeldThread : \A k \in DOMAIN stack'[v] : stack'[v][k].id = stack[u][j].id => v = u /\ k = j
          BY <1>10, <1>20, <1>21, <3>1, <4>1
        <4> QED
          BY <1>13, <3>1, <4>1, <4>2 DEF FrameRight
      <3>2. CASE u = t /\ j = n + 1 /\ stack'[u][j] = y
        <4>1. \A v \in HeldThread : \A k \in DOMAIN stack'[v] : stack'[v][k].id = f => v = u /\ k = j
          BY <1>20, <1>21, <3>2
        <4>2. frameToActions'[y.id] = {}
          BY <1>10, <1>13, <1>19
        <4> QED
          BY <1>10, <3>2, <4>1, <4>2 DEF FrameRight
      <3> QED
        BY <1>21, <3>1, <3>2
    <2>2. ASSUME NEW g \in Frame, frameToActions'[g] # {}
          PROVE  g \in FramesInUse'
      <3>1. g \in FramesInUse
        BY <1>13, <2>2 DEF HeldInv, FramesRight
      <3>2. PICK u \in HeldThread : \E j \in DOMAIN stack[u] : stack[u][j].id = g
        BY <3>1 DEF FramesInUse
      <3>3. \E j \in DOMAIN stack'[u] : stack'[u][j].id = g
        BY <1>22, <3>2
      <3> QED
        BY <3>3 DEF FramesInUse
    <2> QED
      BY <2>1, <2>2 DEF FramesRight
  <1>24. RefsRight' /\ MembersRight'
    BY <1>13 DEF HeldInv, RefsRight, RefsAre, MembersRight, MembersAreOwned
  <1> QED
    BY <1>13, <1>18, <1>23, <1>24, PriorStays DEF HeldInv

\* Where only the list changes, or an object that is an instance.
LEMMA StackSame ==
  ASSUME HeldInv, UNCHANGED <<stack, frameToActions, tracefunc, prior, mine, users>>
  PROVE  FramesRight' /\ PriorRight'
  BY PriorStays DEF HeldInv, FramesRight, FrameRight, FramesInUse

LEMMA ChangeListKeeps ==
  ASSUME HeldInv, NEW t \in users, NEW l, ChangeList(t, l), l.count \in {0, 1}, l.item \in Instances,
         l = [count |-> l.count, item |-> l.item], Owned(l.item)
  PROVE  HeldInv'
  <1>1. list' = l /\ UNCHANGED <<stack, frameToActions, tracefunc, prior, objs, running, mine, users>>
    BY DEF ChangeList
  <1>2. HeldTypes'
    <2>1. list' \in [count : {0, 1}, item : Instances]
      BY <1>1
    <2> QED
      BY <1>1, <2>1 DEF HeldInv, HeldTypes
  <1>3. FramesRight' /\ PriorRight'
    BY <1>1, StackSame
  <1>4. RefsRight'
    BY <1>1 DEF HeldInv, RefsRight, RefsAre
  <1>5. MembersRight'
    <2>1. (Owned(list.item) /\ Flagged(list.item))'
      BY <1>1, OwnedIsFlagged
    <2>2. (\A o \in Obj : objs[o].ref \/ Owned(objs[o].own))'
      BY <1>1 DEF HeldInv, MembersRight, MembersAreOwned
    <2> QED
      BY <2>1, <2>2 DEF MembersRight, MembersAreOwned
  <1> QED
    BY <1>2, <1>3, <1>4, <1>5 DEF HeldInv

LEMMA DataIs ==
  ASSUME HeldInv, NEW t \in users, Top(t).name # NoObj
  PROVE  Data(Top(t).name) \in Instances
  <1>1. PICK o : o = Top(t).name
    OBVIOUS
  <1>2. o \in Obj
    <2>1. Top(t) \in FrameRecords
      BY TopIs
    <2> QED
      BY <1>1, <2>1 DEF FrameRecords
  <1>3. objs[o] \in Objects /\ list.item \in Instances
    BY <1>2 DEF HeldInv, HeldTypes
  <1> QED
    BY <1>1, <1>3 DEF Data, Objects

LEMMA AssignItemKeeps ==
  ASSUME HeldInv, NEW t \in users, AssignItem(t)
  PROVE  HeldInv'
  <1>1. PICK l : l = [list EXCEPT !.item = HeldAssigned(list.item, Data(Top(t).name))]
    OBVIOUS
  <1>2. list.count = 1 /\ Top(t).name # NoObj /\ ChangeList(t, l)
    BY <1>1 DEF AssignItem
  <1>3. list \in [count : {0, 1}, item : Instances] /\ Owned(list.item)
    BY <1>2 DEF HeldInv, HeldTypes, MembersRight, MembersAreOwned
  <1>4. Data(Top(t).name) \in Instances
    BY <1>2, DataIs
  <1>5. /\ HeldAssigned(list.item, Data(Top(t).name)) \in Instances
        /\ Owned(HeldAssigned(list.item, Data(Top(t).name)))
    BY <1>3, <1>4, AssignedIs
  <1>6. l = [count |-> list.count, item |-> HeldAssigned(list.item, Data(Top(t).name))]
    BY <1>1, <1>3
  <1> QED
    BY <1>2, <1>3, <1>5, <1>6, ChangeListKeeps

LEMMA AppendItemKeeps ==
  ASSUME HeldInv, NEW t \in users, AppendItem(t)
  PROVE  HeldInv'
  <1>1. PICK copied \in {HeldCopied(list.item, Data(Top(t).name)), HeldCopiedCompiled(list.item, Data(Top(t).name))} :
          ChangeList(t, [count |-> 1, item |-> copied])
    BY DEF AppendItem
  <1>2. list.item \in Instances /\ Flagged(list.item)
    BY DEF HeldInv, HeldTypes, MembersRight
  <1>3. Data(Top(t).name) \in Instances
    BY DataIs DEF AppendItem
  <1>4. HeldMade(list.item) \in Instances /\ Flagged(HeldMade(list.item))
    BY <1>2, MadeIs
  <1>5. copied \in Instances /\ Owned(copied)
    BY <1>1, <1>2, <1>3, <1>4, CopiedIs DEF HeldCopiedCompiled
  <1>6. PICK l : l = [count |-> 1, item |-> copied]
    OBVIOUS
  <1>7. ChangeList(t, l) /\ l.count = 1 /\ l.item = copied /\ l = [count |-> l.count, item |-> l.item]
    BY <1>1, <1>6
  <1> QED
    BY <1>5, <1>7, ChangeListKeeps

LEMMA ChangeMemberKeeps ==
  ASSUME HeldInv, NEW t \in users, NEW o \in Obj, NEW i \in Instances, ChangeMember(t, o, i),
         Flagged(i), Owned(Data(o)) => Owned(i)
  PROVE  HeldInv'
  <1>1. HeldTypes /\ MembersRight
    BY DEF HeldInv
  <1>2. objs \in [Obj -> Objects] /\ list \in [count : {0, 1}, item : Instances]
    BY <1>1 DEF HeldTypes
  <1>3. UNCHANGED <<stack, frameToActions, tracefunc, prior, running, mine, users>>
    BY DEF ChangeMember
  <1>4. FramesRight' /\ PriorRight'
    BY <1>3, StackSame
  <1>5. CASE objs[o].ref
    <2>1. list' = [list EXCEPT !.item = i] /\ UNCHANGED objs
      BY <1>5 DEF ChangeMember
    <2>2. list' = [count |-> list.count, item |-> i]
      BY <1>2, <2>1
    <2>3. HeldTypes'
      <3>1. list' \in [count : {0, 1}, item : Instances]
        BY <1>2, <2>2
      <3> QED
        BY <1>1, <1>3, <2>1, <3>1 DEF HeldTypes
    <2>4. RefsRight'
      BY <1>3, <2>1 DEF HeldInv, RefsRight, RefsAre
    <2>5. MembersRight'
      <3>1. list.count = 1 => Owned(i)
        BY <1>1, <1>5 DEF MembersRight, MembersAreOwned, Data
      <3>2. list'.count = list.count /\ list'.item = i
        BY <2>2
      <3>3. (list.count = 1 => Owned(list.item))' /\ Flagged(list.item)'
        BY <3>1, <3>2
      <3> QED
        BY <1>1, <2>1, <3>3 DEF MembersRight, MembersAreOwned
    <2> QED
      BY <1>4, <2>3, <2>4, <2>5 DEF HeldInv
  <1>6. CASE ~objs[o].ref
    <2>1. PICK x : x = objs[o]
      OBVIOUS
    <2>2. PICK y : y = [x EXCEPT !.own = i, !.was = "not popped"]
      OBVIOUS
    <2>3. objs' = [objs EXCEPT ![o] = y] /\ UNCHANGED list
      BY <1>2, <1>6, <2>1, <2>2 DEF ChangeMember
    <2>4. x \in Objects /\ ~x.ref
      BY <1>2, <1>6, <2>1
    <2>5. y \in Objects /\ y.ref = x.ref /\ y.maker = x.maker /\ y.line = x.line /\ y.own = i
      BY <2>2, <2>4 DEF Objects
    <2>6. objs' \in [Obj -> Objects] /\ objs'[o] = y /\ \A p \in Obj : p # o => objs'[p] = objs[p]
      BY <1>2, <2>3, <2>5
    <2>7. \A p \in Obj : objs'[p].ref = objs[p].ref /\ objs'[p].maker = objs[p].maker /\ objs'[p].line = objs[p].line
      BY <2>1, <2>5, <2>6
    <2>8. HeldTypes'
      BY <1>1, <1>3, <2>3, <2>6 DEF HeldTypes
    <2>9. RefsRight'
      <3>1. \A f \in Frame : \A a \in frameToActions[f] : a.obj \in Obj
        BY <1>1 DEF HeldTypes, Actions
      <3>2. running \subseteq Obj
        BY <1>1 DEF HeldTypes
      <3>3. /\ \A f \in Frame : \A a \in frameToActions[f] :
                 a.obj \in running /\ objs[a.obj].ref /\ objs[a.obj].maker = f /\ objs[a.obj].line = a.line
            /\ \A p \in Obj : objs[p].ref => \E f \in Frame : \E a \in frameToActions[f] : a.obj = p
            /\ \A p \in running : objs[p].line \in Statements => objs[p].ref
        BY DEF HeldInv, RefsRight, RefsAre
      <3>4. /\ \A f \in Frame : \A a \in frameToActions[f] :
                 a.obj \in running /\ objs'[a.obj].ref /\ objs'[a.obj].maker = f /\ objs'[a.obj].line = a.line
            /\ \A p \in Obj : objs'[p].ref => \E f \in Frame : \E a \in frameToActions[f] : a.obj = p
            /\ \A p \in running : objs'[p].line \in Statements => objs'[p].ref
        BY <2>7, <3>1, <3>2, <3>3
      <3> QED
        BY <1>3, <3>4 DEF RefsRight, RefsAre
    <2>10. MembersRight'
      <3>1. \A p \in Obj : objs[p].ref \/ Owned(objs[p].own)
        BY <1>1 DEF MembersRight, MembersAreOwned
      <3>2. Owned(i)
        BY <1>6, <3>1 DEF Data
      <3>3. \A p \in Obj : objs'[p].ref \/ Owned(objs'[p].own)
        BY <2>5, <2>6, <3>1, <3>2
      <3> QED
        BY <1>1, <2>3, <3>3 DEF MembersRight, MembersAreOwned
    <2> QED
      BY <1>4, <2>8, <2>9, <2>10 DEF HeldInv
  <1> QED
    BY <1>5, <1>6

LEMMA MemberKeeps ==
  ASSUME HeldInv, NEW t \in users, SetMember(t) \/ DelMember(t)
  PROVE  HeldInv'
  <1>1. PICK o \in {Top(t).temp, Top(t).name} \ {NoObj} :
          ChangeMember(t, o, HeldSet(Data(o))) \/ ChangeMember(t, o, HeldDeleted(Data(o)))
    BY DEF SetMember, DelMember
  <1>2. o \in Obj
    <2>1. Top(t) \in FrameRecords
      BY TopIs
    <2> QED
      BY <1>1, <2>1 DEF FrameRecords
  <1>3. Data(o) \in Instances
    <2>1. objs[o] \in Objects /\ list.item \in Instances
      BY <1>2 DEF HeldInv, HeldTypes
    <2> QED
      BY <2>1 DEF Data, Objects
  <1>4. /\ HeldSet(Data(o)) \in Instances /\ (Owned(Data(o)) => Owned(HeldSet(Data(o)))) /\ Flagged(HeldSet(Data(o)))
        /\ HeldDeleted(Data(o)) \in Instances /\ Owned(HeldDeleted(Data(o))) /\ Flagged(HeldDeleted(Data(o)))
    BY <1>3, MemberChanges
  <1>5. CASE ChangeMember(t, o, HeldSet(Data(o)))
    BY <1>2, <1>4, <1>5, ChangeMemberKeeps
  <1>6. CASE ChangeMember(t, o, HeldDeleted(Data(o)))
    BY <1>2, <1>4, <1>6, ChangeMemberKeeps
  <1> QED
    BY <1>1, <1>5, <1>6
-----------------------------------------------------------------------------
(* Theorems.                                                               *)

LEMMA InitIsRight == InitHeld => HeldInv
  <1> SUFFICES ASSUME InitHeld
               PROVE  HeldInv
    OBVIOUS
  <1>1. PICK frames : frames = CHOOSE fs \in [HeldThread -> Frame] : \A t, u \in HeldThread : fs[t] = fs[u] => t = u
    OBVIOUS
  <1>2. frames \in [HeldThread -> Frame] /\ \A t, u \in HeldThread : frames[t] = frames[u] => t = u
    BY <1>1, HeldAssumption
  <1>3. /\ users \in Parties /\ mine = [t \in HeldThread |-> IF users = {t} THEN "user" ELSE "none"]
        /\ stack = [t \in HeldThread |-> IF t \in users THEN <<NewFrame(frames[t], NoObj)>> ELSE <<>>]
        /\ frameToActions = [f \in Frame |-> {}] /\ tracefunc = mine /\ prior = "none"
        /\ objs = [o \in Obj |-> Dead] /\ list = [count |-> 1, item |-> NoInstance] /\ running = {}
    BY <1>1 DEF InitHeld
  <1>4. users \subseteq HeldThread
    BY <1>3, HeldAssumption
  <1>5. ASSUME NEW f \in Frame
        PROVE  /\ NewFrame(f, NoObj) \in FrameRecords /\ NewFrame(f, NoObj).id = f
               /\ NewFrame(f, NoObj).line = NewFrame(f, NoObj).stmt
    BY DEF NewFrame, FrameRecords, Statements
  <1>6. ASSUME NEW t \in HeldThread
        PROVE  /\ stack[t] \in Seq(FrameRecords) /\ (t \in users => stack[t] # <<>>)
               /\ \A i \in DOMAIN stack[t] : i = 1 /\ stack[t][i] = NewFrame(frames[t], NoObj)
    <2>1. PICK y : y = NewFrame(frames[t], NoObj)
      OBVIOUS
    <2>2. y \in FrameRecords
      BY <1>2, <1>5, <2>1
    <2>3. CASE t \in users
      <3>1. stack[t] = <<y>>
        BY <1>3, <2>1, <2>3
      <3> QED
        BY <2>1, <2>2, <3>1
    <2>4. CASE t \notin users
      BY <1>3, <2>4
    <2> QED
      BY <2>3, <2>4
  <1>7. NoInstance \in Instances /\ Owned(NoInstance) /\ Flagged(NoInstance)
    BY DEF NoInstance, Instances, Owned, Flagged
  <1>8. HeldTypes
    <2>1. stack \in [HeldThread -> Seq(FrameRecords)]
      BY <1>3, <1>6
    <2>2. mine \in [HeldThread -> {"none", "user", "ours"}]
      BY <1>3
    <2>3. list \in [count : {0, 1}, item : Instances]
      BY <1>3, <1>7
    <2>4. objs \in [Obj -> Objects]
      BY <1>3, DeadIs
    <2> QED
      BY <1>3, <1>4, <1>6, <2>1, <2>2, <2>3, <2>4 DEF HeldTypes
  <1>9. FramesRight
    <2>1. ASSUME NEW t \in HeldThread, NEW i \in DOMAIN stack[t]
          PROVE  FrameRight(t, i)
      <3>1. frames[t] \in Frame
        BY <1>2
      <3>2. stack[t][i].id = frames[t] /\ stack[t][i].line = stack[t][i].stmt /\ i = 1
        BY <1>5, <1>6, <3>1
      <3>3. \A u \in HeldThread : \A j \in DOMAIN stack[u] : stack[u][j].id = frames[u] /\ j = 1
        BY <1>2, <1>5, <1>6
      <3>4. frameToActions[frames[t]] = {}
        BY <1>3, <3>1
      <3> QED
        BY <1>2, <3>2, <3>3, <3>4 DEF FrameRight
    <2>2. \A f \in Frame : frameToActions[f] = {}
      BY <1>3
    <2> QED
      BY <2>1, <2>2 DEF FramesRight
  <1>10. RefsRight
    BY <1>3, DeadIs DEF RefsRight, RefsAre
  <1>11. PriorRight
    <2>1. \A t \in HeldThread : tracefunc[t] = mine[t] /\ tracefunc[t] # "ours"
      BY <1>3
    <2> QED
      BY <2>1 DEF PriorRight
  <1>12. MembersRight
    BY <1>3, <1>7, DeadIs DEF MembersRight, MembersAreOwned
  <1> QED
    BY <1>8, <1>9, <1>10, <1>11, <1>12 DEF HeldInv

LEMMA HeldKeeps == HeldInv /\ [NextHeld]_heldVars => HeldInv'
  <1>1. ASSUME HeldInv, NextHeld
        PROVE  HeldInv'
    <2>1. PICK t \in users :
            \/ GetItem(t) \/ Pop(t) \/ Construct(t) \/ Bind(t)
            \/ SetMember(t) \/ DelMember(t) \/ AssignItem(t) \/ AppendItem(t)
            \/ NextStatement(t) \/ Continue(t) \/ Call(t) \/ Return(t) \/ Raise(t) \/ Unwind(t)
      BY <1>1 DEF NextHeld
    <2> QED
      BY <1>1, <2>1, GetItemKeeps, PopKeeps, ConstructKeeps, BindKeeps, MemberKeeps, AssignItemKeeps, AppendItemKeeps,
         NextStatementKeeps, ContinueKeeps, CallKeeps, ReturnKeeps, RaiseKeeps, UnwindKeeps
  <1>2. ASSUME HeldInv, UNCHANGED heldVars
        PROVE  HeldInv'
    <2>1. UNCHANGED <<stack, frameToActions, tracefunc, prior, objs, list, running, mine, users>>
      BY <1>2 DEF heldVars
    <2>2. FramesRight' /\ PriorRight'
      BY <1>2, <2>1, StackSame
    <2>3. HeldTypes'
      BY <1>2, <2>1 DEF HeldInv, HeldTypes
    <2>4. RefsRight' /\ MembersRight'
      BY <1>2, <2>1 DEF HeldInv, RefsRight, RefsAre, MembersRight, MembersAreOwned
    <2> QED
      BY <2>2, <2>3, <2>4 DEF HeldInv
  <1> QED
    BY <1>1, <1>2

\* The inductive invariant: every reference has one action, of the frame and the
\* line that asked for it, in a statement of that frame that has not ended, and
\* every thread with such a frame is traced (globalTraceFun, traceObject).
THEOREM HeldInvariant == HeldSpec => []HeldInv
  BY InitIsRight, HeldKeeps, PTL DEF HeldSpec

\* An object refers into the list exactly while the statement that asked for it
\* runs, and a thread that was alone gets its own trace function back.
THEOREM ReferencesDoEnd == HeldSpec => []ReferencesEnd
  <1>1. HeldInv => ReferencesEnd
    <2> SUFFICES ASSUME HeldInv
                 PROVE  ReferencesEnd
      OBVIOUS
    <2>1. \A o \in Obj : objs[o].ref => o \in running
      <3> SUFFICES ASSUME NEW o \in Obj, objs[o].ref
                   PROVE  o \in running
        OBVIOUS
      <3>1. PICK f \in Frame : \E a \in frameToActions[f] : a.obj = o
        BY DEF HeldInv, RefsRight, RefsAre
      <3> QED
        BY <3>1 DEF HeldInv, RefsRight, RefsAre
    <2>2. \A o \in running : objs[o].line \in Statements => objs[o].ref
      BY DEF HeldInv, RefsRight, RefsAre
    <2>3. ASSUME NEW t \in HeldThread, users = {t}, \A f \in Frame : frameToActions[f] = {}
          PROVE  tracefunc = mine
      <3>1. tracefunc[t] = mine[t] /\ \A u \in HeldThread \ {t} : tracefunc[u] = mine[u]
        BY <2>3 DEF HeldInv, PriorRight
      <3>2. tracefunc \in [HeldThread -> {"none", "user", "ours"}]
        BY DEF HeldInv, HeldTypes
      <3>3. mine = [u \in HeldThread |-> IF users = {u} THEN "user" ELSE "none"]
        BY DEF HeldInv, HeldTypes
      <3>4. mine \in [HeldThread -> {"none", "user", "ours"}]
        BY <3>3
      <3>5. \A u \in HeldThread : tracefunc[u] = mine[u]
        BY <3>1
      <3> QED
        BY <3>2, <3>4, <3>5
    <2> QED
      BY <2>1, <2>2, <2>3 DEF ReferencesEnd
  <1> QED
    BY <1>1, HeldInvariant, PTL

\* A member is constructed exactly if its flag says so, in the list and in every
\* instance that the program holds.
THEOREM MembersStayOwned == HeldSpec => []MembersAreOwned
  <1>1. HeldInv => MembersAreOwned
    BY DEF HeldInv, MembersRight
  <1> QED
    BY <1>1, HeldInvariant, PTL
=============================================================================
