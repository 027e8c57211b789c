--------------------------- MODULE ConverterProofs --------------------------
(***************************************************************************)
(* The converter forgets nothing, gives code that a second conversion      *)
(* would not change, of the tightest types, and links all of it: for any   *)
(* functions and types, any program and any compiler cache, any order of   *)
(* the work list and any number of conversions and links that raise.       *)
(***************************************************************************)
EXTENDS Converter, TLAPS

Defined == {f \in Fn : definitions[f] # NoDraft}
Targets == Types \cup {NoTarget}

\* Functions get a level when they are asked for, and lose it with their name.
Leveled ==
  /\ \A f \in Fn : level[f] >= -1 /\ (level[f] # -1 => f \in names)
  /\ \A f \in inflight : level[f] # -1

\* What is dirty is on the work list, and has a conversion unless it is
\* cached; what has no definition yet is dirty.
Listed ==
  /\ phase # "resolving" => inflight = {}
  /\ dirty \subseteq inflight \cup cached
  /\ \A f \in dirty : \E q \in order : q[2] = f
  /\ \A f \in inflight : drafts[f] = NoDraft => f \in dirty

\* A name is defined, cached or in flight; a target is that of a name.
Named ==
  /\ inflight \subseteq names
  /\ names \subseteq Defined \cup cached \cup inflight
  /\ \A f \in Fn : targets[f] # NoTarget => f \in names /\ (level[f] # -1 \/ f \in cached)
  /\ \A f \in inflight : Native(f) => targets[f] # NoTarget

\* The cache's module is loaded at once or not at all, and nothing that it
\* holds is ever converted.
Stored ==
  /\ cached = {} \/ cached = DOMAIN store
  /\ cached \subseteq names /\ names \cap DOMAIN store \subseteq cached
  /\ \A f \in cached : targets[f] = store[f] /\ f \notin inflight

\* Who calls a function in flight is in flight.
Followed == \A e \in edges : e[2] \in names /\ (e[2] \in inflight => e[1] \in inflight)

\* A definition in flight that is not dirty is what a second conversion would
\* give; the functions it calls know of the call.
DraftsRight(f) ==
  /\ targets[f] # NoTarget /\ DOMAIN drafts[f].calls \subseteq names
  /\ f \in inflight => /\ targets[f] = out[f]
                       /\ \A g \in DOMAIN drafts[f].calls : <<f, g>> \in edges
                       /\ f \notin dirty => drafts[f] = Code(f, targets, targets[f])
Drafted == \A f \in Fn : drafts[f] # NoDraft => DraftsRight(f)

\* So is one that was installed, and all that it calls is installed or cached.
Installed ==
  /\ \A f \in Defined : /\ f \notin inflight /\ targets[f] # NoTarget
                        /\ definitions[f] = Code(f, targets, targets[f])
                        /\ DOMAIN definitions[f].calls \subseteq Defined \cup cached
  /\ fresh \cup linked \subseteq Defined

Orderly == Leveled /\ Listed /\ Named /\ Stored /\ Followed /\ Drafted /\ Installed

ConverterInv ==
  /\ TypeOK
  /\ Only({"convert", "link"}) => Orderly
  /\ Only({"convert"}) => CallsAreLinked
  /\ Only({"ast", "convert", "interrupt"}) => DefinedIsBuilt

-----------------------------------------------------------------------------
(* Conversions.                                                            *)

LEMMA Undefined ==
  ASSUME NEW d, IsDraft(d)
  PROVE  d # NoDraft
  BY SentinelAssumption DEF IsDraft, NoDraft, NoTarget, Types

LEMMA TargetIsNot == NoTarget \notin Types
  BY SentinelAssumption DEF NoTarget, Types

LEMMA CallsAre ==
  ASSUME body \in [Fn -> Body], NEW f \in Fn, NEW K \in [Fn -> Targets]
  PROVE  /\ Calls(f, K) \subseteq Fn
         /\ \A s \in body[f].calls : s \in Statement
         /\ \A s \in body[f].calls : s.inner \in Calls(f, K) /\ Outer(s, K) \subseteq Calls(f, K)
  <1>1. \A s \in body[f].calls : s \in Statement
    BY DEF Body
  <1>2. ASSUME NEW s \in body[f].calls
        PROVE  s.inner \in Fn /\ Outer(s, K) \subseteq Fn
    <2>1. s.inner \in Fn /\ s.outer \in [Types -> Fn \cup {NoFn}]
      BY <1>1 DEF Statement
    <2>2. Comes(K[s.inner]) => K[s.inner] \in Types
      BY <2>1 DEF Comes, Targets
    <2> QED
      BY <2>1, <2>2 DEF Outer
  <1> QED
    BY <1>1, <1>2 DEF Calls

LEMMA GatheredIs ==
  ASSUME body \in [Fn -> Body], NEW f \in Fn, NEW K \in [Fn -> Targets]
  PROVE  Gathered(f, K) \in Types
  <1>1. body[f].returns \in Types
    BY DEF Body
  <1>2. ASSUME NEW s \in body[f].calls, Comes(Result(s, K))
        PROVE  Result(s, K) \in Types
    <2>1. s \in Statement
      BY CallsAre
    <2>2. s.inner \in Fn /\ s.outer \in [Types -> Fn \cup {NoFn}]
      BY <2>1 DEF Statement
    <2>3. Comes(K[s.inner]) => s.outer[K[s.inner]] \in Fn \cup {NoFn}
      BY <2>2 DEF Comes, Targets
    <2>4. Result(s, K) \in Targets
      BY <2>2, <2>3 DEF Result
    <2> QED
      BY <2>4, <1>2 DEF Comes, Targets
  <1>3. \A s \in {c \in body[f].calls : Comes(Result(c, K))} : Result(s, K) \subseteq Type
    BY <1>2 DEF Types
  <1> QED
    BY <1>1, <1>3 DEF Gathered, Types

\* What a function is converted to depends on the targets it calls only.
LEMMA SameCode ==
  ASSUME body \in [Fn -> Body], NEW f \in Fn, NEW t,
         NEW K \in [Fn -> Targets], NEW L \in [Fn -> Targets],
         \A g \in Calls(f, K) : L[g] = K[g]
  PROVE  Code(f, L, t) = Code(f, K, t)
  <1>1. \A s \in body[f].calls : L[s.inner] = K[s.inner]
    BY CallsAre
  <1>2. \A s \in body[f].calls : Outer(s, L) = Outer(s, K)
    BY <1>1 DEF Outer
  <1>3. Calls(f, L) = Calls(f, K)
    BY <1>2 DEF Calls
  <1> QED
    BY <1>3 DEF Code

LEMMA CodeIs ==
  ASSUME body \in [Fn -> Body], NEW f \in Fn, NEW t \in Types, NEW K \in [Fn -> Targets]
  PROVE  /\ IsDraft(Code(f, K, t)) /\ Code(f, K, t) # NoDraft
         /\ Code(f, K, t).type = t
         /\ DOMAIN Code(f, K, t).calls = Calls(f, K)
  <1>1. Calls(f, K) \in SUBSET Fn
    BY CallsAre
  <1>2. [g \in Calls(f, K) |-> K[g]] \in [Calls(f, K) -> Types \cup {NoTarget}]
    BY <1>1 DEF Targets
  <1>3. Code(f, K, t) \in [calls : [Calls(f, K) -> Types \cup {NoTarget}], type : Types]
    BY <1>2 DEF Code
  <1>4. IsDraft(Code(f, K, t))
    BY <1>1, <1>3 DEF IsDraft
  <1> QED
    BY <1>4, Undefined DEF Code
-----------------------------------------------------------------------------
(* Asking for functions.                                                   *)

LEMMA AskedTypes ==
  ASSUME TypeOK, NEW C \in SUBSET Fn
  PROVE  /\ TargetsWith(C) \in [Fn -> Targets] /\ Answers \in [Fn -> Targets]
         /\ OutWith(Begun(C)) \in [Fn -> Types]
         /\ LoadedBy(C) \subseteq Fn /\ Begun(C) \subseteq C /\ NamesWith(C) \subseteq Fn
  <1>1. body \in [Fn -> Body] /\ targets \in [Fn -> Targets] /\ out \in [Fn -> Types] /\ names \subseteq Fn
        /\ DOMAIN store \subseteq Fn /\ \A f \in DOMAIN store : store[f] \in Types
    BY DEF TypeOK, Targets
  <1>2. \A f \in Fn : body[f].returns \in Types
    BY <1>1 DEF Body
  <1>3. \A f \in Fn : Answer(f) \in Targets
    BY <1>1, <1>2 DEF Answer, InStore, Targets
  <1>4. LoadedBy(C) \subseteq DOMAIN store
    BY DEF LoadedBy
  <1>5. \A f \in LoadedBy(C) : store[f] \in Types
    BY <1>1, <1>4
  <1>6. \A f \in Fn : (IF f \in LoadedBy(C) THEN store[f] ELSE IF f \in C THEN Answer(f) ELSE targets[f]) \in Targets
    BY <1>1, <1>3, <1>5 DEF Targets
  <1>7. {} \in Types
    BY DEF Types
  <1>8. \A f \in Fn : (IF f \notin Begun(C) \ inflight THEN out[f] ELSE IF body[f].kind = "inferred" THEN {} ELSE body[f].returns) \in Types
    BY <1>1, <1>2, <1>7
  <1> QED
    BY <1>1, <1>3, <1>4, <1>6, <1>8 DEF TargetsWith, Answers, OutWith, NamesWith, Begun

LEMMA AskedLevels ==
  ASSUME TypeOK, NEW C \in SUBSET Fn, NEW c \in Fn \cup {NoFn}
  PROVE  /\ LevelWith(C, c) \in [Fn -> Int] /\ OrderWith(C, c) \subseteq Int \X Fn
         /\ New(C) \subseteq C
  <1>1. Depth(c) \in Int /\ NewPriority(c) \in Int
    BY DEF TypeOK, Depth, NewPriority, Far
  <1> QED
    BY <1>1 DEF LevelWith, OrderWith, New, TypeOK

\* What is there, or has a name: nothing changes for it.
LEMMA NamesStay ==
  ASSUME TypeOK, Named, Stored, Installed, NEW C \in SUBSET Fn
  PROVE  /\ LoadedBy(C) # {} => LoadedBy(C) = DOMAIN store /\ cached = {}
         /\ LoadedBy(C) \cap names = {}
         /\ \A f \in names : TargetsWith(C)[f] = targets[f]
         /\ \A f \in names : targets[f] = NoTarget => f \in inflight
  <1>1. \A f \in DOMAIN store : store[f] # NoTarget /\ f \in Fn
    BY TargetIsNot DEF TypeOK
  <1>2. LoadedBy(C) # {} => LoadedBy(C) = DOMAIN store /\ cached = {}
    BY DEF Stored, LoadedBy, InStore
  <1>3. LoadedBy(C) \cap names = {}
    BY <1>2 DEF Stored
  <1>4. \A f \in names : targets[f] = NoTarget => f \in inflight
    <2>1. cached \subseteq DOMAIN store
      BY DEF Stored
    <2> QED
      BY <1>1, <2>1 DEF Named, Stored, Installed
  <1>5. ASSUME NEW f \in names
        PROVE  TargetsWith(C)[f] = targets[f]
    <2>1. f \in Fn /\ f \notin LoadedBy(C) /\ ~InStore(f)
      BY <1>3 DEF TypeOK, InStore
    <2>2. targets[f] = NoTarget => ~Native(f)
      BY <1>4 DEF Named
    <2> QED
      BY <2>1, <2>2 DEF TargetsWith, Answer
  <1> QED
    BY <1>2, <1>3, <1>4, <1>5

LEMMA Asked ==
  ASSUME TypeOK, Leveled, Named, Stored, Installed, NEW C \in SUBSET Fn
  PROVE  /\ \A f \in Begun(C) : /\ f \notin DOMAIN store /\ f \notin cached /\ f \notin Defined
                                /\ f \notin inflight => f \notin names /\ level[f] = -1
                                /\ Native(f) => TargetsWith(C)[f] # NoTarget
         /\ New(C) \subseteq Begun(C) \cup LoadedBy(C) \cup cached
         /\ C \subseteq names \cup Begun(C) \cup LoadedBy(C)
         /\ \A f \in Fn : TargetsWith(C)[f] # NoTarget =>
              f \in NamesWith(C) /\ (level[f] # -1 \/ f \in cached \/ f \in LoadedBy(C) \/ f \in C)
  <1>1. \A f \in Fn : body[f].returns \in Types
    BY DEF TypeOK, Body
  <1>2. \A f \in DOMAIN store : store[f] # NoTarget /\ f \in Fn
    BY TargetIsNot DEF TypeOK
  <1>3. ASSUME NEW f \in Begun(C)
        PROVE  /\ f \notin DOMAIN store /\ f \notin cached /\ f \notin Defined
               /\ f \notin inflight => f \notin names /\ level[f] = -1
               /\ Native(f) => TargetsWith(C)[f] # NoTarget
    <2>1. f \in C /\ f \in Fn /\ targets[f] = NoTarget /\ ~InStore(f)
      BY DEF Begun
    <2>2. f \notin cached /\ f \notin Defined
      BY <1>2, <2>1 DEF Stored, Installed
    <2>3. f \notin DOMAIN store
      BY <2>1, <2>2 DEF InStore, Stored
    <2>4. f \notin inflight => f \notin names /\ level[f] = -1
      BY <2>1, NamesStay DEF Leveled
    <2>5. f \notin LoadedBy(C)
      BY <2>3 DEF LoadedBy
    <2>6. Native(f) => TargetsWith(C)[f] # NoTarget
      BY <1>1, <2>1, <2>5, TargetIsNot DEF TargetsWith, Answer
    <2> QED
      BY <2>2, <2>3, <2>4, <2>6
  <1>4. New(C) \subseteq Begun(C) \cup LoadedBy(C) \cup cached
    BY DEF New, Begun, LoadedBy, Named, InStore
  <1>5. C \subseteq names \cup Begun(C) \cup LoadedBy(C)
    BY DEF Begun, LoadedBy, Named, InStore
  <1>6. \A f \in Fn : TargetsWith(C)[f] # NoTarget =>
              f \in NamesWith(C) /\ (level[f] # -1 \/ f \in cached \/ f \in LoadedBy(C) \/ f \in C)
    BY DEF TargetsWith, NamesWith, Named
  <1> QED
    BY <1>3, <1>4, <1>5, <1>6
-----------------------------------------------------------------------------
(* Types, and what has raised.                                             *)

LEMMA RaisingIs ==
  ASSUME TypeOK, NEW kind, Raises(kind), UNCHANGED raisers
  PROVE  /\ faults' \in Seq(raisers') /\ Len(faults') <= MaxFaults
         /\ \A kinds : Only(kinds)' => Only(kinds) /\ kind \in kinds
  <1>1. faults \in Seq(raisers) /\ kind \in raisers /\ faults' = Append(faults, kind)
        /\ Len(faults) < MaxFaults /\ MaxFaults \in Nat
    BY FaultsAssumption DEF TypeOK, Raises
  <1>2. Len(faults') = Len(faults) + 1 /\ DOMAIN faults' = 1 .. Len(faults) + 1
    BY <1>1
  <1>3. DOMAIN faults = 1 .. Len(faults) /\ Len(faults) \in Nat
    BY <1>1
  <1>4. \A i \in 1 .. Len(faults) : faults'[i] = faults[i]
    BY <1>1
  <1>5. faults'[Len(faults) + 1] = kind
    BY <1>1
  <1>6. \A kinds : Only(kinds)' => Only(kinds) /\ kind \in kinds
    BY <1>2, <1>3, <1>4, <1>5 DEF Only
  <1> QED
    BY <1>1, <1>2, <1>3, <1>6

LEMMA PairsAre ==
  ASSUME TypeOK, NEW p \in order
  PROVE  p[1] \in Int /\ p[2] \in Fn /\ p = <<p[1], p[2]>> /\ Popped(p) \subseteq order
  BY DEF TypeOK, Popped

LEMMA AskTypes ==
  ASSUME TypeOK, NEW f \in Fn, Compile(f) \/ Refused(f) \/ CompileRaises(f)
  PROVE  TypeOK'
  <1> USE DEF TypeOK
  <1>1. {f} \in SUBSET Fn /\ NoFn \in Fn \cup {NoFn}
    OBVIOUS
  <1> DEFINE C == {f}
  <1>2. /\ TargetsWith(C) \in [Fn -> Targets] /\ OutWith(Begun(C)) \in [Fn -> Types]
        /\ LoadedBy(C) \subseteq Fn /\ Begun(C) \subseteq Fn /\ NamesWith(C) \subseteq Fn
    BY <1>1, AskedTypes
  <1>3. LevelWith(C, NoFn) \in [Fn -> Int] /\ OrderWith(C, NoFn) \subseteq Int \X Fn /\ New(C) \subseteq Fn
    BY <1>1, AskedLevels
  <1> HIDE DEF C
  <1>4. CASE Compile(f)
    BY <1>2, <1>3, <1>4 DEF Compile, scenario, output, C, Targets
  <1>5. CASE Refused(f)
    <2>1. \A g \in LoadedBy(C) : store[g] \in Types
      BY DEF LoadedBy
    <2>2. \A g \in Fn : (IF g \in LoadedBy(C) THEN store[g] ELSE targets[g]) \in Types \cup {NoTarget}
      BY <2>1
    <2> QED
      BY <1>2, <1>5, <2>2 DEF Refused, scenario, graph, conversions, output, control, C
  <1>6. CASE CompileRaises(f)
    <2>1. UNCHANGED raisers /\ Raises("ast")
      BY <1>6 DEF CompileRaises, scenario
    <2>2. faults' \in Seq(raisers') /\ Len(faults') <= MaxFaults
      BY <2>1, RaisingIs
    <2> QED
      BY <1>2, <1>3, <1>6, <2>2 DEF CompileRaises, scenario, conversions, output, C
  <1> QED
    BY <1>4, <1>5, <1>6

LEMMA NewOutIs ==
  ASSUME TypeOK, NEW f \in Fn
  PROVE  NewOut(f) \in Types /\ out[f] \subseteq NewOut(f)
  <1>1. Answers \in [Fn -> Targets] /\ body \in [Fn -> Body] /\ out[f] \in Types
    BY AskedTypes DEF TypeOK
  <1>2. Gathered(f, Answers) \in Types
    BY <1>1, GatheredIs
  <1>3. out[f] \cup Gathered(f, Answers) \in Types
    BY <1>1, <1>2 DEF Types
  <1> QED
    BY <1>1, <1>3 DEF NewOut

LEMMA ConvertTypes ==
  ASSUME TypeOK, NEW p \in order, Convert(p)
  PROVE  TypeOK'
  <1> DEFINE f == p[2]
             C == Calls(f, Answers)
             K == Code(f, Answers, out[f])
  <1>1. f \in Fn /\ Popped(p) \subseteq Int \X Fn
    BY PairsAre DEF TypeOK
  <1>2. Answers \in [Fn -> Targets] /\ body \in [Fn -> Body] /\ out[f] \in Types
    BY <1>1, AskedTypes DEF TypeOK
  <1>3. C \in SUBSET Fn
    BY <1>1, <1>2, CallsAre
  <1>4. IsDraft(K)
    BY <1>1, <1>2, CodeIs
  <1>5. /\ TargetsWith(C) \in [Fn -> Targets] /\ OutWith(Begun(C)) \in [Fn -> Types]
        /\ LoadedBy(C) \subseteq Fn /\ Begun(C) \subseteq Fn /\ NamesWith(C) \subseteq Fn
    BY <1>3, AskedTypes
  <1>6. LevelWith(C, f) \in [Fn -> Int] /\ OrderWith(C, f) \subseteq Int \X Fn /\ New(C) \subseteq Fn
    BY <1>1, <1>3, AskedLevels
  <1>7. NewOut(f) \in Types
    BY <1>1, NewOutIs
  <1>8. Again(f) \subseteq Fn
    BY <1>1 DEF Again
  <1>9. EdgesWith(C, f) \subseteq Fn \X Fn
    BY <1>1, <1>3 DEF EdgesWith, TypeOK
  <1>10. Upstream(f, EdgesWith(C, f)) \subseteq Fn
    BY DEF Upstream
  <1> HIDE DEF f, C, K
  <1>11. /\ level' = LevelWith(C, f) /\ edges' = EdgesWith(C, f)
         /\ dirty' = (dirty \ {f}) \cup New(C) \cup Again(f) \cup Upstream(f, EdgesWith(C, f))
         /\ order' = Popped(p) \cup OrderWith(C, f) \cup {<<LevelWith(C, f)[g] - Far, g>> : g \in Again(f)}
                               \cup {<<LevelWith(C, f)[g], g>> : g \in Upstream(f, EdgesWith(C, f))}
         /\ names' = NamesWith(C) /\ cached' = cached \cup LoadedBy(C)
         /\ targets' = [TargetsWith(C) EXCEPT ![f] = NewOut(f)]
         /\ inflight' = inflight \cup Begun(C)
         /\ out' = [OutWith(Begun(C)) EXCEPT ![f] = NewOut(f)]
         /\ drafts' = [drafts EXCEPT ![f] = K]
         /\ UNCHANGED <<scenario, output, control>>
    BY DEF Convert, f, C, K
  <1>12. order' \subseteq Int \X Fn
    <2>1. \A g \in Fn : LevelWith(C, f)[g] - Far \in Int /\ LevelWith(C, f)[g] \in Int
      BY <1>6 DEF Far
    <2> QED
      BY <1>1, <1>6, <1>8, <1>10, <1>11, <2>1
  <1>13. dirty' \subseteq Fn /\ names' \subseteq Fn /\ cached' \subseteq Fn /\ inflight' \subseteq Fn
    BY <1>5, <1>6, <1>8, <1>10, <1>11 DEF TypeOK
  <1>14. targets' \in [Fn -> Types \cup {NoTarget}] /\ out' \in [Fn -> Types]
    BY <1>5, <1>7, <1>11 DEF Targets
  <1>15. DOMAIN drafts' = Fn /\ \A g \in Fn : drafts'[g] = NoDraft \/ IsDraft(drafts'[g])
    <2>1. DOMAIN drafts = Fn /\ \A g \in Fn : drafts[g] = NoDraft \/ IsDraft(drafts[g])
      BY DEF TypeOK
    <2>2. DOMAIN drafts' = Fn /\ \A g \in Fn : drafts'[g] = IF g = f THEN K ELSE drafts[g]
      BY <1>1, <1>11, <2>1
    <2> QED
      BY <1>4, <2>1, <2>2
  <1> QED
    BY <1>6, <1>9, <1>11, <1>12, <1>13, <1>14, <1>15 DEF TypeOK, scenario, output, control
LEMMA RaisesTypes ==
  ASSUME TypeOK, NEW p \in order, ConversionRaises(p) \/ ParsingRaises(p)
  PROVE  TypeOK'
  <1>1. p[2] \in Fn /\ Popped(p) \subseteq Int \X Fn
    BY PairsAre DEF TypeOK
  <1>2. Answers \in [Fn -> Targets] /\ body \in [Fn -> Body]
    BY <1>1, AskedTypes DEF TypeOK
  <1>3. Calls(p[2], Answers) \subseteq Fn
    BY <1>1, <1>2, CallsAre
  <1>4. \E C \in SUBSET Fn : \E broken, kind : Raises(kind) /\ ConvertRaises(p, C, broken)
    BY <1>3 DEF ConversionRaises, ParsingRaises
  <1> PICK C \in SUBSET Fn : \E broken, kind : Raises(kind) /\ ConvertRaises(p, C, broken)
    BY <1>4
  <1> PICK broken, kind : Raises(kind) /\ ConvertRaises(p, C, broken)
    OBVIOUS
  <1>5. TargetsWith(C) \in [Fn -> Targets] /\ LoadedBy(C) \subseteq Fn /\ NamesWith(C) \subseteq Fn
    BY AskedTypes
  <1>6. LevelWith(C, p[2]) \in [Fn -> Int] /\ OrderWith(C, p[2]) \subseteq Int \X Fn /\ New(C) \subseteq Fn
    BY <1>1, AskedLevels
  <1>7. EdgesWith(C, p[2]) \subseteq Fn \X Fn
    BY <1>1 DEF EdgesWith, TypeOK
  <1> DEFINE D == Dropped(C, broken)
  <1> HIDE DEF D
  <1>8. /\ level' = [f \in Fn |-> IF f \in D THEN -1 ELSE LevelWith(C, p[2])[f]]
        /\ edges' \subseteq EdgesWith(C, p[2])
        /\ dirty' \subseteq dirty \cup New(C) /\ order' = Popped(p) \cup OrderWith(C, p[2])
        /\ names' \subseteq NamesWith(C) /\ cached' = cached \cup LoadedBy(C)
        /\ targets' = [f \in Fn |-> IF f \in D THEN NoTarget ELSE TargetsWith(C)[f]]
        /\ inflight' = {} /\ drafts' = [f \in Fn |-> NoDraft]
        /\ phase' = "idle" /\ root' = NoFn
        /\ UNCHANGED <<scenario, out, output>>
    BY DEF ConvertRaises, D
  <1>9. targets' \in [Fn -> Types \cup {NoTarget}] /\ level' \in [Fn -> Int]
    BY <1>5, <1>6, <1>8 DEF Targets
  <1>10. faults' \in Seq(raisers') /\ Len(faults') <= MaxFaults
    BY <1>8, RaisingIs DEF scenario
  <1> QED
    BY <1>1, <1>5, <1>6, <1>7, <1>8, <1>9, <1>10 DEF TypeOK, scenario, output

LEMMA InstallTypes ==
  ASSUME TypeOK, Install \/ \E S \in SUBSET inflight : InstallRaises(S)
  PROVE  TypeOK'
  <1>1. PICK S \in SUBSET inflight : (Install /\ S = inflight) \/ InstallRaises(S)
    OBVIOUS
  <1>2. /\ definitions' = [f \in Fn |-> IF f \in S THEN drafts[f] ELSE definitions[f]]
        /\ fresh' = fresh \cup S /\ order' = {} /\ inflight' \subseteq inflight
        /\ phase' \in {"idle", "linking"} /\ root' \in {root, NoFn}
        /\ UNCHANGED <<scenario, level, edges, dirty, known, out, drafts, linked, faults>>
    BY <1>1 DEF Install, InstallRaises, Installs, Abandoned
  <1>3. \A f \in Fn : definitions'[f] = NoDraft \/ IsDraft(definitions'[f])
    BY <1>2 DEF TypeOK
  <1> QED
    BY <1>2, <1>3 DEF TypeOK, scenario, known

LEMMA TypesStay == TypeOK /\ [Next]_vars => TypeOK'
  <1> SUFFICES ASSUME TypeOK, [Next]_vars
               PROVE  TypeOK'
    OBVIOUS
  <1>1. ASSUME NEW f \in Fn, Compile(f) \/ Refused(f) \/ CompileRaises(f)
        PROVE  TypeOK'
    BY <1>1, AskTypes
  <1>2. ASSUME NEW p \in order, Skip(p) \/ Lose(p)
        PROVE  TypeOK'
    BY <1>2 DEF Skip, Lose, Popped, Abandoned, TypeOK, scenario, known, conversions, output, control
  <1>3. ASSUME NEW p \in order, Convert(p)
        PROVE  TypeOK'
    BY <1>3, ConvertTypes
  <1>4. ASSUME NEW p \in order, ConversionRaises(p) \/ ParsingRaises(p)
        PROVE  TypeOK'
    BY <1>4, RaisesTypes
  <1>5. ASSUME NEW p \in order, Interrupt(p)
        PROVE  TypeOK'
    <2>1. faults' \in Seq(raisers') /\ Len(faults') <= MaxFaults
      BY <1>5, RaisingIs DEF Interrupt, scenario
    <2> QED
      BY <1>5, <2>1 DEF Interrupt, Popped, Abandoned, TypeOK, scenario, known, output
  <1>6. ASSUME Install \/ \E S \in SUBSET inflight : InstallRaises(S)
        PROVE  TypeOK'
    BY <1>6, InstallTypes
  <1>7. CASE Link
    BY <1>7 DEF Link, TypeOK, scenario, graph, known, conversions
  <1>8. CASE LinkRaises
    <2>1. faults' \in Seq(raisers') /\ Len(faults') <= MaxFaults
      BY <1>8, RaisingIs DEF LinkRaises, scenario
    <2> QED
      BY <1>8, <2>1 DEF LinkRaises, TypeOK, scenario, graph, known, conversions
  <1>9. CASE UNCHANGED vars
    BY <1>9 DEF TypeOK, vars, scenario, graph, known, conversions, output, control, IsDraft, Types, NoTarget, NoDraft
  <1> QED
    BY <1>1, <1>2, <1>3, <1>4, <1>5, <1>6, <1>7, <1>8, <1>9 DEF Next, Step
-----------------------------------------------------------------------------
(* Each step keeps things orderly.                                         *)

\* What a step does that asks for the functions of C, to the names, targets
\* and levels; what is in flight may get another target.
Asks(C, c) ==
  /\ names' = NamesWith(C) /\ cached' = cached \cup LoadedBy(C) /\ inflight' = inflight \cup Begun(C)
  /\ level' = LevelWith(C, c)
  /\ UNCHANGED <<scenario, output>>
  /\ \A g \in Fn : targets'[g] = TargetsWith(C)[g] \/ (g \in inflight /\ targets'[g] # NoTarget)

LEMMA InstalledStays ==
  ASSUME TypeOK, TypeOK', Named, Stored, Installed, UNCHANGED <<body, definitions>>,
         cached \subseteq cached', \A f \in Defined \cup cached : targets'[f] = targets[f],
         \A f \in Defined : f \notin inflight', fresh' \cup linked' \subseteq fresh \cup linked
  PROVE  Installed'
  <1>1. Defined' = Defined
    BY DEF Defined
  <1>2. ASSUME NEW f \in Defined
        PROVE  definitions[f] = Code(f, targets', targets'[f])
    <2>1. f \in Fn /\ targets[f] # NoTarget /\ definitions[f] = Code(f, targets, targets[f])
          /\ DOMAIN definitions[f].calls \subseteq Defined \cup cached
      BY DEF Installed, Defined
    <2>2. targets \in [Fn -> Targets] /\ targets' \in [Fn -> Targets] /\ body \in [Fn -> Body]
      BY DEF TypeOK, Targets
    <2>3. targets[f] \in Types
      BY <2>1, <2>2 DEF Targets
    <2>4. Calls(f, targets) \subseteq Defined \cup cached
      BY <2>1, <2>2, <2>3, CodeIs
    <2>5. Code(f, targets', targets[f]) = Code(f, targets, targets[f])
      BY <2>1, <2>2, <2>4, SameCode
    <2> QED
      BY <2>1, <2>5
  <1>3. ASSUME NEW f \in Defined
        PROVE  definitions'[f] = Code(f, targets, targets[f])'
    <2>1. f \in Fn
      BY DEF Defined
    <2> QED
      BY <1>2, <2>1 DEF Code, Calls, Outer, Comes
  <1> QED
    BY <1>1, <1>3 DEF Installed

LEMMA AskingKeeps ==
  ASSUME TypeOK, TypeOK', Leveled, Named, Stored, Installed,
         NEW C \in SUBSET Fn, NEW c \in Fn \cup {NoFn}, Asks(C, c)
  PROVE  Leveled' /\ Named' /\ Stored' /\ Installed'
  <1>1. /\ LoadedBy(C) # {} => LoadedBy(C) = DOMAIN store /\ cached = {}
        /\ LoadedBy(C) \cap names = {}
        /\ \A f \in names : TargetsWith(C)[f] = targets[f]
        /\ \A f \in names : targets[f] = NoTarget => f \in inflight
    BY NamesStay
  <1>2. /\ \A f \in Begun(C) : /\ f \notin DOMAIN store /\ f \notin cached /\ f \notin Defined
                               /\ f \notin inflight => f \notin names /\ level[f] = -1
                               /\ Native(f) => TargetsWith(C)[f] # NoTarget
        /\ New(C) \subseteq Begun(C) \cup LoadedBy(C) \cup cached
        /\ C \subseteq names \cup Begun(C) \cup LoadedBy(C)
        /\ \A f \in Fn : TargetsWith(C)[f] # NoTarget =>
              f \in NamesWith(C) /\ (level[f] # -1 \/ f \in cached \/ f \in LoadedBy(C) \/ f \in C)
    BY Asked
  <1>3. Begun(C) \subseteq C /\ New(C) \subseteq C /\ LoadedBy(C) \subseteq DOMAIN store /\ C \subseteq Fn
    BY DEF Begun, New, LoadedBy
  <1>4. Depth(c) \in Int /\ Depth(c) >= 0
    BY DEF Depth, Leveled, TypeOK
  <1>5. \A f \in Fn : level'[f] = IF f \in New(C) THEN Depth(c) ELSE level[f]
    BY DEF Asks, LevelWith
  <1>6. \A f \in C : level'[f] # -1
    BY <1>3, <1>4, <1>5 DEF New
  <1>7. Leveled'
    <2>1. \A f \in Fn : level'[f] >= -1 /\ (level'[f] # -1 => f \in names')
      BY <1>3, <1>4, <1>5 DEF Leveled, Asks, NamesWith
    <2>2. \A f \in inflight' : level'[f] # -1
      BY <1>3, <1>4, <1>5, <1>6 DEF Leveled, Asks, TypeOK
    <2> QED
      BY <2>1, <2>2 DEF Leveled
  <1>8. Defined \subseteq names /\ Defined \cap inflight = {} /\ cached \subseteq names /\ cached \cap inflight = {}
        /\ Defined \subseteq Fn /\ cached \subseteq Fn
    BY DEF Named, Stored, Installed, Defined, TypeOK
  <1>9. \A f \in Defined \cup cached : targets'[f] = targets[f]
    BY <1>1, <1>8 DEF Asks
  <1>10. Installed'
    <2>1. \A f \in Defined : f \notin inflight'
      BY <1>2, <1>8 DEF Asks
    <2> QED
      BY <1>9, <2>1, InstalledStays DEF Asks, scenario, output
  <1>11. Stored'
    <2>1. cached' = {} \/ cached' = DOMAIN store'
      BY <1>1 DEF Stored, Asks, scenario
    <2>2. cached' \subseteq names'
      BY DEF Stored, Asks, NamesWith
    <2>3. names' \cap DOMAIN store' \subseteq cached'
      <3> SUFFICES ASSUME NEW f \in names', f \in DOMAIN store, f \notin cached
                   PROVE  f \in LoadedBy(C)
        BY DEF Asks, scenario
      <3>1. f \notin names
        BY DEF Stored
      <3>2. f \in C \cup LoadedBy(C)
        BY <3>1 DEF Asks, NamesWith
      <3> QED
        BY <3>1, <3>2 DEF LoadedBy, InStore
    <2>4. ASSUME NEW f \in cached'
          PROVE  targets'[f] = store[f] /\ f \notin inflight'
      <3>1. CASE f \in cached
        BY <1>2, <1>8, <1>9, <3>1 DEF Stored, Asks
      <3>2. CASE f \in LoadedBy(C)
        <4>1. f \in Fn /\ f \notin names /\ f \notin inflight /\ f \notin Begun(C)
          BY <1>1, <1>2, <1>3, <3>2 DEF Named, TypeOK
        <4>2. TargetsWith(C)[f] = store[f]
          BY <3>2, <4>1 DEF TargetsWith
        <4> QED
          BY <4>1, <4>2 DEF Asks
      <3> QED
        BY <3>1, <3>2 DEF Asks
    <2> QED
      BY <2>1, <2>2, <2>3, <2>4 DEF Stored, Asks, scenario
  <1>12. Named'
    <2>1. inflight' \subseteq names'
      BY <1>3 DEF Named, Asks, NamesWith
    <2>2. names' \subseteq (Defined \cup cached \cup inflight)'
      BY <1>2 DEF Named, Asks, NamesWith, Defined, output
    <2>3. ASSUME NEW f \in Fn, targets'[f] # NoTarget
          PROVE  f \in names' /\ (level'[f] # -1 \/ f \in cached')
      <3>1. CASE f \in inflight
        BY <1>4, <1>5, <3>1 DEF Named, Leveled, Asks, NamesWith
      <3>2. CASE f \notin inflight
        <4>1. TargetsWith(C)[f] # NoTarget
          BY <2>3, <3>2 DEF Asks
        <4>2. f \in NamesWith(C) /\ (level[f] # -1 \/ f \in cached \/ f \in LoadedBy(C) \/ f \in C)
          BY <1>2, <4>1
        <4> QED
          BY <1>4, <1>5, <1>6, <4>2 DEF Asks
      <3> QED
        BY <3>1, <3>2
    <2>4. ASSUME NEW f \in inflight', Native(f)
          PROVE  targets'[f] # NoTarget
      <3>1. f \in Fn
        BY DEF TypeOK
      <3>2. f \in inflight => f \in names /\ targets[f] # NoTarget
        BY <2>4 DEF Named
      <3> QED
        BY <1>1, <1>2, <2>4, <3>1, <3>2 DEF Asks
    <2>5. \A f \in inflight' : Native(f)' => targets'[f] # NoTarget
      BY <2>4 DEF Native, Asks, scenario
    <2> QED
      BY <2>1, <2>2, <2>3, <2>5 DEF Named
  <1> QED
    BY <1>7, <1>10, <1>11, <1>12
LEMMA CompileKeeps ==
  ASSUME TypeOK, TypeOK', Orderly, NEW f \in Fn, Compile(f)
  PROVE  Orderly'
  <1> USE DEF Orderly
  <1> DEFINE C == {f}
  <1>1. C \in SUBSET Fn /\ NoFn \in Fn \cup {NoFn}
    OBVIOUS
  <1> HIDE DEF C
  <1>2. /\ phase = "idle" /\ level' = LevelWith(C, NoFn) /\ dirty' = dirty \cup New(C)
        /\ order' = order \cup OrderWith(C, NoFn)
        /\ names' = NamesWith(C) /\ cached' = cached \cup LoadedBy(C) /\ targets' = TargetsWith(C)
        /\ inflight' = inflight \cup Begun(C)
        /\ phase' = IF Begun(C) = {} THEN "linking" ELSE "resolving"
        /\ UNCHANGED <<scenario, edges, drafts, output, faults>>
    BY DEF Compile, C
  <1>3. Asks(C, NoFn)
    BY <1>2 DEF Asks
  <1>4. Leveled' /\ Named' /\ Stored' /\ Installed'
    BY <1>1, <1>3, AskingKeeps
  <1>5. inflight = {}
    BY <1>2 DEF Listed
  <1>6. /\ \A g \in Begun(C) : g \notin names /\ level[g] = -1
        /\ New(C) \subseteq Begun(C) \cup LoadedBy(C) \cup cached
    BY <1>1, <1>5, Asked
  <1>7. \A g \in names : targets'[g] = targets[g]
    BY <1>1, <1>2, NamesStay
  <1>8. Listed'
    <2>1. phase' # "resolving" => inflight' = {}
      BY <1>2, <1>5
    <2>2. dirty' \subseteq inflight' \cup cached'
      BY <1>2, <1>6 DEF Listed
    <2>3. ASSUME NEW g \in dirty'
          PROVE  \E q \in order' : q[2] = g
      <3>1. CASE g \in dirty
        BY <1>2, <3>1 DEF Listed
      <3>2. CASE g \in New(C)
        <4>1. <<NewPriority(NoFn), g>> \in order'
          BY <1>2, <3>2 DEF OrderWith
        <4> QED
          BY <4>1
      <3> QED
        BY <1>2, <3>1, <3>2
    <2>4. \A g \in inflight' : g \in dirty'
      BY <1>2, <1>5, <1>6 DEF New, Begun
    <2> QED
      BY <2>1, <2>2, <2>3, <2>4 DEF Listed
  <1>9. Followed'
    BY <1>2, <1>5, <1>6 DEF Followed, NamesWith
  <1>10. Drafted'
    <2> SUFFICES ASSUME NEW g \in Fn, drafts[g] # NoDraft
                 PROVE  DraftsRight(g)'
      BY <1>2 DEF Drafted
    <2>1. targets[g] # NoTarget /\ DOMAIN drafts[g].calls \subseteq names /\ g \in names
      BY DEF Drafted, DraftsRight, Named
    <2>2. g \notin inflight'
      BY <1>2, <1>5, <1>6, <2>1
    <2> QED
      BY <1>2, <1>7, <2>1, <2>2 DEF DraftsRight, NamesWith
  <1> QED
    BY <1>4, <1>8, <1>9, <1>10

LEMMA ConvertKeeps ==
  ASSUME TypeOK, TypeOK', Orderly, NEW p \in order, Convert(p)
  PROVE  Orderly'
  <1> USE DEF Orderly
  <1> DEFINE f == p[2]
             C == Calls(f, Answers)
             E == EdgesWith(C, f)
  <1>1. f \in Fn
    BY PairsAre
  <1>2. Answers \in [Fn -> Targets] /\ body \in [Fn -> Body] /\ out[f] \in Types
    BY <1>1, AskedTypes DEF TypeOK
  <1>3. C \in SUBSET Fn
    BY <1>1, <1>2, CallsAre
  <1>4. NewOut(f) \in Types /\ NewOut(f) # NoTarget
    BY <1>1, NewOutIs, TargetIsNot
  <1>5. /\ IsNext(p) /\ f \in inflight /\ f \notin cached
        /\ level' = LevelWith(C, f) /\ edges' = E
        /\ dirty' = (dirty \ {f}) \cup New(C) \cup Again(f) \cup Upstream(f, E)
        /\ order' = Popped(p) \cup OrderWith(C, f) \cup {<<LevelWith(C, f)[g] - Far, g>> : g \in Again(f)}
                              \cup {<<LevelWith(C, f)[g], g>> : g \in Upstream(f, E)}
        /\ names' = NamesWith(C) /\ cached' = cached \cup LoadedBy(C)
        /\ targets' = [TargetsWith(C) EXCEPT ![f] = NewOut(f)]
        /\ inflight' = inflight \cup Begun(C)
        /\ out' = [OutWith(Begun(C)) EXCEPT ![f] = NewOut(f)]
        /\ drafts' = [drafts EXCEPT ![f] = Code(f, Answers, out[f])]
        /\ UNCHANGED <<scenario, output, control>>
    BY DEF Convert
  <1>6. IsDraft(Code(f, Answers, out[f])) /\ Code(f, Answers, out[f]) # NoDraft
        /\ DOMAIN Code(f, Answers, out[f]).calls = C
    BY <1>1, <1>2, CodeIs
  <1> HIDE DEF f, C, E
  <1>7. \A g \in Fn : /\ targets'[g] = IF g = f THEN NewOut(f) ELSE TargetsWith(C)[g]
                      /\ out'[g] = IF g = f THEN NewOut(f) ELSE OutWith(Begun(C))[g]
                      /\ drafts'[g] = IF g = f THEN Code(f, Answers, out[f]) ELSE drafts[g]
    BY <1>1, <1>5 DEF TargetsWith, OutWith, TypeOK
  <1>8. Asks(C, f)
    BY <1>4, <1>5, <1>7 DEF Asks
  <1>9. Leveled' /\ Named' /\ Stored' /\ Installed'
    BY <1>1, <1>3, <1>8, AskingKeeps
  <1>10. /\ \A g \in Begun(C) : g \notin inflight => g \notin names /\ level[g] = -1
         /\ New(C) \subseteq Begun(C) \cup LoadedBy(C) \cup cached
         /\ C \subseteq names \cup Begun(C) \cup LoadedBy(C)
    BY <1>3, Asked
  <1>11. LoadedBy(C) \cap names = {} /\ (\A g \in names : TargetsWith(C)[g] = targets[g])
         /\ \A g \in names : targets[g] = NoTarget => g \in inflight
    BY <1>3, NamesStay
  <1>12. Begun(C) \subseteq C /\ C \subseteq names' /\ names \subseteq names'
    BY <1>5 DEF Begun, NamesWith
  <1>13. E = edges \cup {<<f, g>> : g \in C}
    BY DEF E, EdgesWith
  <1>14. Listed'
    <2>1. phase' = "resolving"
      BY <1>5 DEF IsNext, control
    <2>2. dirty' \subseteq inflight' \cup cached'
      <3>1. \A c \in Upstream(f, E) : c \in inflight
        <4> SUFFICES ASSUME NEW c \in Upstream(f, E)
                     PROVE  c \in inflight
          OBVIOUS
        <4>1. <<c, f>> \in E
          BY DEF Upstream
        <4>2. CASE <<c, f>> \in edges
          BY <1>5, <4>2 DEF Followed
        <4>3. CASE c = f
          BY <1>5, <4>3
        <4> QED
          BY <1>13, <4>1, <4>2, <4>3
      <3> QED
        BY <1>5, <1>10, <3>1 DEF Listed, Again
    <2>3. ASSUME NEW g \in dirty'
          PROVE  \E q \in order' : q[2] = g
      <3>1. CASE g \in dirty \ {f}
        <4>1. PICK q \in order : q[2] = g
          BY <3>1 DEF Listed
        <4>2. q[1] <= p[1] /\ q # p
          BY <1>5, <3>1, <4>1 DEF IsNext, f
        <4>3. q \in order'
          BY <1>5, <4>1, <4>2 DEF Popped
        <4> QED
          BY <4>1, <4>3
      <3>2. CASE g \in New(C)
        <4>1. <<NewPriority(f), g>> \in order'
          BY <1>5, <3>2 DEF OrderWith
        <4> QED
          BY <4>1
      <3>3. CASE g \in Again(f)
        <4>1. <<LevelWith(C, f)[g] - Far, g>> \in order'
          BY <1>5, <3>3
        <4> QED
          BY <4>1
      <3>4. CASE g \in Upstream(f, E)
        <4>1. <<LevelWith(C, f)[g], g>> \in order'
          BY <1>5, <3>4
        <4> QED
          BY <4>1
      <3> QED
        BY <1>5, <3>1, <3>2, <3>3, <3>4
    <2>4. ASSUME NEW g \in inflight', drafts'[g] = NoDraft
          PROVE  g \in dirty'
      <3>1. g \in Fn /\ g # f
        BY <1>6, <1>7, <2>4, <1>1 DEF TypeOK
      <3>2. CASE g \in inflight
        BY <1>5, <1>7, <2>4, <3>1, <3>2 DEF Listed
      <3>3. CASE g \in Begun(C) \ inflight
        BY <1>5, <1>10, <1>12, <3>3 DEF New
      <3> QED
        BY <1>5, <3>2, <3>3
    <2> QED
      BY <2>1, <2>2, <2>3, <2>4 DEF Listed
  <1>15. Followed'
    <2> SUFFICES ASSUME NEW e \in E
                 PROVE  e[2] \in names' /\ (e[2] \in inflight' => e[1] \in inflight')
      BY <1>5 DEF Followed
    <2>1. CASE e \in edges
      BY <1>5, <1>10, <1>12, <2>1 DEF Followed
    <2>2. CASE e \in {<<f, g>> : g \in C}
      BY <1>5, <1>12, <2>2
    <2> QED
      BY <1>13, <2>1, <2>2
  <1>16. DraftsRight(f)'
    <2>1. targets'[f] = NewOut(f) /\ out'[f] = NewOut(f) /\ drafts'[f] = Code(f, Answers, out[f])
      BY <1>1, <1>7
    <2>2. \A g \in C : <<f, g>> \in edges'
      BY <1>5, <1>13
    <2>3. ASSUME f \notin dirty'
          PROVE  drafts'[f] = Code(f, targets', targets'[f])
      <3>1. NewOut(f) = out[f] /\ f \notin Upstream(f, E)
        BY <1>5, <2>3 DEF Again, Unstable
      <3>2. ASSUME NEW g \in C
            PROVE  targets'[g] = Answers[g]
        <4>1. CASE g = f
          <5>1. <<f, f>> \in E
            BY <1>13, <3>2, <4>1
          <5>2. drafts[f] # NoDraft
            BY <1>1, <3>1, <5>1 DEF Upstream
          <5>3. targets[f] = out[f] /\ targets[f] # NoTarget
            BY <1>1, <1>5, <5>2 DEF Drafted, DraftsRight
          <5> QED
            BY <1>1, <2>1, <3>1, <4>1, <5>3 DEF Answers, Answer
        <4>2. CASE g # f
          <5>1. targets'[g] = TargetsWith(C)[g] /\ g \in Fn
            BY <1>3, <1>7, <4>2
          <5>2. CASE g \in LoadedBy(C)
            <6>1. g \in DOMAIN store /\ g \notin names /\ targets[g] = NoTarget
              BY <1>11, <5>1, <5>2 DEF LoadedBy, Named
            <6> QED
              BY <5>1, <5>2, <6>1 DEF TargetsWith, Answers, Answer, InStore
          <5>3. CASE g \notin LoadedBy(C)
            BY <5>1, <5>3 DEF TargetsWith, Answers
          <5> QED
            BY <5>2, <5>3
        <4> QED
          BY <4>1, <4>2
      <3>3. targets' \in [Fn -> Targets]
        BY DEF TypeOK, Targets
      <3>4. \A g \in Calls(f, Answers) : targets'[g] = Answers[g]
        BY <3>2 DEF C
      <3>5. Code(f, targets', out[f]) = Code(f, Answers, out[f])
        BY <1>1, <1>2, <3>3, <3>4, SameCode
      <3> QED
        BY <2>1, <3>1, <3>5
    <2>4. f \notin dirty' => drafts'[f] = Code(f, targets, targets[f])'
      BY <1>5, <2>3 DEF Code, Calls, Outer, Comes, scenario
    <2>5. f' = f /\ DOMAIN drafts'[f].calls = C
      BY <1>6, <2>1
    <2> QED
      BY <1>4, <1>12, <2>1, <2>2, <2>4, <1>6 DEF DraftsRight
  <1>17. ASSUME NEW g \in Fn, g # f, drafts'[g] # NoDraft
         PROVE  DraftsRight(g)'
    <2>1. drafts'[g] = drafts[g] /\ targets[g] # NoTarget /\ DOMAIN drafts[g].calls \subseteq names /\ g \in names
      BY <1>7, <1>17 DEF Drafted, DraftsRight, Named
    <2>2. targets'[g] = targets[g]
      BY <1>7, <1>11, <1>17, <2>1
    <2>3. g \in inflight' => g \in inflight
      BY <1>5, <1>10, <2>1
    <2>4. ASSUME g \in inflight
          PROVE  /\ targets'[g] = out'[g]
                 /\ \A h \in DOMAIN drafts[g].calls : <<g, h>> \in edges /\ <<g, h>> \in edges'
                 /\ g \notin dirty' => drafts[g] = Code(g, targets', targets'[g])
      <3>1. out'[g] = out[g]
        BY <1>7, <1>17, <2>4 DEF OutWith
      <3>2. targets[g] = out[g] /\ \A h \in DOMAIN drafts[g].calls : <<g, h>> \in edges
        BY <2>1, <1>17, <2>4 DEF Drafted, DraftsRight
      <3>3. \A h \in DOMAIN drafts[g].calls : <<g, h>> \in edges'
        BY <1>5, <1>13, <3>2
      <3>4. ASSUME g \notin dirty'
            PROVE  drafts[g] = Code(g, targets', targets'[g])
        <4>1. g \notin dirty /\ g \notin Upstream(f, E)
          BY <1>5, <1>17, <3>4
        <4>2. drafts[g] = Code(g, targets, targets[g])
          BY <1>17, <2>1, <2>4, <4>1 DEF Drafted, DraftsRight
        <4>3. targets \in [Fn -> Targets] /\ targets' \in [Fn -> Targets] /\ targets[g] \in Types
          BY <2>1 DEF TypeOK, Targets
        <4>4. DOMAIN drafts[g].calls = Calls(g, targets)
          BY <1>2, <4>2, <4>3, CodeIs
        <4>5. ASSUME NEW h \in Calls(g, targets)
              PROVE  targets'[h] = targets[h]
          <5>1. h \in names /\ h \in Fn /\ <<g, h>> \in E
            BY <2>1, <3>2, <4>4, <1>13 DEF TypeOK
          <5>2. CASE h # f
            BY <1>7, <1>11, <5>1, <5>2
          <5>3. CASE h = f
            <6>1. NewOut(f) = out[f] /\ drafts[f] # NoDraft
              BY <1>17, <4>1, <5>1, <5>3 DEF Upstream, Unstable
            <6>2. targets[f] = out[f]
              BY <1>1, <1>5, <6>1 DEF Drafted, DraftsRight
            <6> QED
              BY <1>1, <1>7, <5>3, <6>1, <6>2
          <5> QED
            BY <5>2, <5>3
        <4>6. Code(g, targets', targets[g]) = Code(g, targets, targets[g])
          BY <1>2, <4>3, <4>5, SameCode
        <4> QED
          BY <2>2, <4>2, <4>6
      <3> QED
        BY <2>2, <3>1, <3>2, <3>3, <3>4
    <2>5. g \in inflight /\ g \notin dirty' => drafts'[g] = Code(g, targets, targets[g])'
      BY <1>5, <2>1, <2>4 DEF Code, Calls, Outer, Comes, scenario
    <2> QED
      BY <1>12, <2>1, <2>2, <2>3, <2>4, <2>5 DEF DraftsRight
  <1>18. Drafted'
    BY <1>16, <1>17 DEF Drafted
  <1> QED
    BY <1>9, <1>14, <1>15, <1>18
\* A conversion raised: what was in flight, or was to be, is gone.
LEMMA RaisesKeeps ==
  ASSUME TypeOK, TypeOK', Orderly, NEW p \in order, ConversionRaises(p)
  PROVE  Orderly'
  <1> USE DEF Orderly
  <1>1. p[2] \in Fn
    BY PairsAre
  <1>2. Calls(p[2], Answers) \subseteq Fn
    BY <1>1, CallsAre, AskedTypes DEF TypeOK
  <1>3. PICK C \in SUBSET Fn : ConvertRaises(p, C, {})
    BY <1>2 DEF ConversionRaises
  <1> DEFINE D == inflight \cup Begun(C)
             f == p[2]
  <1>4. Dropped(C, {}) = D
    BY DEF Dropped
  <1> HIDE DEF D, f
  <1>5. /\ IsNext(p) /\ f \in inflight
        /\ level' = [g \in Fn |-> IF g \in D THEN -1 ELSE LevelWith(C, f)[g]]
        /\ edges' = {e \in EdgesWith(C, f) : e[1] \notin D /\ e[2] \notin D}
        /\ dirty' = (dirty \cup New(C)) \ D /\ order' = Popped(p) \cup OrderWith(C, f)
        /\ names' = NamesWith(C) \ D /\ cached' = cached \cup LoadedBy(C)
        /\ targets' = [g \in Fn |-> IF g \in D THEN NoTarget ELSE TargetsWith(C)[g]]
        /\ inflight' = {} /\ drafts' = [g \in Fn |-> NoDraft]
        /\ phase' = "idle"
        /\ UNCHANGED <<scenario, out, output>>
    BY <1>3, <1>4 DEF ConvertRaises, f
  <1>6. /\ LoadedBy(C) # {} => LoadedBy(C) = DOMAIN store /\ cached = {}
        /\ LoadedBy(C) \cap names = {}
        /\ \A g \in names : TargetsWith(C)[g] = targets[g]
    BY NamesStay
  <1>7. /\ \A g \in Begun(C) : g \notin DOMAIN store /\ g \notin cached /\ g \notin Defined
        /\ New(C) \subseteq Begun(C) \cup LoadedBy(C) \cup cached
        /\ C \subseteq names \cup Begun(C) \cup LoadedBy(C)
        /\ \A g \in Fn : TargetsWith(C)[g] # NoTarget =>
              g \in NamesWith(C) /\ (level[g] # -1 \/ g \in cached \/ g \in LoadedBy(C) \/ g \in C)
    BY Asked
  <1>8. Defined \subseteq names /\ Defined \cap inflight = {} /\ cached \subseteq names /\ cached \cap inflight = {}
        /\ Defined \subseteq Fn /\ cached \subseteq Fn /\ inflight \subseteq names
    BY DEF Named, Stored, Installed, Defined, TypeOK
  <1>9. D \cap (Defined \cup cached \cup LoadedBy(C) \cup DOMAIN store) = {}
    <2>1. LoadedBy(C) \subseteq DOMAIN store
      BY DEF LoadedBy
    <2>2. inflight \cap DOMAIN store = {}
      BY <1>8 DEF Stored
    <2> QED
      BY <1>7, <1>8, <2>1, <2>2 DEF D
  <1>10. Depth(f) \in Int /\ Depth(f) >= 0
    <2>1. f # NoFn /\ level[f] \in Int /\ level[f] >= -1
      BY <1>1, SentinelAssumption DEF Leveled, TypeOK, f
    <2> QED
      BY <2>1 DEF Depth
  <1>11. \A g \in Fn : level'[g] = IF g \in D THEN -1 ELSE IF g \in New(C) THEN Depth(f) ELSE level[g]
    BY <1>5 DEF LevelWith
  <1>12. Leveled'
    <2>1. ASSUME NEW g \in Fn
          PROVE  level'[g] >= -1 /\ (level'[g] # -1 => g \in names')
      <3>1. CASE g \in D
        BY <1>11, <3>1
      <3>2. CASE g \in New(C) \ D
        BY <1>5, <1>10, <1>11, <3>2 DEF New, NamesWith
      <3>3. CASE g \notin D \cup New(C)
        BY <1>5, <1>11, <3>3 DEF Leveled, NamesWith
      <3> QED
        BY <3>1, <3>2, <3>3
    <2> QED
      BY <1>5, <2>1 DEF Leveled
  <1>13. \A g \in Defined \cup cached : targets'[g] = targets[g]
    BY <1>5, <1>6, <1>8, <1>9
  <1>14. Installed'
    BY <1>5, <1>13, InstalledStays DEF scenario, output
  <1>15. Stored'
    <2>1. cached' = {} \/ cached' = DOMAIN store'
      BY <1>5, <1>6 DEF Stored, scenario
    <2>2. cached' \subseteq names'
      BY <1>5, <1>8, <1>9 DEF NamesWith
    <2>3. names' \cap DOMAIN store' \subseteq cached'
      <3> SUFFICES ASSUME NEW g \in NamesWith(C), g \in DOMAIN store, g \notin cached
                   PROVE  g \in LoadedBy(C)
        BY <1>5 DEF scenario
      <3>1. g \notin names
        BY DEF Stored
      <3>2. g \in C \cup LoadedBy(C)
        BY <3>1 DEF NamesWith
      <3> QED
        BY <3>1, <3>2 DEF LoadedBy, InStore
    <2>4. \A g \in LoadedBy(C) : g \in Fn /\ targets'[g] = store[g]
      BY <1>5, <1>9 DEF LoadedBy, TargetsWith, TypeOK
    <2>5. \A g \in cached' : targets'[g] = store'[g] /\ g \notin inflight'
      BY <1>5, <1>13, <2>4 DEF Stored, scenario
    <2> QED
      BY <2>1, <2>2, <2>3, <2>5 DEF Stored
  <1>16. Named'
    <2>1. inflight' \subseteq names'
      BY <1>5
    <2>2. names' \subseteq (Defined \cup cached \cup inflight)'
      BY <1>5, <1>7 DEF Named, NamesWith, Defined, output, D
    <2>3. ASSUME NEW g \in Fn, targets'[g] # NoTarget
          PROVE  g \in names' /\ (level'[g] # -1 \/ g \in cached')
      <3>1. g \notin D /\ TargetsWith(C)[g] # NoTarget
        BY <1>5, <2>3
      <3>2. g \in NamesWith(C) /\ (level[g] # -1 \/ g \in cached \/ g \in LoadedBy(C) \/ g \in C)
        BY <1>7, <3>1
      <3>3. g \in C => level'[g] # -1
        BY <1>10, <1>11, <3>1 DEF New
      <3> QED
        BY <1>5, <1>10, <1>11, <3>1, <3>2, <3>3
    <2> QED
      BY <1>5, <2>1, <2>2, <2>3 DEF Named
  <1>17. Listed'
    <2>1. dirty' \subseteq cached'
      BY <1>5, <1>7 DEF Listed, D
    <2>2. ASSUME NEW g \in dirty'
          PROVE  \E q \in order' : q[2] = g
      <3>1. CASE g \in dirty
        <4>1. PICK q \in order : q[2] = g
          BY <3>1 DEF Listed
        <4>2. q[1] <= p[1] /\ q # p
          BY <1>5, <2>2, <3>1, <4>1 DEF IsNext, f, D
        <4> QED
          BY <1>5, <4>1, <4>2 DEF Popped
      <3>2. CASE g \in New(C)
        <4>1. <<NewPriority(f), g>> \in order'
          BY <1>5, <3>2 DEF OrderWith
        <4> QED
          BY <4>1
      <3> QED
        BY <1>5, <3>1, <3>2
    <2> QED
      BY <1>5, <2>1, <2>2 DEF Listed
  <1>18. Followed'
    <2> SUFFICES ASSUME NEW e \in EdgesWith(C, f), e[2] \notin D
                 PROVE  e[2] \in NamesWith(C)
      BY <1>5 DEF Followed
    <2>1. CASE e \in edges
      BY <2>1 DEF Followed, NamesWith
    <2>2. CASE e \in {<<f, g>> : g \in C}
      BY <2>2 DEF NamesWith
    <2> QED
      BY <2>1, <2>2 DEF EdgesWith
  <1>19. Drafted'
    BY <1>5 DEF Drafted
  <1> QED
    BY <1>12, <1>14, <1>15, <1>16, <1>17, <1>18, <1>19

\* Nothing is dirty when the work list is empty: what is in flight is as a
\* second conversion would give it.
LEMMA ResolvedIs ==
  ASSUME TypeOK, Listed, Drafted, Resolved
  PROVE  /\ dirty = {}
         /\ \A f \in inflight : drafts[f] # NoDraft /\ DraftsRight(f) /\ drafts[f] = Code(f, targets, targets[f])
  <1>1. dirty = {}
    BY DEF Listed, Resolved
  <1> QED
    BY <1>1 DEF Listed, Drafted, DraftsRight, TypeOK

LEMMA InstallKeeps ==
  ASSUME TypeOK, TypeOK', Orderly, Install
  PROVE  Orderly'
  <1> USE DEF Orderly
  <1>1. /\ Resolved
        /\ definitions' = [f \in Fn |-> IF f \in inflight THEN drafts[f] ELSE definitions[f]]
        /\ fresh' = fresh \cup inflight
        /\ order' = {} /\ inflight' = {} /\ phase' = "linking"
        /\ UNCHANGED <<scenario, level, edges, dirty, known, out, drafts, linked, root, faults>>
    BY DEF Install, Installs
  <1>2. /\ dirty = {}
        /\ \A f \in inflight : drafts[f] # NoDraft /\ DraftsRight(f) /\ drafts[f] = Code(f, targets, targets[f])
    BY <1>1, ResolvedIs
  <1>3. Defined' = Defined \cup inflight
    BY <1>1, <1>2 DEF Defined, TypeOK
  <1>4. names \subseteq Defined' \cup cached
    BY <1>3 DEF Named
  <1>5. ASSUME NEW f \in Defined \cup inflight
        PROVE  /\ targets[f] # NoTarget /\ definitions'[f] = Code(f, targets, targets[f])
               /\ DOMAIN definitions'[f].calls \subseteq Defined \cup inflight \cup cached
    <2>1. CASE f \in inflight
      BY <1>1, <1>2, <1>3, <1>4, <2>1 DEF DraftsRight, TypeOK
    <2>2. CASE f \in Defined
      <3>1. f \in Fn /\ f \notin inflight
        BY <2>2 DEF Installed, Defined
      <3> QED
        BY <1>1, <2>2, <3>1 DEF Installed
    <2> QED
      BY <2>1, <2>2
  <1>6. Installed'
    <2>1. \A f \in Defined' : /\ targets'[f] # NoTarget /\ definitions'[f] = Code(f, targets, targets[f])'
                              /\ DOMAIN definitions'[f].calls \subseteq (Defined \cup cached)'
      <3>1. \A f \in Fn : Code(f, targets, targets[f])' = Code(f, targets, targets[f])
        BY <1>1 DEF Code, Calls, Outer, Comes, scenario, known
      <3>2. Defined \cup inflight \subseteq Fn /\ targets' = targets /\ cached' = cached
        BY <1>1 DEF Defined, TypeOK, known
      <3>3. (Defined \cup cached)' = Defined \cup inflight \cup cached
        BY <1>3, <3>2
      <3> QED
        BY <1>3, <1>5, <3>1, <3>2, <3>3
    <2>2. (fresh \cup linked)' \subseteq Defined'
      BY <1>1, <1>3 DEF Installed
    <2> QED
      BY <1>1, <2>1, <2>2 DEF Installed
  <1>7. Leveled' /\ Stored' /\ Followed'
    BY <1>1 DEF Leveled, Stored, Followed, known, scenario
  <1>8. Named'
    BY <1>1, <1>4 DEF Named, known
  <1>9. Listed'
    BY <1>1, <1>2 DEF Listed
  <1>10. Drafted'
    BY <1>1 DEF Drafted, DraftsRight, known
  <1> QED
    BY <1>6, <1>7, <1>8, <1>9, <1>10

LEMMA SkipKeeps ==
  ASSUME TypeOK, TypeOK', Orderly, NEW p \in order, Skip(p)
  PROVE  Orderly'
  <1> USE DEF Orderly
  <1>1. /\ IsNext(p) /\ p[2] \in cached /\ dirty' = dirty \ {p[2]} /\ order' = Popped(p)
        /\ UNCHANGED <<scenario, level, edges, known, conversions, output, control>>
    BY DEF Skip
  <1>2. p[2] \notin inflight
    BY <1>1 DEF Stored
  <1>3. Listed'
    <2>1. ASSUME NEW g \in dirty'
          PROVE  \E q \in order' : q[2] = g
      <3>1. PICK q \in order : q[2] = g
        BY <1>1 DEF Listed
      <3>2. q[1] <= p[1] /\ q # p
        BY <1>1, <3>1 DEF IsNext
      <3> QED
        BY <1>1, <3>1, <3>2 DEF Popped
    <2> QED
      BY <1>1, <1>2, <2>1 DEF Listed, conversions, known, control
  <1>4. Drafted'
    <2>1. \A f \in Fn : Code(f, targets, targets[f])' = Code(f, targets, targets[f])
      BY <1>1 DEF Code, Calls, Outer, Comes, scenario, known
    <2>2. \A f \in Fn : drafts[f] # NoDraft => DraftsRight(f)'
      BY <1>1, <1>2, <2>1 DEF Drafted, DraftsRight, conversions, known
    <2> QED
      BY <1>1, <2>2 DEF Drafted, conversions
  <1>5. Installed'
    BY <1>1, InstalledStays DEF conversions, known, scenario, output, Installed
  <1>6. Leveled' /\ Named' /\ Stored' /\ Followed'
    BY <1>1 DEF Leveled, Named, Stored, Followed, Defined, Native, conversions, known, scenario, output
  <1> QED
    BY <1>3, <1>4, <1>5, <1>6

LEMMA LinkKeeps ==
  ASSUME TypeOK, TypeOK', Orderly, Link \/ LinkRaises
  PROVE  Orderly'
  <1> USE DEF Orderly
  <1>1. /\ phase = "linking" /\ phase' = "idle" /\ fresh' \cup linked' \subseteq fresh \cup linked
        /\ UNCHANGED <<scenario, graph, known, conversions, definitions>>
    BY DEF Link, LinkRaises
  <1>2. inflight = {} /\ inflight' = {}
    BY <1>1 DEF Listed, conversions
  <1>3. Leveled' /\ Listed' /\ Named' /\ Stored' /\ Followed' /\ Drafted'
    BY <1>1, <1>2 DEF Leveled, Listed, Named, Stored, Followed, Drafted, DraftsRight, Defined, conversions, known, scenario, graph
  <1>4. Installed'
    BY <1>1, <1>2, InstalledStays DEF known, scenario
  <1> QED
    BY <1>3, <1>4
-----------------------------------------------------------------------------
(* The invariant.                                                          *)

\* What a step raises is remembered.
LEMMA FaultsAre ==
  ASSUME TypeOK, [Next]_vars, NEW kinds, Only(kinds)'
  PROVE  /\ Only(kinds)
         /\ (\E f \in Fn : CompileRaises(f)) => "ast" \in kinds
         /\ (\E p \in order : ParsingRaises(p)) => "ast" \in kinds
         /\ (\E p \in order : ConversionRaises(p)) => "convert" \in kinds
         /\ (\E p \in order : Interrupt(p)) => "interrupt" \in kinds
         /\ LinkRaises => "link" \in kinds
  <1>1. ASSUME NEW kind, Raises(kind), UNCHANGED raisers
        PROVE  Only(kinds) /\ kind \in kinds
    BY <1>1, RaisingIs
  <1>2. ASSUME NEW f \in Fn, CompileRaises(f)
        PROVE  Only(kinds) /\ "ast" \in kinds
    BY <1>1, <1>2 DEF CompileRaises, scenario
  <1>3. ASSUME NEW p \in order, ParsingRaises(p)
        PROVE  Only(kinds) /\ "ast" \in kinds
    BY <1>1, <1>3 DEF ParsingRaises, ConvertRaises, scenario
  <1>4. ASSUME NEW p \in order, ConversionRaises(p)
        PROVE  Only(kinds) /\ "convert" \in kinds
    BY <1>1, <1>4 DEF ConversionRaises, ConvertRaises, scenario
  <1>5. ASSUME NEW p \in order, Interrupt(p)
        PROVE  Only(kinds) /\ "interrupt" \in kinds
    BY <1>1, <1>5 DEF Interrupt, scenario
  <1>6. LinkRaises => Only(kinds) /\ "link" \in kinds
    BY <1>1 DEF LinkRaises, scenario
  <1>7. faults' = faults => Only(kinds)
    BY DEF Only
  <1>8. ASSUME NEW f \in Fn, Compile(f) \/ Refused(f)
        PROVE  Only(kinds)
    BY <1>7, <1>8 DEF Compile, Refused, control
  <1>9. ASSUME NEW p \in order, Skip(p) \/ Lose(p) \/ Convert(p)
        PROVE  Only(kinds)
    BY <1>7, <1>9 DEF Skip, Lose, Convert, control
  <1>10. Install \/ (\E S \in SUBSET inflight : InstallRaises(S)) \/ Link \/ UNCHANGED vars => Only(kinds)
    BY <1>7 DEF Install, InstallRaises, Link, vars, control
  <1> QED
    BY <1>2, <1>3, <1>4, <1>5, <1>6, <1>8, <1>9, <1>10 DEF Next, Step

LEMMA OrderlyStays ==
  ASSUME TypeOK, TypeOK', Orderly, [Next]_vars, Only({"convert", "link"})'
  PROVE  Orderly'
  <1>1. /\ ~\E f \in Fn : CompileRaises(f)
        /\ ~\E p \in order : ParsingRaises(p) \/ Interrupt(p)
    BY FaultsAre
  <1>2. ASSUME NEW f \in Fn, Compile(f) \/ Refused(f)
        PROVE  Orderly'
    BY <1>2, CompileKeeps DEF Refused, Orderly, Listed
  <1>3. ASSUME NEW p \in order, Skip(p) \/ Lose(p)
        PROVE  Orderly'
    BY <1>3, SkipKeeps DEF Lose, IsNext, Orderly, Listed
  <1>4. ASSUME NEW p \in order, Convert(p) \/ ConversionRaises(p)
        PROVE  Orderly'
    BY <1>4, ConvertKeeps, RaisesKeeps
  <1>5. CASE Install
    BY <1>5, InstallKeeps
  <1>6. ASSUME NEW S \in SUBSET inflight, InstallRaises(S)
        PROVE  Orderly'
    BY <1>6, ResolvedIs DEF InstallRaises, Orderly
  <1>7. CASE Link \/ LinkRaises
    BY <1>7, LinkKeeps
  <1>8. CASE UNCHANGED vars
    <2>1. UNCHANGED <<scenario, graph, known, conversions, output, control>>
      BY <1>8 DEF vars
    <2>2. \A f \in Fn : Code(f, targets, targets[f])' = Code(f, targets, targets[f])
      BY <2>1 DEF Code, Calls, Outer, Comes, scenario, known
    <2>3. \A f \in Fn : DraftsRight(f)' = DraftsRight(f)
      BY <2>1, <2>2 DEF DraftsRight, conversions, known, graph
    <2>4. Drafted'
      BY <2>1, <2>3 DEF Orderly, Drafted, conversions
    <2>5. Installed'
      BY <2>1, InstalledStays DEF conversions, known, scenario, output, Orderly, Installed
    <2> QED
      BY <2>1, <2>4, <2>5 DEF Orderly, Leveled, Listed, Named, Stored, Followed, Defined, Native,
                              conversions, known, scenario, output, graph, control
  <1> QED
    BY <1>1, <1>2, <1>3, <1>4, <1>5, <1>6, <1>7, <1>8 DEF Next, Step

LEMMA BuiltStays ==
  ASSUME TypeOK, DefinedIsBuilt, [Next]_vars, ~LinkRaises
  PROVE  DefinedIsBuilt'
  <1>1. CASE UNCHANGED <<definitions, fresh, linked>>
    BY <1>1 DEF DefinedIsBuilt
  <1>2. ASSUME NEW S, Installs(S), linked' = linked
        PROVE  DefinedIsBuilt'
    BY <1>2 DEF DefinedIsBuilt, Installs
  <1>3. CASE Link
    BY <1>3 DEF Link, DefinedIsBuilt
  <1>4. ASSUME NEW f \in Fn, Compile(f) \/ Refused(f) \/ CompileRaises(f)
        PROVE  UNCHANGED <<definitions, fresh, linked>>
    BY <1>4 DEF Compile, Refused, CompileRaises, output
  <1>5. ASSUME NEW p \in order,
               Skip(p) \/ Lose(p) \/ Convert(p) \/ ConversionRaises(p) \/ ParsingRaises(p) \/ Interrupt(p)
        PROVE  UNCHANGED <<definitions, fresh, linked>>
    BY <1>5 DEF Skip, Lose, Convert, ConversionRaises, ParsingRaises, ConvertRaises, Interrupt, output
  <1>6. Install \/ (\E S \in SUBSET inflight : InstallRaises(S)) => \E S : Installs(S) /\ linked' = linked
    BY DEF Install, InstallRaises
  <1> QED
    BY <1>1, <1>2, <1>3, <1>4, <1>5, <1>6 DEF Next, Step, vars, output

LEMMA CallsStayLinked ==
  ASSUME TypeOK, TypeOK', Orderly, Orderly', DefinedIsBuilt, CallsAreLinked, [Next]_vars, ~LinkRaises
  PROVE  CallsAreLinked'
  <1>1. cached \subseteq cached' /\ linked \subseteq linked'
    <2>1. ASSUME NEW f \in Fn, Compile(f) \/ Refused(f) \/ CompileRaises(f)
          PROVE  cached \subseteq cached' /\ linked \subseteq linked'
      BY <2>1 DEF Compile, Refused, CompileRaises, output
    <2>2. ASSUME NEW p \in order,
                 Skip(p) \/ Lose(p) \/ Convert(p) \/ ConversionRaises(p) \/ ParsingRaises(p) \/ Interrupt(p)
          PROVE  cached \subseteq cached' /\ linked \subseteq linked'
      BY <2>2 DEF Skip, Lose, Convert, ConversionRaises, ParsingRaises, ConvertRaises, Interrupt, output, known
    <2>3. Install \/ (\E S \in SUBSET inflight : InstallRaises(S)) \/ Link \/ UNCHANGED vars
          => cached \subseteq cached' /\ linked \subseteq linked'
      BY DEF Install, InstallRaises, Link, vars, output, known
    <2> QED
      BY <2>1, <2>2, <2>3 DEF Next, Step
  <1>2. \A f \in linked : f \in Fn /\ definitions'[f] = definitions[f]
    <2>1. linked \subseteq Defined /\ Defined \cap inflight = {} /\ Defined \subseteq Fn
      BY DEF Orderly, Installed, Defined
    <2>2. ASSUME NEW S \in SUBSET inflight, Installs(S), NEW f \in linked
          PROVE  definitions'[f] = definitions[f]
      BY <2>1, <2>2 DEF Installs
    <2>3. ASSUME NEW f \in Fn, Compile(f) \/ Refused(f) \/ CompileRaises(f)
          PROVE  definitions' = definitions
      BY <2>3 DEF Compile, Refused, CompileRaises, output
    <2>4. ASSUME NEW p \in order,
                 Skip(p) \/ Lose(p) \/ Convert(p) \/ ConversionRaises(p) \/ ParsingRaises(p) \/ Interrupt(p)
          PROVE  definitions' = definitions
      BY <2>4 DEF Skip, Lose, Convert, ConversionRaises, ParsingRaises, ConvertRaises, Interrupt, output
    <2>5. Install \/ (\E S \in SUBSET inflight : InstallRaises(S)) => \E S \in SUBSET inflight : Installs(S)
      BY DEF Install, InstallRaises
    <2>6. Link \/ UNCHANGED vars => definitions' = definitions
      BY DEF Link, vars, output
    <2> QED
      BY <2>1, <2>2, <2>3, <2>4, <2>5, <2>6 DEF Next, Step
  <1>3. ASSUME NEW f \in linked', f \notin linked, NEW g \in DOMAIN definitions'[f].calls
        PROVE  g \in cached' \cup linked'
    <2>1. Link
      <3>1. ASSUME NEW h \in Fn, Compile(h) \/ Refused(h) \/ CompileRaises(h)
            PROVE  linked' = linked
        BY <3>1 DEF Compile, Refused, CompileRaises, output
      <3>2. ASSUME NEW p \in order,
                   Skip(p) \/ Lose(p) \/ Convert(p) \/ ConversionRaises(p) \/ ParsingRaises(p) \/ Interrupt(p)
            PROVE  linked' = linked
        BY <3>2 DEF Skip, Lose, Convert, ConversionRaises, ParsingRaises, ConvertRaises, Interrupt, output
      <3>3. Install \/ (\E S \in SUBSET inflight : InstallRaises(S)) \/ UNCHANGED vars => linked' = linked
        BY DEF Install, InstallRaises, vars, output
      <3> QED
        BY <1>3, <3>1, <3>2, <3>3 DEF Next, Step
    <2>2. definitions' = definitions /\ linked' = linked \cup fresh /\ cached' = cached
      BY <2>1 DEF Link, known
    <2>3. f \in Defined /\ g \in Defined \cup cached
      BY <1>3, <2>2 DEF Orderly, Installed
    <2>4. Defined \subseteq fresh \cup linked
      BY DEF DefinedIsBuilt, Defined
    <2> QED
      BY <2>2, <2>3, <2>4
  <1> QED
    BY <1>1, <1>2, <1>3 DEF CallsAreLinked

LEMMA Starts == Init => ConverterInv
  <1> SUFFICES ASSUME Init
               PROVE  ConverterInv
    OBVIOUS
  <1>1. TypeOK
    <2>1. PICK s \in Scenarios : body = s.body /\ store = s.store /\ raisers = s.faults
      BY DEF Init
    <2>2. body \in [Fn -> Body] /\ raisers \subseteq Faults /\ DOMAIN store \subseteq Fn
          /\ \A f \in DOMAIN store : store[f] \in Types
      BY <2>1, ScenariosAssumption
    <2>3. {} \in Types /\ faults = <<>> /\ Len(faults) <= MaxFaults /\ faults \in Seq(raisers)
      BY FaultsAssumption DEF Init, Types
    <2> QED
      BY <2>2, <2>3 DEF Init, TypeOK
  <1>2. Defined = {}
    BY DEF Init, Defined
  <1>3. Orderly
    BY <1>2 DEF Init, Orderly, Leveled, Listed, Named, Stored, Followed, Drafted, Installed
  <1>4. CallsAreLinked /\ DefinedIsBuilt
    BY DEF Init, CallsAreLinked, DefinedIsBuilt
  <1> QED
    BY <1>1, <1>3, <1>4 DEF ConverterInv

LEMMA StepKeeps == ConverterInv /\ [Next]_vars => ConverterInv'
  <1> SUFFICES ASSUME ConverterInv, [Next]_vars
               PROVE  ConverterInv'
    OBVIOUS
  <1> USE DEF ConverterInv
  <1>1. TypeOK'
    BY TypesStay
  <1>2. ASSUME Only({"convert", "link"})'
        PROVE  Orderly'
    <2>1. Only({"convert", "link"})
      BY <1>2, FaultsAre
    <2> QED
      BY <1>1, <1>2, <2>1, OrderlyStays
  <1>3. ASSUME Only({"ast", "convert", "interrupt"})'
        PROVE  DefinedIsBuilt'
    <2>1. Only({"ast", "convert", "interrupt"}) /\ ~LinkRaises
      BY <1>3, FaultsAre
    <2> QED
      BY <2>1, BuiltStays
  <1>4. ASSUME Only({"convert"})'
        PROVE  CallsAreLinked'
    <2>1. Only({"convert"}) /\ ~LinkRaises
      BY <1>4, FaultsAre
    <2>2. Only({"convert", "link"}) /\ Only({"convert", "link"})' /\ Only({"ast", "convert", "interrupt"})
      BY <1>4, <2>1 DEF Only
    <2> QED
      BY <1>1, <1>2, <2>1, <2>2, CallsStayLinked
  <1> QED
    BY <1>1, <1>2, <1>3, <1>4

(* For any functions, types, programs and caches, whatever raises, all     *)
(* variables keep their types; as long as conversions and links raise,     *)
(* every name is defined, cached or in flight, what is not to be converted *)
(* again is final, and what is defined calls only what is.                 *)
THEOREM ConverterInvariant == Spec => []ConverterInv
  <1>1. Init => ConverterInv
    BY Starts
  <1>2. ConverterInv /\ [Next]_vars => ConverterInv'
    BY StepKeeps
  <1> QED
    BY <1>1, <1>2, PTL DEF Spec

(* However conversions and links raise, no function is forgotten: the work *)
(* list is empty only when all that is in flight has a definition, and     *)
(* between calls every name has one or is cached.                          *)
THEOREM NothingIsLost == Spec => []NothingLost
  <1>1. ConverterInv => NothingLost
    <2> SUFFICES ASSUME ConverterInv
                 PROVE  NothingLost
      OBVIOUS
    <2>1. ASSUME Orderly
          PROVE  /\ Resolved => \A f \in inflight : drafts[f] # NoDraft
                 /\ dirty \subseteq inflight \cup cached
                 /\ phase # "resolving" => inflight = {}
                 /\ EveryNameIsDefined
      <3>1. Resolved => \A f \in inflight : drafts[f] # NoDraft
        BY <2>1, ResolvedIs DEF ConverterInv, Orderly
      <3>2. EveryNameIsDefined
        BY <2>1 DEF Orderly, Listed, Named, Defined, EveryNameIsDefined
      <3> QED
        BY <2>1, <3>1, <3>2 DEF Orderly, Listed
    <2> QED
      BY <2>1 DEF ConverterInv, NothingLost
  <1> QED
    BY <1>1, ConverterInvariant, PTL

(* However conversions and links raise, installed code is what a second    *)
(* conversion would give.                                                  *)
THEOREM DefinitionsSettle == Spec => []Settled
  <1>1. ConverterInv => Settled
    BY DEF ConverterInv, Settled, DefinitionsAreStable, Orderly, Installed, Defined
  <1> QED
    BY <1>1, ConverterInvariant, PTL

(* What is defined gets built, unless the linker raises, and what is       *)
(* linked calls only what is linked, if conversions alone raise.           *)
THEOREM LinksClose == Spec => []LinkCloses
  <1>1. ConverterInv => LinkCloses
    BY DEF ConverterInv, LinkCloses
  <1> QED
    BY <1>1, ConverterInvariant, PTL
-----------------------------------------------------------------------------
(* Types are as tight as they can be, whatever raises.                     *)

\* No type goes beyond the assignment K.
Within(K) ==
  \A f \in Fn : /\ out[f] \subseteq K[f]
                /\ targets[f] # NoTarget => targets[f] \subseteq K[f]
                /\ drafts[f] # NoDraft => drafts[f].type \subseteq K[f]
                /\ definitions[f] # NoDraft => definitions[f].type \subseteq K[f]

TightInv == TypeOK /\ (Uniform => \A K \in [Fn -> Types] : Consistent(K) => Within(K))

\* What a function gathers from tighter types is tighter.
LEMMA GatheredGrows ==
  ASSUME body \in [Fn -> Body], Uniform, NEW f \in Fn, NEW L \in [Fn -> Targets], NEW K \in [Fn -> Types],
         \A g \in Calls(f, L) : L[g] # NoTarget => L[g] \subseteq K[g]
  PROVE  Gathered(f, L) \subseteq Gathered(f, K)
  <1>1. K \in [Fn -> Targets]
    BY DEF Targets
  <1>2. ASSUME NEW s \in body[f].calls, Comes(Result(s, L))
        PROVE  Comes(Result(s, K)) /\ Result(s, L) \subseteq Result(s, K)
    <2>1. s.inner \in Fn /\ s.outer \in [Types -> Fn \cup {NoFn}] /\ s.inner \in Calls(f, L) /\ Outer(s, L) \subseteq Calls(f, L)
      BY CallsAre DEF Statement
    <2>2. Comes(L[s.inner])
      BY <1>2 DEF Result
    <2>3. L[s.inner] \in Types /\ K[s.inner] \in Types /\ L[s.inner] # {} /\ L[s.inner] \subseteq K[s.inner]
      BY <2>1, <2>2 DEF Comes, Targets
    <2>4. Comes(K[s.inner])
      BY <2>3, TargetIsNot DEF Comes
    <2>5. s.outer[L[s.inner]] = s.outer[K[s.inner]]
      BY <2>3 DEF Uniform
    <2>6. CASE s.outer[L[s.inner]] = NoFn
      BY <2>2, <2>3, <2>4, <2>5, <2>6 DEF Result
    <2>7. CASE s.outer[L[s.inner]] # NoFn
      <3>1. PICK h \in Fn : h = s.outer[L[s.inner]]
        BY <2>1, <2>3, <2>7
      <3>2. h \in Calls(f, L) /\ Result(s, L) = L[h] /\ Result(s, K) = K[h]
        BY <2>1, <2>2, <2>4, <2>5, <2>7, <3>1 DEF Outer, Result
      <3>3. L[h] \in Types /\ L[h] # {} /\ L[h] \subseteq K[h] /\ K[h] \in Types
        BY <1>2, <3>2 DEF Comes, Targets
      <3> QED
        BY <3>2, <3>3, TargetIsNot DEF Comes
    <2> QED
      BY <2>6, <2>7
  <1> QED
    BY <1>2 DEF Gathered

\* What is asked for and answered is within K, if what came out of the cache is.
LEMMA AnswersWithin ==
  ASSUME TypeOK, NEW K \in [Fn -> Types], Within(K), NEW C \in SUBSET Fn,
         \A f \in Fn : body[f].kind # "inferred" => K[f] = body[f].returns,
         \A f \in LoadedBy(C) : store[f] \subseteq K[f]
  PROVE  /\ \A f \in C : Answers[f] # NoTarget => Answers[f] \subseteq K[f]
         /\ \A f \in Fn : TargetsWith(C)[f] # NoTarget => TargetsWith(C)[f] \subseteq K[f]
         /\ \A f \in Fn : OutWith(Begun(C))[f] \subseteq K[f]
  <1>1. ASSUME NEW f \in C, Answer(f) # NoTarget
        PROVE  Answer(f) \subseteq K[f]
    <2>1. CASE targets[f] # NoTarget
      BY <2>1 DEF Answer, Within
    <2>2. CASE targets[f] = NoTarget /\ InStore(f)
      <3>1. f \in LoadedBy(C)
        BY <2>2 DEF LoadedBy, InStore
      <3> QED
        BY <2>2, <3>1 DEF Answer
    <2>3. CASE targets[f] = NoTarget /\ ~InStore(f)
      BY <1>1, <2>3 DEF Answer, Native
    <2> QED
      BY <2>1, <2>2, <2>3
  <1>2. LoadedBy(C) \subseteq Fn
    BY AskedTypes
  <1> QED
    BY <1>1, <1>2 DEF Answers, TargetsWith, OutWith, Within

LEMMA TightStays == TightInv /\ [Next]_vars => TightInv'
  <1> SUFFICES ASSUME TightInv, [Next]_vars
               PROVE  TightInv'
    OBVIOUS
  <1>1. TypeOK /\ TypeOK'
    BY TypesStay DEF TightInv
  <1>2. body' = body /\ store' = store
    <2>1. ASSUME NEW f \in Fn, Compile(f) \/ Refused(f) \/ CompileRaises(f)
          PROVE  body' = body /\ store' = store
      BY <2>1 DEF Compile, Refused, CompileRaises, scenario
    <2>2. ASSUME NEW p \in order,
                 Skip(p) \/ Lose(p) \/ Convert(p) \/ ConversionRaises(p) \/ ParsingRaises(p) \/ Interrupt(p)
          PROVE  body' = body /\ store' = store
      BY <2>2 DEF Skip, Lose, Convert, ConversionRaises, ParsingRaises, ConvertRaises, Interrupt, scenario
    <2>3. Install \/ (\E S \in SUBSET inflight : InstallRaises(S)) \/ Link \/ LinkRaises \/ UNCHANGED vars
          => body' = body /\ store' = store
      BY DEF Install, InstallRaises, Link, LinkRaises, vars, scenario
    <2> QED
      BY <2>1, <2>2, <2>3 DEF Next, Step
  <1>3. SUFFICES ASSUME Uniform, NEW K \in [Fn -> Types],
                        \A f \in Fn : IF body[f].kind = "inferred" THEN Gathered(f, K) \subseteq K[f] ELSE K[f] = body[f].returns,
                        \A f \in Fn : f \in cached' => store[f] \subseteq K[f]
                 PROVE  Within(K)'
    <2>1. Uniform' = Uniform
      BY <1>2 DEF Uniform
    <2>2. ASSUME NEW K \in [Fn -> Types]
          PROVE  \A f \in Fn : Gathered(f, K)' = Gathered(f, K)
      BY <1>2 DEF Gathered, Result, Comes
    <2>3. ASSUME NEW K \in [Fn -> Types], Consistent(K)'
          PROVE  /\ \A f \in Fn : IF body[f].kind = "inferred" THEN Gathered(f, K) \subseteq K[f] ELSE K[f] = body[f].returns
                 /\ \A f \in Fn : f \in cached' => store[f] \subseteq K[f]
      BY <1>2, <2>2, <2>3 DEF Consistent
    <2> QED
      BY <1>1, <1>3, <2>1, <2>3 DEF TightInv
  <1>4. ASSUME cached \subseteq cached'
        PROVE  Within(K)
    <2>1. Consistent(K)
      BY <1>3, <1>4 DEF Consistent
    <2> QED
      BY <1>3, <2>1 DEF TightInv
  <1>5. \A f \in Fn : body[f].kind # "inferred" => K[f] = body[f].returns
    BY <1>3
  <1>6. ASSUME NEW C \in SUBSET Fn, cached' = cached \cup LoadedBy(C)
        PROVE  /\ Within(K)
               /\ \A f \in LoadedBy(C) : store[f] \subseteq K[f]
               /\ \A f \in C : Answers[f] # NoTarget => Answers[f] \subseteq K[f]
               /\ \A f \in Fn : TargetsWith(C)[f] # NoTarget => TargetsWith(C)[f] \subseteq K[f]
               /\ \A f \in Fn : OutWith(Begun(C))[f] \subseteq K[f]
    <2>1. Within(K)
      BY <1>4, <1>6
    <2>2. \A f \in LoadedBy(C) : store[f] \subseteq K[f]
      BY <1>1, <1>3, <1>6, AskedTypes
    <2> QED
      BY <1>1, <1>5, <2>1, <2>2, AnswersWithin
  <1>7. ASSUME NEW f \in Fn, Compile(f)
        PROVE  Within(K)'
    <2>1. {f} \in SUBSET Fn
      OBVIOUS
    <2>2. /\ cached' = cached \cup LoadedBy({f}) /\ targets' = TargetsWith({f}) /\ out' = OutWith(Begun({f}))
          /\ drafts' = drafts /\ definitions' = definitions
      BY <1>7 DEF Compile, output
    <2>3. /\ Within(K)
          /\ \A g \in Fn : targets'[g] # NoTarget => targets'[g] \subseteq K[g]
          /\ \A g \in Fn : out'[g] \subseteq K[g]
      BY <1>6, <2>1, <2>2
    <2> QED
      BY <2>2, <2>3 DEF Within
  <1>8. ASSUME NEW f \in Fn, Refused(f)
        PROVE  Within(K)'
    <2>1. {f} \in SUBSET Fn /\ cached' = cached \cup LoadedBy({f})
      BY <1>8 DEF Refused
    <2>2. Within(K) /\ \A g \in LoadedBy({f}) : store[g] \subseteq K[g]
      BY <1>6, <2>1
    <2> QED
      BY <1>8, <2>2 DEF Refused, Within, conversions, output
  <1>9. ASSUME NEW p \in order, Convert(p)
        PROVE  Within(K)'
    <2>1. PICK f \in Fn : f = p[2]
      BY <1>1, PairsAre
    <2>2. PICK C \in SUBSET Fn : C = Calls(f, Answers)
      BY <1>1, AskedTypes, CallsAre DEF TypeOK
    <2>3. /\ cached' = cached \cup LoadedBy(C)
          /\ targets' = [TargetsWith(C) EXCEPT ![f] = NewOut(f)]
          /\ out' = [OutWith(Begun(C)) EXCEPT ![f] = NewOut(f)]
          /\ drafts' = [drafts EXCEPT ![f] = Code(f, Answers, out[f])]
          /\ definitions' = definitions
      BY <1>9, <2>1, <2>2 DEF Convert, output
    <2>4. /\ Within(K)
          /\ \A g \in C : Answers[g] # NoTarget => Answers[g] \subseteq K[g]
          /\ \A g \in Fn : TargetsWith(C)[g] # NoTarget => TargetsWith(C)[g] \subseteq K[g]
          /\ \A g \in Fn : OutWith(Begun(C))[g] \subseteq K[g]
      BY <1>6, <2>3
    <2>5. NewOut(f) \subseteq K[f]
      <3>1. CASE body[f].kind = "inferred"
        <4>1. Answers \in [Fn -> Targets] /\ body \in [Fn -> Body]
          BY <1>1, AskedTypes DEF TypeOK
        <4>2. Gathered(f, Answers) \subseteq Gathered(f, K)
          BY <1>3, <2>2, <2>4, <4>1, GatheredGrows
        <4>3. Gathered(f, K) \subseteq K[f]
          BY <1>3, <3>1
        <4> QED
          BY <2>4, <3>1, <4>2, <4>3 DEF NewOut, Within
      <3>2. CASE body[f].kind # "inferred"
        BY <2>4, <3>2 DEF NewOut, Within
      <3> QED
        BY <3>1, <3>2
    <2>6. Code(f, Answers, out[f]).type \subseteq K[f]
      BY <2>4 DEF Code, Within
    <2>7. DOMAIN drafts = Fn /\ TargetsWith(C) \in [Fn -> Targets] /\ OutWith(Begun(C)) \in [Fn -> Types]
      BY <1>1, AskedTypes DEF TypeOK
    <2> HIDE DEF Code
    <2> QED
      BY <2>3, <2>4, <2>5, <2>6, <2>7 DEF Within
  <1>10. ASSUME NEW p \in order, ConversionRaises(p) \/ ParsingRaises(p)
         PROVE  Within(K)'
    <2>1. p[2] \in Fn /\ Answers \in [Fn -> Targets] /\ body \in [Fn -> Body]
      BY <1>1, PairsAre, AskedTypes DEF TypeOK
    <2>2. Calls(p[2], Answers) \subseteq Fn
      BY <2>1, CallsAre
    <2>3. \E C \in SUBSET Fn : \E broken : ConvertRaises(p, C, broken)
      BY <1>10, <2>2 DEF ConversionRaises, ParsingRaises
    <2> PICK C \in SUBSET Fn : \E broken : ConvertRaises(p, C, broken)
      BY <2>3
    <2> PICK broken : ConvertRaises(p, C, broken)
      OBVIOUS
    <2>4. PICK D : D = Dropped(C, broken)
      OBVIOUS
    <2>5. /\ cached' = cached \cup LoadedBy(C)
          /\ targets' = [f \in Fn |-> IF f \in D THEN NoTarget ELSE TargetsWith(C)[f]]
          /\ drafts' = [f \in Fn |-> NoDraft] /\ out' = out /\ definitions' = definitions
      BY <2>4 DEF ConvertRaises, output
    <2>6. /\ Within(K)
          /\ \A g \in Fn : TargetsWith(C)[g] # NoTarget => TargetsWith(C)[g] \subseteq K[g]
      BY <1>6, <2>5
    <2> QED
      BY <2>5, <2>6 DEF Within
  <1>11. ASSUME Install \/ \E S \in SUBSET inflight : InstallRaises(S)
         PROVE  Within(K)'
    <2>1. PICK S : Installs(S) /\ UNCHANGED <<cached, targets, out, drafts>>
      BY <1>11 DEF Install, InstallRaises, known
    <2>2. Within(K)
      BY <1>4, <2>1
    <2> QED
      BY <2>1, <2>2 DEF Installs, Within
  <1>12. ASSUME UNCHANGED <<cached, targets, out, drafts, definitions>>
         PROVE  Within(K)'
    BY <1>4, <1>12 DEF Within
  <1>13. ASSUME NEW f \in Fn, CompileRaises(f)
         PROVE  UNCHANGED <<cached, targets, out, drafts, definitions>>
    BY <1>13 DEF CompileRaises, conversions, output
  <1>14. ASSUME NEW p \in order, Skip(p) \/ Lose(p) \/ Interrupt(p)
         PROVE  UNCHANGED <<cached, targets, out, drafts, definitions>>
    BY <1>14 DEF Skip, Lose, Interrupt, conversions, output, known
  <1>15. Link \/ LinkRaises \/ UNCHANGED vars => UNCHANGED <<cached, targets, out, drafts, definitions>>
    BY DEF Link, LinkRaises, vars, conversions, output, known
  <1> QED
    BY <1>7, <1>8, <1>9, <1>10, <1>11, <1>12, <1>13, <1>14, <1>15 DEF Next, Step

(* Whatever is compiled in whatever order, and whatever raises, installed  *)
(* code has no type that an assignment leaves out which is consistent with *)
(* the program and the cache.                                              *)
THEOREM TypesAreTight == Spec => []Tightest
  <1>1. Init => TightInv
    <2> SUFFICES ASSUME Init
                 PROVE  TightInv
      OBVIOUS
    <2>1. TypeOK
      BY Starts DEF ConverterInv
    <2>2. \A K : Within(K)
      BY DEF Init, Within
    <2> QED
      BY <2>1, <2>2 DEF TightInv
  <1>2. TightInv /\ [Next]_vars => TightInv'
    BY TightStays
  <1>3. TightInv => Tightest
    BY DEF TightInv, Tightest, Within
  <1> QED
    BY <1>1, <1>2, <1>3, PTL DEF Spec
=============================================================================
