----------------------------- MODULE Converter -----------------------------
(***************************************************************************)
(* PythonToNativeConverter: what it does between the moment the runtime    *)
(* asks for a function and the moment its code, and that of everything it  *)
(* calls, is linked.  Converting a function asks the converter for a call  *)
(* target of each function it calls; a target that is not known yet ends   *)
(* that line of the code in a throw, and the function is converted again   *)
(* when it is known.  A work list orders the conversions, until nothing is *)
(* dirty and every function in flight has the types it will keep.          *)
(*                                                                         *)
(* A function's code is abstracted to the types it returns by itself and   *)
(* its statements "return outer(inner(...))", where outer is picked by the *)
(* type inner returns, as an instance is identified by its input types.    *)
(* A type is a set of Type: a OneOf of them, {} when nothing is returned.  *)
(* All of this runs under Runtime.lock: one thread, one call at a time.    *)
(***************************************************************************)
EXTENDS Integers, Sequences

CONSTANTS
  Fn,         \* the functions, each one an identity: code and input types
  Type,       \* the types a OneOf is made of
  Scenarios,  \* [body, store, faults]: programs, what the compiler cache may
              \* hold, and what may raise
  MaxFaults,  \* bound: how many times something does
  NoFn, NoType

Types == SUBSET Type
NoTarget == {NoType}
Statement == [inner : Fn, outer : [Types -> Fn \cup {NoFn}]]
Body == [kind : {"inferred", "declared", "native"}, returns : Types, calls : SUBSET Statement]
IsDraft(d) == \E S \in SUBSET Fn : d \in [calls : [S -> Types \cup {NoTarget}], type : Types]
NoDraft == [calls |-> [f \in {} |-> NoTarget], type |-> NoTarget]

Faults == {"ast", "convert", "interrupt", "link"}
ASSUME ScenariosAssumption ==
  \A s \in Scenarios : /\ s.body \in [Fn -> Body] /\ s.faults \subseteq Faults
                       /\ DOMAIN s.store \subseteq Fn /\ \A f \in DOMAIN s.store : s.store[f] \in Types
ASSUME SentinelAssumption == NoFn \notin Fn /\ NoType \notin Type
ASSUME FaultsAssumption == MaxFaults \in Nat

VARIABLES
  body,         \* the program, which never changes
  store,        \* the functions of the compiler cache's module, and their types
  raisers,      \* what may raise, which never changes either
  level,        \* _identity_levels, -1 for those that have none
  edges,        \* _dependencies: <<caller, callee>> pairs
  dirty,        \* _dirty_inflight_functions
  order,        \* _dirty_inflight_functions_with_order: <<priority, function>> pairs
  names,        \* _allDefinedNames
  cached,       \* _allCachedNames
  targets,      \* _targets: the return type of each call target
  inflight,     \* _inflight_function_conversions
  out,          \* the return type each conversion in flight has gathered
  drafts,       \* _inflight_definitions
  definitions,  \* _definitions
  fresh,        \* _new_native_functions
  linked,       \* the functions in a module that was built
  phase,        \* where the runtime's call to the converter is
  root,         \* the function it asked for
  faults        \* what has raised so far

scenario == <<body, store, raisers>>
graph == <<level, edges, dirty, order>>
known == <<names, cached, targets>>
conversions == <<inflight, out, drafts>>
output == <<definitions, fresh, linked>>
control == <<phase, root, faults>>
vars == <<scenario, graph, known, conversions, output, control>>

TypeOK ==
  /\ raisers \subseteq Faults /\ faults \in Seq(raisers) /\ Len(faults) <= MaxFaults
  /\ body \in [Fn -> Body] /\ DOMAIN store \subseteq Fn /\ \A f \in DOMAIN store : store[f] \in Types
  /\ level \in [Fn -> Int] /\ edges \subseteq Fn \X Fn
  /\ dirty \subseteq Fn /\ order \subseteq Int \X Fn
  /\ names \subseteq Fn /\ cached \subseteq Fn /\ targets \in [Fn -> Types \cup {NoTarget}]
  /\ inflight \subseteq Fn /\ out \in [Fn -> Types]
  /\ DOMAIN drafts = Fn /\ \A f \in Fn : drafts[f] = NoDraft \/ IsDraft(drafts[f])
  /\ DOMAIN definitions = Fn /\ \A f \in Fn : definitions[f] = NoDraft \/ IsDraft(definitions[f])
  /\ fresh \subseteq Fn /\ linked \subseteq Fn
  /\ phase \in {"idle", "resolving", "linking"} /\ root \in Fn \cup {NoFn}

Init ==
  /\ \E s \in Scenarios : body = s.body /\ store = s.store /\ raisers = s.faults
  /\ level = [f \in Fn |-> -1] /\ edges = {} /\ dirty = {} /\ order = {}
  /\ names = {} /\ cached = {} /\ targets = [f \in Fn |-> NoTarget]
  /\ inflight = {} /\ out = [f \in Fn |-> {}] /\ drafts = [f \in Fn |-> NoDraft]
  /\ definitions = [f \in Fn |-> NoDraft] /\ fresh = {} /\ linked = {}
  /\ phase = "idle" /\ root = NoFn /\ faults = <<>>

-----------------------------------------------------------------------------
(* What a conversion looks at.                                             *)

Native(f) == body[f].kind = "native"
InStore(f) == f \in DOMAIN store /\ f \notin names

\* What convert or defineNonPythonFunction answers: the target there is, one
\* from the cache, a native function's declared type, or None.
Answer(f) ==
  IF targets[f] # NoTarget THEN targets[f]
  ELSE IF InStore(f) THEN store[f]
  ELSE IF Native(f) THEN body[f].returns ELSE NoTarget
Answers == [f \in Fn |-> Answer(f)]

\* Code after a call that has no target, or never returns, is not converted.
Comes(type) == type \notin {NoTarget, {}}
Outer(s, K) == IF Comes(K[s.inner]) THEN {s.outer[K[s.inner]]} \ {NoFn} ELSE {}
Calls(f, K) == {s.inner : s \in body[f].calls} \cup UNION {Outer(s, K) : s \in body[f].calls}
Result(s, K) == IF Comes(K[s.inner]) /\ s.outer[K[s.inner]] # NoFn THEN K[s.outer[K[s.inner]]] ELSE K[s.inner]
Gathered(f, K) == body[f].returns \cup UNION {Result(s, K) : s \in {c \in body[f].calls : Comes(Result(c, K))}}

\* The code made of f: the targets it calls, as K knows them, and the type its
\* return statements convert to, the one known when the conversion begins.
Code(f, K, type) == [calls |-> [g \in Calls(f, K) |-> K[g]], type |-> type]

-----------------------------------------------------------------------------
(***************************************************************************)
(* The converter is asked for each function of C by a caller, or by the    *)
(* runtime (NoFn).  It defines the link name, which loads the cache's      *)
(* module when that has it, adds a graph node, and begins a conversion     *)
(* unless there is a target.                                               *)
(***************************************************************************)
Far == 1000000
Depth(caller) == IF caller = NoFn THEN 0 ELSE level[caller] + 1
NewPriority(caller) == IF caller = NoFn THEN 0 ELSE Far - Depth(caller)
New(C) == {f \in C : level[f] = -1}
LoadedBy(C) == IF \E f \in C : InStore(f) THEN DOMAIN store ELSE {}
Begun(C) == {f \in C : targets[f] = NoTarget /\ ~InStore(f)}

LevelWith(C, caller) == [f \in Fn |-> IF f \in New(C) THEN Depth(caller) ELSE level[f]]
EdgesWith(C, caller) == edges \cup {<<caller, f>> : f \in C}
OrderWith(C, caller) == {<<NewPriority(caller), f>> : f \in New(C)}
NamesWith(C) == names \cup C \cup LoadedBy(C)
TargetsWith(C) == [f \in Fn |-> IF f \in LoadedBy(C) THEN store[f] ELSE IF f \in C THEN Answer(f) ELSE targets[f]]
OutWith(B) == [f \in Fn |-> IF f \notin B \ inflight THEN out[f] ELSE IF body[f].kind = "inferred" THEN {} ELSE body[f].returns]

\* What may raise is modelled by a step of its own, taken at most MaxFaults times.
Raises(kind) == kind \in raisers /\ Len(faults) < MaxFaults /\ faults' = Append(faults, kind)
Only(kinds) == \A i \in DOMAIN faults : faults[i] \in kinds

\* The runtime asks for f.  convert asserts that a Python function is asked
\* for only when nothing is in flight.
Compile(f) ==
  /\ phase = "idle" /\ (Native(f) \/ inflight = {})
  /\ level' = LevelWith({f}, NoFn) /\ dirty' = dirty \cup New({f}) /\ order' = order \cup OrderWith({f}, NoFn)
  /\ names' = NamesWith({f}) /\ cached' = cached \cup LoadedBy({f}) /\ targets' = TargetsWith({f})
  /\ inflight' = inflight \cup Begun({f}) /\ out' = OutWith(Begun({f}))
  /\ phase' = IF Begun({f}) = {} THEN "linking" ELSE "resolving"
  /\ root' = f
  /\ UNCHANGED <<scenario, edges, drafts, output, faults>>

Refused(f) ==
  /\ phase = "idle" /\ ~Native(f) /\ inflight # {}
  /\ names' = NamesWith({f}) /\ cached' = cached \cup LoadedBy({f})
  /\ targets' = [g \in Fn |-> IF g \in LoadedBy({f}) THEN store[g] ELSE targets[g]]
  /\ UNCHANGED <<scenario, graph, conversions, output, control>>

\* createConversionContext raises: f's source cannot be had, or parsed.
CompileRaises(f) ==
  /\ phase = "idle" /\ ~Native(f) /\ inflight = {} /\ f \in Begun({f})
  /\ Raises("ast")
  /\ level' = LevelWith({f}, NoFn) /\ dirty' = dirty \cup New({f}) /\ order' = order \cup OrderWith({f}, NoFn)
  /\ names' = NamesWith({f})
  /\ UNCHANGED <<scenario, edges, cached, targets, conversions, output, phase, root>>

-----------------------------------------------------------------------------
(***************************************************************************)
(* _resolveAllInflightFunctions.  getNextDirtyNode pops the pair of the    *)
(* highest priority, and drops those before it whose function is not dirty *)
(* any more.  Ties come in the order they were added in, often that of an  *)
(* iteration over a set: the model takes any.                              *)
(***************************************************************************)
IsNext(p) == phase = "resolving" /\ p[2] \in dirty /\ \A q \in order : q[2] \in dirty => q[1] <= p[1]
Popped(p) == {q \in order : q[1] <= p[1]} \ {p}
Abandoned == IF Native(root) THEN inflight ELSE {}

Skip(p) ==
  /\ IsNext(p) /\ p[2] \in cached
  /\ dirty' = dirty \ {p[2]} /\ order' = Popped(p)
  /\ UNCHANGED <<scenario, level, edges, known, conversions, output, control>>

\* A KeyError, outside of the block that cleans up.  convert clears what is in
\* flight, defineNonPythonFunction does not.
Lose(p) ==
  /\ IsNext(p) /\ p[2] \notin cached \cup inflight
  /\ dirty' = dirty \ {p[2]} /\ order' = Popped(p)
  /\ inflight' = Abandoned /\ phase' = "idle" /\ root' = NoFn
  /\ UNCHANGED <<scenario, level, edges, known, out, drafts, output, faults>>

\* What becomes dirty once f was converted: f itself, at low priority, when
\* its return type grew, and its callers when it did or f had no definition.
\* Mutant: a declared type grows like an inferred one.
MutantNewOut(f) == out[f] \cup Gathered(f, Answers)
NewOut(f) == IF body[f].kind = "inferred" THEN out[f] \cup Gathered(f, Answers) ELSE out[f]
Unstable(f) == NewOut(f) # out[f]
\* Mutant: callers are converted again only for a first definition.
MutantUpstream(f, E) == IF drafts[f] = NoDraft THEN {c \in Fn : <<c, f>> \in E} ELSE {}
Upstream(f, E) == IF Unstable(f) \/ drafts[f] = NoDraft THEN {c \in Fn : <<c, f>> \in E} ELSE {}
\* Mutant: a function is always converted again.
MutantAlwaysAgain(f) == {f}
Again(f) == IF Unstable(f) THEN {f} ELSE {}

Convert(p) ==
  LET f == p[2]
      C == Calls(f, Answers)
      E == EdgesWith(C, f)
      L == LevelWith(C, f)
  IN  /\ IsNext(p) /\ f \in inflight \ cached
      /\ level' = L /\ edges' = E
      /\ dirty' = (dirty \ {f}) \cup New(C) \cup Again(f) \cup Upstream(f, E)
      /\ order' = Popped(p) \cup OrderWith(C, f) \cup {<<L[g] - Far, g>> : g \in Again(f)}
                            \cup {<<L[g], g>> : g \in Upstream(f, E)}
      /\ names' = NamesWith(C) /\ cached' = cached \cup LoadedBy(C)
      /\ targets' = [TargetsWith(C) EXCEPT ![f] = NewOut(f)]
      /\ inflight' = inflight \cup Begun(C)
      /\ out' = [OutWith(Begun(C)) EXCEPT ![f] = NewOut(f)]
      /\ drafts' = [drafts EXCEPT ![f] = Code(f, Answers, out[f])]
      /\ UNCHANGED <<scenario, output, control>>

\* Mutants: only what was in flight before is cleaned up; only what has been
\* converted is.
MutantDroppedBefore(C, broken) == inflight
Dropped(C, broken) == inflight \cup (Begun(C) \ broken)

(***************************************************************************)
(* The conversion raises after it asked for the functions in C, the last   *)
(* of which may be what raised, before its own conversion began.  Nothing  *)
(* that was in flight leaves a trace.                                      *)
(***************************************************************************)
ConvertRaises(p, C, broken) ==
  LET D == Dropped(C, broken) IN
  /\ IsNext(p) /\ p[2] \in inflight \ cached
  /\ level' = [f \in Fn |-> IF f \in D THEN -1 ELSE LevelWith(C, p[2])[f]]
  /\ edges' = {e \in EdgesWith(C, p[2]) : e[1] \notin D /\ e[2] \notin D}
  /\ dirty' = (dirty \cup New(C)) \ D /\ order' = Popped(p) \cup OrderWith(C, p[2])
  /\ names' = NamesWith(C) \ D /\ cached' = cached \cup LoadedBy(C)
  /\ targets' = [f \in Fn |-> IF f \in D THEN NoTarget ELSE TargetsWith(C)[f]]
  /\ inflight' = {} /\ drafts' = [f \in Fn |-> NoDraft]
  /\ phase' = "idle" /\ root' = NoFn
  /\ UNCHANGED <<scenario, out, output>>

ConversionRaises(p) ==
  /\ Raises("convert")
  /\ \E C \in SUBSET Calls(p[2], Answers) : ConvertRaises(p, C, {})

ParsingRaises(p) ==
  /\ Raises("ast")
  /\ \E C \in SUBSET Calls(p[2], Answers) :
       \E g \in Begun(C) \ inflight : ~Native(g) /\ ConvertRaises(p, C, {g})

\* A KeyboardInterrupt is not an Exception: only the finally clauses run.
Interrupt(p) ==
  /\ IsNext(p) /\ p[2] \in inflight \ cached
  /\ Raises("interrupt")
  /\ dirty' = dirty \ {p[2]} /\ order' = Popped(p)
  /\ inflight' = Abandoned /\ phase' = "idle" /\ root' = NoFn
  /\ UNCHANGED <<scenario, level, edges, known, out, drafts, output>>

-----------------------------------------------------------------------------
(* _installInflightFunctions, then buildAndLinkNewModule.                  *)

Resolved == phase = "resolving" /\ \A p \in order : p[2] \notin dirty
\* Mutant: native functions are not put with the new ones.
MutantInstallsPython(S) ==
  /\ definitions' = [f \in Fn |-> IF f \in S THEN drafts[f] ELSE definitions[f]]
  /\ fresh' = fresh \cup {f \in S : ~Native(f)}
Installs(S) ==
  /\ definitions' = [f \in Fn |-> IF f \in S THEN drafts[f] ELSE definitions[f]]
  /\ fresh' = fresh \cup S

Install ==
  /\ Resolved /\ \A f \in inflight : drafts[f] # NoDraft
  /\ Installs(inflight)
  /\ order' = {} /\ inflight' = {} /\ phase' = "linking"
  /\ UNCHANGED <<scenario, level, edges, dirty, known, out, drafts, linked, root, faults>>

\* "Expected a definition": those that come before have been installed.
InstallRaises(S) ==
  /\ Resolved /\ \A f \in S : drafts[f] # NoDraft
  /\ \E f \in inflight \ S : drafts[f] = NoDraft
  /\ Installs(S)
  /\ order' = {} /\ inflight' = Abandoned /\ phase' = "idle" /\ root' = NoFn
  /\ UNCHANGED <<scenario, level, edges, dirty, known, out, drafts, linked, faults>>

Link ==
  /\ phase = "linking"
  /\ linked' = linked \cup fresh /\ fresh' = {}
  /\ phase' = "idle" /\ root' = NoFn
  /\ UNCHANGED <<scenario, graph, known, conversions, definitions, faults>>

LinkRaises ==
  /\ phase = "linking" /\ fresh # {}
  /\ Raises("link")
  /\ fresh' = {} /\ phase' = "idle" /\ root' = NoFn
  /\ UNCHANGED <<scenario, graph, known, conversions, definitions, linked>>

-----------------------------------------------------------------------------
Step ==
  \/ \E p \in order : Skip(p) \/ Lose(p) \/ Convert(p) \/ ConversionRaises(p) \/ ParsingRaises(p) \/ Interrupt(p)
  \/ Install
  \/ \E S \in SUBSET inflight : InstallRaises(S)
  \/ Link \/ LinkRaises

Next ==
  \/ \E f \in Fn : Compile(f) \/ Refused(f) \/ CompileRaises(f)
  \/ Step

Spec == Init /\ [][Next]_vars

\* A call to the converter runs in one thread, which the lock lets finish.
FairSpec == Spec /\ WF_vars(Step)

-----------------------------------------------------------------------------
(* A second conversion of a function whose code was installed would give   *)
(* the same code: its callees' types were the final ones.  This is what    *)
(* VALIDATE_FUNCTION_DEFINITIONS_STABLE checks, when it is turned on: it   *)
(* "should always be true".                                                *)
DefinitionsAreStable ==
  \A f \in Fn : definitions[f] # NoDraft => definitions[f] = Code(f, targets, targets[f])

(* It is, after conversions and links that raised, however many.  When a   *)
(* conversion is interrupted, or a source is missing, functions are left   *)
(* that the work list has forgotten.                                       *)
Settled == Only({"convert", "link"}) => DefinitionsAreStable

(* "We produce the tightest output type possible": whatever functions are  *)
(* compiled before, whatever calls what and whatever raises, installed     *)
(* code returns no type that some assignment leaves out which is           *)
(* consistent with the program and with what came out of the cache.  This  *)
(* is of programs in which the type of a call does not pick the function   *)
(* of the next: a pick may stop being made as types grow.                  *)
Uniform == \A f \in Fn : \A s \in body[f].calls : \A t, u \in Types : s.outer[t] = s.outer[u]
Consistent(K) ==
  \A f \in Fn : /\ IF body[f].kind = "inferred" THEN Gathered(f, K) \subseteq K[f] ELSE K[f] = body[f].returns
                /\ f \in cached => store[f] \subseteq K[f]
Tightest ==
  Uniform => \A K \in [Fn -> Types] : Consistent(K) =>
    \A f \in Fn : definitions[f] # NoDraft => definitions[f].type \subseteq K[f]

(* Between calls every name for which there is said to be a definition has *)
(* one, or is cached: after a conversion raised, a retry begins anew.      *)
EveryNameIsDefined == phase = "idle" => \A f \in names : definitions[f] # NoDraft \/ f \in cached

(* When the work list is empty every function in flight has a definition,  *)
(* so that "Expected a definition" is never raised, and whatever is dirty  *)
(* has a conversion in flight to be converted with; and between calls the  *)
(* names are as above: also after conversions and links that raised.       *)
NothingLost ==
  /\ TypeOK
  /\ Only({"convert", "link"}) =>
       /\ Resolved => \A f \in inflight : drafts[f] # NoDraft
       /\ dirty \subseteq inflight \cup cached
       /\ phase # "resolving" => inflight = {}
       /\ EveryNameIsDefined

(* A function that has been defined is waiting to be compiled or linked,   *)
(* as long as the linker does not raise, and code that was linked never    *)
(* calls a function that was not.                                          *)
DefinedIsBuilt == \A f \in Fn : definitions[f] # NoDraft => f \in fresh \cup linked
CallsAreLinked == \A f \in linked : \A g \in DOMAIN definitions[f].calls : g \in cached \cup linked
LinkCloses ==
  /\ Only({"ast", "convert", "interrupt"}) => DefinedIsBuilt
  /\ Only({"convert"}) => CallsAreLinked

(* Every call to the converter ends: types only grow, and recursion among  *)
(* functions whose types depend on each other reaches a fixed point.       *)
CompileEnds == phase # "idle" ~> phase = "idle"
=============================================================================
