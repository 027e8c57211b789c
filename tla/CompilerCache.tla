--------------------------- MODULE CompilerCache ---------------------------
(***************************************************************************)
(* The compiler cache (compiler_cache.py): a directory of modules of       *)
(* compiled functions that several processes read and write at once,       *)
(* without locks, while any of them may die, and while the source they run *)
(* changes between one process and the next.                               *)
(*                                                                         *)
(* A link name contains a hash of all the code it depends on, so the same  *)
(* name is the same function in every process; but a module holds several  *)
(* functions, and the globals of one may be gone, or have another type, in *)
(* the version of the source that a process runs.  Such a module does not  *)
(* fit.  A process reads the names of all modules once, when it starts;    *)
(* the converter then asks for the module of each function it defines, and *)
(* what it gets no target for it compiles, as one new module.              *)
(*                                                                         *)
(* A module is numbered when its directory is made, so those it depends on *)
(* have lower numbers.  An exception ends a process; it may start again.   *)
(* Functions so small that the compiler repeats them in a module that      *)
(* calls them are taken for a part of the caller.                          *)
(***************************************************************************)
EXTENDS Naturals, Sequences, SequencesExt

CONSTANTS Proc, Name, Version, NoName,
          Calls,        \* Calls[n]: the names the function n calls
          Scenarios     \* what the names are valid for, and how they are entered

ASSUME CallsAssumption == Calls \in [Name -> SUBSET Name] /\ NoName \notin Name
ASSUME ScenariosAssumption ==
  \A s \in Scenarios : /\ s.valid \in [Name -> SUBSET Version] /\ s.entries \subseteq Name
                       /\ s.dispatch \in [Name -> Name \cup {NoName}]

VARIABLES
  scenario,   \* .valid[n]: versions with the globals of n; .entries: names called
              \* from the interpreter; .dispatch[n]: the entry point made for n;
              \* .modules: bound on the directories made
  disk,       \* the directories, by number
  marked,     \* those with a file marked_invalid
  proc        \* the processes

vars == <<scenario, disk, marked, proc>>

Hash == 1 .. Len(disk)
Dispatchers == {scenario.dispatch[n] : n \in scenario.entries} \ {NoName}
Defs(hashes) == UNION {disk[h].defines : h \in hashes}
Externals(h) == (UNION {Calls[n] : n \in disk[h].defines}) \ disk[h].defines

Nowhere == 0  \* the index has no module for a name
Down == [at |-> "down", version |-> NoName, todo |-> {}, listed |-> {},
         index |-> [n \in Name |-> Nowhere], valid |-> {}, loaded |-> {}, known |-> {},
         external |-> {}, built |-> {}, entry |-> NoName, want |-> {}, fresh |-> {}]

Init ==
  /\ scenario \in Scenarios
  /\ disk = <<>> /\ marked = {}
  /\ proc = [p \in Proc |-> Down]

Becomes(p, state) == proc' = [proc EXCEPT ![p] = state]

-----------------------------------------------------------------------------
(* CompilerCache.__init__: every directory that is listed is read.         *)

Start(p, v) ==
  /\ proc[p].at = "down" /\ v \in UNION Range(scenario.valid)
  /\ LET listing == {h \in Hash : disk[h].final} IN
     Becomes(p, [Down EXCEPT !.at = "starting", !.version = v, !.todo = listing, !.listed = listing])
  /\ UNCHANGED <<scenario, disk, marked>>

\* How far a process has come with a manifest and those it needs.
Reading == [index : [Name -> Nat], valid : SUBSET Nat, marks : SUBSET Nat, result : {"ok", "invalid", "error"}]
Indexed(index, h) == [n \in Name |-> IF n \in disk[h].defines THEN h ELSE index[n]]

\* From s, when the modules that h needs have been read, which gave subs, unless
\* that is not looked at.
Manifest(h, s, subs) ==
  IF h \in s.valid THEN s
  ELSE IF h \in s.marks THEN [s EXCEPT !.result = "invalid"]
  ELSE IF ~disk[h].written THEN [s EXCEPT !.result = "error"]
  ELSE IF subs.result # "ok" THEN subs
  ELSE [subs EXCEPT !.index = Indexed(subs.index, h), !.valid = @ \cup {h}]

\* <<h, i, s>>: the first i of the modules h needs, read from s.  The module
\* without which h cannot be used is marked, not h.
Manifests[x \in Hash \X Nat \X Reading] ==
  LET h == x[1]  i == x[2]  s == x[3] IN
  IF i \notin DOMAIN disk[h].subs THEN s
  ELSE LET t == Manifests[<<h, i - 1, s>>]
           sub == disk[h].subs[i]
           u == Manifest(sub, t, Manifests[<<sub, Len(disk[sub].subs), t>>])
       IN IF t.result # "ok" THEN t
          ELSE IF u.result = "invalid" THEN [u EXCEPT !.marks = @ \cup {sub}] ELSE u
NameManifest(h, s) == Manifest(h, s, Manifests[<<h, Len(disk[h].subs), s>>])

ReadManifest(p, h) ==
  /\ proc[p].at = "starting" /\ h \in proc[p].todo
  /\ LET s == NameManifest(h, [index |-> proc[p].index, valid |-> proc[p].valid, marks |-> marked, result |-> "ok"]) IN
     /\ marked' = s.marks
     /\ Becomes(p, [proc[p] EXCEPT !.todo = @ \ {h}, !.index = s.index, !.valid = s.valid,
                                   !.at = IF s.result = "error" THEN "manifestError" ELSE @])
  /\ UNCHANGED <<scenario, disk>>

Started(p) ==
  /\ proc[p].at = "starting" /\ proc[p].todo = {}
  /\ Becomes(p, [proc[p] EXCEPT !.at = "idle"])
  /\ UNCHANGED <<scenario, disk, marked>>

-----------------------------------------------------------------------------
(* loadModuleByHash                                                        *)

\* Manifests are read back, and globals are there with their types.
Fits(h, v) == \A n \in disk[h].defines : v \in scenario.valid[n]

\* A library is opened with all its symbols resolved (ctypes adds RTLD_NOW).
Opens(h, loaded) == Externals(h) \subseteq Defs(loaded)

\* Like the manifests: from s, the modules that h needs having come to subs; and
\* <<h, i, s>>, the first i of these.
LoadState == [version : Version, loaded : SUBSET Nat, names : SUBSET Name, marks : SUBSET Nat,
              result : {"ok", "invalid", "linkError"}]
Load(h, s, subs) ==
  IF h \in s.loaded THEN s
  ELSE IF ~Fits(h, s.version) THEN [s EXCEPT !.marks = @ \cup {h}, !.result = "invalid"]
  ELSE IF subs.result # "ok" THEN subs
  ELSE IF ~Opens(h, subs.loaded) THEN [subs EXCEPT !.result = "linkError"]
  ELSE [subs EXCEPT !.loaded = @ \cup {h}, !.names = @ \cup disk[h].defines]

Loads[x \in Hash \X Nat \X LoadState] ==
  LET h == x[1]  i == x[2]  s == x[3] IN
  IF i \notin DOMAIN disk[h].subs THEN s
  ELSE LET t == Loads[<<h, i - 1, s>>]
           sub == disk[h].subs[i]
       IN IF t.result # "ok" THEN t ELSE Load(sub, t, Loads[<<sub, Len(disk[sub].subs), t>>])
LoadModule(h, s) == Load(h, s, Loads[<<h, Len(disk[h].subs), s>>])

Loading(p, n) ==
  LoadModule(proc[p].index[n], [version |-> proc[p].version, loaded |-> proc[p].loaded, names |-> {},
                                marks |-> marked, result |-> "ok"])
HasSymbol(p, n) == proc[p].index[n] # Nowhere

-----------------------------------------------------------------------------
(* compileFunctionOverload, compileSingleClassDispatch, compileDestructor  *)

Enter(p, n) ==
  /\ proc[p].at = "idle" /\ proc[p].version \in scenario.valid[n]
  /\ Becomes(p, [proc[p] EXCEPT !.at = "converting", !.entry = n, !.want = {n}])
  /\ UNCHANGED <<scenario, disk, marked>>

\* What is loaded of a module that does not load in the end stays loaded, but
\* nobody is told: its functions are not among the known ones.
Found(state, s) ==
  IF s.result = "ok" THEN [state EXCEPT !.loaded = s.loaded, !.known = @ \cup s.names, !.external = @ \cup s.names]
  ELSE [state EXCEPT !.loaded = s.loaded]

\* defineLinkName: a function without a target is converted, which defines
\* those it calls.
Convert(state, n) ==
  IF n \in state.known THEN state
  ELSE [state EXCEPT !.fresh = @ \cup {n}, !.want = @ \cup (Calls[n] \ (state.known \cup state.fresh))]

Define(p, n) ==
  /\ proc[p].at = "converting" /\ n \in proc[p].want
  /\ LET state == [proc[p] EXCEPT !.want = @ \ {n}]
         s == Loading(p, n)
     IN IF n \in state.known \cup state.fresh
        THEN Becomes(p, state) /\ UNCHANGED marked
        ELSE IF HasSymbol(p, n)
        THEN /\ marked' = s.marks
             /\ Becomes(p, IF s.result = "linkError" THEN [state EXCEPT !.at = "linkError"]
                           ELSE Convert(Found(state, s), n))
        ELSE Becomes(p, Convert(state, n)) /\ UNCHANGED marked
  /\ UNCHANGED <<scenario, disk>>

\* generateCallConverter, once the function itself is converted.
Entry(p) == IF scenario.dispatch[proc[p].entry] = NoName THEN proc[p].entry ELSE scenario.dispatch[proc[p].entry]
\* Mutant: it does not ask the cache.
MutantDispatch(p) ==
  /\ proc[p].at = "converting" /\ proc[p].want = {}
  /\ Entry(p) \notin proc[p].known \cup proc[p].fresh
  /\ Becomes(p, [proc[p] EXCEPT !.fresh = @ \cup {Entry(p)}])
  /\ UNCHANGED <<scenario, disk, marked>>
Dispatch(p) ==
  /\ proc[p].at = "converting" /\ proc[p].want = {}
  /\ Entry(p) \notin proc[p].known \cup proc[p].fresh
  /\ Becomes(p, [proc[p] EXCEPT !.want = {Entry(p)}])
  /\ UNCHANGED <<scenario, disk, marked>>
-----------------------------------------------------------------------------
(* buildAndLinkNewModule and addModule                                     *)

Converted(p) == proc[p].at = "converting" /\ proc[p].want = {} /\ Entry(p) \in proc[p].known \cup proc[p].fresh

NothingNew(p) ==
  /\ Converted(p) /\ proc[p].fresh = {}
  /\ Becomes(p, [proc[p] EXCEPT !.at = "linked"])
  /\ UNCHANGED <<scenario, disk, marked>>

\* A function that came with a module of the cache after this process had made
\* it itself: native_ast_to_llvm asserts that no function it calls is both.
Twice(p) == (UNION {Calls[n] : n \in proc[p].fresh}) \cap proc[p].external \cap (proc[p].built \cup proc[p].fresh)
BuildRaises(p) ==
  /\ Converted(p) /\ Twice(p) # {}
  /\ Becomes(p, [proc[p] EXCEPT !.at = "assertError"])
  /\ UNCHANGED <<scenario, disk, marked>>

\* Dependencies are known of what has an identity; entry points have none.
Dependencies(p) == (UNION {Calls[n] : n \in proc[p].fresh \ Dispatchers}) \ proc[p].fresh
MutantDependentHashes(p) == {}   \* mutant: dependencies are not written
DependentHashes(p) == {proc[p].index[n] : n \in Dependencies(p)}

\* The directory has a temporary name, which no listing takes for a module.
\* Mutant: the files are written where they are found.
MutantBeginWrite(p) ==
  /\ Converted(p) /\ proc[p].fresh # {} /\ Twice(p) = {}
  /\ Len(disk) < scenario.modules
  /\ \E subs \in SetToSeqs(DependentHashes(p)) :
       disk' = Append(disk, [defines |-> proc[p].fresh, subs |-> subs, written |-> FALSE, final |-> TRUE])
  /\ Becomes(p, [proc[p] EXCEPT !.at = "writing", !.todo = {Len(disk) + 1}])
  /\ UNCHANGED <<scenario, marked>>
BeginWrite(p) ==
  /\ Converted(p) /\ proc[p].fresh # {} /\ Twice(p) = {}
  /\ Len(disk) < scenario.modules
  /\ \E subs \in SetToSeqs(DependentHashes(p)) :
       disk' = Append(disk, [defines |-> proc[p].fresh, subs |-> subs, written |-> FALSE, final |-> FALSE])
  /\ Becomes(p, [proc[p] EXCEPT !.at = "writing", !.todo = {Len(disk) + 1}])
  /\ UNCHANGED <<scenario, marked>>

EndWrite(p, h) ==
  /\ proc[p].at = "writing" /\ h \in proc[p].todo /\ ~disk[h].written
  /\ disk' = [disk EXCEPT ![h].written = TRUE]
  /\ UNCHANGED <<scenario, marked, proc>>

Rename(p, h) ==
  /\ proc[p].at = "writing" /\ h \in proc[p].todo /\ disk[h].written
  /\ disk' = [disk EXCEPT ![h].final = TRUE]
  /\ Becomes(p, [proc[p] EXCEPT !.at = "renamed"])
  /\ UNCHANGED <<scenario, marked>>

AddModule(p, h) ==
  /\ proc[p].at = "renamed" /\ h \in proc[p].todo
  /\ Becomes(p, IF Opens(h, proc[p].loaded)
                THEN [proc[p] EXCEPT !.at = "linked", !.todo = {}, !.fresh = {}, !.loaded = @ \cup {h},
                                     !.known = @ \cup disk[h].defines, !.built = @ \cup disk[h].defines,
                                     !.index = Indexed(@, h)]
                ELSE [proc[p] EXCEPT !.at = "linkError"])
  /\ UNCHANGED <<scenario, disk, marked>>

\* function_pointer_by_name looks in the module that the index names, which
\* need not be the one through which the function came.
Pointer(p) ==
  LET s == Loading(p, Entry(p)) IN
  /\ proc[p].at = "linked"
  /\ marked' = s.marks
  /\ Becomes(p, IF s.result = "ok" THEN [proc[p] EXCEPT !.at = "idle", !.entry = NoName, !.loaded = s.loaded]
                ELSE [proc[p] EXCEPT !.at = IF s.result = "linkError" THEN s.result ELSE "keyError"])
  /\ UNCHANGED <<scenario, disk>>

\* A process ends, or dies, anywhere.
Stop(p) == proc[p].at # "down" /\ Becomes(p, Down) /\ UNCHANGED <<scenario, disk, marked>>

-----------------------------------------------------------------------------
Next ==
  \E p \in Proc :
    \/ \E v \in Version : Start(p, v)
    \/ \E h \in Hash : ReadManifest(p, h) \/ EndWrite(p, h) \/ Rename(p, h) \/ AddModule(p, h)
    \/ \E n \in scenario.entries : Enter(p, n)
    \/ \E n \in Name : Define(p, n)
    \/ Started(p) \/ Dispatch(p) \/ NothingNew(p) \/ BuildRaises(p) \/ BeginWrite(p) \/ Pointer(p) \/ Stop(p)

Spec == Init /\ [][Next]_vars

-----------------------------------------------------------------------------
(* Properties *)

\* Whoever writes, dies or marks meanwhile, a process that starts finds every
\* module it lists complete, and those it needs too (__init__ reads without a try).
StartsClean == \A p \in Proc : proc[p].at # "manifestError"

\* A library is opened only when what it calls is there.
LinksResolve == \A p \in Proc : proc[p].at # "linkError"

\* What was in the cache when the process started is not compiled again, when
\* it is all valid and no two processes had made the same function.
Sound(hashes, v) ==
  \A h \in hashes : /\ h \notin marked /\ Fits(h, v)
                     /\ \A other \in hashes \ {h} : disk[h].defines \cap disk[other].defines = {}
Reuse ==
  \A p \in Proc : Sound(proc[p].listed, proc[p].version) =>
    (proc[p].built \cup proc[p].fresh) \cap Defs(proc[p].listed) = {}
=============================================================================
