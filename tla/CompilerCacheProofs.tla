-------------------------- MODULE CompilerCacheProofs --------------------------
(***************************************************************************)
(* Whatever processes share a cache, and wherever they die, one that       *)
(* starts finds complete modules; a library is opened only when what it    *)
(* calls is loaded; and what is cached is not compiled again.              *)
(***************************************************************************)
EXTENDS CompilerCache, FiniteSetTheorems, WellFoundedInduction, TLAPS

-----------------------------------------------------------------------------
(* What is always so of the directory and of every process.                *)

Mod == [defines : SUBSET Name, subs : Seq(Nat), written : BOOLEAN, final : BOOLEAN]
Places == {"down", "starting", "manifestError", "idle", "converting", "linkError", "assertError", "writing",
           "renamed", "linked", "keyError"}
State == [at : Places, version : Version \cup {NoName}, todo : SUBSET Nat, listed : SUBSET Nat, index : [Name -> Nat],
          valid : SUBSET Nat, loaded : SUBSET Nat, known : SUBSET Name, external : SUBSET Name, built : SUBSET Name,
          entry : Name \cup {NoName}, want : SUBSET Name, fresh : SUBSET Name]
Typed == scenario \in Scenarios /\ disk \in Seq(Mod) /\ marked \subseteq Nat /\ proc \in [Proc -> State]

Subs(h) == {disk[h].subs[k] : k \in DOMAIN disk[h].subs}

\* What a module needs was there before it, as a module, and has what it calls.
ModuleRight(h) ==
  /\ disk[h].final => disk[h].written
  /\ \A g \in Subs(h) : g \in Hash /\ g < h /\ disk[g].final
  /\ \A n \in disk[h].defines \ Dispatchers : Calls[n] \ disk[h].defines \subseteq Defs(Subs(h))
DiskRight == \A h \in Hash : ModuleRight(h)

\* The modules that a process knows of, and all they need, are in its index; what
\* it lists is complete.
Has(s) == s.valid \cup s.loaded
IndexRight(s) ==
  /\ \A h \in Has(s) : /\ h \in Hash /\ disk[h].final /\ Subs(h) \subseteq Has(s)
                       /\ \A n \in disk[h].defines : s.index[n] # Nowhere
  /\ \A n \in Name : s.index[n] # Nowhere => s.index[n] \in Has(s) /\ n \in disk[s.index[n]].defines
ListedRight(s) ==
  /\ \A h \in s.listed : h \in Hash /\ disk[h].final /\ Subs(h) \subseteq s.listed
  /\ s.valid \subseteq s.listed
  /\ s.at = "starting" => s.todo \subseteq s.listed /\ s.loaded = {}

\* Converted functions call what is known, converted or wanted, and what is known
\* is loaded.
Working == {"converting", "writing", "renamed", "linked"}
EntryOf(s) == IF scenario.dispatch[s.entry] = NoName THEN s.entry ELSE scenario.dispatch[s.entry]
FreshRight(s) ==
  /\ s.known \subseteq Defs(s.loaded)
  /\ s.at \notin {"down", "manifestError"} => s.version \in Version
  /\ s.at \in {"down", "starting", "idle", "linked"} => s.fresh = {}
  /\ s.at = "converting" => \A n \in s.fresh : Calls[n] \subseteq s.known \cup s.fresh \cup s.want
  /\ s.at \in Working => s.entry \in Name
  /\ s.at \in Working \ {"converting"} => EntryOf(s) \in s.known \cup s.fresh
WritesRight(s) ==
  s.at \in {"writing", "renamed"} =>
    \E h \in Hash : /\ s.todo = {h} /\ disk[h].defines = s.fresh
                    /\ Subs(h) \subseteq Has(s) /\ Externals(h) \subseteq s.known
                    /\ s.at = "renamed" => disk[h].final

\* When the listed modules are sound, all of them are read, and none of their
\* functions is made again: who asks for one gets its module.
SoundIn(marks, hashes, v) ==
  \A h \in hashes : /\ h \notin marks /\ Fits(h, v)
                     /\ \A other \in hashes \ {h} : disk[h].defines \cap disk[other].defines = {}
Reusing(s, marks) ==
  SoundIn(marks, s.listed, s.version) =>
    /\ s.at \notin {"starting", "manifestError"} => s.listed \subseteq s.valid
    /\ s.at = "starting" => s.listed \ s.todo \subseteq s.valid
    /\ \A n \in Defs(s.listed) : s.index[n] # Nowhere => s.index[n] \in s.listed
    /\ \A n \in s.known : s.index[n] \in s.loaded
    /\ \A h \in s.loaded \cap s.listed : disk[h].defines \subseteq s.known
    /\ (s.built \cup s.fresh) \cap Defs(s.listed) = {}

NoFailure(s) == s.at # "manifestError" /\ (s.at = "linkError" => Dispatchers # {})
Right(s) == IndexRight(s) /\ ListedRight(s) /\ FreshRight(s) /\ WritesRight(s) /\ NoFailure(s)
CacheInv == Typed /\ DiskRight /\ \A p \in Proc : Right(proc[p]) /\ Reusing(proc[p], marked)
-----------------------------------------------------------------------------
(* Recursion over what modules need.  A module needs modules of lower      *)
(* numbers, one after the other: a pair of numbers goes down.              *)

LEMMA LeastOf ==
  ASSUME NEW S, S \subseteq Nat, S # {}
  PROVE  \E i \in S : \A j \in S : i <= j
  <1>1. IsWellFoundedOn(OpToRel(<, Nat), Nat)
    BY NatLessThanWellFounded
  <1>2. PICK i \in S : \A j \in S : <<j, i>> \notin OpToRel(<, Nat)
    BY <1>1, WFMin
  <1>3. ASSUME NEW j \in S PROVE i <= j
    <2>1. <<j, i>> \in Nat \X Nat /\ ~(j < i)
      BY <1>2 DEF OpToRel
    <2> QED
      BY <2>1
  <1> QED
    BY <1>3

Lower(A, B, y, x) == A[y] < A[x] \/ (A[y] = A[x] /\ B[y] < B[x])

LEMMA LowestOf ==
  ASSUME NEW X, NEW A \in [X -> Nat], NEW B \in [X -> Nat], NEW S \in SUBSET X, S # {}
  PROVE  \E x \in S : \A y \in S : ~Lower(A, B, y, x)
  <1>1. PICK a \in {A[x] : x \in S} : \A b \in {A[x] : x \in S} : a <= b
    <2>1. {A[x] : x \in S} \subseteq Nat /\ {A[x] : x \in S} # {}
      OBVIOUS
    <2> QED
      BY <2>1, LeastOf
  <1> DEFINE T == {x \in S : A[x] = a}
  <1>2. PICK b \in {B[x] : x \in T} : \A c \in {B[x] : x \in T} : b <= c
    <2>1. {B[x] : x \in T} \subseteq Nat /\ {B[x] : x \in T} # {}
      BY <1>1
    <2> QED
      BY <2>1, LeastOf
  <1>3. PICK x \in T : B[x] = b
    BY <1>2
  <1>4. ASSUME NEW y \in S, Lower(A, B, y, x) PROVE FALSE
    <2>1. A[x] = a /\ A[y] \in Nat /\ A[x] \in Nat /\ a <= A[y]
      BY <1>1, <1>3
    <2>2. A[y] = a /\ B[y] < B[x]
      BY <1>4, <2>1 DEF Lower
    <2>3. y \in T /\ B[y] \in Nat /\ B[x] \in Nat
      BY <2>2, <1>3
    <2>4. b <= B[y]
      BY <1>2, <2>3
    <2> QED
      BY <1>3, <2>2, <2>3, <2>4
  <1> QED
    BY <1>3, <1>4

LEMMA LowerIsTransitive ==
  ASSUME NEW X, NEW A \in [X -> Nat], NEW B \in [X -> Nat], NEW x \in X, NEW y \in X, NEW z \in X,
         Lower(A, B, x, y), Lower(A, B, y, z)
  PROVE  Lower(A, B, x, z)
  BY DEF Lower

\* W is a solution of W = F[W] at x and below.
Solves(X, R, A, B, F, W, x) ==
  W \in [X -> R] /\ \A y \in X : y = x \/ Lower(A, B, y, x) => W[y] = F[W][y]

\* What F makes of W at x depends on W below x only.
Descends(X, R, A, B, F) ==
  \A x \in X : \A V, W \in [X -> R] :
    (\A y \in X : Lower(A, B, y, x) => V[y] = W[y]) => F[V][x] = F[W][x]

LEMMA SolutionsAgree ==
  ASSUME NEW X, NEW R, NEW A \in [X -> Nat], NEW B \in [X -> Nat], NEW F, Descends(X, R, A, B, F),
         NEW x \in X, NEW V, NEW W, Solves(X, R, A, B, F, V, x), Solves(X, R, A, B, F, W, x)
  PROVE  V[x] = W[x]
  <1> DEFINE S == {y \in X : (y = x \/ Lower(A, B, y, x)) /\ V[y] # W[y]}
  <1>1. SUFFICES ASSUME S # {} PROVE FALSE
    OBVIOUS
  <1>2. PICK y \in S : \A z \in S : ~Lower(A, B, z, y)
    BY <1>1, LowestOf
  <1>3. \A z \in X : Lower(A, B, z, y) => V[z] = W[z]
    BY <1>2, LowerIsTransitive
  <1>4. F[V][y] = F[W][y]
    BY <1>3 DEF Descends, Solves
  <1> QED
    BY <1>4 DEF Solves

\* What solutions U[y] at each y below x agree on is one at x.
LEMMA SolutionsJoin ==
  ASSUME NEW X, NEW R, NEW A \in [X -> Nat], NEW B \in [X -> Nat], NEW F \in [[X -> R] -> [X -> R]], Descends(X, R, A, B, F),
         NEW x \in X, NEW U, \A y \in X : Lower(A, B, y, x) => Solves(X, R, A, B, F, U[y], y),
         NEW D \in [X -> R], \A y \in X : Lower(A, B, y, x) => D[y] = U[y][y]
  PROVE  Solves(X, R, A, B, F, F[D], x)
  <1> DEFINE E == F[D]
  <1>1. E \in [X -> R]
    OBVIOUS
  <1>2. ASSUME NEW y \in X, Lower(A, B, y, x) PROVE E[y] = D[y]
    <2>1. Solves(X, R, A, B, F, U[y], y)
      BY <1>2
    <2>2. ASSUME NEW z \in X, Lower(A, B, z, y) PROVE U[y][z] = D[z]
      <3>1. Lower(A, B, z, x)
        BY <1>2, <2>2, LowerIsTransitive
      <3>2. Solves(X, R, A, B, F, U[z], z)
        BY <3>1
      <3>3. Solves(X, R, A, B, F, U[y], z)
        BY <2>1, <2>2, LowerIsTransitive DEF Solves
      <3> QED
        BY <3>1, <3>2, <3>3, SolutionsAgree
    <2>3. F[U[y]][y] = F[D][y]
      BY <2>1, <2>2 DEF Descends, Solves
    <2> QED
      BY <1>2, <2>1, <2>3 DEF Solves
  <1>3. ASSUME NEW y \in X, y = x \/ Lower(A, B, y, x) PROVE E[y] = F[E][y]
    <2>1. \A z \in X : Lower(A, B, z, y) => D[z] = E[z]
      BY <1>2, <1>3, LowerIsTransitive
    <2> HIDE DEF E
    <2>2. F[D][y] = F[E][y]
      BY <1>1, <2>1 DEF Descends
    <2> USE DEF E
    <2> QED
      BY <2>2
  <1> HIDE DEF E
  <1>4. Solves(X, R, A, B, F, E, x)
    BY <1>1, <1>3 DEF Solves
  <1> QED
    BY <1>4 DEF E

\* So a recursive definition that goes down has a solution.
GoesDown(X, R, A, B, F) ==
  /\ R # {} /\ A \in [X -> Nat] /\ B \in [X -> Nat] /\ F \in [[X -> R] -> [X -> R]]
  /\ Descends(X, R, A, B, F)

LEMMA RecursionExists ==
  ASSUME NEW X, NEW R, NEW A, NEW B, NEW F, GoesDown(X, R, A, B, F)
  PROVE  \E W \in [X -> R] : W = F[W]
  <1>0. /\ R # {} /\ A \in [X -> Nat] /\ B \in [X -> Nat] /\ F \in [[X -> R] -> [X -> R]]
        /\ Descends(X, R, A, B, F)
    BY DEF GoesDown
  <1> DEFINE Sol(W, x) == Solves(X, R, A, B, F, W, x)
             U == [x \in X |-> CHOOSE W : Sol(W, x)]
             S == {x \in X : ~Sol(U[x], x)}
  <1>1. ASSUME NEW x \in X, \E W : Sol(W, x) PROVE Sol(U[x], x)
    BY <1>1
  <1> HIDE DEF U, Sol
  <1>2. PICK r \in R : TRUE
    BY <1>0
  <1>3. S = {}
    <2>1. SUFFICES ASSUME S # {} PROVE FALSE
      OBVIOUS
    <2>2. PICK x \in S : \A y \in S : ~Lower(A, B, y, x)
      BY <1>0, <2>1, LowestOf
    <2> DEFINE D == [y \in X |-> IF Lower(A, B, y, x) THEN U[y][y] ELSE r]
    <2>3. \A y \in X : Lower(A, B, y, x) => Sol(U[y], y)
      BY <2>2
    <2>4. D \in [X -> R] /\ \A y \in X : Lower(A, B, y, x) => D[y] = U[y][y]
      BY <2>3 DEF Sol, Solves
    <2> HIDE DEF D
    <2>5. Sol(F[D], x)
      BY <1>0, <2>3, <2>4, SolutionsJoin DEF Sol
    <2> QED
      BY <1>1, <2>2, <2>5
  <1> DEFINE D == [x \in X |-> U[x][x]]
  <1>4. \A x \in X : Sol(U[x], x)
    BY <1>3
  <1>5. D \in [X -> R] /\ \A x \in X : D[x] = U[x][x]
    BY <1>4 DEF Sol, Solves
  <1> HIDE DEF D
  <1>6. \A x \in X : D[x] = F[D][x]
    <2> SUFFICES ASSUME NEW x \in X PROVE D[x] = F[D][x]
      OBVIOUS
    <2>1. Sol(F[D], x)
      BY <1>0, <1>4, <1>5, SolutionsJoin DEF Sol
    <2>2. F[D][x] = U[x][x]
      BY <1>0, <1>4, <2>1, SolutionsAgree DEF Sol
    <2> QED
      BY <1>5, <2>2
  <1>7. D = F[D]
    BY <1>0, <1>5, <1>6
  <1> QED
    BY <1>5, <1>7
-----------------------------------------------------------------------------
(* The recursions that read manifests and load modules have solutions.     *)

LEMMA ModulesAre ==
  ASSUME Typed, DiskRight
  PROVE  /\ Hash \subseteq Nat /\ Len(disk) \in Nat
         /\ \A h \in Hash : disk[h] \in Mod /\ Len(disk[h].subs) \in Nat /\ DOMAIN disk[h].subs = 1 .. Len(disk[h].subs)
         /\ \A h \in Hash : \A k \in 1 .. Len(disk[h].subs) :
              disk[h].subs[k] \in Hash /\ disk[h].subs[k] < h /\ disk[h].subs[k] \in Subs(h)
  <1>1. Len(disk) \in Nat /\ \A h \in Hash : disk[h] \in Mod
    BY DEF Typed, Hash
  <1>2. ASSUME NEW h \in Hash PROVE Len(disk[h].subs) \in Nat /\ DOMAIN disk[h].subs = 1 .. Len(disk[h].subs)
    BY <1>1 DEF Mod
  <1>3. ASSUME NEW h \in Hash, NEW k \in 1 .. Len(disk[h].subs)
        PROVE  disk[h].subs[k] \in Hash /\ disk[h].subs[k] < h /\ disk[h].subs[k] \in Subs(h)
    BY <1>2 DEF DiskRight, ModuleRight, Subs
  <1> QED
    BY <1>1, <1>2, <1>3 DEF Hash

ManifestsOf(W, h, k, s) ==
  IF k \notin DOMAIN disk[h].subs THEN s
  ELSE LET t == W[<<h, k - 1, s>>]
           g == disk[h].subs[k]
           u == Manifest(g, t, W[<<g, Len(disk[g].subs), t>>])
       IN IF t.result # "ok" THEN t
          ELSE IF u.result = "invalid" THEN [u EXCEPT !.marks = @ \cup {g}] ELSE u
LoadsOf(W, h, k, s) ==
  IF k \notin DOMAIN disk[h].subs THEN s
  ELSE LET t == W[<<h, k - 1, s>>]
           g == disk[h].subs[k]
       IN IF t.result # "ok" THEN t ELSE Load(g, t, W[<<g, Len(disk[g].subs), t>>])

LEMMA ManifestTyped ==
  ASSUME NEW h \in Nat, NEW s \in Reading, NEW subs \in Reading
  PROVE  Manifest(h, s, subs) \in Reading
  <1>1. Indexed(subs.index, h) \in [Name -> Nat]
    BY DEF Indexed, Reading
  <1> HIDE DEF Indexed
  <1> QED
    BY <1>1 DEF Manifest, Reading

LEMMA LoadTyped ==
  ASSUME Typed, DiskRight, NEW h \in Hash, NEW s \in LoadState, NEW subs \in LoadState
  PROVE  Load(h, s, subs) \in LoadState
  <1>1. h \in Nat /\ disk[h].defines \subseteq Name
    <2>1. h \in Nat /\ disk[h] \in Mod
      BY ModulesAre
    <2> QED
      BY <2>1 DEF Mod
  <1> HIDE DEF Fits, Opens
  <1> QED
    BY <1>1 DEF Load, LoadState

\* What both do with what they find below.
LEMMA Below ==
  ASSUME Typed, DiskRight, NEW h \in Hash, NEW k \in Nat, k \in DOMAIN disk[h].subs
  PROVE  /\ k - 1 \in Nat /\ k - 1 < k /\ disk[h].subs[k] \in Hash /\ disk[h].subs[k] < h
         /\ Len(disk[disk[h].subs[k]].subs) \in Nat
  BY ModulesAre

LEMMA ManifestsAre ==
  ASSUME Typed, DiskRight
  PROVE  \A h \in Hash : \A k \in Nat : \A s \in Reading : Manifests[<<h, k, s>>] = ManifestsOf(Manifests, h, k, s)
  <1> DEFINE X == Hash \X Nat \X Reading
             A == [x \in X |-> x[1]]
             B == [x \in X |-> x[2]]
             F == [W \in [X -> Reading] |-> [x \in X |-> ManifestsOf(W, x[1], x[2], x[3])]]
  <1>1. A \in [X -> Nat] /\ B \in [X -> Nat] /\ Reading # {}
    <2>1. [index |-> [n \in Name |-> Nowhere], valid |-> {}, marks |-> {}, result |-> "ok"] \in Reading
      BY DEF Reading, Nowhere
    <2> QED
      BY <2>1, ModulesAre
  <1>2. ASSUME NEW W \in [X -> Reading], NEW x \in X PROVE ManifestsOf(W, x[1], x[2], x[3]) \in Reading
    <2>1. PICK h \in Hash, k \in Nat, s \in Reading : x = <<h, k, s>>
      OBVIOUS
    <2>2. CASE k \notin DOMAIN disk[h].subs
      BY <2>1, <2>2 DEF ManifestsOf
    <2>3. CASE k \in DOMAIN disk[h].subs
      <3>1. PICK g : g = disk[h].subs[k]
        OBVIOUS
      <3>2. g \in Hash /\ g \in Nat /\ Len(disk[g].subs) \in Nat /\ k - 1 \in Nat
        BY <2>3, <3>1, Below, ModulesAre
      <3>3. PICK t \in Reading : t = W[<<h, k - 1, s>>]
        BY <3>2
      <3>4. W[<<g, Len(disk[g].subs), t>>] \in Reading
        BY <3>2
      <3>5. PICK u \in Reading : u = Manifest(g, t, W[<<g, Len(disk[g].subs), t>>])
        BY <3>2, <3>4, ManifestTyped
      <3>6. [u EXCEPT !.marks = @ \cup {g}] \in Reading
        BY <3>2 DEF Reading
      <3> QED
        BY <2>1, <2>3, <3>1, <3>3, <3>5, <3>6 DEF ManifestsOf
    <2> QED
      BY <2>2, <2>3
  <1>3. ASSUME NEW V \in [X -> Reading], NEW W \in [X -> Reading], NEW x \in X,
               \A y \in X : Lower(A, B, y, x) => V[y] = W[y]
        PROVE  ManifestsOf(V, x[1], x[2], x[3]) = ManifestsOf(W, x[1], x[2], x[3])
    <2>1. PICK h \in Hash, k \in Nat, s \in Reading : x = <<h, k, s>>
      OBVIOUS
    <2>2. CASE k \notin DOMAIN disk[h].subs
      BY <2>1, <2>2 DEF ManifestsOf
    <2>3. CASE k \in DOMAIN disk[h].subs
      <3>1. PICK g : g = disk[h].subs[k]
        OBVIOUS
      <3>2. g \in Hash /\ g < h /\ Len(disk[g].subs) \in Nat /\ k - 1 \in Nat /\ k - 1 < k
        BY <2>3, <3>1, Below
      <3>3. <<h, k - 1, s>> \in X /\ Lower(A, B, <<h, k - 1, s>>, x)
        BY <2>1, <3>2 DEF Lower
      <3>4. PICK t \in Reading : t = V[<<h, k - 1, s>>]
        BY <3>3
      <3>5. t = W[<<h, k - 1, s>>]
        BY <1>3, <3>3, <3>4
      <3>6. <<g, Len(disk[g].subs), t>> \in X /\ Lower(A, B, <<g, Len(disk[g].subs), t>>, x)
        BY <2>1, <3>2 DEF Lower
      <3>7. V[<<g, Len(disk[g].subs), t>>] = W[<<g, Len(disk[g].subs), t>>]
        BY <1>3, <3>6
      <3> DEFINE End(y) == LET u == Manifest(g, t, y) IN
                           IF t.result # "ok" THEN t
                           ELSE IF u.result = "invalid" THEN [u EXCEPT !.marks = @ \cup {g}] ELSE u
      <3>8. ManifestsOf(V, h, k, s) = End(V[<<g, Len(disk[g].subs), t>>])
        BY <2>3, <3>1, <3>4 DEF ManifestsOf
      <3>9. ManifestsOf(W, h, k, s) = End(W[<<g, Len(disk[g].subs), t>>])
        BY <2>3, <3>1, <3>5 DEF ManifestsOf
      <3> HIDE DEF End
      <3> QED
        BY <2>1, <3>7, <3>8, <3>9
    <2> QED
      BY <2>2, <2>3
  <1> HIDE DEF A, B
  <1>4. F \in [[X -> Reading] -> [X -> Reading]]
    BY <1>2
  <1>5. Descends(X, Reading, A, B, F)
    BY <1>3 DEF Descends
  <1>6. PICK W \in [X -> Reading] : W = F[W]
    <2>1. GoesDown(X, Reading, A, B, F)
      BY <1>1, <1>4, <1>5 DEF GoesDown
    <2> HIDE DEF F, X
    <2> QED
      BY <2>1, RecursionExists
  <1>7. W = [x \in X |-> ManifestsOf(W, x[1], x[2], x[3])]
    BY <1>6
  <1>8. Manifests = [x \in X |-> ManifestsOf(Manifests, x[1], x[2], x[3])]
    BY <1>7 DEF Manifests, ManifestsOf
  <1> QED
    BY <1>8

LEMMA LoadsAre ==
  ASSUME Typed, DiskRight, NEW v \in Version
  PROVE  \A h \in Hash : \A k \in Nat : \A s \in LoadState : Loads[<<h, k, s>>] = LoadsOf(Loads, h, k, s)
  <1> DEFINE X == Hash \X Nat \X LoadState
             A == [x \in X |-> x[1]]
             B == [x \in X |-> x[2]]
             F == [W \in [X -> LoadState] |-> [x \in X |-> LoadsOf(W, x[1], x[2], x[3])]]
  <1>1. A \in [X -> Nat] /\ B \in [X -> Nat] /\ LoadState # {}
    <2>1. [version |-> v, loaded |-> {}, names |-> {}, marks |-> {}, result |-> "ok"] \in LoadState
      BY DEF LoadState
    <2> QED
      BY <2>1, ModulesAre
  <1>2. ASSUME NEW W \in [X -> LoadState], NEW x \in X PROVE LoadsOf(W, x[1], x[2], x[3]) \in LoadState
    <2>1. PICK h \in Hash, k \in Nat, s \in LoadState : x = <<h, k, s>>
      OBVIOUS
    <2>2. CASE k \notin DOMAIN disk[h].subs
      BY <2>1, <2>2 DEF LoadsOf
    <2>3. CASE k \in DOMAIN disk[h].subs
      <3>1. PICK g : g = disk[h].subs[k]
        OBVIOUS
      <3>2. g \in Hash /\ g \in Nat /\ Len(disk[g].subs) \in Nat /\ k - 1 \in Nat
        BY <2>3, <3>1, Below, ModulesAre
      <3>3. PICK t \in LoadState : t = W[<<h, k - 1, s>>]
        BY <3>2
      <3>4. W[<<g, Len(disk[g].subs), t>>] \in LoadState
        BY <3>2
      <3>5. Load(g, t, W[<<g, Len(disk[g].subs), t>>]) \in LoadState
        BY <3>2, <3>4, LoadTyped
      <3> QED
        BY <2>1, <2>3, <3>1, <3>3, <3>5 DEF LoadsOf
    <2> QED
      BY <2>2, <2>3
  <1>3. ASSUME NEW V \in [X -> LoadState], NEW W \in [X -> LoadState], NEW x \in X,
               \A y \in X : Lower(A, B, y, x) => V[y] = W[y]
        PROVE  LoadsOf(V, x[1], x[2], x[3]) = LoadsOf(W, x[1], x[2], x[3])
    <2>1. PICK h \in Hash, k \in Nat, s \in LoadState : x = <<h, k, s>>
      OBVIOUS
    <2>2. CASE k \notin DOMAIN disk[h].subs
      BY <2>1, <2>2 DEF LoadsOf
    <2>3. CASE k \in DOMAIN disk[h].subs
      <3>1. PICK g : g = disk[h].subs[k]
        OBVIOUS
      <3>2. g \in Hash /\ g < h /\ Len(disk[g].subs) \in Nat /\ k - 1 \in Nat /\ k - 1 < k
        BY <2>3, <3>1, Below
      <3>3. <<h, k - 1, s>> \in X /\ Lower(A, B, <<h, k - 1, s>>, x)
        BY <2>1, <3>2 DEF Lower
      <3>4. PICK t \in LoadState : t = V[<<h, k - 1, s>>]
        BY <3>3
      <3>5. t = W[<<h, k - 1, s>>]
        BY <1>3, <3>3, <3>4
      <3>6. <<g, Len(disk[g].subs), t>> \in X /\ Lower(A, B, <<g, Len(disk[g].subs), t>>, x)
        BY <2>1, <3>2 DEF Lower
      <3>7. V[<<g, Len(disk[g].subs), t>>] = W[<<g, Len(disk[g].subs), t>>]
        BY <1>3, <3>6
      <3> DEFINE End(y) == IF t.result # "ok" THEN t ELSE Load(g, t, y)
      <3>8. LoadsOf(V, h, k, s) = End(V[<<g, Len(disk[g].subs), t>>])
        BY <2>3, <3>1, <3>4 DEF LoadsOf
      <3>9. LoadsOf(W, h, k, s) = End(W[<<g, Len(disk[g].subs), t>>])
        BY <2>3, <3>1, <3>5 DEF LoadsOf
      <3> HIDE DEF End
      <3> QED
        BY <2>1, <3>7, <3>8, <3>9
    <2> QED
      BY <2>2, <2>3
  <1> HIDE DEF A, B
  <1>4. F \in [[X -> LoadState] -> [X -> LoadState]]
    BY <1>2
  <1>5. Descends(X, LoadState, A, B, F)
    BY <1>3 DEF Descends
  <1>6. PICK W \in [X -> LoadState] : W = F[W]
    <2>1. GoesDown(X, LoadState, A, B, F)
      BY <1>1, <1>4, <1>5 DEF GoesDown
    <2> HIDE DEF F, X
    <2> QED
      BY <2>1, RecursionExists
  <1>7. W = [x \in X |-> LoadsOf(W, x[1], x[2], x[3])]
    BY <1>6
  <1>8. Loads = [x \in X |-> LoadsOf(Loads, x[1], x[2], x[3])]
    BY <1>7 DEF Loads, LoadsOf
  <1> QED
    BY <1>8
-----------------------------------------------------------------------------
(* What reading the manifests comes to, of modules that are all complete.  *)

Complete(L) == \A h \in L : h \in Hash /\ disk[h].final /\ Subs(h) \subseteq L

ManifestRight(s, L) ==
  /\ s.valid \subseteq L
  /\ \A h \in s.valid : Subs(h) \subseteq s.valid /\ \A n \in disk[h].defines : s.index[n] # Nowhere
  /\ \A n \in Name : s.index[n] # Nowhere => s.index[n] \in s.valid /\ n \in disk[s.index[n]].defines

\* r is what s becomes when modules of L are read.
ReadOn(s, r, L) ==
  /\ r \in Reading /\ ManifestRight(r, L)
  /\ s.valid \subseteq r.valid /\ s.marks \subseteq r.marks
  /\ r.result # "error" /\ (r.result = "invalid" => L \cap r.marks # {})

LEMMA ReadOne ==
  ASSUME Typed, DiskRight, NEW L, Complete(L), NEW h \in L, NEW s \in Reading, ManifestRight(s, L), s.result = "ok",
         NEW subs, ReadOn(s, subs, L), subs.result = "ok" => Subs(h) \subseteq subs.valid
  PROVE  /\ ReadOn(s, Manifest(h, s, subs), L)
         /\ Manifest(h, s, subs).result = "ok" => h \in Manifest(h, s, subs).valid
  <1>1. h \in Hash /\ h \in Nat /\ disk[h].written /\ h # Nowhere /\ disk[h].defines \subseteq Name
    <2>1. h \in Hash /\ disk[h].final
      BY DEF Complete
    <2>2. h \in Nat /\ h # 0 /\ disk[h] \in Mod
      BY <2>1, ModulesAre DEF Hash
    <2> QED
      BY <2>1, <2>2 DEF DiskRight, ModuleRight, Nowhere, Mod
  <1>2. CASE h \in s.valid
    BY <1>2 DEF Manifest, ReadOn
  <1>3. CASE h \notin s.valid /\ h \in s.marks
    <2>1. PICK r : r = [s EXCEPT !.result = "invalid"]
      OBVIOUS
    <2>2. r \in Reading /\ r.index = s.index /\ r.valid = s.valid /\ r.marks = s.marks /\ r.result = "invalid"
      BY <2>1 DEF Reading
    <2>3. ManifestRight(r, L)
      BY <2>2 DEF ManifestRight
    <2>4. ReadOn(s, r, L)
      BY <1>3, <2>2, <2>3 DEF ReadOn
    <2>5. Manifest(h, s, subs) = r
      BY <1>3, <2>1 DEF Manifest
    <2> QED
      BY <2>2, <2>4, <2>5
  <1>4. CASE h \notin s.valid /\ h \notin s.marks /\ subs.result # "ok"
    BY <1>1, <1>4 DEF Manifest
  <1>5. CASE h \notin s.valid /\ h \notin s.marks /\ subs.result = "ok"
    <2>1. PICK r : r = [subs EXCEPT !.index = Indexed(subs.index, h), !.valid = @ \cup {h}]
      OBVIOUS
    <2>2. PICK index : index = Indexed(subs.index, h)
      OBVIOUS
    <2>3. subs \in Reading /\ ManifestRight(subs, L) /\ s.valid \subseteq subs.valid /\ s.marks \subseteq subs.marks
      BY DEF ReadOn
    <2>4. /\ index \in [Name -> Nat]
          /\ \A n \in Name : index[n] = IF n \in disk[h].defines THEN h ELSE subs.index[n]
      BY <1>1, <2>2, <2>3 DEF Indexed, Reading
    <2>5. /\ r \in Reading /\ r.index = index /\ r.valid = subs.valid \cup {h}
          /\ r.marks = subs.marks /\ r.result = "ok"
      BY <1>1, <1>5, <2>1, <2>2, <2>3, <2>4 DEF Reading
    <2>6. ManifestRight(r, L)
      <3>1. r.valid \subseteq L
        BY <2>3, <2>5 DEF ManifestRight
      <3>2. ASSUME NEW g \in r.valid
            PROVE  Subs(g) \subseteq r.valid /\ \A n \in disk[g].defines : r.index[n] # Nowhere
        <4>1. CASE g = h
          BY <1>1, <1>5, <2>4, <2>5, <4>1
        <4>2. CASE g \in subs.valid
          <5>1. disk[g].defines \subseteq Name
            BY <2>3, <4>2, ModulesAre DEF ManifestRight, Complete, Mod
          <5>2. Subs(g) \subseteq subs.valid /\ \A n \in disk[g].defines : subs.index[n] # Nowhere
            BY <2>3, <4>2 DEF ManifestRight
          <5> QED
            BY <1>1, <2>4, <2>5, <5>1, <5>2
        <4> QED
          BY <2>5, <4>1, <4>2
      <3>3. ASSUME NEW n \in Name, r.index[n] # Nowhere
            PROVE  r.index[n] \in r.valid /\ n \in disk[r.index[n]].defines
        <4>1. CASE n \in disk[h].defines
          BY <2>4, <2>5, <4>1
        <4>2. CASE n \notin disk[h].defines
          BY <2>3, <2>4, <2>5, <3>3, <4>2 DEF ManifestRight
        <4> QED
          BY <4>1, <4>2
      <3> QED
        BY <3>1, <3>2, <3>3 DEF ManifestRight
    <2>7. ReadOn(s, r, L)
      BY <2>3, <2>5, <2>6 DEF ReadOn
    <2>8. Manifest(h, s, subs) = r
      BY <1>1, <1>5, <2>1 DEF Manifest
    <2> QED
      BY <2>5, <2>7, <2>8
  <1> QED
    BY <1>2, <1>3, <1>4, <1>5

\* The first k of what h needs.
ReadSome(h, k, s, L) ==
  LET r == Manifests[<<h, k, s>>] IN
  ReadOn(s, r, L) /\ (r.result = "ok" => \A j \in 1 .. k : disk[h].subs[j] \in r.valid)

LEMMA ReadAll ==
  ASSUME Typed, DiskRight, NEW L, Complete(L)
  PROVE  \A h \in L : \A k \in 0 .. Len(disk[h].subs) : \A s \in Reading :
           ManifestRight(s, L) /\ s.result = "ok" => ReadSome(h, k, s, L)
  <1> DEFINE X == L \X Nat \X Reading
             A == [x \in X |-> x[1]]
             B == [x \in X |-> x[2]]
             S == {x \in X : /\ x[2] <= Len(disk[x[1]].subs) /\ ManifestRight(x[3], L) /\ x[3].result = "ok"
                             /\ ~ReadSome(x[1], x[2], x[3], L)}
  <1>1. L \subseteq Hash /\ L \subseteq Nat
    BY ModulesAre DEF Complete
  <1>2. A \in [X -> Nat] /\ B \in [X -> Nat]
    BY <1>1
  <1>3. S = {}
    <2>1. SUFFICES ASSUME S # {} PROVE FALSE
      OBVIOUS
    <2>2. PICK x \in S : \A y \in S : ~Lower(A, B, y, x)
      BY <1>2, <2>1, LowestOf
    <2>3. PICK h \in L, k \in Nat, s \in Reading : x = <<h, k, s>>
      OBVIOUS
    <2>4. /\ k <= Len(disk[h].subs) /\ ManifestRight(s, L) /\ s.result = "ok" /\ ~ReadSome(h, k, s, L)
          /\ h \in Hash /\ Len(disk[h].subs) \in Nat /\ DOMAIN disk[h].subs = 1 .. Len(disk[h].subs)
      BY <2>3, <1>1, ModulesAre
    <2>5. ASSUME NEW g \in L, NEW j \in Nat, NEW t \in Reading, g < h \/ (g = h /\ j < k),
                 j <= Len(disk[g].subs), ManifestRight(t, L), t.result = "ok"
          PROVE  ReadSome(g, j, t, L)
      <3>1. <<g, j, t>> \in X /\ Lower(A, B, <<g, j, t>>, x)
        BY <2>3, <2>5 DEF Lower
      <3>2. <<g, j, t>> \notin S
        BY <2>2, <3>1
      <3> QED
        BY <2>5, <3>1, <3>2
    <2>6. Manifests[<<h, k, s>>] = ManifestsOf(Manifests, h, k, s)
      BY <1>1, ManifestsAre
    <2>7. CASE k = 0
      <3>1. Manifests[<<h, k, s>>] = s
        BY <2>4, <2>6, <2>7 DEF ManifestsOf
      <3> QED
        BY <2>4, <2>7, <3>1 DEF ReadSome, ReadOn
    <2>8. CASE k # 0
      <3>1. k \in DOMAIN disk[h].subs /\ k - 1 \in Nat /\ k - 1 <= Len(disk[h].subs) /\ k - 1 < k
        BY <2>4, <2>8
      <3>2. PICK g : g = disk[h].subs[k]
        OBVIOUS
      <3>3. g \in L /\ g < h /\ g \in Hash /\ Len(disk[g].subs) \in Nat
        BY <1>1, <2>4, <3>1, <3>2, ModulesAre DEF Complete
      <3>4. PICK t : t = Manifests[<<h, k - 1, s>>]
        OBVIOUS
      <3>5. ReadOn(s, t, L) /\ (t.result = "ok" => \A j \in 1 .. k - 1 : disk[h].subs[j] \in t.valid)
        BY <2>4, <2>5, <3>1, <3>4 DEF ReadSome
      <3> DEFINE End(y) == LET u == Manifest(g, t, y) IN
                           IF t.result # "ok" THEN t
                           ELSE IF u.result = "invalid" THEN [u EXCEPT !.marks = @ \cup {g}] ELSE u
      <3>6. Manifests[<<h, k, s>>] = End(Manifests[<<g, Len(disk[g].subs), t>>])
        BY <2>6, <3>1, <3>2, <3>4 DEF ManifestsOf
      <3>7. CASE t.result # "ok"
        <4>1. Manifests[<<h, k, s>>] = t
          BY <3>6, <3>7
        <4> QED
          BY <2>4, <3>5, <3>7, <4>1 DEF ReadSome
      <3>8. CASE t.result = "ok"
        <4>1. t \in Reading /\ ManifestRight(t, L)
          BY <3>5 DEF ReadOn
        <4>2. PICK v : v = Manifests[<<g, Len(disk[g].subs), t>>]
          OBVIOUS
        <4>3. ReadOn(t, v, L) /\ (v.result = "ok" => Subs(g) \subseteq v.valid)
          <5>1. ReadSome(g, Len(disk[g].subs), t, L)
            BY <2>5, <3>3, <3>8, <4>1
          <5> QED
            BY <3>3, <4>2, <5>1, ModulesAre DEF ReadSome, Subs
        <4>4. PICK u : u = Manifest(g, t, v)
          OBVIOUS
        <4>5. ReadOn(t, u, L) /\ (u.result = "ok" => g \in u.valid)
          BY <3>3, <3>8, <4>1, <4>3, <4>4, ReadOne
        <4>6. Manifests[<<h, k, s>>] = IF u.result = "invalid" THEN [u EXCEPT !.marks = @ \cup {g}] ELSE u
          BY <3>6, <3>8, <4>2, <4>4
        <4>7. CASE u.result = "invalid"
          <5>1. PICK r : r = [u EXCEPT !.marks = @ \cup {g}]
            OBVIOUS
          <5>2. u \in Reading /\ g \in Nat
            BY <1>1, <3>3, <4>5 DEF ReadOn
          <5>3. /\ r \in Reading /\ r.index = u.index /\ r.valid = u.valid /\ r.marks = u.marks \cup {g}
                /\ r.result = "invalid"
            BY <4>7, <5>1, <5>2 DEF Reading
          <5>4. ManifestRight(r, L)
            BY <4>5, <5>3 DEF ReadOn, ManifestRight
          <5>5. ReadOn(s, r, L)
            BY <3>3, <3>5, <4>5, <5>3, <5>4 DEF ReadOn
          <5> QED
            BY <2>4, <4>6, <4>7, <5>1, <5>3, <5>5 DEF ReadSome
        <4>8. CASE u.result # "invalid"
          <5>1. Manifests[<<h, k, s>>] = u
            BY <4>6, <4>8
          <5>2. ReadOn(s, u, L)
            BY <3>5, <4>5 DEF ReadOn
          <5>3. ASSUME u.result = "ok", NEW j \in 1 .. k PROVE disk[h].subs[j] \in u.valid
            <6>1. j = k \/ j \in 1 .. k - 1
              OBVIOUS
            <6> QED
              BY <3>2, <3>5, <3>8, <4>5, <5>3, <6>1 DEF ReadOn
          <5> QED
            BY <2>4, <5>1, <5>2, <5>3 DEF ReadSome
        <4> QED
          BY <4>7, <4>8
      <3> QED
        BY <3>7, <3>8
    <2> QED
      BY <2>7, <2>8
  <1>4. ASSUME NEW h \in L, NEW k \in 0 .. Len(disk[h].subs), NEW s \in Reading, ManifestRight(s, L), s.result = "ok"
        PROVE  ReadSome(h, k, s, L)
    <2>1. k \in Nat /\ k <= Len(disk[h].subs)
      BY <1>1, ModulesAre
    <2>2. <<h, k, s>> \in X
      BY <2>1
    <2> QED
      BY <1>3, <1>4, <2>1, <2>2
  <1> QED
    BY <1>4

LEMMA NameManifestIs ==
  ASSUME Typed, DiskRight, NEW L, Complete(L), NEW h \in L, NEW s \in Reading, ManifestRight(s, L), s.result = "ok"
  PROVE  /\ ReadOn(s, NameManifest(h, s), L)
         /\ NameManifest(h, s).result = "ok" => h \in NameManifest(h, s).valid
  <1>1. PICK subs : subs = Manifests[<<h, Len(disk[h].subs), s>>]
    OBVIOUS
  <1>2. h \in Hash /\ Len(disk[h].subs) \in Nat /\ DOMAIN disk[h].subs = 1 .. Len(disk[h].subs)
    BY ModulesAre DEF Complete
  <1>3. ReadSome(h, Len(disk[h].subs), s, L)
    BY <1>2, ReadAll
  <1>4. ReadOn(s, subs, L) /\ (subs.result = "ok" => Subs(h) \subseteq subs.valid)
    BY <1>1, <1>2, <1>3 DEF ReadSome, Subs
  <1> QED
    BY <1>1, <1>4, ReadOne DEF NameManifest
-----------------------------------------------------------------------------
(* What loading comes to, of modules that need modules of the same set.    *)

Closed(K) == \A h \in K : h \in Hash /\ Subs(h) \subseteq K

\* r is what s becomes when modules of K are loaded.
LoadOn(s, r, K) ==
  /\ r \in LoadState /\ r.version = s.version
  /\ s.loaded \subseteq r.loaded /\ r.loaded \subseteq K /\ s.marks \subseteq r.marks
  /\ r.names = s.names \cup Defs(r.loaded \ s.loaded)
  /\ r.result = "invalid" => \E g \in K \ s.loaded : ~Fits(g, s.version)
  /\ r.result = "linkError" => Dispatchers # {}

LEMMA LoadOnIsTransitive ==
  ASSUME NEW K, NEW s, NEW t, NEW r, LoadOn(s, t, K), LoadOn(t, r, K) PROVE LoadOn(s, r, K)
  <1>1. r.loaded \ s.loaded = (t.loaded \ s.loaded) \cup (r.loaded \ t.loaded)
    BY DEF LoadOn
  <1>2. Defs(r.loaded \ s.loaded) = Defs(t.loaded \ s.loaded) \cup Defs(r.loaded \ t.loaded)
    BY <1>1 DEF Defs
  <1>3. r.names = s.names \cup Defs(r.loaded \ s.loaded)
    BY <1>2 DEF LoadOn
  <1> HIDE DEF Fits, Defs
  <1> QED
    BY <1>3 DEF LoadOn

LEMMA LoadOnItself ==
  ASSUME NEW K, NEW s \in LoadState, s.loaded \subseteq K, s.result = "ok" PROVE LoadOn(s, s, K)
  <1>1. Defs(s.loaded \ s.loaded) = {}
    BY DEF Defs
  <1> QED
    BY <1>1 DEF LoadOn

LEMMA LoadOne ==
  ASSUME Typed, DiskRight, NEW K, Closed(K), NEW h \in K, NEW s \in LoadState, s.loaded \subseteq K, s.result = "ok",
         NEW subs, LoadOn(s, subs, K), subs.result = "ok" => Subs(h) \subseteq subs.loaded
  PROVE  /\ LoadOn(s, Load(h, s, subs), K)
         /\ Load(h, s, subs).result = "ok" => h \in Load(h, s, subs).loaded
  <1>1. h \in Hash /\ h \in Nat /\ disk[h].defines \subseteq Name
    BY ModulesAre DEF Closed, Mod
  <1>2. CASE h \in s.loaded
    BY <1>2, LoadOnItself DEF Load
  <1>3. CASE h \notin s.loaded /\ ~Fits(h, s.version)
    <2>1. PICK r : r = [s EXCEPT !.marks = @ \cup {h}, !.result = "invalid"]
      OBVIOUS
    <2>2. /\ r \in LoadState /\ r.version = s.version /\ r.loaded = s.loaded /\ r.names = s.names
          /\ r.marks = s.marks \cup {h} /\ r.result = "invalid"
      BY <1>1, <2>1 DEF LoadState
    <2>3. Defs(r.loaded \ s.loaded) = {}
      BY <2>2 DEF Defs
    <2>4. LoadOn(s, r, K)
      BY <1>3, <2>2, <2>3 DEF LoadOn
    <2>5. Load(h, s, subs) = r
      BY <1>3, <2>1 DEF Load
    <2> QED
      BY <2>2, <2>4, <2>5
  <1>4. CASE h \notin s.loaded /\ Fits(h, s.version) /\ subs.result # "ok"
    BY <1>4 DEF Load
  <1>5. CASE h \notin s.loaded /\ Fits(h, s.version) /\ subs.result = "ok" /\ ~Opens(h, subs.loaded)
    <2>1. PICK r : r = [subs EXCEPT !.result = "linkError"]
      OBVIOUS
    <2>2. subs \in LoadState
      BY DEF LoadOn
    <2>3. /\ r \in LoadState /\ r.version = subs.version /\ r.loaded = subs.loaded /\ r.names = subs.names
          /\ r.marks = subs.marks /\ r.result = "linkError"
      BY <2>1, <2>2 DEF LoadState
    <2>4. Dispatchers # {}
      <3> SUFFICES ASSUME Dispatchers = {} PROVE FALSE
        OBVIOUS
      <3>1. \A n \in disk[h].defines : Calls[n] \ disk[h].defines \subseteq Defs(Subs(h))
        BY <1>1 DEF DiskRight, ModuleRight
      <3>2. Externals(h) \subseteq Defs(Subs(h))
        <4> SUFFICES ASSUME NEW m \in Externals(h) PROVE m \in Defs(Subs(h))
          OBVIOUS
        <4>1. PICK n \in disk[h].defines : m \in Calls[n] /\ m \notin disk[h].defines
          <5>1. m \in UNION {Calls[n] : n \in disk[h].defines} /\ m \notin disk[h].defines
            BY DEF Externals
          <5> QED
            BY <5>1
        <4> QED
          BY <3>1, <4>1
      <3>3. Defs(Subs(h)) \subseteq Defs(subs.loaded)
        BY <1>5 DEF Defs
      <3> QED
        BY <1>5, <3>2, <3>3 DEF Opens
    <2>5. LoadOn(s, r, K)
      BY <1>5, <2>3, <2>4 DEF LoadOn
    <2>6. Load(h, s, subs) = r
      BY <1>5, <2>1 DEF Load
    <2> QED
      BY <2>3, <2>5, <2>6
  <1>6. CASE h \notin s.loaded /\ Fits(h, s.version) /\ subs.result = "ok" /\ Opens(h, subs.loaded)
    <2>1. PICK r : r = [subs EXCEPT !.loaded = @ \cup {h}, !.names = @ \cup disk[h].defines]
      OBVIOUS
    <2>2. subs \in LoadState
      BY DEF LoadOn
    <2>3. /\ r \in LoadState /\ r.version = subs.version /\ r.loaded = subs.loaded \cup {h}
          /\ r.names = subs.names \cup disk[h].defines /\ r.marks = subs.marks /\ r.result = "ok"
      BY <1>1, <1>6, <2>1, <2>2 DEF LoadState
    <2>4. r.loaded \ s.loaded = (subs.loaded \ s.loaded) \cup {h}
      BY <1>6, <2>3
    <2>5. Defs(r.loaded \ s.loaded) = Defs(subs.loaded \ s.loaded) \cup disk[h].defines
      BY <2>4 DEF Defs
    <2>6. LoadOn(s, r, K)
      BY <2>3, <2>5 DEF LoadOn
    <2>7. Load(h, s, subs) = r
      BY <1>6, <2>1 DEF Load
    <2> QED
      BY <2>3, <2>6, <2>7
  <1> QED
    BY <1>2, <1>3, <1>4, <1>5, <1>6

LoadSome(h, k, s, K) ==
  LET r == Loads[<<h, k, s>>] IN
  LoadOn(s, r, K) /\ (r.result = "ok" => \A j \in 1 .. k : disk[h].subs[j] \in r.loaded)

LEMMA LoadAll ==
  ASSUME Typed, DiskRight, NEW K, Closed(K), NEW v \in Version
  PROVE  \A h \in K : \A k \in 0 .. Len(disk[h].subs) : \A s \in LoadState :
           s.loaded \subseteq K /\ s.result = "ok" => LoadSome(h, k, s, K)
  <1> DEFINE X == K \X Nat \X LoadState
             A == [x \in X |-> x[1]]
             B == [x \in X |-> x[2]]
             S == {x \in X : /\ x[2] <= Len(disk[x[1]].subs) /\ x[3].loaded \subseteq K /\ x[3].result = "ok"
                             /\ ~LoadSome(x[1], x[2], x[3], K)}
  <1>1. K \subseteq Hash /\ K \subseteq Nat
    BY ModulesAre DEF Closed
  <1>2. A \in [X -> Nat] /\ B \in [X -> Nat]
    BY <1>1
  <1>3. S = {}
    <2>1. SUFFICES ASSUME S # {} PROVE FALSE
      OBVIOUS
    <2>2. PICK x \in S : \A y \in S : ~Lower(A, B, y, x)
      BY <1>2, <2>1, LowestOf
    <2>3. PICK h \in K, k \in Nat, s \in LoadState : x = <<h, k, s>>
      OBVIOUS
    <2>4. /\ k <= Len(disk[h].subs) /\ s.loaded \subseteq K /\ s.result = "ok" /\ ~LoadSome(h, k, s, K)
          /\ h \in Hash /\ Len(disk[h].subs) \in Nat /\ DOMAIN disk[h].subs = 1 .. Len(disk[h].subs)
      BY <2>3, <1>1, ModulesAre
    <2>5. ASSUME NEW g \in K, NEW j \in Nat, NEW t \in LoadState, g < h \/ (g = h /\ j < k),
                 j <= Len(disk[g].subs), t.loaded \subseteq K, t.result = "ok"
          PROVE  LoadSome(g, j, t, K)
      <3>1. <<g, j, t>> \in X /\ Lower(A, B, <<g, j, t>>, x)
        BY <2>3, <2>5 DEF Lower
      <3>2. <<g, j, t>> \notin S
        BY <2>2, <3>1
      <3> QED
        BY <2>5, <3>1, <3>2
    <2>6. Loads[<<h, k, s>>] = LoadsOf(Loads, h, k, s)
      BY <1>1, LoadsAre
    <2>7. CASE k = 0
      <3>1. Loads[<<h, k, s>>] = s
        BY <2>4, <2>6, <2>7 DEF LoadsOf
      <3>2. LoadOn(s, s, K)
        BY <2>4, LoadOnItself
      <3> QED
        BY <2>4, <2>7, <3>1, <3>2 DEF LoadSome
    <2>8. CASE k # 0
      <3>1. k \in DOMAIN disk[h].subs /\ k - 1 \in Nat /\ k - 1 <= Len(disk[h].subs) /\ k - 1 < k
        BY <2>4, <2>8
      <3>2. PICK g : g = disk[h].subs[k]
        OBVIOUS
      <3>3. g \in K /\ g < h /\ g \in Hash /\ Len(disk[g].subs) \in Nat
        BY <1>1, <2>4, <3>1, <3>2, ModulesAre DEF Closed
      <3>4. PICK t : t = Loads[<<h, k - 1, s>>]
        OBVIOUS
      <3>5. LoadOn(s, t, K) /\ (t.result = "ok" => \A j \in 1 .. k - 1 : disk[h].subs[j] \in t.loaded)
        BY <2>4, <2>5, <3>1, <3>4 DEF LoadSome
      <3>6. Loads[<<h, k, s>>] = IF t.result # "ok" THEN t ELSE Load(g, t, Loads[<<g, Len(disk[g].subs), t>>])
        BY <2>6, <3>1, <3>2, <3>4 DEF LoadsOf
      <3>7. CASE t.result # "ok"
        <4>1. Loads[<<h, k, s>>] = t
          BY <3>6, <3>7
        <4> QED
          BY <2>4, <3>5, <3>7, <4>1 DEF LoadSome
      <3>8. CASE t.result = "ok"
        <4>1. t \in LoadState /\ t.loaded \subseteq K
          BY <3>5 DEF LoadOn
        <4>2. PICK w : w = Loads[<<g, Len(disk[g].subs), t>>]
          OBVIOUS
        <4>3. LoadOn(t, w, K) /\ (w.result = "ok" => Subs(g) \subseteq w.loaded)
          <5>1. LoadSome(g, Len(disk[g].subs), t, K)
            BY <2>5, <3>3, <3>8, <4>1
          <5> QED
            BY <3>3, <4>2, <5>1, ModulesAre DEF LoadSome, Subs
        <4>4. PICK u : u = Load(g, t, w)
          OBVIOUS
        <4>5. LoadOn(t, u, K) /\ (u.result = "ok" => g \in u.loaded)
          BY <3>3, <3>8, <4>1, <4>3, <4>4, LoadOne
        <4>6. Loads[<<h, k, s>>] = u
          BY <3>6, <3>8, <4>2, <4>4
        <4>7. LoadOn(s, u, K)
          BY <3>5, <4>5, LoadOnIsTransitive
        <4>8. ASSUME u.result = "ok", NEW j \in 1 .. k PROVE disk[h].subs[j] \in u.loaded
          <5>1. j = k \/ j \in 1 .. k - 1
            OBVIOUS
          <5> QED
            BY <3>2, <3>5, <3>8, <4>5, <4>8, <5>1 DEF LoadOn
        <4> QED
          BY <2>4, <4>6, <4>7, <4>8 DEF LoadSome
      <3> QED
        BY <3>7, <3>8
    <2> QED
      BY <2>7, <2>8
  <1>4. ASSUME NEW h \in K, NEW k \in 0 .. Len(disk[h].subs), NEW s \in LoadState, s.loaded \subseteq K, s.result = "ok"
        PROVE  LoadSome(h, k, s, K)
    <2>1. k \in Nat /\ k <= Len(disk[h].subs)
      BY <1>1, ModulesAre
    <2>2. <<h, k, s>> \in X
      BY <2>1
    <2> QED
      BY <1>3, <1>4, <2>1, <2>2
  <1> QED
    BY <1>4

LEMMA LoadModuleIs ==
  ASSUME Typed, DiskRight, NEW K, Closed(K), NEW h \in K, NEW s \in LoadState, s.loaded \subseteq K, s.result = "ok"
  PROVE  /\ LoadOn(s, LoadModule(h, s), K)
         /\ LoadModule(h, s).result = "ok" => h \in LoadModule(h, s).loaded
  <1>1. PICK subs : subs = Loads[<<h, Len(disk[h].subs), s>>]
    OBVIOUS
  <1>2. h \in Hash /\ Len(disk[h].subs) \in Nat /\ DOMAIN disk[h].subs = 1 .. Len(disk[h].subs) /\ s.version \in Version
    BY ModulesAre DEF Closed, LoadState
  <1>3. LoadSome(h, Len(disk[h].subs), s, K)
    BY <1>2, LoadAll
  <1>4. LoadOn(s, subs, K) /\ (subs.result = "ok" => Subs(h) \subseteq subs.loaded)
    BY <1>1, <1>2, <1>3 DEF LoadSome, Subs
  <1> QED
    BY <1>1, <1>4, LoadOne DEF LoadModule
-----------------------------------------------------------------------------
(* A directory, once it is there, only gets files and its name.            *)

Grows ==
  /\ scenario' = scenario /\ Hash \subseteq Hash'
  /\ \A h \in Hash : /\ disk'[h].defines = disk[h].defines /\ disk'[h].subs = disk[h].subs
                     /\ disk[h].final => disk'[h].final

LEMMA GrowsKeeps ==
  ASSUME Grows
  PROVE  /\ Dispatchers' = Dispatchers
         /\ \A h \in Hash : Subs(h)' = Subs(h) /\ Externals(h)' = Externals(h)
         /\ \A L \in SUBSET Hash : Defs(L)' = Defs(L)
         /\ \A h \in Hash : \A v : Fits(h, v)' = Fits(h, v)
  <1>1. Dispatchers' = Dispatchers
    BY DEF Grows, Dispatchers
  <1>2. ASSUME NEW h \in Hash PROVE Subs(h)' = Subs(h) /\ Externals(h)' = Externals(h)
    BY DEF Grows, Subs, Externals
  <1>3. ASSUME NEW L \in SUBSET Hash PROVE Defs(L)' = Defs(L)
    BY DEF Grows, Defs
  <1>4. ASSUME NEW h \in Hash, NEW v PROVE Fits(h, v)' = Fits(h, v)
    BY DEF Grows, Fits
  <1> QED
    BY <1>1, <1>2, <1>3, <1>4

LEMMA KeepRest ==
  ASSUME Grows, NEW s, IndexRight(s), ListedRight(s), FreshRight(s), NoFailure(s)
  PROVE  IndexRight(s)' /\ ListedRight(s)' /\ FreshRight(s)' /\ NoFailure(s)'
  <1>1. s.listed \subseteq Hash /\ Has(s) \subseteq Hash /\ s.loaded \subseteq Hash
    BY DEF ListedRight, IndexRight, Has
  <1>2. Has(s)' = Has(s)
    BY DEF Has
  <1>3. IndexRight(s)'
    <2>1. ASSUME NEW h \in Has(s)
          PROVE  /\ h \in Hash' /\ disk'[h].final /\ Subs(h)' \subseteq Has(s)
                 /\ \A n \in disk'[h].defines : s.index[n] # Nowhere
      BY <1>1, GrowsKeeps DEF IndexRight, Grows
    <2>2. ASSUME NEW n \in Name, s.index[n] # Nowhere
          PROVE  s.index[n] \in Has(s) /\ n \in disk'[s.index[n]].defines
      BY <1>1, <2>2 DEF IndexRight, Grows
    <2> QED
      BY <1>2, <2>1, <2>2 DEF IndexRight, Nowhere
  <1>4. ListedRight(s)'
    <2>1. ASSUME NEW h \in s.listed PROVE h \in Hash' /\ disk'[h].final /\ Subs(h)' \subseteq s.listed
      BY <1>1, GrowsKeeps DEF ListedRight, Grows
    <2> QED
      BY <2>1 DEF ListedRight
  <1>5. FreshRight(s)'
    <2>1. Defs(s.loaded)' = Defs(s.loaded) /\ EntryOf(s)' = EntryOf(s)
      BY <1>1, GrowsKeeps DEF EntryOf, Grows
    <2> QED
      BY <2>1 DEF FreshRight, Working
  <1>6. NoFailure(s)'
    BY GrowsKeeps DEF NoFailure
  <1> QED
    BY <1>3, <1>4, <1>5, <1>6

LEMMA KeepRight ==
  ASSUME Grows, NEW s, Right(s) PROVE Right(s)'
  <1>1. IndexRight(s)' /\ ListedRight(s)' /\ FreshRight(s)' /\ NoFailure(s)'
    BY KeepRest DEF Right
  <1>2. WritesRight(s)'
    <2> SUFFICES ASSUME s.at \in {"writing", "renamed"}
                 PROVE  \E h \in Hash' : /\ s.todo = {h} /\ disk'[h].defines = s.fresh
                                         /\ Subs(h)' \subseteq Has(s) /\ Externals(h)' \subseteq s.known
                                         /\ s.at = "renamed" => disk'[h].final
      BY DEF WritesRight, Has
    <2>1. PICK h \in Hash : /\ s.todo = {h} /\ disk[h].defines = s.fresh
                            /\ Subs(h) \subseteq Has(s) /\ Externals(h) \subseteq s.known
                            /\ s.at = "renamed" => disk[h].final
      BY DEF Right, WritesRight
    <2>2. h \in Hash' /\ Subs(h)' = Subs(h) /\ Externals(h)' = Externals(h)
      BY GrowsKeeps DEF Grows
    <2> QED
      BY <2>1, <2>2 DEF Grows
  <1> QED
    BY <1>1, <1>2 DEF Right

LEMMA KeepReusing ==
  ASSUME Grows, NEW s, s.listed \subseteq Hash, s.loaded \subseteq Hash, NEW M, NEW N, M \subseteq N,
         Reusing(s, M)
  PROVE  Reusing(s, N)'
  <1> SUFFICES ASSUME SoundIn(N, s.listed, s.version)'
               PROVE  (/\ s.at \notin {"starting", "manifestError"} => s.listed \subseteq s.valid
                       /\ s.at = "starting" => s.listed \ s.todo \subseteq s.valid
                       /\ \A n \in Defs(s.listed) : s.index[n] # Nowhere => s.index[n] \in s.listed
                       /\ \A n \in s.known : s.index[n] \in s.loaded
                       /\ \A h \in s.loaded \cap s.listed : disk[h].defines \subseteq s.known
                       /\ (s.built \cup s.fresh) \cap Defs(s.listed) = {})'
    BY DEF Reusing
  <1>1. SoundIn(M, s.listed, s.version)
    <2> SUFFICES ASSUME NEW h \in s.listed
                 PROVE  /\ h \notin M /\ Fits(h, s.version)
                        /\ \A other \in s.listed \ {h} : disk[h].defines \cap disk[other].defines = {}
      BY DEF SoundIn
    <2>1. h \notin N /\ Fits(h, s.version)' /\ \A other \in s.listed \ {h} : disk'[h].defines \cap disk'[other].defines = {}
      BY DEF SoundIn
    <2>2. Fits(h, s.version)
      BY <2>1, GrowsKeeps
    <2> QED
      BY <2>1, <2>2 DEF Grows
  <1>2. Defs(s.listed)' = Defs(s.listed) /\ \A h \in s.loaded : disk'[h].defines = disk[h].defines
    BY GrowsKeeps DEF Grows
  <1> QED
    BY <1>1, <1>2 DEF Reusing, Nowhere

\* What a process has become, by name.
LEMMA Becoming ==
  ASSUME NEW p \in Proc, NEW s, s = proc'[p], NEW N, N = marked', Right(s)', Reusing(s, N)'
  PROVE  (Right(proc[p]) /\ Reusing(proc[p], marked))'
  <1>1. IndexRight(proc[p])' /\ ListedRight(proc[p])' /\ FreshRight(proc[p])'
    BY DEF Right, IndexRight, ListedRight, FreshRight, Has, Working, EntryOf
  <1>2. WritesRight(proc[p])' /\ NoFailure(proc[p])'
    BY DEF Right, WritesRight, NoFailure, Has
  <1>3. Reusing(proc[p], marked)'
    BY DEF Reusing, SoundIn
  <1> QED
    BY <1>1, <1>2, <1>3 DEF Right

\* A step of p, which becomes s, and lets the others be.
LEMMA StepOf ==
  ASSUME CacheInv, Grows, Typed', DiskRight', marked \subseteq marked',
         NEW p \in Proc, NEW s, Becomes(p, s), Right(s)', NEW N, N = marked', Reusing(s, N)'
  PROVE  CacheInv'
  <1>1. proc' = [proc EXCEPT ![p] = s] /\ proc \in [Proc -> State]
    BY DEF Becomes, CacheInv, Typed
  <1>2. ASSUME NEW q \in Proc PROVE (Right(proc[q]) /\ Reusing(proc[q], marked))'
    <2>1. CASE q = p
      BY <1>1, <2>1, Becoming
    <2>2. CASE q # p
      <3>1. PICK t : t = proc[q]
        OBVIOUS
      <3>2. t = proc'[q] /\ Right(t) /\ Reusing(t, marked)
        BY <1>1, <2>2, <3>1 DEF CacheInv
      <3>3. t.listed \subseteq Hash /\ t.loaded \subseteq Hash
        BY <3>2 DEF Right, ListedRight, IndexRight, Has
      <3>4. Right(t)'
        BY <3>2, KeepRight
      <3>5. Reusing(t, N)'
        BY <3>2, <3>3, KeepReusing
      <3> QED
        BY <3>2, <3>4, <3>5, Becoming
    <2> QED
      BY <2>1, <2>2
  <1> QED
    BY <1>2 DEF CacheInv

LEMMA QuietStep ==
  ASSUME CacheInv, UNCHANGED <<scenario, disk>>, marked \subseteq marked', marked' \subseteq Nat,
         NEW p \in Proc, NEW s \in State, Becomes(p, s), Right(s), NEW N, N = marked', Reusing(s, N)
  PROVE  CacheInv'
  <1>1. Typed'
    BY DEF CacheInv, Typed, Becomes
  <1>2. DiskRight'
    BY DEF CacheInv, DiskRight, ModuleRight, Hash, Subs, Defs, Dispatchers
  <1>3. Grows
    BY DEF Grows, Hash
  <1>4. s.listed \subseteq Hash /\ s.loaded \subseteq Hash
    BY DEF Right, ListedRight, IndexRight, Has
  <1>5. Right(s)' /\ Reusing(s, N)'
    BY <1>3, <1>4, KeepRight, KeepReusing
  <1> QED
    BY <1>1, <1>2, <1>3, <1>5, StepOf

LEMMA Process ==
  ASSUME CacheInv, NEW p \in Proc
  PROVE  /\ Typed /\ DiskRight /\ scenario \in Scenarios /\ marked \subseteq Nat
         /\ proc[p] \in State /\ Right(proc[p]) /\ Reusing(proc[p], marked)
         /\ proc[p].listed \subseteq Hash /\ Has(proc[p]) \subseteq Hash
  <1>1. /\ Typed /\ DiskRight /\ proc[p] \in State /\ Right(proc[p]) /\ Reusing(proc[p], marked)
    BY DEF CacheInv, Typed
  <1>2. proc[p].listed \subseteq Hash /\ Has(proc[p]) \subseteq Hash
    BY <1>1 DEF Right, ListedRight, IndexRight
  <1> QED
    BY <1>1, <1>2 DEF Typed
-----------------------------------------------------------------------------
(* The steps of a process that write nothing.                              *)

LEMMA NobodyDoesNothing == Down \in State /\ Right(Down) /\ \A M : Reusing(Down, M)
  <1>1. /\ Down \in State /\ Down.at = "down" /\ Down.version = NoName /\ Down.listed = {} /\ Down.todo = {}
        /\ Down.valid = {} /\ Down.loaded = {} /\ Down.known = {} /\ Down.built = {} /\ Down.fresh = {}
        /\ Has(Down) = {} /\ \A n \in Name : Down.index[n] = Nowhere
    BY DEF Down, State, Places, Has, Nowhere
  <1> HIDE DEF Down
  <1>2. IndexRight(Down) /\ ListedRight(Down)
    BY <1>1 DEF IndexRight, ListedRight
  <1>3. FreshRight(Down) /\ WritesRight(Down) /\ NoFailure(Down)
    BY <1>1 DEF FreshRight, WritesRight, NoFailure, Working
  <1>4. ASSUME NEW M PROVE Reusing(Down, M)
    <2>1. Defs({}) = {}
      BY DEF Defs
    <2> QED
      BY <1>1, <2>1 DEF Reusing
  <1> QED
    BY <1>1, <1>2, <1>3, <1>4 DEF Right

LEMMA StopStep ==
  ASSUME CacheInv, NEW p \in Proc, Stop(p) PROVE CacheInv'
  <1>1. PICK N : N = marked'
    OBVIOUS
  <1>2. marked' = marked /\ UNCHANGED <<scenario, disk>> /\ Becomes(p, Down)
    BY DEF Stop
  <1> QED
    BY <1>1, <1>2, NobodyDoesNothing, Process, QuietStep

LEMMA StartStep ==
  ASSUME CacheInv, NEW p \in Proc, NEW v \in Version, Start(p, v) PROVE CacheInv'
  <1>1. PICK L : L = {h \in Hash : disk[h].final}
    OBVIOUS
  <1>2. PICK s : s = [Down EXCEPT !.at = "starting", !.version = v, !.todo = L, !.listed = L]
    OBVIOUS
  <1>3. Becomes(p, s) /\ UNCHANGED <<scenario, disk, marked>>
    BY <1>1, <1>2 DEF Start
  <1>4. L \subseteq Nat /\ \A h \in L : h \in Hash /\ disk[h].final /\ Subs(h) \subseteq L
    BY <1>1, Process, ModulesAre DEF DiskRight, ModuleRight
  <1>5. /\ s \in State /\ s.at = "starting" /\ s.version = v /\ s.todo = L /\ s.listed = L
        /\ s.valid = {} /\ s.loaded = {} /\ s.known = {} /\ s.built = {} /\ s.fresh = {}
        /\ Has(s) = {} /\ \A n \in Name : s.index[n] = Nowhere
    BY <1>2, <1>4 DEF Down, State, Places, Has, Nowhere
  <1>6. IndexRight(s) /\ ListedRight(s)
    BY <1>4, <1>5 DEF IndexRight, ListedRight
  <1>7. FreshRight(s) /\ WritesRight(s) /\ NoFailure(s)
    BY <1>5 DEF FreshRight, WritesRight, NoFailure, Working
  <1>8. Reusing(s, marked)
    <2>1. Defs(L) \subseteq Name
      BY <1>4, Process, ModulesAre DEF Defs, Mod
    <2> QED
      BY <1>5, <2>1 DEF Reusing
  <1>9. PICK N : N = marked'
    OBVIOUS
  <1>10. N = marked /\ marked \subseteq Nat
    BY <1>3, <1>9, Process
  <1> QED
    BY <1>3, <1>5, <1>6, <1>7, <1>8, <1>9, <1>10, QuietStep DEF Right

LEMMA ReadManifestStep ==
  ASSUME CacheInv, NEW p \in Proc, NEW h \in Hash, ReadManifest(p, h) PROVE CacheInv'
  <1>1. PICK r \in State : r = proc[p]
    BY Process
  <1>2. /\ Typed /\ DiskRight /\ marked \subseteq Nat /\ Right(r) /\ Reusing(r, marked)
        /\ r.at = "starting" /\ h \in r.todo /\ UNCHANGED <<scenario, disk>>
    BY <1>1, Process DEF ReadManifest
  <1>3. PICK b : b = [index |-> r.index, valid |-> r.valid, marks |-> marked, result |-> "ok"]
    OBVIOUS
  <1>4. PICK m : m = NameManifest(h, b)
    OBVIOUS
  <1>5. PICK s : s = [r EXCEPT !.todo = @ \ {h}, !.index = m.index, !.valid = m.valid,
                               !.at = IF m.result = "error" THEN "manifestError" ELSE @]
    OBVIOUS
  <1>6. marked' = m.marks /\ Becomes(p, s)
    BY <1>1, <1>3, <1>4, <1>5 DEF ReadManifest
  <1>7. Complete(r.listed) /\ h \in r.listed /\ r.valid \subseteq r.listed /\ r.loaded = {} /\ Has(r) = r.valid
    BY <1>2 DEF Right, ListedRight, Complete, Has
  <1>8. b \in Reading /\ b.result = "ok" /\ b.valid = r.valid /\ b.index = r.index /\ b.marks = marked
    BY <1>2, <1>3 DEF Reading, State
  <1>9. ManifestRight(b, r.listed)
    BY <1>2, <1>7, <1>8 DEF Right, IndexRight, ManifestRight
  <1>10. ReadOn(b, m, r.listed) /\ (m.result = "ok" => h \in m.valid)
    BY <1>2, <1>4, <1>7, <1>8, <1>9, NameManifestIs
  <1>11. /\ m \in Reading /\ m.result # "error" /\ r.valid \subseteq m.valid /\ marked \subseteq m.marks
         /\ ManifestRight(m, r.listed) /\ m.marks \subseteq Nat
    BY <1>8, <1>10 DEF ReadOn, Reading
  <1>12. /\ s \in State /\ s.at = "starting" /\ s.version = r.version /\ s.todo = r.todo \ {h} /\ s.listed = r.listed
         /\ s.index = m.index /\ s.valid = m.valid /\ s.loaded = {} /\ s.known = r.known /\ s.built = r.built
         /\ s.fresh = r.fresh /\ Has(s) = m.valid
    BY <1>2, <1>5, <1>7, <1>11 DEF State, Reading, Has
  <1>13. IndexRight(s)
    BY <1>7, <1>11, <1>12 DEF IndexRight, ManifestRight, Complete
  <1>14. ListedRight(s)
    BY <1>2, <1>7, <1>11, <1>12 DEF Right, ListedRight, ManifestRight
  <1>15. FreshRight(s) /\ WritesRight(s) /\ NoFailure(s)
    BY <1>2, <1>7, <1>12 DEF Right, FreshRight, WritesRight, NoFailure, Working
  <1>16. Reusing(s, m.marks)
    <2> SUFFICES ASSUME SoundIn(m.marks, r.listed, r.version)
                 PROVE  /\ r.listed \ s.todo \subseteq s.valid
                        /\ \A n \in Defs(r.listed) : s.index[n] # Nowhere => s.index[n] \in r.listed
                        /\ s.known = {}
                        /\ (s.built \cup s.fresh) \cap Defs(r.listed) = {}
      BY <1>12 DEF Reusing
    <2>1. SoundIn(marked, r.listed, r.version)
      BY <1>11 DEF SoundIn
    <2>2. r.listed \ r.todo \subseteq r.valid /\ (r.built \cup r.fresh) \cap Defs(r.listed) = {}
      BY <1>2, <2>1 DEF Reusing
    <2>3. r.listed \cap m.marks = {}
      BY DEF SoundIn
    <2>4. m.result = "ok"
      BY <1>10, <1>11, <2>3 DEF ReadOn, Reading
    <2>5. r.listed \ s.todo \subseteq s.valid
      BY <1>10, <1>11, <1>12, <2>2, <2>4
    <2>6. Defs(r.listed) \subseteq Name
      BY <1>2, <1>7, ModulesAre DEF Defs, Mod, Complete
    <2>7. \A n \in Defs(r.listed) : s.index[n] # Nowhere => s.index[n] \in r.listed
      BY <1>11, <1>12, <2>6 DEF ManifestRight
    <2>8. s.known = {}
      BY <1>2, <1>7, <1>12 DEF Right, FreshRight, Defs
    <2> QED
      BY <1>12, <2>2, <2>5, <2>7, <2>8
  <1> QED
    BY <1>2, <1>6, <1>11, <1>12, <1>13, <1>14, <1>15, <1>16, QuietStep DEF Right

LEMMA StartedStep ==
  ASSUME CacheInv, NEW p \in Proc, Started(p) PROVE CacheInv'
  <1>1. PICK r \in State : r = proc[p]
    BY Process
  <1>2. /\ marked \subseteq Nat /\ Right(r) /\ Reusing(r, marked) /\ r.at = "starting" /\ r.todo = {}
        /\ UNCHANGED <<scenario, disk, marked>>
    BY <1>1, Process DEF Started
  <1>3. PICK s : s = [r EXCEPT !.at = "idle"]
    OBVIOUS
  <1>4. Becomes(p, s)
    BY <1>1, <1>3 DEF Started
  <1>5. /\ s \in State /\ s.at = "idle" /\ s.version = r.version /\ s.todo = r.todo /\ s.listed = r.listed
        /\ s.index = r.index /\ s.valid = r.valid /\ s.loaded = r.loaded /\ s.known = r.known /\ s.built = r.built
        /\ s.fresh = r.fresh /\ Has(s) = Has(r)
    BY <1>3 DEF State, Places, Has
  <1>6. IndexRight(s) /\ ListedRight(s)
    BY <1>2, <1>5 DEF Right, IndexRight, ListedRight
  <1>7. FreshRight(s) /\ WritesRight(s) /\ NoFailure(s)
    BY <1>2, <1>5 DEF Right, FreshRight, WritesRight, NoFailure, Working
  <1>8. Reusing(s, marked)
    BY <1>2, <1>5 DEF Reusing
  <1>9. PICK N : N = marked'
    OBVIOUS
  <1> QED
    BY <1>2, <1>4, <1>5, <1>6, <1>7, <1>8, <1>9, QuietStep DEF Right

LEMMA EnterStep ==
  ASSUME CacheInv, NEW p \in Proc, NEW n \in scenario.entries, Enter(p, n) PROVE CacheInv'
  <1>1. PICK r \in State : r = proc[p]
    BY Process
  <1>2. /\ marked \subseteq Nat /\ Right(r) /\ Reusing(r, marked) /\ r.at = "idle"
        /\ UNCHANGED <<scenario, disk, marked>>
    BY <1>1, Process DEF Enter
  <1>3. PICK s : s = [r EXCEPT !.at = "converting", !.entry = n, !.want = {n}]
    OBVIOUS
  <1>4. Becomes(p, s) /\ n \in Name
    BY <1>1, <1>3, Process, ScenariosAssumption DEF Enter
  <1>5. /\ s \in State /\ s.at = "converting" /\ s.version = r.version /\ s.todo = r.todo /\ s.listed = r.listed
        /\ s.index = r.index /\ s.valid = r.valid /\ s.loaded = r.loaded /\ s.known = r.known /\ s.built = r.built
        /\ s.fresh = r.fresh /\ s.entry = n /\ s.want = {n} /\ Has(s) = Has(r)
    BY <1>3, <1>4 DEF State, Places, Has
  <1>6. IndexRight(s) /\ ListedRight(s)
    BY <1>2, <1>5 DEF Right, IndexRight, ListedRight
  <1>7. FreshRight(s) /\ WritesRight(s) /\ NoFailure(s)
    BY <1>2, <1>4, <1>5 DEF Right, FreshRight, WritesRight, NoFailure, Working
  <1>8. Reusing(s, marked)
    BY <1>2, <1>5 DEF Reusing
  <1>9. PICK N : N = marked'
    OBVIOUS
  <1> QED
    BY <1>2, <1>4, <1>5, <1>6, <1>7, <1>8, <1>9, QuietStep DEF Right

\* Of a step that only goes on to another place, with other names wanted.
LEMMA GoesOn ==
  ASSUME CacheInv, UNCHANGED <<scenario, disk, marked>>, NEW p \in Proc, NEW r \in State, r = proc[p],
         NEW s \in State, Becomes(p, s), r.at = "converting", s.at \in {"converting", "linked", "assertError"},
         s.version = r.version, s.listed = r.listed, s.index = r.index, s.valid = r.valid, s.loaded = r.loaded,
         s.known = r.known, s.built = r.built, s.fresh = r.fresh, FreshRight(s)
  PROVE  CacheInv'
  <1>1. marked \subseteq Nat /\ Right(r) /\ Reusing(r, marked)
    BY Process
  <1>2. Has(s) = Has(r)
    BY DEF Has
  <1>3. IndexRight(s) /\ ListedRight(s)
    BY <1>1, <1>2 DEF Right, IndexRight, ListedRight
  <1>4. WritesRight(s) /\ NoFailure(s)
    BY DEF WritesRight, NoFailure
  <1>5. Reusing(s, marked)
    BY <1>1 DEF Reusing
  <1>6. PICK N : N = marked'
    OBVIOUS
  <1> QED
    BY <1>1, <1>3, <1>4, <1>5, <1>6, QuietStep DEF Right

LEMMA EntryTyped ==
  ASSUME Typed, NEW s \in State, s.entry \in Name PROVE EntryOf(s) \in Name
  <1>1. scenario.dispatch \in [Name -> Name \cup {NoName}]
    BY ScenariosAssumption DEF Typed
  <1> QED
    BY <1>1 DEF EntryOf

LEMMA DispatchStep ==
  ASSUME CacheInv, NEW p \in Proc, Dispatch(p) PROVE CacheInv'
  <1>1. PICK r \in State : r = proc[p]
    BY Process
  <1>2. Right(r) /\ r.at = "converting" /\ r.want = {} /\ Entry(p) = EntryOf(r) /\ UNCHANGED <<scenario, disk, marked>>
    BY <1>1, Process DEF Dispatch, Entry, EntryOf
  <1>3. r.entry \in Name /\ EntryOf(r) \in Name
    BY <1>2, EntryTyped, Process DEF Right, FreshRight, Working
  <1>4. PICK s : s = [r EXCEPT !.want = {EntryOf(r)}]
    OBVIOUS
  <1>5. Becomes(p, s)
    BY <1>1, <1>2, <1>4 DEF Dispatch
  <1>6. /\ s \in State /\ s.at = "converting" /\ s.version = r.version /\ s.listed = r.listed /\ s.entry = r.entry
        /\ s.index = r.index /\ s.valid = r.valid /\ s.loaded = r.loaded /\ s.known = r.known /\ s.built = r.built
        /\ s.fresh = r.fresh
    BY <1>2, <1>3, <1>4 DEF State
  <1>7. FreshRight(s)
    BY <1>2, <1>6 DEF Right, FreshRight, Working
  <1> QED
    BY <1>1, <1>2, <1>5, <1>6, <1>7, GoesOn

LEMMA NothingNewStep ==
  ASSUME CacheInv, NEW p \in Proc, NothingNew(p) PROVE CacheInv'
  <1>1. PICK r \in State : r = proc[p]
    BY Process
  <1>2. /\ Right(r) /\ r.at = "converting" /\ r.fresh = {} /\ EntryOf(r) \in r.known \cup r.fresh
        /\ UNCHANGED <<scenario, disk, marked>>
    BY <1>1, Process DEF NothingNew, Converted, Entry, EntryOf
  <1>3. PICK s : s = [r EXCEPT !.at = "linked"]
    OBVIOUS
  <1>4. Becomes(p, s)
    BY <1>1, <1>3 DEF NothingNew
  <1>5. /\ s \in State /\ s.at = "linked" /\ s.version = r.version /\ s.listed = r.listed /\ s.entry = r.entry
        /\ s.index = r.index /\ s.valid = r.valid /\ s.loaded = r.loaded /\ s.known = r.known /\ s.built = r.built
        /\ s.fresh = r.fresh /\ EntryOf(s) = EntryOf(r)
    BY <1>2, <1>3 DEF State, Places, EntryOf
  <1>6. FreshRight(s)
    BY <1>2, <1>5 DEF Right, FreshRight, Working
  <1> QED
    BY <1>1, <1>2, <1>4, <1>5, <1>6, GoesOn

LEMMA BuildRaisesStep ==
  ASSUME CacheInv, NEW p \in Proc, BuildRaises(p) PROVE CacheInv'
  <1>1. PICK r \in State : r = proc[p]
    BY Process
  <1>2. Right(r) /\ r.at = "converting" /\ UNCHANGED <<scenario, disk, marked>>
    BY <1>1, Process DEF BuildRaises, Converted
  <1>3. PICK s : s = [r EXCEPT !.at = "assertError"]
    OBVIOUS
  <1>4. Becomes(p, s)
    BY <1>1, <1>3 DEF BuildRaises
  <1>5. /\ s \in State /\ s.at = "assertError" /\ s.version = r.version /\ s.listed = r.listed
        /\ s.index = r.index /\ s.valid = r.valid /\ s.loaded = r.loaded /\ s.known = r.known /\ s.built = r.built
        /\ s.fresh = r.fresh
    BY <1>2, <1>3 DEF State, Places
  <1>6. FreshRight(s)
    BY <1>2, <1>5 DEF Right, FreshRight, Working
  <1> QED
    BY <1>1, <1>2, <1>4, <1>5, <1>6, GoesOn

-----------------------------------------------------------------------------
(* Loading.                                                                *)

\* What a process loads for a name that it has a module for.
LEMMA LoadingIs ==
  ASSUME CacheInv, NEW p \in Proc, NEW r, r = proc[p], r.at \notin {"down", "manifestError"},
         NEW n \in Name, r.index[n] # Nowhere, NEW m, m = Loading(p, n)
  PROVE  /\ m \in LoadState /\ r.loaded \subseteq m.loaded /\ m.loaded \subseteq Has(r)
         /\ marked \subseteq m.marks /\ m.marks \subseteq Nat
         /\ m.names = Defs(m.loaded \ r.loaded)
         /\ m.result = "ok" => r.index[n] \in m.loaded
         /\ m.result = "invalid" => \E g \in Has(r) \ r.loaded : ~Fits(g, r.version)
         /\ m.result = "linkError" => Dispatchers # {}
         /\ r.index[n] \in r.loaded => m.result = "ok" /\ m.loaded = r.loaded /\ m.marks = marked
  <1>1. /\ r \in State /\ Typed /\ DiskRight /\ marked \subseteq Nat /\ Right(r)
        /\ Closed(Has(r)) /\ r.index[n] \in Has(r)
    BY Process DEF Right, IndexRight, Closed
  <1>2. PICK b : b = [version |-> r.version, loaded |-> r.loaded, names |-> {}, marks |-> marked, result |-> "ok"]
    OBVIOUS
  <1>3. /\ b \in LoadState /\ b.version = r.version /\ b.loaded = r.loaded /\ b.names = {} /\ b.marks = marked
        /\ b.result = "ok" /\ b.loaded \subseteq Has(r)
    BY <1>1, <1>2 DEF LoadState, State, Right, FreshRight, Has
  <1>4. m = LoadModule(r.index[n], b)
    BY <1>2 DEF Loading
  <1>5. LoadOn(b, m, Has(r)) /\ (m.result = "ok" => r.index[n] \in m.loaded)
    BY <1>1, <1>3, <1>4, LoadModuleIs
  <1>6. r.index[n] \in r.loaded => m = b
    BY <1>3, <1>4 DEF LoadModule, Load
  <1>7. m \in LoadState /\ m.marks \subseteq Nat
    BY <1>5 DEF LoadOn, LoadState
  <1> QED
    BY <1>3, <1>5, <1>6, <1>7 DEF LoadOn

LEMMA PointerStep ==
  ASSUME CacheInv, NEW p \in Proc, Pointer(p) PROVE CacheInv'
  <1>1. PICK r \in State : r = proc[p]
    BY Process
  <1>2. /\ Typed /\ DiskRight /\ marked \subseteq Nat /\ Right(r) /\ Reusing(r, marked) /\ r.at = "linked"
        /\ Entry(p) = EntryOf(r) /\ UNCHANGED <<scenario, disk>>
    BY <1>1, Process DEF Pointer, Entry, EntryOf
  <1>3. EntryOf(r) \in r.known /\ EntryOf(r) \in Name /\ r.known \subseteq Defs(r.loaded) /\ r.fresh = {}
    BY <1>2, EntryTyped DEF Right, FreshRight, Working
  <1>4. r.index[EntryOf(r)] # Nowhere
    BY <1>2, <1>3 DEF Right, IndexRight, Has, Defs
  <1>5. PICK m : m = Loading(p, EntryOf(r))
    OBVIOUS
  <1>6. /\ m \in LoadState /\ r.loaded \subseteq m.loaded /\ m.loaded \subseteq Has(r)
        /\ marked \subseteq m.marks /\ m.marks \subseteq Nat
        /\ m.result = "linkError" => Dispatchers # {}
        /\ r.index[EntryOf(r)] \in r.loaded => m.loaded = r.loaded
    <2>1. PICK e : e = EntryOf(r)
      OBVIOUS
    <2>2. r.at = "linked" /\ e \in Name /\ r.index[e] # Nowhere /\ m = Loading(p, e)
      BY <1>2, <1>3, <1>4, <1>5, <2>1
    <2>3. /\ m \in LoadState /\ r.loaded \subseteq m.loaded /\ m.loaded \subseteq Has(r)
          /\ marked \subseteq m.marks /\ m.marks \subseteq Nat
          /\ m.names = Defs(m.loaded \ r.loaded)
          /\ m.result = "ok" => r.index[e] \in m.loaded
          /\ m.result = "invalid" => \E g \in Has(r) \ r.loaded : ~Fits(g, r.version)
          /\ m.result = "linkError" => Dispatchers # {}
          /\ r.index[e] \in r.loaded => m.result = "ok" /\ m.loaded = r.loaded /\ m.marks = marked
      BY <1>1, <1>2, <2>2, LoadingIs
    <2> QED
      BY <2>1, <2>3
  <1>7. PICK s : s = IF m.result = "ok" THEN [r EXCEPT !.at = "idle", !.entry = NoName, !.loaded = m.loaded]
                     ELSE [r EXCEPT !.at = IF m.result = "linkError" THEN m.result ELSE "keyError"]
    OBVIOUS
  <1>8. marked' = m.marks /\ Becomes(p, s)
    BY <1>1, <1>2, <1>5, <1>7 DEF Pointer
  <1>9. m.loaded \in SUBSET Nat
    BY <1>6 DEF LoadState
  <1>10. /\ s \in State /\ s.at \in {"idle", "linkError", "keyError"} /\ s.version = r.version /\ s.listed = r.listed
         /\ s.index = r.index /\ s.valid = r.valid /\ s.loaded \in {r.loaded, m.loaded} /\ s.known = r.known
         /\ s.built = r.built /\ s.fresh = {} /\ (s.at = "linkError" => m.result = "linkError")
    <2>1. CASE m.result = "ok"
      BY <1>3, <1>7, <1>9, <2>1 DEF State, Places
    <2>2. CASE m.result = "linkError"
      BY <1>3, <1>7, <2>2 DEF State, Places
    <2>3. CASE m.result \notin {"ok", "linkError"}
      BY <1>3, <1>7, <2>3 DEF State, Places
    <2> QED
      BY <2>1, <2>2, <2>3
  <1>11. Has(s) = Has(r) /\ r.loaded \subseteq s.loaded
    BY <1>6, <1>10 DEF Has
  <1>12. IndexRight(s) /\ ListedRight(s)
    BY <1>2, <1>10, <1>11 DEF Right, IndexRight, ListedRight
  <1>13. Defs(r.loaded) \subseteq Defs(s.loaded)
    BY <1>11 DEF Defs
  <1>14. FreshRight(s) /\ WritesRight(s) /\ NoFailure(s)
    BY <1>2, <1>3, <1>6, <1>10, <1>13 DEF Right, FreshRight, WritesRight, NoFailure, Working
  <1>15. Reusing(s, m.marks)
    <2> SUFFICES ASSUME SoundIn(m.marks, s.listed, s.version) PROVE Reusing(s, m.marks)
      BY DEF Reusing
    <2>1. SoundIn(marked, r.listed, r.version)
      BY <1>6, <1>10 DEF SoundIn
    <2>2. r.index[EntryOf(r)] \in r.loaded
      BY <1>2, <1>3, <2>1 DEF Reusing
    <2>3. s.loaded = r.loaded
      BY <1>6, <1>10, <2>2
    <2> QED
      BY <1>2, <1>3, <1>10, <2>1, <2>3 DEF Reusing
  <1> QED
    BY <1>2, <1>6, <1>8, <1>10, <1>12, <1>14, <1>15, QuietStep DEF Right

\* A function that has no target is converted.
LEMMA ConvertIs ==
  ASSUME NEW s \in State, NEW n \in Name, s.at = "converting", NEW c, c = Convert(s, n)
  PROVE  /\ c \in State /\ c.at = s.at /\ c.version = s.version /\ c.todo = s.todo /\ c.listed = s.listed
         /\ c.index = s.index /\ c.valid = s.valid /\ c.loaded = s.loaded /\ c.known = s.known /\ c.built = s.built
         /\ c.entry = s.entry /\ s.fresh \subseteq c.fresh /\ c.fresh \subseteq s.fresh \cup {n} /\ s.want \subseteq c.want
         /\ n \in c.known \cup c.fresh
         /\ n \in c.fresh \ s.fresh => n \notin s.known /\ Calls[n] \subseteq c.known \cup s.fresh \cup c.want
  <1>1. CASE n \in s.known
    BY <1>1 DEF Convert
  <1>2. CASE n \notin s.known
    <2>1. c = [s EXCEPT !.fresh = @ \cup {n}, !.want = @ \cup (Calls[n] \ (s.known \cup s.fresh))]
      BY <1>2 DEF Convert
    <2>2. Calls[n] \subseteq Name
      BY CallsAssumption
    <2>3. /\ s.fresh \cup {n} \in SUBSET Name
          /\ s.want \cup (Calls[n] \ (s.known \cup s.fresh)) \in SUBSET Name
      BY <2>2 DEF State
    <2>4. PICK F, W : F = s.fresh \cup {n} /\ W = s.want \cup (Calls[n] \ (s.known \cup s.fresh))
      OBVIOUS
    <2>5. c = [s EXCEPT !.fresh = F, !.want = W] /\ F \in SUBSET Name /\ W \in SUBSET Name
      BY <2>1, <2>3, <2>4
    <2>6. /\ c \in State /\ c.at = s.at /\ c.version = s.version /\ c.todo = s.todo /\ c.listed = s.listed
          /\ c.index = s.index /\ c.valid = s.valid /\ c.loaded = s.loaded /\ c.known = s.known /\ c.built = s.built
          /\ c.entry = s.entry /\ c.fresh = F /\ c.want = W
      BY <2>5 DEF State
    <2> QED
      BY <1>2, <2>4, <2>6
  <1> QED
    BY <1>1, <1>2

\* f is the process when it has looked for n in the cache, n is not wanted any more.
LEMMA ConvertStep ==
  ASSUME CacheInv, UNCHANGED <<scenario, disk>>, NEW p \in Proc, NEW r \in State, r = proc[p], r.at = "converting",
         NEW f \in State, f.at = "converting", f.version = r.version, f.listed = r.listed, f.index = r.index,
         f.valid = r.valid, r.loaded \subseteq f.loaded, f.loaded \subseteq Has(r), r.known \subseteq f.known,
         f.known \subseteq Defs(f.loaded), f.built = r.built, f.fresh = r.fresh, f.entry = r.entry,
         NEW n \in Name, r.want \subseteq f.want \cup {n},
         marked \subseteq marked', marked' \subseteq Nat, Becomes(p, Convert(f, n)),
         SoundIn(marked, r.listed, r.version) =>
           /\ \A j \in f.known : f.index[j] \in f.loaded
           /\ \A h \in f.loaded \cap f.listed : disk[h].defines \subseteq f.known
           /\ n \in Defs(f.listed) => n \in f.known
  PROVE  CacheInv'
  <1>1. marked \subseteq Nat /\ Right(r) /\ Reusing(r, marked)
    BY Process
  <1>2. PICK s : s = Convert(f, n)
    OBVIOUS
  <1>3. /\ s \in State /\ s.at = "converting" /\ s.version = r.version /\ s.listed = r.listed
        /\ s.index = r.index /\ s.valid = r.valid /\ s.loaded = f.loaded /\ s.known = f.known /\ s.built = r.built
        /\ s.entry = r.entry /\ r.fresh \subseteq s.fresh /\ s.fresh \subseteq r.fresh \cup {n} /\ f.want \subseteq s.want
        /\ n \in s.known \cup s.fresh
        /\ n \in s.fresh \ r.fresh => n \notin f.known /\ Calls[n] \subseteq s.known \cup r.fresh \cup s.want
    BY <1>2, ConvertIs
  <1>4. Has(s) = Has(r)
    BY <1>3 DEF Has
  <1>5. IndexRight(s) /\ ListedRight(s)
    BY <1>1, <1>3, <1>4 DEF Right, IndexRight, ListedRight
  <1>6. FreshRight(s)
    <2>1. ASSUME NEW j \in s.fresh PROVE Calls[j] \subseteq s.known \cup s.fresh \cup s.want
      <3>1. CASE j \in r.fresh
        <4>1. Calls[j] \subseteq r.known \cup r.fresh \cup r.want
          BY <1>1, <3>1 DEF Right, FreshRight
        <4> QED
          BY <1>3, <4>1
      <3>2. CASE j \notin r.fresh
        BY <1>3, <2>1, <3>2
      <3> QED
        BY <3>1, <3>2
    <2> QED
      BY <1>1, <1>3, <2>1 DEF Right, FreshRight, Working
  <1>7. WritesRight(s) /\ NoFailure(s)
    BY <1>3 DEF WritesRight, NoFailure
  <1>8. PICK N : N = marked'
    OBVIOUS
  <1>9. Reusing(s, N)
    <2> SUFFICES ASSUME SoundIn(N, r.listed, r.version)
                 PROVE  /\ r.listed \subseteq s.valid
                        /\ \A j \in Defs(r.listed) : s.index[j] # Nowhere => s.index[j] \in r.listed
                        /\ \A j \in s.known : s.index[j] \in s.loaded
                        /\ \A h \in s.loaded \cap r.listed : disk[h].defines \subseteq s.known
                        /\ (s.built \cup s.fresh) \cap Defs(r.listed) = {}
      BY <1>3 DEF Reusing
    <2>1. SoundIn(marked, r.listed, r.version)
      BY <1>8 DEF SoundIn
    <2>2. /\ r.listed \subseteq r.valid
          /\ \A j \in Defs(r.listed) : r.index[j] # Nowhere => r.index[j] \in r.listed
          /\ (r.built \cup r.fresh) \cap Defs(r.listed) = {}
      BY <1>1, <2>1 DEF Reusing
    <2>3. /\ \A j \in f.known : f.index[j] \in f.loaded
          /\ \A h \in f.loaded \cap f.listed : disk[h].defines \subseteq f.known
          /\ n \in Defs(f.listed) => n \in f.known
      BY <2>1
    <2>4. (s.built \cup s.fresh) \cap Defs(r.listed) = {}
      <3> SUFFICES ASSUME NEW j \in s.fresh, j \in Defs(r.listed) PROVE j \in r.fresh
        BY <1>3, <2>2
      <3> QED
        BY <1>3, <2>3
    <2> QED
      BY <1>3, <2>2, <2>3, <2>4
  <1> QED
    BY <1>2, <1>3, <1>5, <1>6, <1>7, <1>8, <1>9, QuietStep DEF Right

LEMMA DefineStep ==
  ASSUME CacheInv, NEW p \in Proc, NEW n \in Name, Define(p, n) PROVE CacheInv'
  <1>1. PICK r \in State : r = proc[p]
    BY Process
  <1>2. /\ Typed /\ DiskRight /\ marked \subseteq Nat /\ Right(r) /\ Reusing(r, marked) /\ r.at = "converting"
        /\ UNCHANGED <<scenario, disk>> /\ r.listed \subseteq Hash
    BY <1>1, Process DEF Define
  <1>3. PICK w : w = [r EXCEPT !.want = @ \ {n}]
    OBVIOUS
  <1>4. /\ w \in State /\ w.at = "converting" /\ w.version = r.version /\ w.listed = r.listed
        /\ w.index = r.index /\ w.valid = r.valid /\ w.loaded = r.loaded /\ w.known = r.known /\ w.built = r.built
        /\ w.fresh = r.fresh /\ w.entry = r.entry /\ w.want = r.want \ {n}
    BY <1>2, <1>3 DEF State
  <1>5. /\ r.known \subseteq Defs(r.loaded) /\ r.loaded \subseteq Has(r)
        /\ \A h \in Has(r) : h \in Hash /\ \A j \in disk[h].defines : r.index[j] # Nowhere
        /\ \A j \in Name : r.index[j] # Nowhere => j \in disk[r.index[j]].defines
    BY <1>2 DEF Right, FreshRight, IndexRight, Has
  <1>6. Defs(r.listed) \subseteq Name /\ \A h \in Has(r) : disk[h].defines \subseteq Name
    BY <1>2, <1>5, ModulesAre DEF Defs, Mod
  <1>7. SoundIn(marked, r.listed, r.version) =>
          /\ r.listed \subseteq r.valid
          /\ \A j \in Defs(r.listed) : r.index[j] # Nowhere => r.index[j] \in r.listed
          /\ \A j \in r.known : r.index[j] \in r.loaded
          /\ \A h \in r.loaded \cap r.listed : disk[h].defines \subseteq r.known
    BY <1>2 DEF Reusing
  <1>8. CASE n \in r.known \cup r.fresh
    <2>1. Becomes(p, w) /\ marked' = marked
      BY <1>1, <1>3, <1>4, <1>8 DEF Define
    <2>2. FreshRight(w)
      BY <1>2, <1>4, <1>8 DEF Right, FreshRight, Working
    <2> QED
      BY <1>1, <1>2, <1>4, <2>1, <2>2, GoesOn
  <1>9. CASE n \notin r.known \cup r.fresh /\ r.index[n] = Nowhere
    <2>1. Becomes(p, Convert(w, n)) /\ marked' = marked
      BY <1>1, <1>3, <1>4, <1>9 DEF Define, HasSymbol
    <2>2. SoundIn(marked, r.listed, r.version) => n \notin Defs(r.listed)
      BY <1>5, <1>7, <1>9 DEF Defs, Has
    <2> QED
      BY <1>1, <1>2, <1>4, <1>5, <1>7, <2>1, <2>2, ConvertStep
  <1>10. CASE n \notin r.known \cup r.fresh /\ r.index[n] # Nowhere
    <2>1. PICK m : m = Loading(p, n)
      OBVIOUS
    <2>2. /\ m \in LoadState /\ r.loaded \subseteq m.loaded /\ m.loaded \subseteq Has(r)
          /\ marked \subseteq m.marks /\ m.marks \subseteq Nat
          /\ m.names = Defs(m.loaded \ r.loaded)
          /\ m.result = "ok" => r.index[n] \in m.loaded
          /\ m.result = "invalid" => \E g \in Has(r) \ r.loaded : ~Fits(g, r.version)
          /\ m.result = "linkError" => Dispatchers # {}
      BY <1>1, <1>2, <1>10, <2>1, LoadingIs
    <2>3. marked' = m.marks /\ Becomes(p, IF m.result = "linkError" THEN [w EXCEPT !.at = "linkError"]
                                          ELSE Convert(Found(w, m), n))
      BY <1>1, <1>3, <1>4, <1>10, <2>1 DEF Define, HasSymbol
    <2>4. CASE m.result = "linkError"
      <3>1. PICK s : s = [w EXCEPT !.at = "linkError"]
        OBVIOUS
      <3>2. /\ s \in State /\ s.at = "linkError" /\ s.version = r.version /\ s.listed = r.listed
            /\ s.index = r.index /\ s.valid = r.valid /\ s.loaded = r.loaded /\ s.known = r.known /\ s.built = r.built
            /\ s.fresh = r.fresh /\ Has(s) = Has(r)
        BY <1>4, <3>1 DEF State, Places, Has
      <3>3. IndexRight(s) /\ ListedRight(s)
        BY <1>2, <3>2 DEF Right, IndexRight, ListedRight
      <3>4. FreshRight(s) /\ WritesRight(s) /\ NoFailure(s)
        BY <1>2, <2>2, <2>4, <3>2 DEF Right, FreshRight, WritesRight, NoFailure, Working
      <3>5. Reusing(s, m.marks)
        <4> SUFFICES ASSUME SoundIn(m.marks, s.listed, s.version) PROVE Reusing(s, m.marks)
          BY DEF Reusing
        <4>1. SoundIn(marked, r.listed, r.version)
          BY <2>2, <3>2 DEF SoundIn
        <4> QED
          BY <1>2, <3>2, <4>1 DEF Reusing
      <3>6. Becomes(p, s)
        BY <2>3, <2>4, <3>1
      <3> QED
        BY <1>2, <2>2, <2>3, <3>2, <3>3, <3>4, <3>5, <3>6, QuietStep DEF Right
    <2>5. CASE m.result # "linkError"
      <3>1. PICK f : f = Found(w, m)
        OBVIOUS
      <3>2. m.loaded \subseteq Nat /\ m.names \subseteq Name /\ m.result \in {"ok", "invalid"}
        BY <2>2, <2>5 DEF LoadState
      <3>3. /\ f \in State /\ f.at = "converting" /\ f.version = r.version /\ f.listed = r.listed
            /\ f.index = r.index /\ f.valid = r.valid /\ f.loaded = m.loaded /\ f.built = r.built
            /\ f.fresh = r.fresh /\ f.entry = r.entry /\ f.want = r.want \ {n}
            /\ f.known = IF m.result = "ok" THEN r.known \cup m.names ELSE r.known
        <4>1. CASE m.result = "ok"
          BY <1>4, <3>1, <3>2, <4>1 DEF Found, State
        <4>2. CASE m.result # "ok"
          BY <1>4, <3>1, <3>2, <4>2 DEF Found, State
        <4> QED
          BY <4>1, <4>2
      <3>4. f.known \subseteq Defs(f.loaded) /\ r.known \subseteq f.known
        BY <1>5, <2>2, <3>3 DEF Defs
      <3>5. ASSUME SoundIn(marked, r.listed, r.version)
            PROVE  /\ \A j \in f.known : f.index[j] \in f.loaded
                   /\ \A h \in f.loaded \cap f.listed : disk[h].defines \subseteq f.known
                   /\ n \in Defs(f.listed) => n \in f.known
        <4>1. \A g \in Has(r) \ r.loaded : g \in r.listed /\ Fits(g, r.version)
          BY <1>2, <3>5 DEF Right, ListedRight, Has, SoundIn
        <4>2. m.result = "ok" /\ r.index[n] \in m.loaded
          BY <2>2, <3>2, <4>1
        <4>3. ASSUME NEW j \in f.known PROVE f.index[j] \in f.loaded
          <5>1. CASE j \in r.known
            BY <1>7, <2>2, <3>3, <3>5, <5>1
          <5>2. CASE j \notin r.known
            <6>1. PICK g \in m.loaded \ r.loaded : j \in disk[g].defines
              BY <2>2, <3>3, <4>2, <4>3, <5>2 DEF Defs
            <6>2. g \in Has(r) /\ g \in r.listed /\ j \in Name /\ j \in Defs(r.listed)
              BY <1>6, <2>2, <4>1, <6>1 DEF Defs
            <6>3. r.index[j] # Nowhere /\ r.index[j] \in r.listed /\ j \in disk[r.index[j]].defines
              BY <1>5, <1>7, <3>5, <6>1, <6>2
            <6>4. r.index[j] = g
              BY <3>5, <6>1, <6>2, <6>3 DEF SoundIn
            <6> QED
              BY <3>3, <6>1, <6>4
          <5> QED
            BY <5>1, <5>2
        <4>4. ASSUME NEW h \in f.loaded, h \in f.listed PROVE disk[h].defines \subseteq f.known
          <5>1. CASE h \in r.loaded
            BY <1>7, <3>3, <3>4, <3>5, <4>4, <5>1
          <5>2. CASE h \notin r.loaded
            BY <2>2, <3>3, <4>2, <4>4, <5>2 DEF Defs
          <5> QED
            BY <5>1, <5>2
        <4>5. ASSUME n \in Defs(f.listed) PROVE n \in f.known
          <5>1. r.index[n] \in r.listed /\ n \in disk[r.index[n]].defines
            BY <1>5, <1>7, <1>10, <3>3, <3>5, <4>5
          <5> QED
            BY <3>3, <4>2, <4>4, <5>1
        <4> QED
          BY <4>3, <4>4, <4>5
      <3>6. Becomes(p, Convert(f, n))
        BY <2>3, <2>5, <3>1
      <3>7. r.want \subseteq f.want \cup {n}
        BY <3>3
      <3> QED
        BY <1>1, <1>2, <2>2, <2>3, <3>3, <3>4, <3>5, <3>6, <3>7, ConvertStep
    <2> QED
      BY <2>4, <2>5
  <1> QED
    BY <1>8, <1>9, <1>10

-----------------------------------------------------------------------------
(* Writing a module.                                                       *)

\* A set that is written one after the other is all written.
LEMMA SequenceOfSet ==
  ASSUME NEW n \in Nat, NEW H \in SUBSET (1 .. n), NEW q \in SetToSeqs(H)
  PROVE  q \in Seq(Nat) /\ {q[k] : k \in DOMAIN q} = H
  <1>1. PICK c : c = Cardinality(H)
    OBVIOUS
  <1>2. IsFiniteSet(H) /\ c \in Nat
    <2>1. IsFiniteSet(1 .. n)
      BY FS_Interval
    <2>2. IsFiniteSet(H)
      BY <2>1, FS_Subset
    <2> QED
      BY <1>1, <2>2, FS_CardinalityType
  <1>3. q \in [1 .. c -> H] /\ \A i, j \in 1 .. c : i # j => q[i] # q[j]
    BY <1>1 DEF SetToSeqs
  <1>4. q \in Injection(1 .. c, H)
    BY <1>3, Zenon DEF Injection, IsInjective
  <1>5. Cardinality(1 .. c) = c
    BY <1>2, FS_Interval
  <1>6. q \in Surjection(1 .. c, H)
    BY <1>1, <1>2, <1>4, <1>5, FS_Injection
  <1>7. \A g \in H : \E k \in 1 .. c : q[k] = g
    BY <1>6 DEF Surjection
  <1>8. q \in Seq(Nat)
    <2>1. q \in Seq(H)
      BY <1>2, <1>3
    <2>2. H \subseteq Nat
      OBVIOUS
    <2>3. Len(q) \in Nat /\ q \in [1 .. Len(q) -> H]
      BY <2>1
    <2>4. \A i \in 1 .. Len(q) : q[i] \in Nat
      BY <2>2, <2>3
    <2> QED
      BY <2>3, <2>4
  <1> QED
    BY <1>3, <1>7, <1>8

\* What was right of a module stays so, if it is not named without its files.
LEMMA ModuleStaysRight ==
  ASSUME DiskRight, Grows, NEW h \in Hash, disk'[h].final => disk'[h].written PROVE ModuleRight(h)'
  <1>1. PICK K : K = Subs(h)
    OBVIOUS
  <1>2. /\ \A g \in K : g \in Hash /\ g < h /\ disk[g].final
        /\ \A n \in disk[h].defines \ Dispatchers : Calls[n] \ disk[h].defines \subseteq Defs(K)
    BY <1>1 DEF DiskRight, ModuleRight
  <1>3. K \subseteq Hash /\ (Subs(h))' = K /\ Dispatchers' = Dispatchers
    BY <1>1, <1>2, GrowsKeeps
  <1>4. Defs(K)' = Defs(K)
    BY <1>3, GrowsKeeps
  <1>5. (Defs(Subs(h)))' = Defs(K)
    BY <1>3, <1>4 DEF Defs
  <1>6. \A g \in K : g \in Hash' /\ g < h /\ disk'[g].final
    BY <1>2, <1>3 DEF Grows
  <1>7. disk'[h].defines = disk[h].defines
    BY DEF Grows
  <1>8. (\A n \in disk[h].defines \ Dispatchers : Calls[n] \ disk[h].defines \subseteq Defs(Subs(h)))'
    BY <1>2, <1>3, <1>5, <1>7
  <1> QED
    BY <1>3, <1>6, <1>8 DEF ModuleRight

LEMMA BeginWriteStep ==
  ASSUME CacheInv, NEW p \in Proc, BeginWrite(p) PROVE CacheInv'
  <1>1. PICK r \in State : r = proc[p]
    BY Process
  <1>2. /\ Typed /\ DiskRight /\ marked \subseteq Nat /\ Right(r) /\ Reusing(r, marked) /\ r.at = "converting"
        /\ r.want = {} /\ EntryOf(r) \in r.known \cup r.fresh /\ UNCHANGED <<scenario, marked>>
        /\ r.listed \subseteq Hash /\ Has(r) \subseteq Hash
    BY <1>1, Process DEF BeginWrite, Converted, Entry, EntryOf
  <1>3. r.fresh \in SUBSET Name /\ \A j \in r.fresh : Calls[j] \subseteq r.known \cup r.fresh
    BY <1>2 DEF Right, FreshRight, State
  <1>4. PICK D, H : D = Dependencies(p) /\ H = DependentHashes(p)
    OBVIOUS
  <1>5. D \subseteq r.known /\ \A j \in r.fresh \ Dispatchers : Calls[j] \ r.fresh \subseteq D
    <2>1. D = (UNION {Calls[j] : j \in r.fresh \ Dispatchers}) \ r.fresh
      BY <1>1, <1>4 DEF Dependencies
    <2> QED
      BY <1>3, <2>1
  <1>6. \A j \in D : r.index[j] \in Has(r) /\ j \in disk[r.index[j]].defines
    <2> SUFFICES ASSUME NEW j \in D PROVE r.index[j] \in Has(r) /\ j \in disk[r.index[j]].defines
      OBVIOUS
    <2>1. j \in Name /\ j \in Defs(r.loaded)
      BY <1>2, <1>5 DEF Right, FreshRight, State
    <2>2. r.index[j] # Nowhere
      BY <1>2, <2>1 DEF Right, IndexRight, Has, Defs
    <2> QED
      BY <1>2, <2>1, <2>2 DEF Right, IndexRight
  <1>7. H \subseteq Has(r) /\ (\A g \in H : g \in Hash /\ disk[g].final) /\ D \subseteq Defs(H)
    <2>1. H = {r.index[j] : j \in D}
      BY <1>1, <1>4 DEF DependentHashes
    <2>2. H \subseteq Has(r)
      BY <1>6, <2>1
    <2>3. D \subseteq Defs(H)
      BY <1>6, <2>1 DEF Defs
    <2> QED
      BY <1>2, <2>2, <2>3 DEF Right, IndexRight
  <1>8. PICK q \in SetToSeqs(H) :
          disk' = Append(disk, [defines |-> r.fresh, subs |-> q, written |-> FALSE, final |-> FALSE])
    BY <1>1, <1>4 DEF BeginWrite
  <1>9. PICK M : M = [defines |-> r.fresh, subs |-> q, written |-> FALSE, final |-> FALSE]
    OBVIOUS
  <1>10. Len(disk) \in Nat /\ disk \in Seq(Mod)
    BY <1>2, ModulesAre DEF Typed
  <1>11. q \in Seq(Nat) /\ {q[k] : k \in DOMAIN q} = H
    BY <1>7, <1>10, SequenceOfSet DEF Hash
  <1>12. M \in Mod /\ M.defines = r.fresh /\ M.subs = q /\ ~M.final
    BY <1>3, <1>9, <1>11 DEF Mod
  <1>13. PICK d : d = Len(disk) + 1
    OBVIOUS
  <1>14. /\ disk' \in Seq(Mod) /\ d \in Nat /\ d \in Hash' /\ Hash' = Hash \cup {d} /\ d \notin Hash
         /\ (\A h \in Hash : disk'[h] = disk[h] /\ h < d) /\ disk'[d] = M
    <2>1. disk' = Append(disk, M)
      BY <1>8, <1>9
    <2>2. disk' \in Seq(Mod) /\ Len(disk') = d /\ d \in Nat
      BY <1>10, <1>12, <1>13, <2>1
    <2>3. (\A h \in 1 .. Len(disk) : disk'[h] = disk[h] /\ h < d) /\ disk'[d] = M
      BY <1>10, <1>12, <1>13, <2>1
    <2>4. 1 .. d = (1 .. Len(disk)) \cup {d} /\ d \notin 1 .. Len(disk)
      BY <1>10, <1>13
    <2> QED
      BY <2>2, <2>3, <2>4 DEF Hash
  <1>15. Grows
    BY <1>2, <1>14 DEF Grows
  <1>16. (Subs(d))' = H /\ (Externals(d))' \subseteq r.known
    <2>1. (Subs(d))' = {M.subs[k] : k \in DOMAIN M.subs}
      BY <1>14 DEF Subs
    <2>2. (Externals(d))' = (UNION {Calls[j] : j \in M.defines}) \ M.defines
      BY <1>14 DEF Externals
    <2> QED
      BY <1>3, <1>11, <1>12, <2>1, <2>2
  <1>17. DiskRight'
    <2>1. Dispatchers' = Dispatchers
      BY <1>15, GrowsKeeps
    <2>2. ASSUME NEW h \in Hash PROVE ModuleRight(h)'
      BY <1>2, <1>14, <1>15, ModuleStaysRight DEF DiskRight, ModuleRight
    <2>3. ModuleRight(d)'
      <3>1. Defs(H)' = Defs(H)
        BY <1>7, <1>15, GrowsKeeps
      <3>2. (Defs(Subs(d)))' = Defs(H)
        BY <1>16, <3>1 DEF Defs
      <3>3. \A g \in H : g \in Hash' /\ g < d /\ disk'[g].final
        BY <1>7, <1>14
      <3>4. \A j \in M.defines \ Dispatchers : Calls[j] \ M.defines \subseteq Defs(H)
        BY <1>5, <1>7, <1>12
      <3>5. (\A j \in disk[d].defines \ Dispatchers : Calls[j] \ disk[d].defines \subseteq Defs(Subs(d)))'
        BY <1>14, <2>1, <3>2, <3>4
      <3> QED
        BY <1>12, <1>14, <1>16, <3>3, <3>5 DEF ModuleRight
    <2> QED
      BY <1>14, <2>2, <2>3 DEF DiskRight
  <1>18. PICK s : s = [r EXCEPT !.at = "writing", !.todo = {d}]
    OBVIOUS
  <1>19. Becomes(p, s)
    BY <1>1, <1>13, <1>18 DEF BeginWrite
  <1>20. /\ s \in State /\ s.at = "writing" /\ s.todo = {d} /\ s.version = r.version /\ s.listed = r.listed
         /\ s.entry = r.entry /\ s.index = r.index /\ s.valid = r.valid /\ s.loaded = r.loaded /\ s.known = r.known
         /\ s.built = r.built /\ s.fresh = r.fresh /\ Has(s) = Has(r) /\ EntryOf(s) = EntryOf(r)
    BY <1>14, <1>18 DEF State, Places, Has, EntryOf
  <1>21. Typed'
    BY <1>2, <1>14, <1>19, <1>20 DEF Typed, Becomes
  <1>22. IndexRight(s) /\ ListedRight(s)
    BY <1>2, <1>20 DEF Right, IndexRight, ListedRight
  <1>23. FreshRight(s) /\ NoFailure(s)
    BY <1>2, <1>20 DEF Right, FreshRight, NoFailure, Working
  <1>24. WritesRight(s)'
    <2>1. /\ d \in Hash' /\ s.todo = {d} /\ disk'[d].defines = s.fresh
          /\ (Subs(d))' \subseteq Has(s) /\ (Externals(d))' \subseteq s.known /\ s.at # "renamed"
      BY <1>7, <1>12, <1>14, <1>16, <1>20
    <2> QED
      BY <2>1 DEF WritesRight, Has
  <1>25. Right(s)'
    BY <1>15, <1>22, <1>23, <1>24, KeepRest DEF Right
  <1>26. PICK N : N = marked'
    OBVIOUS
  <1>27. Reusing(s, N)'
    <2>1. Reusing(s, marked)
      BY <1>2, <1>20 DEF Reusing
    <2>2. s.listed \subseteq Hash /\ s.loaded \subseteq Hash /\ marked \subseteq N
      BY <1>2, <1>20, <1>26 DEF Has
    <2> QED
      BY <1>15, <2>1, <2>2, KeepReusing
  <1> QED
    BY <1>2, <1>15, <1>17, <1>19, <1>21, <1>25, <1>26, <1>27, StepOf

\* The files of a module are written, or it gets its name.
LEMMA DirectoryStep ==
  ASSUME Typed, DiskRight, NEW h \in Hash, NEW M \in Mod, M.defines = disk[h].defines, M.subs = disk[h].subs,
         disk[h].final => M.final, M.final => M.written, disk' = [disk EXCEPT ![h] = M], UNCHANGED scenario
  PROVE  Grows /\ Hash' = Hash /\ disk' \in Seq(Mod) /\ disk'[h] = M /\ DiskRight'
  <1>1. disk \in Seq(Mod) /\ Len(disk) \in Nat /\ h \in 1 .. Len(disk)
    BY ModulesAre DEF Typed, Hash
  <1>2. /\ Len(disk') = Len(disk) /\ disk' \in Seq(Mod) /\ disk'[h] = M
        /\ \A g \in 1 .. Len(disk) : g # h => disk'[g] = disk[g]
    BY <1>1
  <1>3. Hash' = Hash /\ \A g \in Hash : g # h => disk'[g] = disk[g]
    BY <1>2 DEF Hash
  <1>4. Grows
    BY <1>2, <1>3 DEF Grows
  <1>5. ASSUME NEW g \in Hash PROVE ModuleRight(g)'
    <2>1. disk'[g].final => disk'[g].written
      BY <1>2, <1>3 DEF DiskRight, ModuleRight
    <2> QED
      BY <1>4, <2>1, ModuleStaysRight
  <1> QED
    BY <1>2, <1>3, <1>4, <1>5 DEF DiskRight

LEMMA EndWriteStep ==
  ASSUME CacheInv, NEW p \in Proc, NEW h \in Hash, EndWrite(p, h) PROVE CacheInv'
  <1>1. PICK r \in State : r = proc[p]
    BY Process
  <1>2. /\ Typed /\ DiskRight /\ Right(r) /\ Reusing(r, marked) /\ UNCHANGED <<scenario, marked, proc>>
        /\ disk' = [disk EXCEPT ![h].written = TRUE] /\ r.listed \subseteq Hash /\ Has(r) \subseteq Hash
    BY <1>1, Process DEF EndWrite
  <1>3. disk[h] \in Mod /\ (disk[h].final => disk[h].written)
    BY <1>2, ModulesAre DEF DiskRight, ModuleRight
  <1>4. PICK M : M = [disk[h] EXCEPT !.written = TRUE]
    OBVIOUS
  <1>5. M \in Mod /\ M.defines = disk[h].defines /\ M.subs = disk[h].subs /\ M.final = disk[h].final /\ M.written
    BY <1>3, <1>4 DEF Mod
  <1>6. disk' = [disk EXCEPT ![h] = M]
    BY <1>2, <1>4
  <1>7. Grows /\ disk' \in Seq(Mod) /\ DiskRight'
    BY <1>2, <1>5, <1>6, DirectoryStep
  <1>8. Becomes(p, r) /\ Typed'
    BY <1>1, <1>2, <1>7 DEF Becomes, Typed
  <1>9. Right(r)'
    BY <1>2, <1>7, KeepRight
  <1>10. PICK N : N = marked'
    OBVIOUS
  <1>11. r.loaded \subseteq Hash /\ N = marked
    BY <1>2, <1>10 DEF Has
  <1>12. Reusing(r, N)'
    BY <1>2, <1>7, <1>11, KeepReusing
  <1> QED
    BY <1>2, <1>7, <1>8, <1>9, <1>10, <1>12, StepOf

LEMMA RenameStep ==
  ASSUME CacheInv, NEW p \in Proc, NEW h \in Hash, Rename(p, h) PROVE CacheInv'
  <1>1. PICK r \in State : r = proc[p]
    BY Process
  <1>2. /\ Typed /\ DiskRight /\ Right(r) /\ Reusing(r, marked) /\ UNCHANGED <<scenario, marked>>
        /\ disk' = [disk EXCEPT ![h].final = TRUE] /\ r.listed \subseteq Hash /\ Has(r) \subseteq Hash
        /\ r.at = "writing" /\ h \in r.todo /\ disk[h].written
    BY <1>1, Process DEF Rename
  <1>3. disk[h] \in Mod
    BY <1>2, ModulesAre
  <1>4. PICK M : M = [disk[h] EXCEPT !.final = TRUE]
    OBVIOUS
  <1>5. M \in Mod /\ M.defines = disk[h].defines /\ M.subs = disk[h].subs /\ M.final /\ M.written
    BY <1>2, <1>3, <1>4 DEF Mod
  <1>6. disk' = [disk EXCEPT ![h] = M]
    BY <1>2, <1>4
  <1>7. Grows /\ Hash' = Hash /\ disk' \in Seq(Mod) /\ disk'[h] = M /\ DiskRight'
    BY <1>2, <1>5, <1>6, DirectoryStep
  <1>8. PICK s : s = [r EXCEPT !.at = "renamed"]
    OBVIOUS
  <1>9. Becomes(p, s)
    BY <1>1, <1>8 DEF Rename
  <1>10. /\ s \in State /\ s.at = "renamed" /\ s.todo = r.todo /\ s.version = r.version /\ s.listed = r.listed
         /\ s.entry = r.entry /\ s.index = r.index /\ s.valid = r.valid /\ s.loaded = r.loaded /\ s.known = r.known
         /\ s.built = r.built /\ s.fresh = r.fresh /\ Has(s) = Has(r) /\ EntryOf(s) = EntryOf(r)
    BY <1>8 DEF State, Places, Has, EntryOf
  <1>11. Typed'
    BY <1>2, <1>7, <1>9, <1>10 DEF Typed, Becomes
  <1>12. IndexRight(s) /\ ListedRight(s)
    BY <1>2, <1>10 DEF Right, IndexRight, ListedRight
  <1>13. FreshRight(s) /\ NoFailure(s)
    BY <1>2, <1>10 DEF Right, FreshRight, NoFailure, Working
  <1>14. WritesRight(s)'
    <2>1. r.todo = {h} /\ disk[h].defines = r.fresh /\ Subs(h) \subseteq Has(r) /\ Externals(h) \subseteq r.known
      BY <1>2 DEF Right, WritesRight
    <2>2. (Subs(h))' = Subs(h) /\ (Externals(h))' = Externals(h)
      BY <1>7, GrowsKeeps
    <2>3. /\ h \in Hash' /\ s.todo = {h} /\ disk'[h].defines = s.fresh
          /\ (Subs(h))' \subseteq Has(s) /\ (Externals(h))' \subseteq s.known /\ disk'[h].final
      BY <1>5, <1>7, <1>10, <2>1, <2>2
    <2> QED
      BY <2>3 DEF WritesRight, Has
  <1>15. Right(s)'
    BY <1>7, <1>12, <1>13, <1>14, KeepRest DEF Right
  <1>16. PICK N : N = marked'
    OBVIOUS
  <1>17. Reusing(s, N)'
    <2>1. Reusing(s, marked)
      BY <1>2, <1>10 DEF Reusing
    <2>2. s.listed \subseteq Hash /\ s.loaded \subseteq Hash /\ marked \subseteq N
      BY <1>2, <1>10, <1>16 DEF Has
    <2> QED
      BY <1>7, <2>1, <2>2, KeepReusing
  <1> QED
    BY <1>2, <1>7, <1>9, <1>11, <1>15, <1>16, <1>17, StepOf

LEMMA AddModuleStep ==
  ASSUME CacheInv, NEW p \in Proc, NEW h \in Hash, AddModule(p, h) PROVE CacheInv'
  <1>1. PICK r \in State : r = proc[p]
    BY Process
  <1>2. /\ Typed /\ DiskRight /\ marked \subseteq Nat /\ Right(r) /\ Reusing(r, marked)
        /\ UNCHANGED <<scenario, disk, marked>> /\ r.at = "renamed" /\ h \in r.todo
    BY <1>1, Process DEF AddModule
  <1>3. /\ disk[h].defines = r.fresh /\ Subs(h) \subseteq Has(r) /\ Externals(h) \subseteq r.known /\ disk[h].final
        /\ h # Nowhere /\ h \in Nat /\ r.fresh \subseteq Name
    BY <1>2, ModulesAre DEF Right, WritesRight, Hash, Nowhere, State
  <1>4. r.known \subseteq Defs(r.loaded)
    BY <1>2 DEF Right, FreshRight
  <1>5. Opens(h, r.loaded)
    BY <1>3, <1>4 DEF Opens
  <1>6. PICK I : I = Indexed(r.index, h)
    OBVIOUS
  <1>7. /\ I \in [Name -> Nat] /\ (\A n \in r.fresh : I[n] = h)
        /\ \A n \in Name : n \notin r.fresh => I[n] = r.index[n]
    BY <1>3, <1>6 DEF Indexed, State
  <1>8. PICK s : s = [r EXCEPT !.at = "linked", !.todo = {}, !.fresh = {}, !.loaded = @ \cup {h},
                               !.known = @ \cup r.fresh, !.built = @ \cup r.fresh, !.index = I]
    OBVIOUS
  <1>9. Becomes(p, s)
    BY <1>1, <1>3, <1>5, <1>6, <1>8 DEF AddModule
  <1>10. /\ s \in State /\ s.at = "linked" /\ s.version = r.version /\ s.listed = r.listed /\ s.entry = r.entry
         /\ s.index = I /\ s.valid = r.valid /\ s.loaded = r.loaded \cup {h} /\ s.known = r.known \cup r.fresh
         /\ s.built = r.built \cup r.fresh /\ s.fresh = {}
    BY <1>3, <1>7, <1>8 DEF State, Places
  <1>11. Has(s) = Has(r) \cup {h} /\ EntryOf(s) = EntryOf(r)
    BY <1>10 DEF Has, EntryOf
  <1>12. IndexRight(s)
    <2>1. ASSUME NEW g \in Has(s)
          PROVE  g \in Hash /\ disk[g].final /\ Subs(g) \subseteq Has(s) /\ \A n \in disk[g].defines : s.index[n] # Nowhere
      <3>1. CASE g = h
        BY <1>3, <1>7, <1>10, <1>11, <3>1
      <3>2. CASE g \in Has(r)
        <4>1. g \in Hash /\ disk[g].final /\ Subs(g) \subseteq Has(r) /\ \A n \in disk[g].defines : r.index[n] # Nowhere
          BY <1>2, <3>2 DEF Right, IndexRight
        <4>2. disk[g].defines \subseteq Name
          BY <1>2, <4>1, ModulesAre DEF Mod
        <4> QED
          BY <1>3, <1>7, <1>10, <1>11, <4>1, <4>2
      <3> QED
        BY <1>11, <2>1, <3>1, <3>2
    <2>2. ASSUME NEW n \in Name, s.index[n] # Nowhere PROVE s.index[n] \in Has(s) /\ n \in disk[s.index[n]].defines
      <3>1. CASE n \in r.fresh
        BY <1>3, <1>7, <1>10, <1>11, <3>1
      <3>2. CASE n \notin r.fresh
        <4>1. s.index[n] = r.index[n]
          BY <1>7, <1>10, <3>2
        <4> QED
          BY <1>2, <1>11, <2>2, <4>1 DEF Right, IndexRight
      <3> QED
        BY <3>1, <3>2
    <2> QED
      BY <2>1, <2>2 DEF IndexRight
  <1>13. ListedRight(s) /\ WritesRight(s) /\ NoFailure(s)
    BY <1>2, <1>10 DEF Right, ListedRight, WritesRight, NoFailure
  <1>14. FreshRight(s)
    <2>1. s.known \subseteq Defs(s.loaded)
      BY <1>3, <1>4, <1>10 DEF Defs
    <2> QED
      BY <1>2, <1>10, <1>11, <2>1 DEF Right, FreshRight, Working
  <1>15. Reusing(s, marked)
    <2> SUFFICES ASSUME SoundIn(marked, r.listed, r.version)
                 PROVE  /\ r.listed \subseteq s.valid
                        /\ \A n \in Defs(r.listed) : s.index[n] # Nowhere => s.index[n] \in r.listed
                        /\ \A n \in s.known : s.index[n] \in s.loaded
                        /\ \A g \in s.loaded \cap r.listed : disk[g].defines \subseteq s.known
                        /\ (s.built \cup s.fresh) \cap Defs(r.listed) = {}
      BY <1>10 DEF Reusing
    <2>1. /\ r.listed \subseteq r.valid
          /\ \A n \in Defs(r.listed) : r.index[n] # Nowhere => r.index[n] \in r.listed
          /\ \A n \in r.known : r.index[n] \in r.loaded
          /\ \A g \in r.loaded \cap r.listed : disk[g].defines \subseteq r.known
          /\ (r.built \cup r.fresh) \cap Defs(r.listed) = {}
      BY <1>2 DEF Reusing
    <2>2. Defs(r.listed) \subseteq Name /\ r.known \subseteq Name
      BY <1>2, ModulesAre DEF Right, ListedRight, Defs, Mod, State
    <2>3. \A n \in Defs(r.listed) : s.index[n] # Nowhere => s.index[n] \in r.listed
      BY <1>7, <1>10, <2>1, <2>2
    <2>4. \A n \in s.known : s.index[n] \in s.loaded
      BY <1>7, <1>10, <2>1, <2>2
    <2>5. \A g \in s.loaded \cap r.listed : disk[g].defines \subseteq s.known
      BY <1>3, <1>10, <2>1
    <2> QED
      BY <1>10, <2>1, <2>3, <2>4, <2>5
  <1>16. PICK N : N = marked'
    OBVIOUS
  <1> QED
    BY <1>2, <1>9, <1>10, <1>12, <1>13, <1>14, <1>15, <1>16, QuietStep DEF Right

-----------------------------------------------------------------------------
(* The invariant, and what it says.                                        *)

LEMMA CacheInit == Init => CacheInv
  <1> SUFFICES ASSUME Init PROVE CacheInv
    OBVIOUS
  <1>1. Hash = {} /\ disk \in Seq(Mod) /\ marked = {}
    BY DEF Init, Hash
  <1>2. Down \in State /\ Right(Down) /\ Reusing(Down, marked)
    BY NobodyDoesNothing
  <1>3. Typed /\ DiskRight /\ proc \in [Proc -> State] /\ \A p \in Proc : proc[p] = Down
    BY <1>1, <1>2 DEF Init, Typed, DiskRight, ModuleRight
  <1> QED
    BY <1>2, <1>3 DEF CacheInv

LEMMA CacheStutter == CacheInv /\ UNCHANGED vars => CacheInv'
  <1> SUFFICES ASSUME CacheInv, UNCHANGED vars PROVE CacheInv'
    OBVIOUS
  <1>1. UNCHANGED <<scenario, disk, marked, proc>>
    BY DEF vars
  <1>2. Typed' /\ DiskRight'
    BY <1>1 DEF CacheInv, Typed, DiskRight, ModuleRight, Hash, Subs, Defs, Dispatchers
  <1>3. Grows
    BY <1>1 DEF Grows, Hash
  <1>4. ASSUME NEW p \in Proc PROVE (Right(proc[p]) /\ Reusing(proc[p], marked))'
    <2>1. PICK s, N : s = proc[p] /\ N = marked
      OBVIOUS
    <2>2. Right(s) /\ Reusing(s, N) /\ s.listed \subseteq Hash /\ s.loaded \subseteq Hash
      BY <2>1, Process DEF Has
    <2>3. Right(s)' /\ Reusing(s, N)'
      BY <1>3, <2>2, KeepRight, KeepReusing
    <2>4. s = proc'[p] /\ N = marked'
      BY <1>1, <2>1
    <2> QED
      BY <2>3, <2>4, Becoming
  <1> QED
    BY <1>2, <1>4 DEF CacheInv

LEMMA CacheNext == CacheInv /\ Next => CacheInv'
  <1> SUFFICES ASSUME CacheInv,
                      NEW p \in Proc,
                      \/ \E v \in Version : Start(p, v)
                      \/ \E h \in Hash : ReadManifest(p, h) \/ EndWrite(p, h) \/ Rename(p, h) \/ AddModule(p, h)
                      \/ \E n \in scenario.entries : Enter(p, n)
                      \/ \E n \in Name : Define(p, n)
                      \/ Started(p) \/ Dispatch(p) \/ NothingNew(p) \/ BuildRaises(p) \/ BeginWrite(p)
                      \/ Pointer(p) \/ Stop(p)
               PROVE  CacheInv'
    BY DEF Next
  <1>1. CASE \E v \in Version : Start(p, v)
    BY <1>1, StartStep
  <1>2. ASSUME NEW h \in Hash, ReadManifest(p, h) \/ EndWrite(p, h) \/ Rename(p, h) \/ AddModule(p, h) PROVE CacheInv'
    BY <1>2, ReadManifestStep, EndWriteStep, RenameStep, AddModuleStep
  <1>3. CASE \E n \in scenario.entries : Enter(p, n)
    BY <1>3, EnterStep
  <1>4. CASE \E n \in Name : Define(p, n)
    BY <1>4, DefineStep
  <1>5. CASE Started(p) \/ Dispatch(p) \/ NothingNew(p) \/ BuildRaises(p)
    BY <1>5, StartedStep, DispatchStep, NothingNewStep, BuildRaisesStep
  <1>6. CASE BeginWrite(p) \/ Pointer(p) \/ Stop(p)
    BY <1>6, BeginWriteStep, PointerStep, StopStep
  <1> QED
    BY <1>1, <1>2, <1>3, <1>4, <1>5, <1>6

\* Whoever starts, reads, converts, writes and dies, in any order: the cache is
\* closed under what its modules need, and every process knows what it has.
THEOREM CacheInvariant == Spec => []CacheInv
  BY CacheInit, CacheStutter, CacheNext, PTL DEF Spec

\* CompilerCache.__init__ reads every module that the directory lists without a
\* try: none of them, nor one that they need, lacks a file, though others write
\* and die meanwhile.
THEOREM AlwaysStartsClean == Spec => []StartsClean
  <1>1. CacheInv => StartsClean
    BY DEF CacheInv, Right, NoFailure, StartsClean
  <1> QED
    BY <1>1, CacheInvariant, PTL

\* Of any number of processes, with any scenario in which functions are called
\* directly, none opens a library before what the library calls is loaded.
\* (Where an entry point is made, the module that has it names none of those it
\* needs.)
THEOREM LibrariesOpen == Spec => [](Dispatchers = {} => LinksResolve)
  <1>1. CacheInv => (Dispatchers = {} => LinksResolve)
    BY DEF CacheInv, Right, NoFailure, LinksResolve
  <1> QED
    BY <1>1, CacheInvariant, PTL

\* What a process finds when it starts it does not compile again, where all of it
\* is valid and no function is there twice, whatever others write or mark.
THEOREM CacheIsReused == Spec => []Reuse
  <1>1. ASSUME CacheInv PROVE Reuse
    <2> SUFFICES ASSUME NEW p \in Proc, Sound(proc[p].listed, proc[p].version)
                 PROVE  (proc[p].built \cup proc[p].fresh) \cap Defs(proc[p].listed) = {}
      BY DEF Reuse
    <2>1. SoundIn(marked, proc[p].listed, proc[p].version)
      BY DEF Sound, SoundIn
    <2>2. Reusing(proc[p], marked)
      BY <1>1, Process
    <2> QED
      BY <2>1, <2>2 DEF Reusing
  <1> QED
    BY <1>1, CacheInvariant, PTL
=============================================================================
