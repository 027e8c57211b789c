---------------------------- MODULE MCTypedDict ----------------------------
(* Bounded instances of the containers for TLC: the hash table with Dict, the *)
(* tree of SortedDict, a list of Held classes, and a graph of containers that *)
(* is copied.  A behaviour has one of them.                                   *)
EXTENDS TypedDict, SortedDict, HeldReferences, Serialization, Deepcopy

VARIABLE container

\* Keys are numbers.  1 and 2 start to probe at the same offset of a table of
\* 4 or 8 slots and then part; between them the probes use every offset of 4.
Colliding == [k \in Key |-> CASE k = 1 -> 3 [] k = 2 -> 67 [] OTHER -> k - 2]

\* One key takes two values.
OneChanges == [k \in SortedKey |-> IF k = 2 THEN {2, 3} ELSE {k}]

\* Nothing, and trees of 12 keys that are about to be rotated right, at 9, and
\* left, at 31.
LeftHeavy == <<20, 30, 10, 15, 5, 2, 7, 1, 3, 6, 8, 4>>
SomeTrees == {<<>>, LeftHeavy, [i \in DOMAIN LeftHeavy |-> 40 - LeftHeavy[i]]}

OneOrBoth == {{"t1"}, HeldThread}

\* Graphs of a named object, 0, and two or three others.
OfOne == {"tuple", "set", "frozenset", "cell", "object", "ListOf", "TupleOf", "Alternative"}
OfTwo == {"list", "dict", "reduced", "Dict", "Class"}
Nodes(kinds, others) ==
  [kind : kinds \cap OfOne, refs : {<<x>> : x \in others}] \cup [kind : kinds \cap OfTwo, refs : others \X others]
NamedObject == [kind |-> "named", refs |-> <<>>]
Pairs(a, b) == {(0 :> NamedObject) @@ (1 :> x) @@ (2 :> y) : x \in a, y \in b}
Triples(a, b, c) == {g @@ (3 :> z) : g \in Pairs(a, b), z \in c}
Three(a, b, c) == Triples(Nodes({a}, 0..3), Nodes({b}, 0..3), Nodes({c}, 0..3))
SomeGraphs ==
  Pairs(Nodes(OfOne \cup OfTwo, 0..2), Nodes(OfOne \cup OfTwo, 0..2))
  \cup Triples({[kind |-> "list", refs |-> <<2, 3>>]}, Nodes({"reduced"}, 0..3), Nodes({"reduced"}, 0..3))
  \cup Three("tuple", "reduced", "dict") \cup Three("ListOf", "list", "Class")
  \cup Three("TupleOf", "Alternative", "ListOf")
\* What the other containers' behaviours have.
NoGraph == (0 :> NamedObject) @@ (1 :> [kind |-> "list", refs |-> <<0, 2>>]) @@ (2 :> [kind |-> "tuple", refs |-> <<1>>])
OneGraph == {NoGraph}

InitContainers ==
  /\ InitStream
  /\ container \in {"Graph"} \cup IF graph = NoGraph /\ copier = "write" THEN {"Dict", "SortedDict", "HeldList"} ELSE {}
  /\ Init /\ InitSorted /\ InitHeld
  /\ container # "SortedDict" => root = None
  /\ container # "HeldList" => users = {"t1"}
NextDict ==
  container = "Dict" /\ Next /\ UNCHANGED <<sortedVars, heldVars, streamVars, container>>
NextSortedDict ==
  container = "SortedDict" /\ NextSorted /\ UNCHANGED <<vars, heldVars, streamVars, container>>
NextHeldList ==
  container = "HeldList" /\ NextHeld /\ UNCHANGED <<vars, sortedVars, streamVars, container>>
NextGraph ==
  /\ container = "Graph"
  /\ \/ NextStream
     \/ (NextDeepcopy \/ Returned) /\ UNCHANGED <<stream, place>>
  /\ UNCHANGED <<vars, sortedVars, heldVars, container>>
Containers ==
  InitContainers /\ [][NextDict \/ NextSortedDict \/ NextHeldList \/ NextGraph]_<<vars, sortedVars, heldVars, streamVars, container>>
=============================================================================
