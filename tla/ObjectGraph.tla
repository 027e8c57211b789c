---------------------------- MODULE ObjectGraph ----------------------------
(* A graph of objects, the copy that is being made of it, and what it means   *)
(* to be a copy.  Serialization writes and reads the graph, Deepcopy copies   *)
(* it in memory.  An object of the graph is a number; so is the tuple of      *)
(* arguments that __reduce__ returns for an object, which lives at an address *)
(* of its own while somebody holds it; the n-th object made has the number -n.*)
EXTENDS Integers, Sequences, FiniteSets

CONSTANTS
  Graphs,      \* functions from objects to [kind, refs]; 1 is the one to copy
  Temporary    \* the addresses of temporary tuples

VARIABLES
  graph,       \* the graph
  copier,      \* "write" and then "read", or "deepcopy"
  temps,       \* temporary tuples: address -> refs
  frames,      \* the objects under way, innermost first
  memo,        \* write: address -> id; read: id -> made; deepcopy: address -> made
  made,        \* the objects made: kind, refs so far, and how many there will be
  outcome,     \* "running", "value", "error", "badhash" or "overflow"
  result       \* the copy of object 1

copyVars == <<graph, copier, temps, frames, memo, made, outcome, result>>

-----------------------------------------------------------------------------
(* Objects.  A dict's refs alternate between keys and values, as a Dict's do; *)
(* a "reduced" object's are the argument its factory takes and its state.     *)
(* Capitals are typed_python's, whose elements are any objects.               *)

Object == DOMAIN graph

KindOf(x) == CASE x < 0 -> made[-x].kind [] x \in DOMAIN temps -> "tuple" [] OTHER -> graph[x].kind
RefsOf(x) == CASE x < 0 -> made[-x].refs [] x \in DOMAIN temps -> temps[x] [] OTHER -> graph[x].refs

Elements(s) == {s[i] : i \in DOMAIN s}
Keys(x) == {RefsOf(x)[i] : i \in {j \in DOMAIN RefsOf(x) : j % 2 = 1}}

(* What is reached from x, x included, through objects of these kinds.        *)
From(x, kinds) ==
  LET within[n \in 0..(Cardinality(Object) + Len(made))] ==
        IF n = 0 THEN {x}
        ELSE LET near == within[n - 1] IN near \cup UNION {Elements(RefsOf(y)) : y \in {z \in near : KindOf(z) \in kinds}}
  IN within[Cardinality(Object) + Len(made)]

AnyKind == {"named", "list", "tuple", "set", "frozenset", "dict", "cell", "object", "reduced",
          "ListOf", "TupleOf", "Dict", "Class", "Alternative"}

(* x leads back to itself.                                                    *)
OnCycle(x) == \E y \in Elements(RefsOf(x)) : x \in From(y, AnyKind)

(* A tuple and a frozenset hash what they contain, everything else that can   *)
(* be hashed its address.                                                     *)
HashesContent == {"tuple", "frozenset"}
HashParts(x) == From(x, HashesContent)
Whole(x) == x >= 0 \/ Len(made[-x].refs) = made[-x].size
CanHash(x) == \A y \in HashParts(x) : KindOf(y) \in HashesContent => Whole(y)

Hashed(x) == CASE KindOf(x) \in {"set", "frozenset"} -> Elements(RefsOf(x))
               [] KindOf(x) \in {"dict", "Dict"} -> Keys(x)
               [] OTHER -> {}

(* A graph a program can make: it is all reached from object 1, what is       *)
(* hashed can be, what cannot be changed does not contain itself, and the     *)
(* refs of an "object" are its __dict__.                                      *)
PossibleGraph ==
  /\ From(1, AnyKind) = Object
  /\ \A x \in Object : \A y \in Hashed(x) : \A z \in HashParts(y) :
       KindOf(z) \in HashesContent \cup {"named", "reduced"}
  /\ \A x \in Object : LET fixed == HashesContent \cup {"TupleOf", "Alternative"} IN
       KindOf(x) \in fixed => \A y \in Elements(RefsOf(x)) : x \notin From(y, fixed)
  /\ \A x \in Object : KindOf(x) = "object" => KindOf(RefsOf(x)[1]) = "dict"

-----------------------------------------------------------------------------
(* Steps of every copier.  A frame is an object under way: the address or the *)
(* id it goes by, its kind, the object made for it (0: none yet; the writer,  *)
(* which makes none, has here the tuple that it holds), and what is still to  *)
(* be visited.  The outermost is that of the call itself.                     *)

Work(at, kind, self, todo) == [at |-> at, kind |-> kind, self |-> self, todo |-> todo]

NextMade == -(Len(made) + 1)
Unfilled(kind, size) == [kind |-> kind, refs |-> <<>>, size |-> size]

Visiting == outcome = "running" /\ Head(frames).todo # <<>>
Item == Head(Head(frames).todo)
Others == <<[Head(frames) EXCEPT !.todo = Tail(@)]>> \o Tail(frames)
Finished == outcome = "running" /\ Head(frames).todo = <<>>

NewTemporary == CHOOSE a \in Temporary \ DOMAIN temps : \A b \in Temporary \ DOMAIN temps : a <= b

With(known, place, x) == [p \in DOMAIN known \cup {place} |-> IF p = place THEN x ELSE known[p]]

(* What the object under way hashes when it is handed v: a set what it is     *)
(* given, a dict the key when it is given the value.                          *)
HashedNow(frame, v) ==
  CASE frame.kind \in {"set", "frozenset"} -> {v}
    [] frame.kind = "dict" /\ Len(RefsOf(frame.self)) % 2 = 1 -> {RefsOf(frame.self)[Len(RefsOf(frame.self))]}
    [] OTHER -> {}

(* The arguments are there: the factory is called and what it makes is known  *)
(* under the object's place from now on.                                      *)
CallFactory(args, stack, known) ==
  LET frame == Head(stack)
      parts == RefsOf(args)
  IN /\ made' = Append(made, [kind |-> frame.kind, refs |-> parts,
                              size |-> Len(parts) + (IF frame.kind = "reduced" THEN 1 ELSE 0)])
     /\ memo' = With(known, frame.at, NextMade)
     /\ frames' = <<[frame EXCEPT !.self = NextMade]>> \o Tail(stack)
     /\ outcome' = IF frame.kind = "frozenset" /\ \E x \in Elements(parts) : ~CanHash(x)
                   THEN "badhash" ELSE outcome
     /\ UNCHANGED result

(* v is handed to the object that is under way.                               *)
Deliver(v, stack, known) ==
  CASE Head(stack).kind = "call" ->
         /\ result' = v /\ outcome' = "value" /\ frames' = <<>> /\ memo' = known
         /\ UNCHANGED made
    [] Head(stack).kind # "call" /\ Head(stack).self = 0 -> CallFactory(v, stack, known)
    [] OTHER ->
         /\ made' = [made EXCEPT ![-Head(stack).self].refs = Append(@, v)]
         /\ outcome' = IF \E x \in HashedNow(Head(stack), v) : ~CanHash(x) THEN "badhash" ELSE outcome
         /\ memo' = known
         /\ frames' = stack
         /\ UNCHANGED result

Returned == outcome # "running" /\ UNCHANGED copyVars

InitGraph ==
  /\ graph \in Graphs
  /\ copier \in {"write", "deepcopy"}
  /\ temps = <<>>
  /\ frames = <<Work(0, "call", 0, <<1>>)>>
  /\ memo = <<>>
  /\ made = <<>>
  /\ outcome = "running"
  /\ result = 0
  /\ PossibleGraph

-----------------------------------------------------------------------------
(* The objects of the graph and of the copy that take the same place; what is *)
(* reached through an object that is not copied is not either.                *)
Matching ==
  LET zip(p) == {<<RefsOf(p[1])[i], RefsOf(p[2])[i]>> :
                   i \in IF p[2] >= 0 THEN {} ELSE DOMAIN RefsOf(p[1]) \cap DOMAIN RefsOf(p[2])}
      to[n \in 0..(Cardinality(Object) * (Len(made) + 1))] ==
        IF n = 0 THEN {<<1, result>>} ELSE LET near == to[n - 1] IN near \cup UNION {zip(p) : p \in near}
  IN to[Cardinality(Object) * (Len(made) + 1)]

(* The copy has the shape of the graph: where two paths through the graph     *)
(* lead to one object they lead to one copy, except for the kinds whose       *)
(* identity is not kept, and where they lead to two they lead to two copies.  *)
(* Objects of the shared kinds are not copied.                                *)
IsCopy(shared, unkept) ==
  LET M == Matching IN
  /\ \A p \in M :
       /\ KindOf(p[1]) \in shared <=> p[2] >= 0
       /\ p[2] >= 0 => p[1] = p[2]
       /\ KindOf(p[1]) = KindOf(p[2]) /\ Len(RefsOf(p[1])) = Len(RefsOf(p[2]))
  /\ \A p, q \in M : /\ p[2] = q[2] => p[1] = q[1]
                     /\ p[1] = q[1] /\ KindOf(p[1]) \notin unkept => p[2] = q[2]

(* An object that hashes its content and leads to a container that hashes it: *)
(* the container may be there before the content is.                          *)
HashesItself == \E x, y \in Object :
  /\ KindOf(y) \in HashesContent
  /\ \E k \in Hashed(x) : y \in HashParts(k)
  /\ x \in From(y, AnyKind)

(* An object whose factory is given an argument that leads to the object.     *)
ArgumentLeadsBack == \E x \in Object : KindOf(x) = "reduced" /\ x \in From(RefsOf(x)[1], AnyKind)
=============================================================================
