---------------------------- MODULE ForwardTypes ----------------------------
(***************************************************************************)
(* The graph of types while forwards are being defined (ForwardType.hpp,   *)
(* Type.cpp).  A type is made with what it refers to; a Forward stands for *)
(* a type that does not exist yet.  Each type keeps the undefined forwards *)
(* it refers to, through any number of other types, and each forward the   *)
(* types that do; nothing ever walks the graph to find them out.  A type   *)
(* can be used once it refers to none.                                     *)
(*                                                                         *)
(* A graph is a function from types to records; the kinds are "forward",   *)
(* "tuple", which contains what it refers to, and "class", which does not. *)
(***************************************************************************)
EXTENDS Integers, FiniteSets

Undefined == <<>>  \* no type

IsForward(graph, t) == graph[t].kind = "forward"
UndefinedForward(graph, t) == IsForward(graph, t) /\ graph[t].target = Undefined

NewForward == [kind |-> "forward", target |-> Undefined, users |-> {}]

\* What a type stands for: past the forwards that have a target.
Chased(graph, t) ==
  LET chase[x \in DOMAIN graph] ==
        IF IsForward(graph, x) /\ graph[x].target # Undefined THEN chase[graph[x].target] ELSE x
  IN  chase[t]

ReferencedForwards(graph, t) == IF IsForward(graph, t) THEN {} ELSE graph[t].referenced
ContainedForwards(graph, t) == IF IsForward(graph, t) THEN {} ELSE graph[t].contained

\* endOfConstructorInitialization of a new type; it throws when a type it
\* refers to refers to a forward that has been defined.
Subtypes(graph, uses) == {Chased(graph, t) : t \in uses}
Forwards(graph, subs) == {t \in subs : IsForward(graph, t)}
Referenced(graph, subs) == Forwards(graph, subs) \cup UNION {ReferencedForwards(graph, t) : t \in subs}
Contained(graph, subs) == Forwards(graph, subs) \cup UNION {ContainedForwards(graph, t) : t \in subs}
CanMake(graph, uses) == \A f \in Referenced(graph, Subtypes(graph, uses)) : UndefinedForward(graph, f)
Make(graph, id, kind, uses) ==
  LET subs == Subtypes(graph, uses)
      refs == Referenced(graph, subs)
      new  == [kind |-> kind, subs |-> subs, referenced |-> refs,
               contained |-> IF kind = "tuple" THEN Contained(graph, subs) ELSE {},
               resolved |-> refs = {}]
  IN  [t \in DOMAIN graph \cup {id} |->
         IF t = id THEN new
         ELSE IF t \in refs THEN [graph[t] EXCEPT !.users = @ \cup {id}]
         ELSE graph[t]]

\* forwardResolvedTo: what a type that refers to f becomes when f is defined.
Resolved(graph, user, f, target) ==
  LET u == graph[user]
      refs == (u.referenced \ {f}) \cup
              (IF IsForward(graph, target) THEN {target} ELSE ReferencedForwards(graph, target) \ {f})
  IN  [u EXCEPT
        !.subs = {IF t = f THEN target ELSE t : t \in @},
        !.contained = IF f \in @ THEN (@ \ {f}) \cup (ContainedForwards(graph, target) \ {f}) ELSE @,
        !.referenced = refs,
        !.resolved = @ \/ refs = {}]

\* The users of f become users of what its target refers to.  When the target
\* is a forward, nobody is marked as a user of that.
MutantNowUsers(graph, f, target, t) == {}
NowUsers(graph, f, target, t) ==
  IF ~IsForward(graph, target) /\ t \in graph[target].referenced \ {f} THEN graph[f].users ELSE {}

\* Forward::define(to), of an f that has no target yet.  Not modelled: a target
\* that itself refers to a forward defined before, where it throws half way.
CanDefine(graph, f, to) ==
  LET target == Chased(graph, to)
  IN  target # f /\ f \notin ContainedForwards(graph, target)
Define(graph, f, to) ==
  LET target == Chased(graph, to)
  IN  [t \in DOMAIN graph |->
         IF t = f THEN [graph[f] EXCEPT !.target = target, !.users = {}]
         ELSE IF IsForward(graph, t) THEN [graph[t] EXCEPT !.users = @ \cup NowUsers(graph, f, target, t)]
         ELSE IF t \in graph[f].users THEN Resolved(graph, t, f, target)
         ELSE graph[t]]

-----------------------------------------------------------------------------
(* What the graph says by itself.                                          *)

\* What a type refers to, and what it contains.
Refers(graph, t) ==
  IF IsForward(graph, t) THEN {graph[t].target} \ {Undefined} ELSE graph[t].subs
Contains(graph, t) == IF graph[t].kind = "class" THEN {} ELSE Refers(graph, t)

\* All that can be got to from some types by Step.
Closure(graph, types, Step(_, _)) ==
  LET reach[n \in 0 .. Cardinality(DOMAIN graph)] ==
        IF n = 0 THEN types ELSE reach[n - 1] \cup UNION {Step(graph, s) : s \in reach[n - 1]}
  IN  reach[Cardinality(DOMAIN graph)]

UndefinedAmong(graph, types) == {f \in types : UndefinedForward(graph, f)}
Incomplete(graph, t) == UndefinedAmong(graph, Closure(graph, {t}, Refers))

\* The books are right for a type: it has the forwards it refers to and those
\* it contains, they have it, it is resolved when there are none, and it does
\* not contain itself.
BooksAgree(graph, t) ==
  /\ graph[t].referenced = Incomplete(graph, t)
  /\ graph[t].contained = UndefinedAmong(graph, Closure(graph, Contains(graph, t), Contains))
  /\ \A f \in graph[t].referenced : t \in graph[f].users
  /\ graph[t].resolved = (graph[t].referenced = {})
  /\ t \notin Closure(graph, Contains(graph, t), Contains)
=============================================================================
