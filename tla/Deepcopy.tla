------------------------------ MODULE Deepcopy ------------------------------
(* deepcopy(): object 1 and all it leads to is copied in memory, by recursion *)
(* with a memo of what has been copied.  Python's own containers are in the   *)
(* memo before their contents are copied, typed_python's after.               *)
EXTENDS ObjectGraph

CONSTANT MaxFrames   \* how deep the recursion goes before the C stack is at its end

Native == {"ListOf", "TupleOf", "Dict", "Class", "Alternative"}
Shared == {"named", "cell", "object"}

Copying(kinds) ==
  /\ copier = "deepcopy" /\ Visiting /\ Len(frames) < MaxFrames
  /\ Item \notin DOMAIN memo /\ KindOf(Item) \in kinds
  /\ UNCHANGED <<graph, copier>>

CopySeen ==
  /\ copier = "deepcopy" /\ Visiting /\ Item \in DOMAIN memo
  /\ Deliver(memo[Item], Others, memo)
  /\ UNCHANGED <<graph, copier, temps>>

(* A type, a module, a function, and what cannot be reduced.                  *)
CopyNot == Copying(Shared) /\ Deliver(Item, Others, memo) /\ UNCHANGED temps

CopyInto(known) ==
  /\ made' = Append(made, Unfilled(KindOf(Item), Len(RefsOf(Item))))
  /\ memo' = known
  /\ frames' = <<Work(Item, KindOf(Item), NextMade, RefsOf(Item))>> \o Others
  /\ UNCHANGED <<temps, outcome, result>>

MutantKnown == memo  \* mutant: Python's containers are entered late, as the others are
Known == With(memo, Item, NextMade)

CopyDict == Copying({"dict"}) /\ CopyInto(Known)
CopyList == Copying({"list"}) /\ CopyInto(Known)
CopyTuple == Copying({"tuple"}) /\ CopyInto(Known)
CopySet == Copying({"set"}) /\ CopyInto(Known)
CopyListOrTupleOf == Copying({"ListOf", "TupleOf"}) /\ CopyInto(memo)
CopyDictOf == Copying({"Dict"}) /\ CopyInto(memo)
CopyClass == Copying({"Class"}) /\ CopyInto(memo)
CopyAlternative == Copying({"Alternative"}) /\ CopyInto(memo)

(* Through __reduce_ex__: first the factory's arguments, then the state.  The *)
(* memo keeps the tuple of arguments.                                         *)
CopyReduced ==
  /\ Copying({"reduced", "frozenset"})
  /\ LET refs == RefsOf(Item)
         args == IF KindOf(Item) = "frozenset" THEN refs ELSE <<refs[1]>>
         state == IF KindOf(Item) = "frozenset" THEN <<>> ELSE <<refs[2]>>
     IN /\ temps' = With(temps, NewTemporary, args)
        /\ frames' = <<Work(Item, KindOf(Item), 0, <<NewTemporary>> \o state)>> \o Others
  /\ UNCHANGED <<memo, made, outcome, result>>

CopyEnd ==
  /\ copier = "deepcopy" /\ Finished
  /\ LET f == Head(frames) IN
     Deliver(f.self, Tail(frames), IF f.kind \in Native THEN With(memo, f.at, f.self) ELSE memo)
  /\ UNCHANGED <<graph, copier, temps>>

Overflow ==
  /\ copier = "deepcopy" /\ Visiting /\ Len(frames) = MaxFrames
  /\ Item \notin DOMAIN memo
  /\ outcome' = "overflow"
  /\ UNCHANGED <<graph, copier, temps, frames, memo, made, result>>

NextDeepcopy ==
  \/ CopySeen \/ CopyNot \/ CopyDict \/ CopyList \/ CopyTuple \/ CopySet \/ CopyListOrTupleOf
  \/ CopyDictOf \/ CopyClass \/ CopyAlternative \/ CopyReduced \/ CopyEnd \/ Overflow

-----------------------------------------------------------------------------
(* A copy of the same shape is made, with every sharing and cycle, of all but *)
(* what is shared, unless one of the containers that enter the memo late, or  *)
(* a factory's argument, leads back to itself, or an object that a container  *)
(* hashes to the container.                                                   *)
CopiesDeeply ==
  /\ copier = "deepcopy" /\ outcome # "running"
  /\ ~HashesItself /\ ~ArgumentLeadsBack
  /\ ~\E x \in Object : KindOf(x) \in Native \cup {"frozenset"} /\ OnCycle(x)
  => outcome = "value" /\ IsCopy(Shared, {})
=============================================================================
