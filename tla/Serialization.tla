--------------------------- MODULE Serialization ---------------------------
(* PythonSerializationContext: object 1 and all it leads to is written into a *)
(* stream and built again from the stream.  Both sides number the objects in  *)
(* the order in which they come; the reader must know an object under its     *)
(* number by the time that the stream first refers to it.                     *)
EXTENDS ObjectGraph

VARIABLES
  stream,   \* what has been written
  place     \* the next piece of it to be read

streamVars == <<copyVars, stream, place>>

(* A piece of the stream: the start of an object ("new", and "plain" for one  *)
(* without a number), its end, a name, or the number of an object seen before.*)
Piece(word, id, kind, size) == [word |-> word, id |-> id, kind |-> kind, size |-> size]

InitStream == InitGraph /\ stream = <<>> /\ place = 0

-----------------------------------------------------------------------------
(* The writer.                                                                *)

Writing(kinds) == copier = "write" /\ Visiting /\ Item \notin DOMAIN memo /\ KindOf(Item) \in kinds
Write(piece) == stream' = Append(stream, piece) /\ UNCHANGED <<graph, copier, made, outcome, result, place>>

NextId == Cardinality(DOMAIN memo)
Begin(held, todo) ==
  /\ Write(Piece("new", NextId, KindOf(Item), Len(todo)))
  /\ memo' = With(memo, Item, NextId)
  /\ frames' = <<Work(Item, KindOf(Item), held, todo)>> \o Others

WriteSeen ==
  /\ copier = "write" /\ Visiting /\ Item \in DOMAIN memo
  /\ Write(Piece("ref", memo[Item], "", 0))
  /\ frames' = Others
  /\ UNCHANGED <<memo, temps>>

WriteName ==
  /\ Writing({"named"})
  /\ Write(Piece("name", NextId, Item, 0))
  /\ memo' = With(memo, Item, NextId)
  /\ frames' = Others
  /\ UNCHANGED temps

WriteIterable == Writing({"list", "tuple", "set", "frozenset"}) /\ Begin(0, RefsOf(Item)) /\ UNCHANGED temps
WriteDict == Writing({"dict"}) /\ Begin(0, RefsOf(Item)) /\ UNCHANGED temps
WriteCell == Writing({"cell"}) /\ Begin(0, RefsOf(Item)) /\ UNCHANGED temps
WriteTypeAndDict == Writing({"object"}) /\ Begin(0, RefsOf(Item)) /\ UNCHANGED temps
WriteListOf == Writing({"ListOf"}) /\ Begin(0, RefsOf(Item)) /\ UNCHANGED temps
WriteDictOf == Writing({"Dict"}) /\ Begin(0, RefsOf(Item)) /\ UNCHANGED temps
WriteClass == Writing({"Class"}) /\ Begin(0, RefsOf(Item)) /\ UNCHANGED temps

(* The tuple of arguments was made for the purpose and is dropped in the end. *)
WriteRepresentation ==
  /\ Writing({"reduced"})
  /\ temps' = With(temps, NewTemporary, <<RefsOf(Item)[1]>>)
  /\ Begin(NewTemporary, <<NewTemporary, RefsOf(Item)[2]>>)

WritePlain(kind) ==
  /\ Writing({kind})
  /\ Write(Piece("plain", 0, kind, Len(RefsOf(Item))))
  /\ frames' = <<Work(Item, kind, 0, RefsOf(Item))>> \o Others
  /\ UNCHANGED <<memo, temps>>
WriteTupleOf == WritePlain("TupleOf")
WriteAlternative == WritePlain("Alternative")

(* cachePointer holds what it has numbered.                                   *)
MutantKept == {}  \* mutant: no incref, so that a later tuple may take the address
Kept == DOMAIN memo

Dropped == {Head(frames).self} \ Kept
WriteEnd ==
  /\ copier = "write" /\ Finished /\ Head(frames).kind # "call"
  /\ Write(Piece("end", 0, "", 0))
  /\ frames' = Tail(frames)
  /\ temps' = [a \in DOMAIN temps \ Dropped |-> temps[a]]
  /\ UNCHANGED memo

(* The stream is complete; somebody, perhaps elsewhere, reads it.             *)
StartReading ==
  /\ copier = "write" /\ Finished /\ Head(frames).kind = "call"
  /\ copier' = "read" /\ place' = 1
  /\ memo' = <<>> /\ temps' = <<>>
  /\ UNCHANGED <<graph, frames, made, outcome, result, stream>>

-----------------------------------------------------------------------------
(* The reader.                                                                *)

Next1 == stream[place]
Reading(word) ==
  /\ copier = "read" /\ outcome = "running" /\ Next1.word = word
  /\ place' = place + 1
  /\ UNCHANGED <<graph, copier, temps, stream>>

(* lookupCachedPointer; nothing else in the message could give a result.      *)
ReadSeen ==
  /\ Reading("ref")
  /\ IF Next1.id \in DOMAIN memo THEN Deliver(memo[Next1.id], frames, memo)
     ELSE outcome' = "error" /\ UNCHANGED <<frames, memo, made, result>>

ReadName == Reading("name") /\ Deliver(Next1.kind, frames, With(memo, Next1.id, Next1.kind))

(* An empty one is made, of the size to be, and is known from now on.         *)
Early(kinds) ==
  /\ Reading("new") /\ Next1.kind \in kinds
  /\ made' = Append(made, Unfilled(Next1.kind, Next1.size))
  /\ memo' = With(memo, Next1.id, NextMade)
  /\ frames' = <<Work(Next1.id, Next1.kind, NextMade, <<>>)>> \o frames
  /\ UNCHANGED <<outcome, result>>
ReadIndexable == Early({"list", "tuple"})
ReadSet == Early({"set"})
ReadFrozenSet == Early({"frozenset"})
ReadDict == Early({"dict"})
ReadCell == Early({"cell"})
ReadTypeAndDict == Early({"object"})
ReadListOf == Early({"ListOf"})
ReadDictOf == Early({"Dict"})
ReadClass == Early({"Class"})

(* First its arguments are read.                                              *)
ReadRepresentation ==
  /\ Reading("new") /\ Next1.kind = "reduced"
  /\ frames' = <<Work(Next1.id, "reduced", 0, <<>>)>> \o frames
  /\ UNCHANGED <<made, memo, outcome, result>>

ReadPlain ==
  /\ Reading("plain")
  /\ made' = Append(made, Unfilled(Next1.kind, Next1.size))
  /\ frames' = <<Work(0, Next1.kind, NextMade, <<>>)>> \o frames
  /\ UNCHANGED <<memo, outcome, result>>

(* A Dict's table of hashes is built when all of its items are there.         *)
BadTable(x) == KindOf(x) = "Dict" /\ \E k \in Keys(x) : ~CanHash(k)
ReadEnd ==
  /\ Reading("end")
  /\ IF BadTable(Head(frames).self)
     THEN outcome' = "badhash" /\ UNCHANGED <<frames, memo, made, result>>
     ELSE Deliver(Head(frames).self, Tail(frames), memo)

NextStream ==
  \/ WriteSeen \/ WriteName \/ WriteIterable \/ WriteDict \/ WriteCell \/ WriteRepresentation
  \/ WriteTypeAndDict \/ WriteListOf \/ WriteTupleOf \/ WriteDictOf \/ WriteClass \/ WriteAlternative
  \/ WriteEnd \/ StartReading
  \/ ReadSeen \/ ReadName \/ ReadIndexable \/ ReadSet \/ ReadFrozenSet \/ ReadDict \/ ReadCell
  \/ ReadRepresentation \/ ReadTypeAndDict \/ ReadListOf \/ ReadDictOf \/ ReadClass \/ ReadPlain
  \/ ReadEnd

-----------------------------------------------------------------------------
(* What is read from the stream is a copy of what was written: of the same    *)
(* shape with every sharing and cycle, through the temporary tuples of        *)
(* __reduce__ whose addresses others take.  A TupleOf's and an Alternative's  *)
(* identity is not kept; an object that a container hashes must not lead to   *)
(* the container, nor a factory's argument to what the factory makes.         *)
ReadsBack ==
  copier = "read" /\ outcome # "running" /\ ~HashesItself /\ ~ArgumentLeadsBack =>
    outcome = "value" /\ IsCopy({"named"}, {"TupleOf", "Alternative"})
=============================================================================
