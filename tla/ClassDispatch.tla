---------------------------- MODULE ClassDispatch ---------------------------
(***************************************************************************)
(* How compiled code calls methods (HeldClassType.hpp, class_wrapper.py).  *)
(* For every class and each of its ancestors there is a table: one array   *)
(* of function pointers, a slot for each signature that some compiled code *)
(* calls through the ancestor.  The same signature has the same slot in    *)
(* the tables of all classes that implement the ancestor.  A slot starts   *)
(* out null, and the first call through it compiles the method.            *)
(*                                                                         *)
(* Tables change under the GIL only, but calls read them without: an array *)
(* that is too small is replaced, and the old one is left to the readers.  *)
(* Slots are numbered from 1 here.                                         *)
(***************************************************************************)
EXTENDS Integers, Sequences

CONSTANTS
  Class,      \* the classes there can be
  Ancestors,  \* [Class -> SUBSET Class], each class among its own
  Signature   \* what their methods can be called with: a name and types

ASSUME AncestorsAssumption ==
  /\ Ancestors \in [Class -> SUBSET Class]
  /\ \A c \in Class : c \in Ancestors[c] /\ \A d \in Ancestors[c] : Ancestors[d] \subseteq Ancestors[c]

VARIABLES
  tables,   \* [<<class, ancestor>> -> [slots, arrays, needing]], classes that exist
  slotOf,   \* the slot in each call site that is linked, a site being <<interface, signature>>
  gil,      \* who is adding a slot to the tables, under the GIL
  reading,  \* what each thread's compiled code is doing
  called,   \* the calls made: [site, class, pending, pointer]
  thrown    \* the internal errors thrown

dispatchVars == <<tables, slotOf, gil, reading, called, thrown>>

\* What a slot holds: nothing, whatever malloc left there, or a compiled method.
Null == <<>>
Garbage == <<"garbage">>
Method(c, sig) == <<c, sig>>

Exists(c) == <<c, c>> \in DOMAIN tables
Implementors(i) == {c \in Class : Exists(c) /\ i \in Ancestors[c]}
Current(table) == table.arrays[Len(table.arrays)]
SlotsOf(table, sig) == {s \in DOMAIN table.slots : table.slots[s] = sig}

Nobody == [busy |-> FALSE]
Idle == [at |-> "idle"]

\* initialize, of a class's own table and of those that copy an ancestor's.
NewTable == [slots |-> <<>>, arrays |-> <<<<>>>>, needing |-> {}]
CopyFor(table) ==
  [slots   |-> table.slots,
   arrays  |-> <<[s \in DOMAIN Current(table) |-> IF s \in DOMAIN table.slots THEN Null ELSE Garbage]>>,
   needing |-> DOMAIN table.slots]
MutantWithClass(old, c) ==
  [p \in DOMAIN old \cup {<<c, i>> : i \in Ancestors[c]} |-> IF p \in DOMAIN old THEN old[p] ELSE NewTable]
WithClass(old, c) ==
  [p \in DOMAIN old \cup {<<c, i>> : i \in Ancestors[c]} |->
     IF p \in DOMAIN old THEN old[p] ELSE IF p = <<c, c>> THEN NewTable ELSE CopyFor(old[<<p[2], p[2]>>])]

\* The threads, and the classes that are there from the beginning.
InitDispatch(ts, cs) ==
  /\ tables = [p \in UNION {{c} \X Ancestors[c] : c \in cs} |-> NewTable]
  /\ slotOf = [s \in {} |-> 0] /\ gil = Nobody
  /\ reading = [t \in ts |-> Idle] /\ called = {} /\ thrown = {}

Unheld == ~gil.busy

\* A class is made of its bases, which are there.
MakeClass(c) ==
  /\ \A d \in Ancestors[c] \ {c} : Exists(d)
  /\ tables' = IF Exists(c) THEN tables ELSE WithClass(tables, c)
  /\ UNCHANGED <<slotOf, gil, reading, called, thrown>>

-----------------------------------------------------------------------------
(* HeldClass::allocateMethodDispatch: the interface's own table first, and *)
(* then those of its implementors, itself among them.  Compiled code runs  *)
(* between any two writes.                                                 *)

Allocate(t, site) ==
  /\ Unheld /\ Exists(site[1])
  /\ gil' = [busy |-> TRUE, thread |-> t, site |-> site, now |-> site[1],
             todo |-> Implementors(site[1]), slot |-> 0]
  /\ UNCHANGED <<tables, slotOf, reading, called, thrown>>

Adding(t) == gil.busy /\ gil.thread = t
Here == <<gil.now, gil.site[1]>>
Known == SlotsOf(tables[Here], gil.site[2]) # {}
Full(table) == Len(table.slots) >= Len(Current(table))

\* A bigger array with the old one's pointers is published, the rest of it not
\* written yet.  The old array stays.
MutantGrown(table) ==  \* tp_realloc instead
  LET old == Current(table)
      new == [s \in 1 .. (Len(old) + 1) * 2 |-> IF s \in DOMAIN table.slots THEN old[s] ELSE Garbage]
  IN  [table EXCEPT !.arrays = Append([n \in DOMAIN @ |-> [s \in DOMAIN @[n] |-> Garbage]], new)]
Grown(table) ==
  LET old == Current(table)
      new == [s \in 1 .. (Len(old) + 1) * 2 |-> IF s \in DOMAIN table.slots THEN old[s] ELSE Garbage]
  IN  [table EXCEPT !.arrays = Append(@, new)]
Grow(t) ==
  /\ Adding(t) /\ ~Known /\ Full(tables[Here])
  /\ tables' = [tables EXCEPT ![Here] = Grown(@)]
  /\ UNCHANGED <<slotOf, gil, reading, called, thrown>>

Added(table, sig) ==
  LET s == Len(table.slots) + 1
  IN  [table EXCEPT !.slots = Append(@, sig),
                    !.arrays[Len(table.arrays)][s] = Null,
                    !.needing = @ \cup {s}]
AddSlot(t) ==
  /\ Adding(t) /\ ~Known /\ ~Full(tables[Here])
  /\ tables' = [tables EXCEPT ![Here] = Added(@, gil.site[2])]
  /\ UNCHANGED <<slotOf, gil, reading, called, thrown>>

\* On to the next table, or to the end, where the call site gets its slot.
NextTable(t) ==
  LET s == CHOOSE x \in SlotsOf(tables[Here], gil.site[2]) : TRUE
      slot == IF gil.slot = 0 THEN s ELSE gil.slot
  IN  /\ Adding(t) /\ Known
      /\ \/ \E c \in gil.todo : gil' = [gil EXCEPT !.now = c, !.todo = @ \ {c}, !.slot = slot] /\ UNCHANGED slotOf
         \/ /\ gil.todo = {} /\ gil' = Nobody
            /\ slotOf' = [x \in DOMAIN slotOf \cup {gil.site} |-> IF x = gil.site THEN slot ELSE slotOf[x]]
      /\ thrown' = IF s = slot THEN thrown ELSE thrown \cup {"Corrupted Dispatch Tables!"}
      /\ UNCHANGED <<tables, reading, called>>

\* ClassDispatchTable::define, from installClassMethodDispatch.
Defined(table, s, f) ==
  [table EXCEPT !.arrays[Len(table.arrays)][s] = f, !.needing = @ \ {s}]
Install(p, s, f) ==
  /\ Unheld
  /\ IF Current(tables[p])[s] = f THEN UNCHANGED <<tables, thrown>>
     ELSE IF s \notin tables[p].needing THEN thrown' = thrown \cup {"twice"} /\ UNCHANGED tables
     ELSE tables' = [tables EXCEPT ![p] = Defined(@, s, f)] /\ UNCHANGED thrown
  /\ UNCHANGED <<slotOf, gil, called>>

-----------------------------------------------------------------------------
(* A method call in compiled code: the table's array is loaded and then    *)
(* the slot, to see whether it is null, and both again for the call.       *)

Invoke(t, site, c, pending) ==
  /\ reading' = [reading EXCEPT ![t] =
       [at |-> "table", round |-> "test", site |-> site, class |-> c, pending |-> pending, array |-> 0, failed |-> FALSE]]
  /\ UNCHANGED <<tables, slotOf, gil, called, thrown>>

TableOf(r) == <<r.class, r.site[1]>>
LoadTable(t) ==
  /\ reading[t].at = "table"
  /\ reading' = [reading EXCEPT ![t].at = "slot", ![t].array = Len(tables[TableOf(reading[t])].arrays)]
  /\ UNCHANGED <<tables, slotOf, gil, called, thrown>>

\* Past the end of an array is memory of something else.
Loaded(r) ==
  LET a == tables[TableOf(r)].arrays[r.array]
      s == slotOf[r.site]
  IN  IF s \in DOMAIN a THEN a[s] ELSE Garbage
MutantAgain(r) == [r EXCEPT !.at = "table"]
Again(r) == [r EXCEPT !.at = "table", !.round = "call"]
LoadSlot(t) ==
  LET r == reading[t]
      f == Loaded(r)
  IN  /\ r.at = "slot"
      /\ IF r.round = "test"
           THEN /\ reading' = [reading EXCEPT ![t] = IF f = Null THEN [r EXCEPT !.at = "compile"] ELSE Again(r)]
                /\ UNCHANGED called
           ELSE /\ reading' = [reading EXCEPT ![t] = Idle]
                /\ called' = called \cup {[site |-> r.site, class |-> r.class, pointer |-> f, failed |-> r.failed]}
      /\ UNCHANGED <<tables, slotOf, gil, thrown>>

-----------------------------------------------------------------------------
(* Properties.                                                             *)

\* Compiled code that calls a signature through an interface enters the method
\* of the object's own class for it, whatever slots are added and arrays are
\* replaced between its loads; but see np_compileClassDispatch, which returns
\* without a method when it fails while another exception is pending.
CallsRight ==
  \A x \in called : x.pointer = Method(x.class, x.site[2]) \/ (x.failed /\ x.pointer = Null)

\* When nobody is adding slots, all classes that implement an interface have
\* its slots in the same order, what needs to be compiled is what is null, and
\* the checks of the code for this never fire.
SlotsAgree ==
  /\ thrown = {}
  /\ Unheld => \A p \in DOMAIN tables :
       /\ tables[p].slots = tables[<<p[2], p[2]>>].slots
       /\ tables[p].needing = {s \in DOMAIN tables[p].slots : Current(tables[p])[s] = Null}
=============================================================================
