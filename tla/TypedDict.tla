----------------------------- MODULE TypedDict -----------------------------
(***************************************************************************)
(* DictType.cpp, PyDictInstance.cpp and the compiled dict operations of    *)
(* hash_table_implementation.py over one table.  Set is the same without   *)
(* values.  Each operation runs with the GIL held, as one action; keys and *)
(* values are plain data, so destroying one runs no other code.            *)
(***************************************************************************)
EXTENDS HashTable

CONSTANTS
    Iter,        \* iterator objects the program may hold
    MaxTop,      \* bound: no insertion once the item table's top is there ...
    FewKeys,     \* ... unless the dict has only keys of this set
    IterTop      \* bound on the arrays, and FewKeys on the keys, under an iterator

ASSUME DictAssumption == {MaxTop, IterTop} \subseteq Nat /\ FewKeys \subseteq Key

VARIABLES
    table,
    dict, order, \* what a Python dict would hold by now: the mapping, and its
                 \* keys in insertion order
    iter,        \* per iterator: where it is and what it has yielded
    broken       \* an exception was thrown that reports a broken table

vars == <<table, dict, order, iter, broken>>

Kinds == {"none", "interpreted", "compiled"}
Unused == [kind |-> "none", offset |-> 0, size |-> 0,
           seen |-> << >>, live |-> TRUE, moved |-> FALSE, stale |-> FALSE, done |-> FALSE]

TypeOK ==
    /\ table.items \in [Below(table.reserved) ->
                          [key : Key \cup {NoKey}, value : Value \cup {NoValue}]]
    /\ table.slots \in [Below(table.size) ->
                          {EMPTY, DELETED} \cup Below(table.reserved)]
    /\ table.hashes \in [Below(table.size) -> {EMPTY} \cup {Hash[k] : k \in Key}]
    /\ table.populated \subseteq Below(table.reserved)
    /\ table.top \in 0..table.reserved
    /\ table.slotsNull => table.size = 0
    /\ table.itemsNull => table.reserved = 0
    /\ \A i \in Iter : /\ iter[i].kind \in Kinds
                       /\ iter[i].offset \in Int /\ iter[i].size \in Nat
                       /\ iter[i].seen \in Seq(Key \cup {NoKey})
                       /\ {iter[i].live, iter[i].moved, iter[i].stale, iter[i].done} \subseteq BOOLEAN
    /\ broken \in BOOLEAN
    /\ DOMAIN dict \subseteq Key /\ order \in Seq(Key)

Init ==
    /\ table = NewTable
    /\ dict = << >> /\ order = << >>
    /\ iter = [i \in Iter |-> Unused]
    /\ broken = FALSE

\* The keys and where they are.
Layout(t) == [s \in t.populated |-> t.items[s].key]

Iterating(i) == iter[i].kind # "none" /\ ~iter[i].done

\* The bounds on what may be inserted.
InBounds(k) ==
    /\ table.top < MaxTop \/ DOMAIN dict \cup {k} \subseteq FewKeys
    /\ (\E i \in Iter : Iterating(i)) => table.top < IterTop /\ k \in FewKeys

\* Replace the table.  What the iterators in use have seen happen: items that
\* moved, and (stale) keys that came or went.
Change(t) ==
    /\ table' = t
    /\ iter' = [i \in Iter |-> [iter[i] EXCEPT
                  !.moved = @ \/ (Iterating(i) /\ Layout(t) # Layout(table)),
                  !.stale = @ \/ (Iterating(i) /\ Range(Layout(t)) # Range(Layout(table)))]]

-----------------------------------------------------------------------------
(* Writing.                                                                *)

Put(k, v) ==
    /\ dict' = [j \in DOMAIN dict \cup {k} |-> IF j = k THEN v ELSE dict[j]]
    /\ order' = IF k \in DOMAIN dict THEN order ELSE Append(order, k)

\* Assign to the value that is there, or insert the key: make its item slot,
\* enter it in the hash table, then construct the item.
SetItem(k, v) ==
    LET found == Find(table, k)
        roomy == NewSlot(table)
        slot  == roomy.top - 1
    IN  /\ found >= 0 \/ InBounds(k)
        /\ Change(IF found >= 0
                  THEN [table EXCEPT !.items[found].value = v]
                  ELSE [Add(roomy, Hash[k], slot) EXCEPT
                          !.items[slot] = [key |-> k, value |-> v]])
        /\ Put(k, v)
        /\ UNCHANGED broken

\* del d[k], d.pop(k), s.discard(k): the key need not be there.  A compression
\* that meets a corrupt slot throws.
DeleteKey(k) ==
    IF ~table.slotsNull /\ Sparse(table) /\ Corrupt(table)
    THEN broken' = TRUE /\ UNCHANGED <<table, dict, order, iter>>
    ELSE /\ Change(Removed(table, k))
         /\ dict' = [j \in DOMAIN dict \ {k} |-> dict[j]]
         /\ order' = RemoveFirst(order, k)
         /\ UNCHANGED broken

Clear ==
    /\ Change(Cleared(table))
    /\ dict' = << >> /\ order' = << >>
    /\ UNCHANGED broken

\* The program goes on with a copy and drops the original.
GoOnWith(t) ==
    /\ \A i \in Iter : iter[i].kind = "none"
    /\ Change(t)
    /\ UNCHANGED <<dict, order, broken>>

Copy     == GoOnWith(Copied(table))
DeepCopy == GoOnWith(DeepCopied(table))

\* serialize throws when it has not written as many items as the table counts.
Reload ==
    IF Cardinality(table.populated) # table.count
    THEN broken' = TRUE /\ UNCHANGED <<table, dict, order, iter>>
    ELSE GoOnWith(Reloaded(table))

-----------------------------------------------------------------------------
(* Iterating.                                                              *)

\* The first populated item slot from offset on, reserved if there is none.
NextPopulated(t, offset) ==
    LET later == {s \in t.populated : s >= offset}
    IN  IF later = {} THEN t.reserved ELSE CHOOSE s \in later : \A r \in later : s <= r

NewIterator(i, kind) ==
    /\ iter[i].kind = "none" \/ iter[i].done
    /\ table.reserved <= IterTop /\ table.size <= IterTop /\ DOMAIN dict \subseteq FewKeys
    /\ iter' = [iter EXCEPT ![i] =
                  [Unused EXCEPT !.kind = kind, !.size = table.count,
                                 !.offset = IF kind = "compiled" THEN -1 ELSE 0]]
    /\ UNCHANGED <<table, dict, order, broken>>

\* seen is kept while the keys stay the same, live to the end.
Yield(i, slot, offset) ==
    iter' = [iter EXCEPT ![i].offset = offset,
                         ![i].live = @ /\ slot \in table.populated,
                         ![i].seen = IF iter[i].stale THEN << >>
                                     ELSE Append(@, table.items[slot].key)]

\* A finished iterator is as good as none.
Finish(i) == iter' = [iter EXCEPT ![i] = [Unused EXCEPT !.done = TRUE]]

\* tp_iternext of the interpreter: the offset was advanced to a populated slot
\* by the call before (offset 0 by this one).
MutantIterNext(i) ==                      \* mutant: the first call does not advance
    LET it == iter[i] IN
    /\ it.kind = "interpreted" /\ ~it.done
    /\ IF table.count # it.size \/ it.offset >= table.reserved
       THEN Finish(i)
       ELSE Yield(i, it.offset, NextPopulated(table, it.offset + 1))
    /\ UNCHANGED <<table, dict, order, broken>>

IterNext(i) ==
    LET it    == iter[i]
        start == IF it.offset = 0 THEN NextPopulated(table, 0) ELSE it.offset
    IN  /\ it.kind = "interpreted" /\ ~it.done
        /\ IF table.count # it.size \/ start >= table.reserved
           THEN Finish(i)
           ELSE Yield(i, start, NextPopulated(table, start + 1))
        /\ UNCHANGED <<table, dict, order, broken>>

\* The compiled loop looks for the next slot when it needs it.
MutantFastNext(i) ==                  \* mutant: yields the slot found before
    LET it   == iter[i]
        slot == IF it.offset = -1 THEN NextPopulated(table, 0) ELSE it.offset
    IN  /\ it.kind = "compiled" /\ ~it.done
        /\ IF table.count # it.size \/ slot >= table.reserved
           THEN Finish(i) ELSE Yield(i, slot, NextPopulated(table, slot + 1))
        /\ UNCHANGED <<table, dict, order, broken>>

FastNext(i) ==
    LET it   == iter[i]
        slot == NextPopulated(table, it.offset + 1)
    IN  /\ it.kind = "compiled" /\ ~it.done
        /\ IF table.count # it.size \/ slot >= table.reserved
           THEN Finish(i) ELSE Yield(i, slot, slot)
        /\ UNCHANGED <<table, dict, order, broken>>

Next ==
    \/ \E k \in Key : (\E v \in Value : SetItem(k, v)) \/ DeleteKey(k)
    \/ Clear \/ Copy \/ DeepCopy \/ Reload
    \/ \E i \in Iter : \/ \E kind \in Kinds \ {"none"} : NewIterator(i, kind)
                       \/ IterNext(i) \/ FastNext(i)

Spec == Init /\ [][Next]_vars

-----------------------------------------------------------------------------
(* Properties.                                                             *)

\* The mapping that look-ups see.
Contents ==
    LET present == {k \in Key : Find(table, k) >= 0}
    IN  [k \in present |-> table.items[Find(table, k)].value]

\* compressItemTable never throws its errors about corrupt slots, nor
\* serialize its error about an invalid hash table.
NotBroken == ~broken

\* hash_table_layout::checkInvariants: the two tables and the counters agree,
\* so that no operation meets a table it reports as broken.
Consistent ==
    /\ TypeOK /\ NotBroken
    /\ \A s \in table.populated : s < table.top
    /\ Cardinality(table.populated) = table.count
    /\ Cardinality(FilledAt(table)) = table.count
    /\ {table.slots[i] : i \in FilledAt(table)} \subseteq table.populated
    /\ table.empty = Cardinality(EmptyAt(table))

\* Every look-up stops, for keys that are there and keys that are not: no
\* sequence of operations fills the table with DELETED or leaves it empty.
FindStops == \A k \in Key : Find(table, k) # Lost

\* The compiled loop yields only items that are alive, even when keys are
\* added and deleted around it.
CompiledYieldsLive == \A i \in Iter : iter[i].kind = "compiled" => iter[i].live

\* An item slot holds a constructed item exactly while it is populated, so
\* items are neither leaked, nor destroyed twice, nor used after destruction,
\* not by the compiled loop either.
ItemsAreOwned ==
    /\ CompiledYieldsLive
    /\ \A s \in Below(table.reserved) :
          IF s \in table.populated THEN table.items[s].key \in Key /\ table.items[s].value \in Value
          ELSE table.items[s] = Raw

\* However many keys come and go, the item table stays in proportion to the
\* largest number of keys: deleted items are given back by compression.
ItemTableBounded ==
    DOMAIN dict \subseteq FewKeys => table.reserved <= 5 * Cardinality(FewKeys) + 11

\* Whatever the table does inside (grow, shrink, compress, reuse a deleted
\* slot), look-ups stop and see what Python's dict promises.
ActsAsDict == FindStops /\ Contents = dict

\* The call that ends iterator i, by exhaustion and not by RuntimeError.
Ends(i) == ~iter[i].done /\ iter'[i].done /\ iter[i].size = table.count

\* An iterator that ends over a table whose items stayed where they were has
\* yielded every key, in the order the keys were inserted.
IterationIsComplete ==
    [][\A i \in Iter : Ends(i) /\ ~iter[i].moved => iter[i].seen = order]_vars

\* The interpreter's iterator yields only items that are alive.
YieldsLive == \A i \in Iter : iter[i].live
=============================================================================
