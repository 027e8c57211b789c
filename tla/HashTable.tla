----------------------------- MODULE HashTable -----------------------------
(***************************************************************************)
(* hash_table_layout.hpp: the open-addressing table behind Dict and Set,   *)
(* as operators on a record.  Items live in an item table in insertion     *)
(* order; the hash table proper maps a probe sequence to item slots.  The  *)
(* compiled code of hash_table_implementation.py works on the same memory  *)
(* with the same steps.                                                    *)
(***************************************************************************)
EXTENDS Integers, FiniteSets, Sequences, SequencesExt

CONSTANTS
    Key, Value,
    NoKey, NoValue,  \* the contents of raw memory
    Hash,            \* the hash function, of 31 bits: the code negates first
    MIN_SIZE         \* 8 in the code; at 4 fewer keys fill a table

\* 31 bits: six times five and one.
HashValue == {h \in Nat : h <= 2 * (32 * 32 * 32 * 32 * 32 * 32 - 1) + 1}

ASSUME HashTableAssumption ==
    /\ NoKey \notin Key /\ NoValue \notin Value
    /\ Hash \in [Key -> HashValue]
    /\ MIN_SIZE \in {4, 8}

EMPTY   == -1
DELETED == -2
Lost    == -3   \* the outcome of a probe that never stops, or leaves the table

Raw == [key |-> NoKey, value |-> NoValue]

\* A table that was never used.  slotsNull and itemsNull are the tests of the
\* code for a null pointer, which is what it gets when it allocates nothing.
NewTable ==
    [items |-> << >>, itemsNull |-> TRUE, populated |-> {},
     reserved |-> 0, top |-> 0,
     slots |-> << >>, hashes |-> << >>, slotsNull |-> TRUE,
     size |-> 0, count |-> 0, empty |-> 0]

Below(n) == 0..(n - 1)

\* The offsets a probe visits: each step adds what is left of the hash, which
\* loses five bits a step.  All its 31 bits are gone after seven steps, and
\* size more steps of x -> 5x + 1 visit every offset.
Tries(size) == 0..(size + 7)

Probe(size, hash) ==
    LET at[n \in Tries(size)] ==
          IF n = 0 THEN [offset |-> hash % size, perturb |-> hash]
          ELSE LET last == at[n - 1]
               IN  [offset  |-> (5 * last.offset + last.perturb + 1) % size,
                    perturb |-> last.perturb \div 32]
    IN  [n \in Tries(size) |-> at[n].offset]

\* Where a probe stops that looks for one of the offsets in goal.
Stop(t, hash, goal) ==
    LET path     == Probe(t.size, hash)
        Stops(n) == path[n] \in goal /\ \A m \in Below(n) : path[m] \notin goal
    IN  IF t.size > 0 /\ \E n \in Tries(t.size) : Stops(n)
        THEN path[CHOOSE n \in Tries(t.size) : Stops(n)]
        ELSE Lost

EmptyAt(t)  == {i \in Below(t.size) : t.slots[i] = EMPTY}
FilledAt(t) == {i \in Below(t.size) : t.slots[i] >= 0}
KeyAt(t, k) == {i \in FilledAt(t) : t.items[t.slots[i]].key = k}
MatchAt(t, k) == {i \in KeyAt(t, k) : t.hashes[i] = Hash[k]}

\* The item slot of a key, EMPTY (-1) if it is not there.
Find(t, k) ==
    IF t.slotsNull THEN EMPTY
    ELSE LET at == Stop(t, Hash[k], EmptyAt(t) \cup MatchAt(t, k))
         IN  IF at = Lost THEN Lost ELSE t.slots[at]

-----------------------------------------------------------------------------
(* Growing.                                                                *)

\* The sizes a table can have, and the first of them that is large enough.
Doubled[j \in Nat] == IF j = 0 THEN MIN_SIZE ELSE 2 * Doubled[j - 1]

PickSize(n) ==
    Doubled[CHOOSE j \in 0..n : Doubled[j] >= n /\ \A m \in Below(j) : Doubled[m] < n]

Blank(t, size) ==
    [t EXCEPT !.size = size, !.count = 0, !.empty = size, !.slotsNull = FALSE,
              !.slots = [i \in Below(size) |-> EMPTY],
              !.hashes = [i \in Below(size) |-> EMPTY]]

\* The loop of add: take the first free offset of the probe.
MutantPlaceCountsEmpty(t, hash, slot) ==      \* mutant: always counts EMPTY down
    LET at == Stop(t, hash, Below(t.size) \ FilledAt(t))
    IN  IF at = Lost THEN t
        ELSE [t EXCEPT !.slots[at] = slot, !.hashes[at] = hash,
                       !.populated = @ \cup {slot},
                       !.count = @ + 1, !.empty = @ - 1]

Place(t, hash, slot) ==
    LET at == Stop(t, hash, Below(t.size) \ FilledAt(t))
    IN  IF at = Lost THEN t
        ELSE [t EXCEPT !.slots[at] = slot, !.hashes[at] = hash,
                       !.populated = @ \cup {slot},
                       !.count = @ + 1,
                       !.empty = IF t.slots[at] = EMPTY THEN @ - 1 ELSE @]

\* Enter the slots that are not EMPTY or DELETED, in order, in a table sized
\* for them.  The code calls add, whose own test for crowding is then never true.
Entered(t, hashes, slots, n) ==
    LET after[i \in 0..n] ==
          IF i = 0 THEN t
          ELSE IF slots[i - 1] < 0 THEN after[i - 1]
          ELSE Place(after[i - 1], hashes[i - 1], slots[i - 1])
    IN  after[n]

Resized(t) == Entered(Blank(t, PickSize(4 * t.count)), t.hashes, t.slots, t.size)

Crowded(t) == t.count * 2 + 1 > t.size \/ t.empty < (t.size \div 4) + 1

Add(t, hash, slot) == Place(IF Crowded(t) THEN Resized(t) ELSE t, hash, slot)

MutantEnlarged(reserved) == (reserved * 5) \div 2 + 1   \* mutant: more than doubles
Enlarged(reserved) == (reserved * 5) \div 4 + 1

\* allocateNewSlot: the new slot is top - 1.  Where there is no item table one
\* of four items is made.
NewSlot(t) ==
    LET room  == IF t.itemsNull THEN 4 ELSE Enlarged(t.reserved)
        start == IF t.itemsNull THEN 0 ELSE t.top
    IN  IF ~t.itemsNull /\ t.top < t.reserved THEN [t EXCEPT !.top = @ + 1]
        ELSE [t EXCEPT !.itemsNull = FALSE, !.reserved = room, !.top = start + 1,
                       !.items = [i \in Below(room) |->
                                    IF ~t.itemsNull /\ i < t.reserved
                                    THEN t.items[i] ELSE Raw]]

-----------------------------------------------------------------------------
(* Shrinking.                                                              *)

Rank(t, slot) == Cardinality({p \in t.populated : p < slot})

\* Compression meets a slot that no item has: "corrupt slot", "invalid slot".
Corrupt(t) == \E i \in FilledAt(t) : t.slots[i] \notin t.populated

Compressed(t) ==
    LET n == Cardinality(t.populated)
    IN  [t EXCEPT !.items = [j \in Below(n) |->
                    t.items[CHOOSE p \in t.populated : Rank(t, p) = j]],
                  !.itemsNull = n = 0, !.populated = Below(n),
                  !.reserved = n, !.top = n,
                  !.slots = [i \in Below(t.size) |->
                    IF t.slots[i] >= 0 THEN Rank(t, t.slots[i]) ELSE t.slots[i]]]

Sparse(t)  == t.reserved > (t.count + 2) * 4
Outgrown(t) == t.count < t.size \div 8

\* What remove does before it looks for the key.
Trimmed(t) ==
    LET packed == IF Sparse(t) THEN Compressed(t) ELSE t
    IN  IF Outgrown(packed) THEN Resized(packed) ELSE packed

MutantVacateAsEmpty(t, at) ==       \* mutant: breaks the probes behind it
    [t EXCEPT !.populated = @ \ {t.slots[at]}, !.slots[at] = EMPTY,
              !.hashes[at] = -1, !.count = @ - 1, !.empty = @ + 1]

Vacate(t, at) ==
    [t EXCEPT !.populated = @ \ {t.slots[at]}, !.slots[at] = DELETED,
              !.hashes[at] = -1, !.count = @ - 1]

\* remove, then the caller's destruction of the item it found.
Removed(t, k) ==
    IF t.slotsNull THEN t
    ELSE LET u  == Trimmed(t)
             at == Stop(u, Hash[k], EmptyAt(u) \cup KeyAt(u, k))
         IN  IF at = Lost \/ at \in EmptyAt(u) THEN u
             ELSE [Vacate(u, at) EXCEPT !.items[u.slots[at]] = Raw]

-----------------------------------------------------------------------------
(* Whole tables.                                                           *)

\* clear and allItemsHaveBeenRemoved.
Cleared(t) ==
    IF t.slotsNull THEN t
    ELSE [Blank(t, t.size) EXCEPT
            !.items = [i \in Below(t.reserved) |->
                         IF i \in t.populated THEN Raw ELSE t.items[i]],
            !.populated = {}, !.top = 0]

OnlyLive(t) ==
    [i \in Below(t.reserved) |-> IF i \in t.populated THEN t.items[i] ELSE Raw]

\* copyTable.
Copied(t) == IF t.itemsNull THEN NewTable ELSE [t EXCEPT !.items = OnlyLive(t)]

\* deepcopy, which allocates arrays of the same length, in a slab or on the free
\* store; either gives null for no bytes.
DeepCopied(t) ==
    [t EXCEPT !.items = OnlyLive(t), !.itemsNull = t.reserved = 0, !.slotsNull = t.size = 0]

\* serialize writes the populated items in order; deserialize allocates
\* exactly their number, reads them and builds the hash table.
Reloaded(t) ==
    LET n     == t.count
        items == [j \in Below(n) |->
                    t.items[CHOOSE p \in t.populated : Rank(t, p) = j]]
        fresh == [Blank(NewTable, PickSize(2 * n)) EXCEPT
                    !.items = items, !.itemsNull = n = 0,
                    !.populated = Below(n), !.reserved = n, !.top = n]
    IN  Entered(fresh, [j \in Below(n) |-> Hash[items[j].key]], [j \in Below(n) |-> j], n)
=============================================================================
