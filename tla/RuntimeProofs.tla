---------------------------- MODULE RuntimeProofs ---------------------------
(***************************************************************************)
(* The runtime keeps its lock one thread's, its dispatch tables in order,  *)
(* its calls right, the answers to calls of TypeFunctions the same and the *)
(* books of its types right: for any threads, classes, keys and programs,  *)
(* any number of call sites and interrupts, and however deep calls go.     *)
(***************************************************************************)
EXTENDS Runtime, SequenceTheorems, FiniteSetTheorems, WellFoundedInduction, TLAPS

-----------------------------------------------------------------------------
(* The tables, the call sites and the threads that run compiled code: what  *)
(* the steps of ClassDispatch keep true of them.                            *)

Site == Class \X Signature
Pointer == {Null, Garbage} \cup Class \X Signature
Table == [slots : Seq(Signature), arrays : Seq(Seq(Pointer)), needing : SUBSET Nat]
Own(i) == tables[<<i, i>>]

\* A table of class c: each signature has one slot, old arrays are full, what
\* is in a slot is null or the method that the current array has there too.
WellMade(T, c) ==
  /\ T \in Table /\ T.arrays # <<>>
  /\ \A r, s \in DOMAIN T.slots : T.slots[r] = T.slots[s] => r = s
  /\ Len(T.slots) <= Len(Current(T))
  /\ \A a \in 1 .. Len(T.arrays) - 1 : Len(T.arrays[a]) <= Len(T.slots)
  /\ \A a \in DOMAIN T.arrays : \A s \in DOMAIN T.arrays[a] \cap DOMAIN T.slots :
       T.arrays[a][s] # Null => T.arrays[a][s] = Method(c, T.slots[s]) /\ Current(T)[s] = T.arrays[a][s]
  /\ T.needing = {s \in DOMAIN T.slots : Current(T)[s] = Null}

\* There is a table of a class for each of its ancestors, which are there too.
Places ==
  /\ DOMAIN tables \subseteq Class \X Class
  /\ \A p \in DOMAIN tables :
       /\ p[2] \in Ancestors[p[1]] /\ Exists(p[2])
       /\ \A i \in Ancestors[p[1]] : <<p[1], i>> \in DOMAIN tables

TablesMade == \A p \in DOMAIN tables : WellMade(tables[p], p[1])

\* All tables for an interface have its slots, but that of the signature that
\* is being added, which is missing in those whose turn is still to come.
Adder ==
  [busy : {TRUE}, thread : {gil.thread}, site : Site, now : Class, todo : SUBSET Class, slot : Nat]
Turns ==
  LET i == gil.site[1]
      sig == gil.site[2]
  IN  /\ gil \in Adder /\ Exists(i)
      /\ gil.now \in Implementors(i) /\ gil.todo \subseteq Implementors(i)
      /\ \A p \in DOMAIN tables : p[2] # i => tables[p].slots = Own(p[2]).slots
      /\ \A c \in Implementors(i) :
           \/ tables[<<c, i>>].slots = Own(i).slots
           \/ Own(i).slots = Append(tables[<<c, i>>].slots, sig)
      /\ \A c \in Implementors(i) \ (gil.todo \cup {gil.now}) : tables[<<c, i>>].slots = Own(i).slots
      /\ gil.slot = 0 =>
           /\ gil.now = i /\ gil.todo = Implementors(i)
           /\ ~Known => \A c \in Implementors(i) : tables[<<c, i>>].slots = Own(i).slots
      /\ gil.slot # 0 => gil.slot \in DOMAIN Own(i).slots /\ Own(i).slots[gil.slot] = sig
InOrder ==
  /\ Unheld => \A p \in DOMAIN tables : tables[p].slots = Own(p[2]).slots
  /\ gil.busy => Turns
  /\ gil.busy \in BOOLEAN

\* A linked call site has a slot that is its signature's in every table.
SitesLinked ==
  \A site \in DOMAIN slotOf :
    /\ site \in Site /\ Exists(site[1]) /\ slotOf[site] \in Nat
    /\ \A c \in Implementors(site[1]) :
         LET slots == tables[<<c, site[1]>>].slots
         IN  slotOf[site] \in DOMAIN slots /\ slots[slotOf[site]] = site[2]

Reader ==
  [at : {"table", "slot", "compile"}, round : {"test", "call"}, site : Site, class : Class,
   pending : BOOLEAN, array : Nat, failed : BOOLEAN]
\* A thread that is about to call found the slot filled, or compiled the method.
ReadsWell(r) ==
  LET T == tables[TableOf(r)]
      s == slotOf[r.site]
  IN  /\ r \in Reader /\ r.site \in DOMAIN slotOf /\ TableOf(r) \in DOMAIN tables
      /\ r.at = "slot" => r.array \in DOMAIN T.arrays /\ s \in DOMAIN T.arrays[r.array]
      /\ r.at = "table" /\ r.round = "call" /\ ~r.failed => Current(T)[s] # Null
      /\ r.at = "slot" /\ r.round = "call" /\ ~r.failed => T.arrays[r.array][s] # Null
Reading(t) == reading[t] = Idle \/ ReadsWell(reading[t])

-----------------------------------------------------------------------------
(* What happens to one table.                                              *)

\* What a thread may rely on that has looked at T before it became U.
Keeps(T, U) ==
  /\ Len(T.slots) <= Len(U.slots)
  /\ \A s \in DOMAIN T.slots : U.slots[s] = T.slots[s]
  /\ Len(T.arrays) <= Len(U.arrays)
  /\ \A a \in DOMAIN T.arrays : DOMAIN U.arrays[a] = DOMAIN T.arrays[a]
  /\ \A a \in DOMAIN T.arrays : \A s \in DOMAIN T.slots \cap DOMAIN T.arrays[a] :
       T.arrays[a][s] # Null => U.arrays[a][s] # Null
  /\ \A s \in DOMAIN T.slots : Current(T)[s] # Null => Current(U)[s] # Null

LEMMA MethodNotNull == ASSUME NEW c, NEW sig PROVE Method(c, sig) # Null
  BY DEF Method, Null

LEMMA NewTableMade == ASSUME NEW c PROVE WellMade(NewTable, c)
  BY DEF NewTable, WellMade, Table, Current

LEMMA CurrentOfTable ==
  ASSUME NEW T \in Table, T.arrays # <<>>
  PROVE  /\ Len(T.arrays) \in DOMAIN T.arrays /\ DOMAIN T.arrays = 1 .. Len(T.arrays)
         /\ Current(T) = T.arrays[Len(T.arrays)] /\ Current(T) \in Seq(Pointer)
         /\ Len(T.arrays) \in Nat /\ Len(Current(T)) \in Nat /\ DOMAIN Current(T) = 1 .. Len(Current(T))
         /\ Len(T.slots) \in Nat /\ DOMAIN T.slots = 1 .. Len(T.slots)
         /\ \A a \in DOMAIN T.arrays : T.arrays[a] \in Seq(Pointer) /\ DOMAIN T.arrays[a] = 1 .. Len(T.arrays[a]) /\ Len(T.arrays[a]) \in Nat
  BY DEF Current, Table

LEMMA CopyMade ==
  ASSUME NEW c, NEW d, NEW T, WellMade(T, d)
  PROVE  WellMade(CopyFor(T), c) /\ CopyFor(T).slots = T.slots
  <1> DEFINE U == CopyFor(T)
             new == [s \in DOMAIN Current(T) |-> IF s \in DOMAIN T.slots THEN Null ELSE Garbage]
  <1>1. T \in Table /\ T.arrays # <<>>
    BY DEF WellMade
  <1>2. new \in Seq(Pointer) /\ Len(new) = Len(Current(T)) /\ DOMAIN new = DOMAIN Current(T)
    BY <1>1, CurrentOfTable DEF Pointer
  <1> DEFINE only == <<new>>
  <1>x. \A s \in DOMAIN T.slots : s \in DOMAIN Current(T) => new[s] = Null
    OBVIOUS
  <1>3. U = [slots |-> T.slots, arrays |-> only, needing |-> DOMAIN T.slots]
    BY DEF CopyFor
  <1> HIDE DEF new, U
  <1>a. only \in Seq(Seq(Pointer)) /\ Len(only) = 1 /\ DOMAIN only = {1} /\ only[1] = new /\ only # <<>>
    BY <1>2
  <1> HIDE DEF only
  <1>b. U \in Table
    BY <1>1, <1>3, <1>a, CurrentOfTable DEF Table
  <1>4. Len(U.arrays) = 1 /\ Current(U) = new /\ DOMAIN U.arrays = {1} /\ U.arrays[1] = new
    BY <1>3, <1>a DEF Current
  <1>5. Len(T.slots) <= Len(Current(T))
    BY DEF WellMade
  <1>6. DOMAIN T.slots \subseteq DOMAIN new /\ \A s \in DOMAIN T.slots : new[s] = Null
    <2>1. DOMAIN T.slots \subseteq DOMAIN Current(T)
      BY <1>1, <1>5, CurrentOfTable
    <2> QED
      BY <2>1, <1>2, <1>x
  <1>7. U.slots = T.slots /\ U.needing = DOMAIN T.slots /\ U.arrays # <<>>
    BY <1>3, <1>a
  <1>8. \A r, s \in DOMAIN U.slots : U.slots[r] = U.slots[s] => r = s
    BY <1>7 DEF WellMade
  <1>9. WellMade(U, c)
    BY <1>b, <1>2, <1>4, <1>5, <1>6, <1>7, <1>8 DEF WellMade
  <1>10. QED
    BY <1>7, <1>9 DEF U

LEMMA GrownMade ==
  ASSUME NEW c, NEW T, WellMade(T, c), Full(T)
  PROVE  WellMade(Grown(T), c) /\ Grown(T).slots = T.slots /\ Keeps(T, Grown(T))
  <1> DEFINE U == Grown(T)
             n == Len(T.arrays)
             old == Current(T)
             new == [s \in 1 .. (Len(old) + 1) * 2 |-> IF s \in DOMAIN T.slots THEN old[s] ELSE Garbage]
             both == Append(T.arrays, new)
  <1>1. T \in Table /\ T.arrays # <<>>
    BY DEF WellMade
  <1>2. U = [T EXCEPT !.arrays = both]
    BY DEF Grown
  <1>3. Len(T.slots) = Len(old) /\ DOMAIN T.slots = DOMAIN old
    BY <1>1, CurrentOfTable DEF WellMade, Full
  <1>4. new \in Seq(Pointer) /\ Len(new) = (Len(old) + 1) * 2 /\ DOMAIN new = 1 .. (Len(old) + 1) * 2
    <2>1. old \in Seq(Pointer) /\ Len(old) \in Nat
      BY <1>1, CurrentOfTable
    <2>2. \A s \in DOMAIN old : old[s] \in Pointer
      BY <2>1
    <2>3. \A s \in 1 .. (Len(old) + 1) * 2 : new[s] \in Pointer
      BY <1>3, <2>2 DEF Pointer
    <2>4. (Len(old) + 1) * 2 \in Nat
      BY <2>1
    <2> QED
      BY <2>3, <2>4
  <1>5. \A s \in DOMAIN T.slots : s \in DOMAIN new /\ new[s] = old[s]
    <2>1. Len(old) \in Nat /\ DOMAIN old = 1 .. Len(old)
      BY <1>1, CurrentOfTable
    <2>2. DOMAIN T.slots \subseteq 1 .. (Len(old) + 1) * 2
      BY <1>3, <2>1
    <2> QED
      BY <2>2
  <1> HIDE DEF new
  <1>6. /\ both \in Seq(Seq(Pointer)) /\ Len(both) = n + 1 /\ both[n + 1] = new
        /\ \A a \in 1 .. n : both[a] = T.arrays[a]
        /\ n \in Nat /\ n >= 1 /\ DOMAIN both = 1 .. n + 1 /\ both # <<>>
    <2>1. PICK arrays : arrays = T.arrays
      OBVIOUS
    <2>2. arrays \in Seq(Seq(Pointer))
      BY <1>1, <2>1 DEF Table
    <2>3. n \in Nat /\ n >= 1 /\ n = Len(arrays) /\ both = Append(arrays, new)
      BY <1>1, <2>1, CurrentOfTable
    <2> HIDE DEF n, both
    <2>4. both \in Seq(Seq(Pointer)) /\ Len(both) = n + 1 /\ both[n + 1] = new /\ \A a \in 1 .. n : both[a] = arrays[a]
      BY <1>4, <2>2, <2>3
    <2>5. DOMAIN both = 1 .. n + 1 /\ both # <<>>
      BY <2>3, <2>4
    <2> QED
      BY <2>1, <2>3, <2>4, <2>5
  <1> HIDE DEF both
  <1>7. U \in Table /\ U.arrays = both /\ U.slots = T.slots /\ U.needing = T.needing
    BY <1>1, <1>2, <1>6 DEF Table
  <1>8. Current(U) = new
    BY <1>6, <1>7 DEF Current
  <1> HIDE DEF U
  <1>9. \A a \in 1 .. Len(U.arrays) - 1 : Len(U.arrays[a]) <= Len(U.slots)
    <2> SUFFICES ASSUME NEW a \in 1 .. n PROVE Len(T.arrays[a]) <= Len(T.slots)
      <3>1. Len(U.arrays) - 1 = n
        BY <1>6, <1>7
      <3> QED
        BY <1>6, <1>7, <3>1
    <2>1. CASE a = n
      BY <2>1, <1>1, <1>3, <1>6, CurrentOfTable
    <2>2. CASE a # n
      BY <2>2, <1>6 DEF WellMade
    <2> QED
      BY <2>1, <2>2
  <1>10. \A a \in DOMAIN U.arrays : \A s \in DOMAIN U.arrays[a] \cap DOMAIN U.slots :
           U.arrays[a][s] # Null => U.arrays[a][s] = Method(c, U.slots[s]) /\ Current(U)[s] = U.arrays[a][s]
    <2> SUFFICES ASSUME NEW a \in 1 .. n + 1, NEW s \in DOMAIN both[a] \cap DOMAIN T.slots, both[a][s] # Null
                 PROVE both[a][s] = Method(c, T.slots[s]) /\ new[s] = both[a][s]
      BY <1>6, <1>7, <1>8
    <2>1. CASE a = n + 1
      <3>1. n \in DOMAIN T.arrays /\ old = T.arrays[n] /\ s \in DOMAIN old /\ old[s] # Null
        BY <2>1, <1>1, <1>3, <1>5, <1>6, CurrentOfTable
      <3>2. old[s] = Method(c, T.slots[s])
        BY <3>1 DEF WellMade
      <3> QED
        BY <2>1, <1>5, <1>6, <3>2
    <2>2. CASE a \in 1 .. n
      <3>1. a \in DOMAIN T.arrays /\ both[a] = T.arrays[a]
        BY <2>2, <1>1, <1>6, CurrentOfTable
      <3> QED
        BY <3>1, <1>5 DEF WellMade
    <2> QED
      BY <2>1, <2>2, <1>6
  <1>11. U.needing = {s \in DOMAIN U.slots : Current(U)[s] = Null}
    BY <1>5, <1>7, <1>8 DEF WellMade
  <1>12. Len(U.slots) <= Len(Current(U))
    BY <1>1, <1>3, <1>4, <1>7, <1>8, CurrentOfTable
  <1>13. WellMade(U, c)
    BY <1>6, <1>7, <1>9, <1>10, <1>11, <1>12 DEF WellMade
  <1>14. Keeps(T, U)
    <2>1. DOMAIN T.arrays = 1 .. n /\ Len(T.slots) \in Nat
      BY <1>1, CurrentOfTable
    <2>2. \A a \in DOMAIN T.arrays : U.arrays[a] = T.arrays[a]
      BY <2>1, <1>6, <1>7
    <2>3. n <= Len(U.arrays)
      BY <1>6, <1>7
    <2> HIDE DEF n, old
    <2>4. \A s \in DOMAIN T.slots : Current(T)[s] # Null => Current(U)[s] # Null
      BY <1>5, <1>8 DEF old
    <2> QED
      BY <2>1, <2>2, <2>3, <2>4, <1>7 DEF Keeps, n
  <1> QED
    BY <1>7, <1>13, <1>14 DEF U

LEMMA AddedMade ==
  ASSUME NEW c, NEW T, WellMade(T, c), ~Full(T), NEW sig \in Signature, SlotsOf(T, sig) = {}
  PROVE  /\ WellMade(Added(T, sig), c) /\ Added(T, sig).slots = Append(T.slots, sig)
         /\ Keeps(T, Added(T, sig))
  <1> DEFINE U == Added(T, sig)
             n == Len(T.arrays)
             x == Len(T.slots) + 1
             old == Current(T)
             new == [old EXCEPT ![x] = Null]
             all == [T.arrays EXCEPT ![n] = new]
             slots == Append(T.slots, sig)
  <1>1. T \in Table /\ T.arrays # <<>>
    BY DEF WellMade
  <1>2. /\ n \in Nat /\ n >= 1 /\ DOMAIN T.arrays = 1 .. n /\ old = T.arrays[n]
        /\ x \in Nat /\ x >= 1 /\ x <= Len(old) /\ Len(old) \in Nat /\ DOMAIN old = 1 .. Len(old)
        /\ DOMAIN T.slots = 1 .. x - 1 /\ old \in Seq(Pointer)
    BY <1>1, CurrentOfTable DEF Full
  <1>3. /\ new \in Seq(Pointer) /\ DOMAIN new = DOMAIN old /\ Len(new) = Len(old) /\ new[x] = Null
        /\ \A s \in DOMAIN old : s # x => new[s] = old[s]
    BY <1>2 DEF Pointer
  <1>4. U = [slots |-> slots, arrays |-> all, needing |-> T.needing \cup {x}]
    <2>1. T = [slots |-> T.slots, arrays |-> T.arrays, needing |-> T.needing]
      BY <1>1 DEF Table
    <2>2. U = [T EXCEPT !.slots = slots, !.arrays = all, !.needing = T.needing \cup {x}]
      BY <1>1, <2>1, Zenon DEF Added, Current
    <2> HIDE DEF slots, all, U
    <2> QED
      BY <2>1, <2>2
  <1> HIDE DEF new, old
  <1>5. /\ all \in Seq(Seq(Pointer)) /\ Len(all) = n /\ DOMAIN all = 1 .. n /\ all[n] = new
        /\ \A a \in 1 .. n : a # n => all[a] = T.arrays[a]
    BY <1>1, <1>2, <1>3 DEF Table
  <1>6. /\ slots \in Seq(Signature) /\ DOMAIN slots = 1 .. x /\ Len(slots) = x
        /\ slots[x] = sig /\ \A s \in 1 .. x - 1 : slots[s] = T.slots[s]
    BY <1>1, <1>2 DEF Table
  <1>7. U \in Table /\ U.slots = slots /\ U.arrays = all /\ U.needing = T.needing \cup {x}
    BY <1>1, <1>2, <1>4, <1>5, <1>6 DEF Table
  <1> HIDE DEF all, slots, U
  <1>8. Current(U) = new /\ U.arrays # <<>>
    BY <1>2, <1>5, <1>7 DEF Current
  <1>9. \A r, s \in DOMAIN U.slots : U.slots[r] = U.slots[s] => r = s
    <2>1. \A s \in 1 .. x - 1 : T.slots[s] # sig
      BY <1>2 DEF SlotsOf
    <2>2. \A r, s \in 1 .. x - 1 : T.slots[r] = T.slots[s] => r = s
      BY <1>2 DEF WellMade
    <2> HIDE DEF x
    <2> QED
      BY <1>2, <1>6, <1>7, <2>1, <2>2
  <1>10. \A a \in 1 .. n - 1 : a \in 1 .. n /\ a # n /\ Len(T.arrays[a]) <= x - 1 /\ Len(T.arrays[a]) \in Nat
    BY <1>1, <1>2, CurrentOfTable DEF WellMade
  <1>11. \A a \in 1 .. Len(U.arrays) - 1 : Len(U.arrays[a]) <= Len(U.slots)
    <2>1. Len(U.arrays) - 1 = n - 1 /\ Len(U.slots) = x
      BY <1>5, <1>6, <1>7
    <2>2. \A a \in 1 .. n - 1 : U.arrays[a] = T.arrays[a]
      BY <1>5, <1>7, <1>10
    <2> HIDE DEF x, n
    <2>3. \A a \in 1 .. n - 1 : Len(T.arrays[a]) <= x
      BY <1>2, <1>10
    <2> QED
      BY <2>1, <2>2, <2>3
  <1>12. \A a \in 1 .. n : \A s \in DOMAIN all[a] \cap DOMAIN slots : all[a][s] # Null =>
           s \in DOMAIN T.slots \cap DOMAIN T.arrays[a] /\ all[a][s] = T.arrays[a][s]
    <2> SUFFICES ASSUME NEW a \in 1 .. n, NEW s \in DOMAIN all[a] \cap DOMAIN slots, all[a][s] # Null
                 PROVE s \in DOMAIN T.slots \cap DOMAIN T.arrays[a] /\ all[a][s] = T.arrays[a][s]
      OBVIOUS
    <2>1. CASE a = n
      <3>1. s # x
        BY <2>1, <1>3, <1>5
      <3>2. s \in 1 .. x - 1
        BY <3>1, <1>2, <1>6
      <3> QED
        BY <2>1, <3>1, <3>2, <1>2, <1>3, <1>5
    <2>2. CASE a # n
      <3>1. all[a] = T.arrays[a] /\ DOMAIN T.arrays[a] = 1 .. Len(T.arrays[a])
        BY <2>2, <1>1, <1>2, <1>5, CurrentOfTable
      <3>2. a \in 1 .. n - 1
        BY <2>2, <1>2
      <3>3. s \in 1 .. Len(T.arrays[a]) /\ Len(T.arrays[a]) <= x - 1 /\ Len(T.arrays[a]) \in Nat
        BY <3>1, <3>2, <1>10
      <3> QED
        BY <3>1, <3>3, <1>2
    <2> QED
      BY <2>1, <2>2
  <1>13. \A s \in DOMAIN T.slots : s \in DOMAIN old /\ new[s] = old[s] /\ slots[s] = T.slots[s] /\ s \in DOMAIN slots
    BY <1>2, <1>3, <1>6
  <1>14. \A a \in DOMAIN U.arrays : \A s \in DOMAIN U.arrays[a] \cap DOMAIN U.slots :
           U.arrays[a][s] # Null => U.arrays[a][s] = Method(c, U.slots[s]) /\ Current(U)[s] = U.arrays[a][s]
    <2> SUFFICES ASSUME NEW a \in 1 .. n, NEW s \in DOMAIN all[a] \cap DOMAIN slots, all[a][s] # Null
                 PROVE all[a][s] = Method(c, slots[s]) /\ new[s] = all[a][s]
      BY <1>5, <1>7, <1>8
    <2>1. s \in DOMAIN T.slots \cap DOMAIN T.arrays[a] /\ all[a][s] = T.arrays[a][s]
      BY <1>12
    <2>2. T.arrays[a][s] = Method(c, T.slots[s]) /\ old[s] = T.arrays[a][s]
      BY <2>1, <1>2 DEF WellMade, old
    <2> QED
      BY <2>1, <2>2, <1>13
  <1>15. U.needing = {s \in DOMAIN U.slots : Current(U)[s] = Null}
    <2>1. T.needing = {s \in DOMAIN T.slots : old[s] = Null}
      BY DEF WellMade, old
    <2>2. DOMAIN slots = DOMAIN T.slots \cup {x}
      BY <1>2, <1>6
    <2> QED
      BY <1>3, <1>7, <1>8, <1>13, <2>1, <2>2
  <1>16. Len(U.slots) <= Len(Current(U))
    BY <1>2, <1>3, <1>6, <1>7, <1>8
  <1>17. WellMade(U, c)
    BY <1>7, <1>8, <1>9, <1>11, <1>14, <1>15, <1>16 DEF WellMade
  <1>18. Keeps(T, U)
    <2>1. \A a \in DOMAIN T.arrays : DOMAIN U.arrays[a] = DOMAIN T.arrays[a]
      BY <1>2, <1>3, <1>5, <1>7
    <2>2. \A a \in DOMAIN T.arrays : \A s \in DOMAIN T.slots \cap DOMAIN T.arrays[a] : U.arrays[a][s] = T.arrays[a][s]
      BY <1>2, <1>3, <1>5, <1>7, <1>13
    <2>3. Len(T.arrays) <= Len(U.arrays) /\ Len(T.slots) <= Len(U.slots)
      BY <1>2, <1>5, <1>6, <1>7
    <2>4. \A s \in DOMAIN T.slots : Current(U)[s] = Current(T)[s] /\ U.slots[s] = T.slots[s]
      BY <1>7, <1>8, <1>13 DEF old
    <2> QED
      BY <2>1, <2>2, <2>3, <2>4 DEF Keeps
  <1> QED
    BY <1>7, <1>17, <1>18 DEF U, slots

LEMMA DefinedMade ==
  ASSUME NEW c \in Class, NEW T, WellMade(T, c), NEW s \in DOMAIN T.slots,
         Current(T)[s] = Null
  PROVE  LET U == Defined(T, s, Method(c, T.slots[s]))
         IN  WellMade(U, c) /\ U.slots = T.slots /\ Keeps(T, U) /\ Current(U)[s] # Null
  <1> DEFINE f == Method(c, T.slots[s])
             U == Defined(T, s, f)
             n == Len(T.arrays)
             old == Current(T)
             new == [old EXCEPT ![s] = f]
             all == [T.arrays EXCEPT ![n] = new]
  <1>1. T \in Table /\ T.arrays # <<>>
    BY DEF WellMade
  <1>2. /\ n \in Nat /\ n >= 1 /\ DOMAIN T.arrays = 1 .. n /\ old = T.arrays[n]
        /\ Len(old) \in Nat /\ DOMAIN old = 1 .. Len(old) /\ old \in Seq(Pointer)
        /\ DOMAIN T.slots \subseteq DOMAIN old
    BY <1>1, CurrentOfTable DEF WellMade
  <1>3. f \in Pointer /\ f # Null
    BY <1>1, MethodNotNull DEF Method, Pointer, Table
  <1> HIDE DEF f
  <1>4. /\ new \in Seq(Pointer) /\ DOMAIN new = DOMAIN old /\ Len(new) = Len(old) /\ new[s] = f
        /\ \A r \in DOMAIN old : r # s => new[r] = old[r]
    BY <1>2, <1>3
  <1>5. U = [slots |-> T.slots, arrays |-> all, needing |-> T.needing \ {s}]
    <2>1. T = [slots |-> T.slots, arrays |-> T.arrays, needing |-> T.needing]
      BY <1>1 DEF Table
    <2>2. U = [T EXCEPT !.arrays = all, !.needing = T.needing \ {s}]
      BY <1>1, <2>1, Zenon DEF Defined, Current
    <2> HIDE DEF all, U
    <2> QED
      BY <2>1, <2>2
  <1> HIDE DEF new, old
  <1>6. /\ all \in Seq(Seq(Pointer)) /\ Len(all) = n /\ DOMAIN all = 1 .. n /\ all[n] = new
        /\ \A a \in 1 .. n : a # n => all[a] = T.arrays[a]
    BY <1>1, <1>2, <1>4 DEF Table
  <1>7. U \in Table /\ U.slots = T.slots /\ U.arrays = all /\ U.needing = T.needing \ {s}
    BY <1>1, <1>5, <1>6 DEF Table
  <1> HIDE DEF all, U
  <1>8. Current(U) = new /\ U.arrays # <<>>
    BY <1>2, <1>6, <1>7 DEF Current
  <1>9. \A a \in 1 .. n : \A r \in DOMAIN T.slots \cap DOMAIN T.arrays[a] :
          T.arrays[a][r] # Null => T.arrays[a][r] = Method(c, T.slots[r]) /\ old[r] = T.arrays[a][r] /\ r # s
    <2> SUFFICES ASSUME NEW a \in DOMAIN T.arrays, NEW r \in DOMAIN T.slots \cap DOMAIN T.arrays[a],
                        T.arrays[a][r] # Null
                 PROVE T.arrays[a][r] = Method(c, T.slots[r]) /\ old[r] = T.arrays[a][r] /\ r # s
      BY <1>2
    <2>1. T.arrays[a][r] = Method(c, T.slots[r]) /\ Current(T)[r] = T.arrays[a][r]
      BY DEF WellMade
    <2> QED
      BY <2>1 DEF old
  <1>10. \A a \in DOMAIN U.arrays : \A r \in DOMAIN U.arrays[a] \cap DOMAIN U.slots :
           U.arrays[a][r] # Null => U.arrays[a][r] = Method(c, U.slots[r]) /\ Current(U)[r] = U.arrays[a][r]
    <2> SUFFICES ASSUME NEW a \in 1 .. n, NEW r \in DOMAIN all[a] \cap DOMAIN T.slots, all[a][r] # Null
                 PROVE all[a][r] = Method(c, T.slots[r]) /\ new[r] = all[a][r]
      BY <1>6, <1>7, <1>8
    <2>1. CASE a = n /\ r = s
      BY <2>1, <1>4, <1>6 DEF f
    <2>2. CASE a = n /\ r # s
      <3>1. all[a] = new /\ r \in DOMAIN old /\ r \in DOMAIN T.slots /\ r \in DOMAIN T.arrays[a]
        BY <2>2, <1>2, <1>4, <1>6
      <3>2. new[r] = old[r] /\ old[r] = T.arrays[a][r]
        BY <2>2, <3>1, <1>2, <1>4
      <3>3. T.arrays[a][r] = Method(c, T.slots[r])
        BY <3>1, <3>2, <1>9
      <3> QED
        BY <3>1, <3>2, <3>3
    <2>3. CASE a # n
      <3>1. all[a] = T.arrays[a]
        BY <2>3, <1>6
      <3>2. T.arrays[a][r] = Method(c, T.slots[r]) /\ old[r] = T.arrays[a][r] /\ r # s
        BY <3>1, <1>9
      <3>3. r \in DOMAIN old
        BY <1>2
      <3> QED
        BY <3>1, <3>2, <3>3, <1>4
    <2> QED
      BY <2>1, <2>2, <2>3
  <1>11. U.needing = {r \in DOMAIN U.slots : Current(U)[r] = Null}
    <2>1. T.needing = {r \in DOMAIN T.slots : old[r] = Null}
      BY DEF WellMade, old
    <2> QED
      BY <2>1, <1>2, <1>3, <1>4, <1>7, <1>8
  <1>12. \A a \in 1 .. n - 1 : a \in 1 .. n /\ a # n /\ Len(T.arrays[a]) <= Len(T.slots)
    BY <1>1, <1>2, CurrentOfTable DEF WellMade
  <1>13. /\ \A a \in 1 .. Len(U.arrays) - 1 : Len(U.arrays[a]) <= Len(U.slots)
         /\ Len(U.slots) <= Len(Current(U))
         /\ \A q, r \in DOMAIN U.slots : U.slots[q] = U.slots[r] => q = r
    <2>1. Len(T.slots) <= Len(old) /\ \A q, r \in DOMAIN T.slots : T.slots[q] = T.slots[r] => q = r
      BY DEF WellMade, old
    <2> HIDE DEF n
    <2> QED
      BY <1>2, <1>4, <1>6, <1>7, <1>8, <1>12, <2>1
  <1>14. WellMade(U, c)
    BY <1>7, <1>8, <1>10, <1>11, <1>13 DEF WellMade
  <1>15. Keeps(T, U)
    <2>1. \A a \in DOMAIN T.arrays : DOMAIN U.arrays[a] = DOMAIN T.arrays[a]
      BY <1>2, <1>4, <1>6, <1>7
    <2>2. \A a \in DOMAIN T.arrays : \A r \in DOMAIN T.slots \cap DOMAIN T.arrays[a] :
            T.arrays[a][r] # Null => U.arrays[a][r] # Null
      BY <1>2, <1>4, <1>6, <1>7, <1>9
    <2>3. Len(T.arrays) <= Len(U.arrays) /\ Len(T.slots) <= Len(U.slots)
      BY <1>1, <1>2, <1>6, <1>7, CurrentOfTable
    <2>4. \A r \in DOMAIN T.slots : Current(T)[r] # Null => Current(U)[r] # Null
      BY <1>2, <1>3, <1>4, <1>8 DEF old
    <2> QED
      BY <2>1, <2>2, <2>3, <2>4, <1>7 DEF Keeps
  <1> QED
    BY <1>3, <1>4, <1>7, <1>8, <1>14, <1>15 DEF U, f

-----------------------------------------------------------------------------
(* What happens to all tables.                                             *)

TablesInv == Places /\ TablesMade /\ InOrder /\ SitesLinked /\ thrown = {}

\* Tables and call sites stay, and keep what threads rely on.
Stable ==
  /\ \A p \in DOMAIN tables : p \in DOMAIN tables' /\ Keeps(tables[p], tables'[p])
  /\ \A site \in DOMAIN slotOf : site \in DOMAIN slotOf' /\ slotOf'[site] = slotOf[site]

LEMMA KeepsItself == ASSUME NEW c, NEW T, WellMade(T, c) PROVE Keeps(T, T)
  <1>1. T \in Table /\ T.arrays # <<>>
    BY DEF WellMade
  <1>2. QED
    BY <1>1, CurrentOfTable DEF Keeps

LEMMA ImplementorsOfTables ==
  ASSUME Places
  PROVE  /\ \A p \in DOMAIN tables : p = <<p[1], p[2]>> /\ p[1] \in Implementors(p[2]) /\ p[1] \in Class /\ p[2] \in Class
         /\ \A i : \A c \in Implementors(i) : <<c, i>> \in DOMAIN tables /\ c \in Class
         /\ \A i \in Class : Exists(i) => i \in Implementors(i)
  <1>1. \A p \in DOMAIN tables : /\ p[1] \in Class /\ p[2] \in Class /\ p = <<p[1], p[2]>>
                                 /\ p[2] \in Ancestors[p[1]]
    BY DEF Places
  <1>2. \A p \in DOMAIN tables : Exists(p[1])
    BY <1>1, AncestorsAssumption DEF Places, Exists
  <1>3. ASSUME NEW i, NEW c \in Implementors(i) PROVE <<c, i>> \in DOMAIN tables /\ c \in Class
    <2>1. <<c, c>> \in DOMAIN tables /\ i \in Ancestors[c] /\ c \in Class
      BY DEF Implementors, Exists
    <2>2. \A j \in Ancestors[<<c, c>>[1]] : <<<<c, c>>[1], j>> \in DOMAIN tables
      BY <2>1 DEF Places
    <2> QED
      BY <2>1, <2>2
  <1>4. \A i \in Class : Exists(i) => i \in Implementors(i)
    BY AncestorsAssumption DEF Implementors
  <1> QED
    BY <1>1, <1>2, <1>3, <1>4 DEF Implementors

\* What a thread is doing is as right as it was.
LEMMA ReadingKept ==
  ASSUME NEW t, Places, TablesMade, TablesMade', SitesLinked, Stable, Reading(t), reading'[t] = reading[t]
  PROVE  Reading(t)'
  <1>1. CASE reading[t] = Idle
    BY <1>1 DEF Reading
  <1>2. CASE reading[t] # Idle
    <2> DEFINE r == reading[t]
               p == TableOf(r)
               T == tables[p]
               U == tables'[p]
               s == slotOf[r.site]
    <2>1. ReadsWell(r)
      BY <1>2 DEF Reading
    <2>2. r \in Reader /\ r.site \in DOMAIN slotOf /\ p \in DOMAIN tables /\ p = <<r.class, r.site[1]>>
      BY <2>1 DEF ReadsWell, TableOf
    <2>3. r.class \in Implementors(r.site[1])
      BY <2>2, ImplementorsOfTables
    <2>4. s \in DOMAIN T.slots
      BY <2>2, <2>3 DEF SitesLinked
    <2>5. p \in DOMAIN tables' /\ Keeps(T, U) /\ r.site \in DOMAIN slotOf' /\ slotOf'[r.site] = s
      BY <2>2 DEF Stable
    <2>6. WellMade(T, p[1])
      BY <2>2 DEF TablesMade
    <2> HIDE DEF s
    <2>7. r.at = "slot" => r.array \in DOMAIN T.arrays /\ s \in DOMAIN T.arrays[r.array]
      BY <2>1 DEF ReadsWell, s
    <2>8. \A a \in DOMAIN T.arrays : a \in DOMAIN U.arrays /\ DOMAIN U.arrays[a] = DOMAIN T.arrays[a]
      <3>1. T \in Table /\ T.arrays # <<>> /\ U \in Table /\ U.arrays # <<>>
        BY <2>2, <2>5, <2>6 DEF WellMade, TablesMade
      <3>2. DOMAIN U.arrays = 1 .. Len(U.arrays) /\ DOMAIN T.arrays = 1 .. Len(T.arrays)
            /\ Len(U.arrays) \in Nat /\ Len(T.arrays) \in Nat
        BY <3>1, CurrentOfTable
      <3> QED
        BY <2>5, <3>2 DEF Keeps
    <2>9. r.at = "table" /\ r.round = "call" /\ ~r.failed => Current(U)[s] # Null
      BY <2>1, <2>4, <2>5 DEF ReadsWell, Keeps, s
    <2>10. r.at = "slot" /\ r.round = "call" /\ ~r.failed => U.arrays[r.array][s] # Null
      BY <2>1, <2>4, <2>5, <2>7 DEF ReadsWell, Keeps, s
    <2> HIDE DEF r, p, T, U
    <2>11. ReadsWell(reading[t])'
      BY <2>2, <2>5, <2>7, <2>8, <2>9, <2>10 DEF ReadsWell, r, p, T, U, TableOf, Current
    <2> QED
      BY <2>11 DEF Reading
  <1> QED
    BY <1>1, <1>2

\* A step that leaves every table its slots, the call sites and the adder.
LEMMA SameSlots ==
  ASSUME Places, InOrder, SitesLinked, UNCHANGED <<slotOf, gil>>, DOMAIN tables' = DOMAIN tables,
         \A p \in DOMAIN tables : tables'[p].slots = tables[p].slots
  PROVE  Places' /\ InOrder' /\ SitesLinked'
  <1>1. \A c : Exists(c)' <=> Exists(c)
    BY DEF Exists
  <1>2. \A i : Implementors(i)' = Implementors(i)
    BY <1>1 DEF Implementors
  <1>3. Places'
    BY <1>1 DEF Places
  <1>4. \A p \in DOMAIN tables : Own(p[2])'.slots = Own(p[2]).slots
    BY DEF Own, Places, Exists
  <1>5. \A i : \A c \in Implementors(i) : tables'[<<c, i>>].slots = tables[<<c, i>>].slots /\ tables'[<<i, i>>].slots = tables[<<i, i>>].slots
    BY ImplementorsOfTables DEF Places, Exists
  <1>6. SitesLinked'
    BY <1>1, <1>2, <1>5 DEF SitesLinked
  <1>7. InOrder'
    <2>1. CASE ~gil.busy
      BY <2>1, <1>4 DEF InOrder, Unheld
    <2>2. CASE gil.busy
      <3>1. Turns
        BY <2>2 DEF InOrder
      <3>2. gil.now \in Implementors(gil.site[1])
        BY <3>1 DEF Turns
      <3>3. Known' <=> Known
        <4>1. PICK h : h = <<gil.now, gil.site[1]>>
          OBVIOUS
        <4>2. Here = h /\ Here' = h
          BY <4>1 DEF Here
        <4>3. tables'[h].slots = tables[h].slots
          BY <3>2, <4>1, <1>5
        <4>4. Known <=> SlotsOf(tables[h], gil.site[2]) # {}
          BY <4>2 DEF Known
        <4>5. Known' <=> SlotsOf(tables'[h], gil.site[2]) # {}
          BY <4>2 DEF Known
        <4>6. SlotsOf(tables'[h], gil.site[2]) = SlotsOf(tables[h], gil.site[2])
          BY <4>3 DEF SlotsOf
        <4> QED
          BY <4>4, <4>5, <4>6
      <3>4. gil' \in Adder' /\ Exists(gil.site[1])'
        BY <3>1, <1>1 DEF Turns, Adder
      <3>5. \A p \in DOMAIN tables' : p[2] # gil.site[1] => tables'[p].slots = Own(p[2])'.slots
        BY <3>1, <1>4 DEF Turns
      <3>6. Own(gil.site[1])'.slots = Own(gil.site[1]).slots
        BY <3>2, <1>5 DEF Own
      <3> DEFINE i == gil.site[1]
      <3>a. i = gil'.site[1] /\ gil'.site[2] = gil.site[2] /\ gil'.now = gil.now /\ gil'.todo = gil.todo /\ gil'.slot = gil.slot
        OBVIOUS
      <3>b. Implementors(i)' = Implementors(i)
        BY <1>2
      <3>c. \A c \in Implementors(i) : tables'[<<c, i>>].slots = tables[<<c, i>>].slots
        BY <1>5
      <3>d. gil.now \in Implementors(i) /\ gil.todo \subseteq Implementors(i)
        BY <3>1 DEF Turns
      <3>e. \A c \in Implementors(i) :
              \/ tables'[<<c, i>>].slots = Own(i)'.slots
              \/ Own(i)'.slots = Append(tables'[<<c, i>>].slots, gil.site[2])
        BY <3>1, <3>6, <3>c DEF Turns
      <3>f. \A c \in Implementors(i) \ (gil.todo \cup {gil.now}) : tables'[<<c, i>>].slots = Own(i)'.slots
        BY <3>1, <3>6, <3>c DEF Turns
      <3>g. gil.slot = 0 => /\ gil.now = i /\ gil.todo = Implementors(i)
                            /\ ~Known' => \A c \in Implementors(i) : tables'[<<c, i>>].slots = Own(i)'.slots
        BY <3>1, <3>3, <3>6, <3>c DEF Turns
      <3>h. gil.slot # 0 => gil.slot \in DOMAIN Own(i)'.slots /\ Own(i)'.slots[gil.slot] = gil.site[2]
        BY <3>1, <3>6 DEF Turns
      <3> HIDE DEF i
      <3>7. Turns'
        BY <3>4, <3>5, <3>a, <3>b, <3>d, <3>e, <3>f, <3>g, <3>h DEF Turns, i
      <3> QED
        BY <2>2, <3>7 DEF InOrder, Unheld
    <2> QED
      BY <2>1, <2>2 DEF InOrder
  <1> QED
    BY <1>3, <1>6, <1>7

LEMMA UnchangedKept ==
  ASSUME TablesInv, UNCHANGED <<tables, slotOf, gil, thrown>>
  PROVE  TablesInv' /\ Stable
  <1>1. Places' /\ InOrder' /\ SitesLinked'
    BY SameSlots DEF TablesInv
  <1>2. TablesMade' /\ thrown' = {}
    BY DEF TablesInv, TablesMade
  <1>3. Stable
    BY KeepsItself DEF Stable, TablesInv, TablesMade
  <1> QED
    BY <1>1, <1>2, <1>3 DEF TablesInv

LEMMA MakeClassKeeps ==
  ASSUME TablesInv, Unheld, NEW c \in Class, MakeClass(c)
  PROVE  TablesInv' /\ Stable
  <1>1. CASE Exists(c)
    BY <1>1, UnchangedKept DEF MakeClass
  <1>2. CASE ~Exists(c)
    <2> DEFINE made == {<<c, i>> : i \in Ancestors[c]}
    <2>1. tables' = WithClass(tables, c) /\ UNCHANGED <<slotOf, gil, thrown>>
      BY <1>2 DEF MakeClass
    <2>2. \A i \in Ancestors[c] : i # c => Exists(i)
      BY DEF MakeClass
    <2>3. DOMAIN tables' = DOMAIN tables \cup made
      BY <2>1 DEF WithClass
    <2>4. \A p \in DOMAIN tables : tables'[p] = tables[p]
      BY <2>1, <2>3 DEF WithClass
    <2>5. \A i \in Ancestors[c] : <<c, i>> \notin DOMAIN tables
      <3> SUFFICES ASSUME NEW i \in Ancestors[c], <<c, i>> \in DOMAIN tables PROVE FALSE
        OBVIOUS
      <3>1. <<c, i>>[1] \in Implementors(<<c, i>>[2])
        BY ImplementorsOfTables DEF TablesInv
      <3> QED
        BY <3>1, <1>2 DEF Implementors
    <2>6. tables'[<<c, c>>] = NewTable
      BY <2>1, <2>3, <1>2, AncestorsAssumption DEF WithClass, Exists
    <2>7. \A i \in Ancestors[c] : i # c => tables'[<<c, i>>] = CopyFor(Own(i))
      BY <2>1, <2>3, <2>5 DEF WithClass, Own
    <2>8. Ancestors[c] \subseteq Class /\ c \in Ancestors[c] /\ \A i \in Ancestors[c] : Ancestors[i] \subseteq Ancestors[c]
      BY AncestorsAssumption
    <2>9. \A i : Exists(i)' <=> Exists(i) \/ i = c
      BY <2>3, <2>8 DEF Exists
    <2>10. \A i \in Class : Implementors(i)' = Implementors(i) \cup (IF i \in Ancestors[c] THEN {c} ELSE {})
      BY <2>9 DEF Implementors
    <2> HIDE DEF made
    <2>11. Places'
      <3>1. ASSUME NEW p \in DOMAIN tables
            PROVE  /\ p \in Class \X Class /\ p[2] \in Ancestors[p[1]] /\ Exists(p[2])'
                   /\ \A i \in Ancestors[p[1]] : <<p[1], i>> \in DOMAIN tables'
        BY <2>3, <2>9 DEF TablesInv, Places
      <3>2. ASSUME NEW i \in Ancestors[c]
            PROVE  <<c, i>> \in Class \X Class /\ Exists(i)' /\ \A j \in Ancestors[c] : <<c, j>> \in DOMAIN tables'
        BY <2>2, <2>3, <2>8, <2>9 DEF made
      <3>3. \A p \in DOMAIN tables' : p \in DOMAIN tables \/ \E i \in Ancestors[c] : p = <<c, i>>
        BY <2>3 DEF made
      <3>4. \A p \in DOMAIN tables' :
              /\ p \in Class \X Class /\ p[2] \in Ancestors[p[1]] /\ Exists(p[2])'
              /\ \A i \in Ancestors[p[1]] : <<p[1], i>> \in DOMAIN tables'
        BY <3>1, <3>2, <3>3
      <3> QED
        BY <3>4 DEF Places
    <2>12. \A i \in Ancestors[c] : WellMade(tables'[<<c, i>>], c) /\ tables'[<<c, i>>].slots = tables'[<<i, i>>].slots
      <3> SUFFICES ASSUME NEW i \in Ancestors[c]
                   PROVE  WellMade(tables'[<<c, i>>], c) /\ tables'[<<c, i>>].slots = tables'[<<i, i>>].slots
        OBVIOUS
      <3>1. CASE i = c
        BY <3>1, <2>6, NewTableMade
      <3>2. CASE i # c
        <4>1. <<i, i>> \in DOMAIN tables /\ tables'[<<i, i>>] = Own(i)
          BY <3>2, <2>2, <2>4 DEF Exists, Own
        <4>2. WellMade(Own(i), i)
          BY <4>1 DEF TablesInv, TablesMade, Own
        <4> QED
          BY <3>2, <2>7, <4>1, <4>2, CopyMade
      <3> QED
        BY <3>1, <3>2
    <2>13. TablesMade'
      <3> SUFFICES ASSUME NEW p \in DOMAIN tables' PROVE WellMade(tables'[p], p[1])
        BY DEF TablesMade
      <3>1. CASE p \in DOMAIN tables
        BY <3>1, <2>4 DEF TablesInv, TablesMade
      <3>2. CASE \E i \in Ancestors[c] : p = <<c, i>>
        <4>1. PICK i \in Ancestors[c] : p = <<c, i>>
          BY <3>2
        <4>2. WellMade(tables'[<<c, i>>], c) /\ p[1] = c
          BY <4>1, <2>12
        <4> QED
          BY <4>1, <4>2
      <3> QED
        BY <3>1, <3>2, <2>3 DEF made
    <2>14. InOrder'
      <3>1. \A p \in DOMAIN tables : tables[p].slots = Own(p[2]).slots /\ Own(p[2])' = Own(p[2])
        BY <2>4 DEF TablesInv, InOrder, Places, Exists, Own
      <3>2. \A p \in DOMAIN tables' : tables'[p].slots = Own(p[2])'.slots
        <4> SUFFICES ASSUME NEW p \in DOMAIN tables' PROVE tables'[p].slots = Own(p[2])'.slots
          OBVIOUS
        <4>1. CASE p \in DOMAIN tables
          BY <4>1, <2>4, <3>1
        <4>2. CASE \E i \in Ancestors[c] : p = <<c, i>>
          BY <4>2, <2>12 DEF Own
        <4> QED
          BY <4>1, <4>2, <2>3 DEF made
      <3> QED
        BY <2>1, <3>2 DEF InOrder, Unheld, TablesInv
    <2>15. SitesLinked'
      <3> SUFFICES ASSUME NEW site \in DOMAIN slotOf, NEW d \in Implementors(site[1])'
                   PROVE  /\ slotOf[site] \in DOMAIN tables'[<<d, site[1]>>].slots
                          /\ tables'[<<d, site[1]>>].slots[slotOf[site]] = site[2]
        BY <2>1, <2>9 DEF SitesLinked, TablesInv
      <3>1. site \in Site /\ Exists(site[1]) /\ site[1] \in Class
        BY DEF SitesLinked, TablesInv, Site
      <3>2. \A e \in Implementors(site[1]) :
              /\ <<e, site[1]>> \in DOMAIN tables /\ slotOf[site] \in DOMAIN tables[<<e, site[1]>>].slots
              /\ tables[<<e, site[1]>>].slots[slotOf[site]] = site[2]
        BY ImplementorsOfTables DEF SitesLinked, TablesInv
      <3>3. CASE d \in Implementors(site[1])
        <4>1. /\ <<d, site[1]>> \in DOMAIN tables /\ slotOf[site] \in DOMAIN tables[<<d, site[1]>>].slots
              /\ tables[<<d, site[1]>>].slots[slotOf[site]] = site[2]
          BY <3>2, <3>3
        <4> QED
          BY <4>1, <2>4
      <3>4. CASE d = c /\ site[1] \in Ancestors[c]
        <4>1. site[1] \in Implementors(site[1])
          BY <3>1, ImplementorsOfTables DEF TablesInv
        <4>2. /\ <<site[1], site[1]>> \in DOMAIN tables
              /\ slotOf[site] \in DOMAIN tables'[<<site[1], site[1]>>].slots
              /\ tables'[<<site[1], site[1]>>].slots[slotOf[site]] = site[2]
          BY <3>2, <4>1, <2>4
        <4>3. tables'[<<d, site[1]>>].slots = tables'[<<site[1], site[1]>>].slots
          BY <3>4, <2>12
        <4> QED
          BY <4>2, <4>3
      <3> QED
        BY <3>1, <3>3, <3>4, <2>10
    <2>16. Stable
      BY <2>1, <2>3, <2>4, KeepsItself DEF Stable, TablesInv, TablesMade
    <2> QED
      BY <2>1, <2>11, <2>13, <2>14, <2>15, <2>16 DEF TablesInv
  <1> QED
    BY <1>1, <1>2

\* The checks of define never fire, and the slot is filled.
LEMMA InstallKeeps ==
  ASSUME TablesInv, NEW p \in DOMAIN tables, NEW s \in DOMAIN tables[p].slots,
         Install(p, s, Method(p[1], tables[p].slots[s]))
  PROVE  TablesInv' /\ Stable /\ Current(tables'[p])[s] # Null
  <1> DEFINE T == tables[p]
             f == Method(p[1], T.slots[s])
  <1>1. WellMade(T, p[1]) /\ T \in Table /\ T.arrays # <<>>
    BY DEF TablesInv, TablesMade, WellMade
  <1>2. f # Null
    BY MethodNotNull
  <1>3. UNCHANGED <<slotOf, gil>>
    BY DEF Install
  <1>4. CASE Current(T)[s] = f
    BY <1>2, <1>3, <1>4, UnchangedKept DEF Install
  <1>5. CASE Current(T)[s] # f
    <2>1. s \in DOMAIN Current(T)
      BY <1>1, CurrentOfTable DEF WellMade
    <2>2. Current(T)[s] = Null
      <3>1. Current(T) = T.arrays[Len(T.arrays)] /\ Len(T.arrays) \in DOMAIN T.arrays
        BY <1>1, CurrentOfTable
      <3>2. T.arrays[Len(T.arrays)][s] # Null => T.arrays[Len(T.arrays)][s] = f
        BY <1>1, <2>1, <3>1 DEF WellMade
      <3> QED
        BY <1>5, <3>1, <3>2
    <2>3. s \in T.needing
      BY <1>1, <2>2 DEF WellMade
    <2> DEFINE U == Defined(T, s, f)
    <2>4. tables' = [tables EXCEPT ![p] = U] /\ thrown' = thrown
      BY <1>5, <2>3 DEF Install
    <2>5. WellMade(U, p[1]) /\ U.slots = T.slots /\ Keeps(T, U) /\ Current(U)[s] # Null
      BY <1>1, <2>2, DefinedMade, ImplementorsOfTables DEF TablesInv
    <2> HIDE DEF U
    <2>6. DOMAIN tables' = DOMAIN tables /\ tables'[p] = U /\ \A q \in DOMAIN tables : q # p => tables'[q] = tables[q]
      BY <2>4
    <2>7. Places' /\ InOrder' /\ SitesLinked'
      <3>1. \A q \in DOMAIN tables : tables'[q].slots = tables[q].slots
        BY <2>5, <2>6
      <3> QED
        BY <1>3, <2>6, <3>1, SameSlots DEF TablesInv
    <2>8. TablesMade'
      BY <2>5, <2>6 DEF TablesInv, TablesMade
    <2>9. Stable
      BY <1>3, <2>5, <2>6, KeepsItself DEF Stable, TablesInv, TablesMade
    <2> QED
      BY <2>4, <2>5, <2>6, <2>7, <2>8, <2>9 DEF TablesInv
  <1> QED
    BY <1>4, <1>5

LEMMA AllocateKeeps ==
  ASSUME TablesInv, NEW t, NEW site \in Site, Allocate(t, site)
  PROVE  TablesInv' /\ Stable
  <1>1. /\ UNCHANGED <<tables, slotOf, thrown>> /\ ~gil.busy /\ Exists(site[1])
        /\ gil' = [busy |-> TRUE, thread |-> t, site |-> site, now |-> site[1],
                    todo |-> Implementors(site[1]), slot |-> 0]
    BY DEF Allocate, Unheld
  <1>2. /\ site[1] \in Implementors(site[1]) /\ site[1] \in Class
        /\ \A c \in Implementors(site[1]) : <<c, site[1]>> \in DOMAIN tables /\ c \in Class
    BY <1>1, ImplementorsOfTables DEF TablesInv, Site
  <1>3. \A p \in DOMAIN tables : tables[p].slots = Own(p[2]).slots
    BY <1>1 DEF TablesInv, InOrder, Unheld
  <1>4. \A c \in Implementors(site[1]) : tables[<<c, site[1]>>].slots = Own(site[1]).slots
    BY <1>2, <1>3
  <1>5. (\A c : Exists(c)' <=> Exists(c)) /\ (\A i : Implementors(i)' = Implementors(i)) /\ (\A i : Own(i)' = Own(i))
    BY <1>1 DEF Exists, Implementors, Own
  <1>6. gil' \in Adder'
    BY <1>1, <1>2 DEF Adder
  <1>7. Turns'
    BY <1>1, <1>2, <1>3, <1>4, <1>5, <1>6 DEF Turns
  <1>8. InOrder'
    BY <1>1, <1>7 DEF InOrder, Unheld
  <1>9. Places' /\ SitesLinked' /\ TablesMade'
    BY <1>1, <1>5 DEF TablesInv, Places, SitesLinked, TablesMade
  <1>10. Stable
    BY <1>1, KeepsItself DEF Stable, TablesInv, TablesMade
  <1> QED
    BY <1>1, <1>8, <1>9, <1>10 DEF TablesInv

LEMMA HereIsTable ==
  ASSUME TablesInv, gil.busy
  PROVE  /\ Turns /\ Here \in DOMAIN tables /\ Here = <<gil.now, gil.site[1]>>
         /\ gil.now \in Class /\ gil.site[1] \in Class /\ gil.site[2] \in Signature
         /\ Here[1] = gil.now /\ Here[2] = gil.site[1]
         /\ WellMade(tables[Here], gil.now) /\ tables[Here] \in Table /\ tables[Here].arrays # <<>>
         /\ <<gil.site[1], gil.site[1]>> \in DOMAIN tables /\ WellMade(Own(gil.site[1]), gil.site[1])
  <1>1. Turns
    BY DEF TablesInv, InOrder
  <1>2. gil.now \in Implementors(gil.site[1]) /\ Exists(gil.site[1]) /\ gil \in Adder
    BY <1>1 DEF Turns
  <1>3. Here \in DOMAIN tables /\ <<gil.site[1], gil.site[1]>> \in DOMAIN tables
    BY <1>2, ImplementorsOfTables DEF TablesInv, Here, Exists
  <1>4. WellMade(tables[Here], gil.now) /\ WellMade(Own(gil.site[1]), gil.site[1])
    BY <1>3 DEF TablesInv, TablesMade, Here, Own
  <1> QED
    BY <1>1, <1>2, <1>3, <1>4 DEF Here, Adder, Site, WellMade

LEMMA GrowKeeps ==
  ASSUME TablesInv, NEW t, Grow(t)
  PROVE  TablesInv' /\ Stable
  <1> DEFINE U == Grown(tables[Here])
  <1>1. /\ UNCHANGED <<slotOf, gil, thrown>> /\ gil.busy /\ Full(tables[Here])
        /\ tables' = [tables EXCEPT ![Here] = U]
    BY DEF Grow, Adding
  <1>2. Here \in DOMAIN tables /\ WellMade(tables[Here], gil.now) /\ Here[1] = gil.now
    BY <1>1, HereIsTable
  <1>3. WellMade(U, gil.now) /\ U.slots = tables[Here].slots /\ Keeps(tables[Here], U)
    BY <1>1, <1>2, GrownMade
  <1> HIDE DEF U
  <1>4. DOMAIN tables' = DOMAIN tables /\ tables'[Here] = U /\ \A q \in DOMAIN tables : q # Here => tables'[q] = tables[q]
    BY <1>1, <1>2
  <1>5. Places' /\ InOrder' /\ SitesLinked'
    <2>1. \A q \in DOMAIN tables : tables'[q].slots = tables[q].slots
      BY <1>3, <1>4
    <2> QED
      BY <1>1, <1>4, <2>1, SameSlots DEF TablesInv
  <1>6. TablesMade'
    BY <1>2, <1>3, <1>4 DEF TablesInv, TablesMade
  <1>7. Stable
    BY <1>1, <1>3, <1>4, KeepsItself DEF Stable, TablesInv, TablesMade
  <1> QED
    BY <1>1, <1>5, <1>6, <1>7 DEF TablesInv

\* Where the slots of an interface are its own's but for the last, a signature
\* that the others already have is in the same slot of both.
LEMMA LastIsNew ==
  ASSUME NEW slots \in Seq(Signature), NEW own \in Seq(Signature), NEW sig \in Signature,
         \A r, s \in DOMAIN own : own[r] = own[s] => r = s,
         own = slots \/ own = Append(slots, sig),
         NEW s \in DOMAIN slots, slots[s] = sig
  PROVE  own = slots
  <1>1. CASE own = Append(slots, sig)
    <2>1. /\ Len(slots) \in Nat /\ Len(slots) + 1 \in DOMAIN own /\ own[Len(slots) + 1] = sig
          /\ s \in DOMAIN own /\ own[s] = sig /\ s # Len(slots) + 1
      BY <1>1
    <2> QED
      BY <2>1
  <1> QED
    BY <1>1

LEMMA AddSlotKeeps ==
  ASSUME TablesInv, NEW t, AddSlot(t)
  PROVE  TablesInv' /\ Stable
  <1> DEFINE i == gil.site[1]
             sig == gil.site[2]
             T == tables[Here]
             U == Added(T, sig)
  <1>1. /\ UNCHANGED <<slotOf, gil, thrown>> /\ gil.busy /\ ~Full(T) /\ SlotsOf(T, sig) = {} /\ ~Known
        /\ tables' = [tables EXCEPT ![Here] = U]
    BY DEF AddSlot, Adding, Known
  <1>2. /\ Here \in DOMAIN tables /\ WellMade(T, gil.now) /\ Here = <<gil.now, i>> /\ T \in Table
        /\ Turns /\ sig \in Signature /\ i \in Class /\ <<i, i>> \in DOMAIN tables /\ Here[1] = gil.now
        /\ WellMade(Own(i), i)
    BY <1>1, HereIsTable
  <1>3. WellMade(U, gil.now) /\ U.slots = Append(T.slots, sig) /\ Keeps(T, U)
    BY <1>1, <1>2, AddedMade
  <1> HIDE DEF U
  <1>4. DOMAIN tables' = DOMAIN tables /\ tables'[Here] = U /\ \A q \in DOMAIN tables : q # Here => tables'[q] = tables[q]
    BY <1>1, <1>2
  <1>5. \A s \in DOMAIN T.slots : T.slots[s] # sig
    BY <1>1 DEF SlotsOf
  <1>6. (\A c : Exists(c)' <=> Exists(c)) /\ (\A j : Implementors(j)' = Implementors(j))
    BY <1>4 DEF Exists, Implementors
  <1>7. Places'
    BY <1>4, <1>6 DEF TablesInv, Places
  <1>8. TablesMade'
    BY <1>2, <1>3, <1>4 DEF TablesInv, TablesMade
  <1>9. Stable
    BY <1>1, <1>3, <1>4, KeepsItself DEF Stable, TablesInv, TablesMade
  <1>10. SitesLinked'
    <2> SUFFICES ASSUME NEW site \in DOMAIN slotOf, NEW c \in Implementors(site[1])
                 PROVE  /\ slotOf[site] \in DOMAIN tables'[<<c, site[1]>>].slots
                        /\ tables'[<<c, site[1]>>].slots[slotOf[site]] = site[2]
      BY <1>1, <1>6 DEF SitesLinked, TablesInv
    <2>1. /\ slotOf[site] \in DOMAIN tables[<<c, site[1]>>].slots
          /\ tables[<<c, site[1]>>].slots[slotOf[site]] = site[2] /\ <<c, site[1]>> \in DOMAIN tables
      BY ImplementorsOfTables DEF SitesLinked, TablesInv
    <2>2. CASE <<c, site[1]>> = Here
      <3>1. DOMAIN T.slots \subseteq DOMAIN U.slots /\ \A s \in DOMAIN T.slots : U.slots[s] = T.slots[s]
        <4>1. T.slots \in Seq(Signature) /\ sig \in Signature /\ U.slots = Append(T.slots, sig)
          BY <1>2, <1>3 DEF Table
        <4> HIDE DEF T, sig
        <4> QED
          BY <4>1
      <3> QED
        BY <2>1, <2>2, <1>4, <3>1
    <2> QED
      BY <2>1, <2>2, <1>4
  <1>11. Turns'
    <2>1. /\ gil \in Adder /\ Exists(i) /\ gil.now \in Implementors(i) /\ gil.todo \subseteq Implementors(i)
          /\ gil' \in Adder' /\ Implementors(i)' = Implementors(i) /\ Exists(i)'
      BY <1>1, <1>2, <1>6 DEF Turns, Adder
    <2>2. \A c \in Implementors(i) : <<c, i>> \in DOMAIN tables
      BY ImplementorsOfTables DEF TablesInv
    <2>3. \A c \in Implementors(i) : c # gil.now => tables'[<<c, i>>] = tables[<<c, i>>]
      BY <1>2, <1>4, <2>2
    <2>4. tables'[<<gil.now, i>>].slots = Append(T.slots, sig)
      BY <1>2, <1>3, <1>4
    <2>5. \A p \in DOMAIN tables' : p[2] # i => tables'[p].slots = Own(p[2])'.slots
      BY <1>2, <1>4 DEF Own, Turns, TablesInv, Places, Exists
    <2>6. i \in Implementors(i)
      BY <1>2, <2>1, ImplementorsOfTables DEF TablesInv
    <2>7. CASE gil.slot = 0
      <3>1. gil.now = i /\ gil.todo = Implementors(i) /\ \A c \in Implementors(i) : tables[<<c, i>>].slots = Own(i).slots
        BY <1>1, <1>2, <2>7 DEF Turns
      <3>2. Own(i) = T /\ Own(i)'.slots = Append(T.slots, sig)
        BY <1>1, <1>2, <2>4, <3>1 DEF Own
      <3>3. \A c \in Implementors(i) :
              tables'[<<c, i>>].slots = Own(i)'.slots \/ Own(i)'.slots = Append(tables'[<<c, i>>].slots, sig)
        BY <2>3, <2>4, <3>1, <3>2
      <3>4. Known'
        <4>1. /\ Len(T.slots) + 1 \in DOMAIN Append(T.slots, sig)
              /\ Append(T.slots, sig)[Len(T.slots) + 1] = sig
          BY <1>2 DEF Table
        <4>2. Here' = <<gil.now, i>> /\ gil'.site[2] = sig
          BY <1>1 DEF Here
        <4> QED
          BY <2>4, <4>1, <4>2 DEF Known, SlotsOf
      <3>5. gil'.slot = 0 /\ gil'.site[1] = i /\ gil'.site[2] = sig /\ gil'.now = gil.now /\ gil'.todo = gil.todo
        BY <1>1, <2>7
      <3>6. Implementors(i)' \ (gil'.todo \cup {gil'.now}) = {}
        BY <2>1, <3>1, <3>5
      <3> QED
        BY <2>1, <2>5, <3>1, <3>3, <3>4, <3>5, <3>6 DEF Turns
    <2>8. CASE gil.slot # 0
      <3>1. gil.slot \in DOMAIN Own(i).slots /\ Own(i).slots[gil.slot] = sig
        BY <1>2, <2>8 DEF Turns
      <3>2. tables[<<gil.now, i>>] = T /\ T.slots # Own(i).slots
        BY <1>2, <1>5, <3>1
      <3>3. Own(i).slots = Append(T.slots, sig) /\ gil.now # i
        BY <1>2, <2>1, <3>2 DEF Turns, Own
      <3>4. Own(i)' = Own(i)
        BY <1>1, <2>3, <2>6, <3>3 DEF Own
      <3>5. \A c \in Implementors(i) :
              \/ tables'[<<c, i>>].slots = Own(i)'.slots
              \/ Own(i)'.slots = Append(tables'[<<c, i>>].slots, sig)
        BY <1>2, <2>3, <2>4, <3>3, <3>4 DEF Turns
      <3>6. \A c \in Implementors(i) \ (gil.todo \cup {gil.now}) : tables'[<<c, i>>].slots = Own(i)'.slots
        BY <1>2, <2>3, <3>4 DEF Turns
      <3>7. (gil.slot \in DOMAIN Own(i).slots /\ Own(i).slots[gil.slot] = sig)'
        BY <1>1, <3>1, <3>4
      <3>8. gil'.slot # 0 /\ gil'.site[1] = i /\ gil'.site[2] = sig /\ gil'.now = gil.now /\ gil'.todo = gil.todo
        BY <1>1, <2>8
      <3> QED
        BY <2>1, <2>5, <3>5, <3>6, <3>7, <3>8 DEF Turns
    <2> QED
      BY <2>7, <2>8
  <1>12. InOrder'
    BY <1>1, <1>11 DEF InOrder, Unheld
  <1> QED
    BY <1>1, <1>7, <1>8, <1>9, <1>10, <1>12 DEF TablesInv

\* "Corrupted Dispatch Tables!" is never thrown.
LEMMA NextTableKeeps ==
  ASSUME TablesInv, NEW t, NextTable(t)
  PROVE  TablesInv' /\ Stable
  <1> DEFINE i == gil.site[1]
             sig == gil.site[2]
             T == tables[Here]
             s == CHOOSE x \in SlotsOf(T, sig) : TRUE
             slot == IF gil.slot = 0 THEN s ELSE gil.slot
             own == Own(i).slots
  <1>1. /\ gil.busy /\ SlotsOf(T, sig) # {} /\ tables' = tables
        /\ \/ \E c \in gil.todo : gil' = [gil EXCEPT !.now = c, !.todo = @ \ {c}, !.slot = slot] /\ slotOf' = slotOf
           \/ /\ gil.todo = {} /\ gil' = Nobody
              /\ slotOf' = [x \in DOMAIN slotOf \cup {gil.site} |-> IF x = gil.site THEN slot ELSE slotOf[x]]
        /\ thrown' = IF s = slot THEN thrown ELSE thrown \cup {"Corrupted Dispatch Tables!"}
    BY DEF NextTable, Adding, Known
  <1>2. /\ Here \in DOMAIN tables /\ T \in Table /\ Here = <<gil.now, i>> /\ Turns /\ gil \in Adder
        /\ sig \in Signature /\ i \in Class /\ gil.now \in Implementors(i) /\ WellMade(Own(i), i) /\ Own(i) \in Table
    BY <1>1, HereIsTable DEF Turns, WellMade
  <1>3. s \in DOMAIN T.slots /\ T.slots[s] = sig
    BY <1>1 DEF SlotsOf
  <1> HIDE DEF s
  <1>4. T.slots = own
    <2>1. T.slots \in Seq(Signature) /\ own \in Seq(Signature)
      BY <1>2 DEF Table
    <2>2. own = T.slots \/ own = Append(T.slots, sig)
      BY <1>2 DEF Turns
    <2>3. \A q, r \in DOMAIN own : own[q] = own[r] => q = r
      BY <1>2 DEF WellMade
    <2> HIDE DEF own, T, sig
    <2> QED
      BY <1>2, <1>3, <2>1, <2>2, <2>3, LastIsNew
  <1>5. slot = s /\ slot \in DOMAIN own /\ own[slot] = sig /\ slot \in Nat /\ slot # 0
    <2>1. s \in DOMAIN own /\ own[s] = sig /\ DOMAIN own = 1 .. Len(own) /\ Len(own) \in Nat
      BY <1>2, <1>3, <1>4 DEF Table
    <2>2. gil.slot # 0 => gil.slot \in DOMAIN own /\ own[gil.slot] = sig
      BY <1>2 DEF Turns
    <2>3. \A q, r \in DOMAIN own : own[q] = own[r] => q = r
      BY <1>2 DEF WellMade
    <2> QED
      BY <2>1, <2>2, <2>3
  <1>6. thrown' = {}
    BY <1>1, <1>5 DEF TablesInv
  <1>7. /\ \A c : Exists(c)' <=> Exists(c)
        /\ \A j : Implementors(j)' = Implementors(j) /\ Own(j)' = Own(j)
    BY <1>1 DEF Exists, Implementors, Own
  <1>8. Places' /\ TablesMade'
    BY <1>1, <1>7 DEF TablesInv, Places, TablesMade
  <1> HIDE DEF slot
  <1>9. \A c \in Implementors(i) \ gil.todo : tables[<<c, i>>].slots = own
    BY <1>2, <1>4 DEF Turns
  <1>10. \A p \in DOMAIN tables : p[2] # i => tables[p].slots = Own(p[2]).slots
    BY <1>2 DEF Turns
  <1>11. CASE \E c \in gil.todo : gil' = [gil EXCEPT !.now = c, !.todo = @ \ {c}, !.slot = slot] /\ slotOf' = slotOf
    <2>1. PICK c \in gil.todo : gil' = [gil EXCEPT !.now = c, !.todo = @ \ {c}, !.slot = slot] /\ slotOf' = slotOf
      BY <1>11
    <2>2. gil.todo \subseteq Implementors(i) /\ Exists(i) /\ gil.todo \subseteq Class
      BY <1>2 DEF Turns, Adder
    <2>3. /\ gil'.site = gil.site /\ gil'.now = c /\ gil'.todo = gil.todo \ {c} /\ gil'.slot = slot /\ gil'.busy = TRUE
          /\ gil' \in Adder'
      BY <1>2, <1>5, <2>1, <2>2 DEF Adder
    <2>4. \A d \in Implementors(i) : tables[<<d, i>>].slots = own \/ own = Append(tables[<<d, i>>].slots, sig)
      BY <1>2 DEF Turns
    <2>5. \A d \in Implementors(i) \ (gil'.todo \cup {gil'.now}) : tables[<<d, i>>].slots = own
      BY <1>9, <2>3
    <2>a. tables' = tables
      BY <1>1
    <2>b. slot # 0 /\ slot \in DOMAIN own /\ own[slot] = sig
      BY <1>5
    <2>c. Own(i)' = Own(i) /\ Implementors(i)' = Implementors(i) /\ Exists(i)'
      BY <1>7, <2>2, <2>3
    <2>f. /\ gil' \in Adder' /\ Exists(i)' /\ gil'.now \in Implementors(i)'
          /\ gil'.todo \subseteq Implementors(i)'
      BY <2>2, <2>3, <2>c
    <2>g. (\A p \in DOMAIN tables : p[2] # i => tables[p].slots = Own(p[2]).slots)'
      BY <1>7, <1>10, <2>3, <2>a
    <2>h. (\A d \in Implementors(i) : tables[<<d, i>>].slots = own \/ own = Append(tables[<<d, i>>].slots, sig))'
      BY <2>3, <2>4, <2>a, <2>c
    <2>i. (\A d \in Implementors(i) \ (gil.todo \cup {gil.now}) : tables[<<d, i>>].slots = own)'
      BY <2>3, <2>5, <2>a, <2>c
    <2>j. (gil.slot # 0 /\ gil.slot \in DOMAIN own /\ own[gil.slot] = sig)'
      BY <2>3, <2>b, <2>c
    <2>6. Turns'
      BY <2>f, <2>g, <2>h, <2>i, <2>j DEF Turns
    <2>7. InOrder'
      BY <2>3, <2>6 DEF InOrder, Unheld
    <2>8. SitesLinked'
      BY <1>7, <2>a, <2>1 DEF TablesInv, SitesLinked
    <2>9. Stable
      BY <2>a, <2>1, KeepsItself DEF Stable, TablesInv, TablesMade
    <2> QED
      BY <1>6, <1>8, <2>7, <2>8, <2>9 DEF TablesInv
  <1>12. CASE /\ gil.todo = {} /\ gil' = Nobody
              /\ slotOf' = [x \in DOMAIN slotOf \cup {gil.site} |-> IF x = gil.site THEN slot ELSE slotOf[x]]
    <2>1. gil'.busy = FALSE
      BY <1>12 DEF Nobody
    <2>2. \A p \in DOMAIN tables : tables[p].slots = Own(p[2]).slots
      BY <1>9, <1>10, <1>12, ImplementorsOfTables DEF TablesInv
    <2>3. InOrder'
      BY <1>1, <1>7, <2>1, <2>2 DEF InOrder, Unheld
    <2>4. gil.site \in Site /\ Exists(i)
      BY <1>2 DEF Adder, Turns
    <2>5. \A c \in Implementors(i) : slot \in DOMAIN tables[<<c, i>>].slots /\ tables[<<c, i>>].slots[slot] = sig
      BY <1>5, <1>9, <1>12
    <2>6. DOMAIN slotOf' = DOMAIN slotOf \cup {gil.site} /\ slotOf'[gil.site] = slot
          /\ \A x \in DOMAIN slotOf : x # gil.site => slotOf'[x] = slotOf[x]
      BY <1>12
    <2>7. SitesLinked'
      <3> SUFFICES ASSUME NEW x \in DOMAIN slotOf'
                   PROVE  /\ x \in Site /\ Exists(x[1]) /\ slotOf'[x] \in Nat
                          /\ \A c \in Implementors(x[1]) :
                               /\ slotOf'[x] \in DOMAIN tables[<<c, x[1]>>].slots
                               /\ tables[<<c, x[1]>>].slots[slotOf'[x]] = x[2]
        BY <1>1, <1>7 DEF SitesLinked
      <3>1. CASE x = gil.site
        BY <3>1, <1>5, <2>4, <2>5, <2>6
      <3>2. CASE x # gil.site
        BY <3>2, <2>6 DEF TablesInv, SitesLinked
      <3> QED
        BY <3>1, <3>2
    <2>8. gil.site \in DOMAIN slotOf => slotOf[gil.site] = slot
      <3> SUFFICES ASSUME gil.site \in DOMAIN slotOf PROVE slotOf[gil.site] = slot
        OBVIOUS
      <3>1. i \in Implementors(i)
        BY <1>2, <2>4, ImplementorsOfTables DEF TablesInv
      <3>2. slotOf[gil.site] \in DOMAIN own /\ own[slotOf[gil.site]] = sig
        BY <3>1 DEF TablesInv, SitesLinked, Own
      <3>3. \A q, r \in DOMAIN own : own[q] = own[r] => q = r
        BY <1>2 DEF WellMade
      <3> QED
        BY <1>5, <3>2, <3>3
    <2>9. Stable
      BY <1>1, <2>6, <2>8, KeepsItself DEF Stable, TablesInv, TablesMade
    <2> QED
      BY <1>6, <1>8, <2>3, <2>7, <2>9 DEF TablesInv
  <1> QED
    BY <1>1, <1>11, <1>12

-----------------------------------------------------------------------------
(* What a thread that runs compiled code does.                             *)

\* The slot of a call site is in the table it looks at, and in its array.
LEMMA SlotThere ==
  ASSUME Places, TablesMade, SitesLinked, NEW r, ReadsWell(r)
  PROVE  LET T == tables[TableOf(r)]
             s == slotOf[r.site]
         IN  /\ WellMade(T, r.class) /\ T \in Table /\ T.arrays # <<>> /\ r \in Reader
             /\ s \in DOMAIN T.slots /\ T.slots[s] = r.site[2] /\ s \in DOMAIN Current(T) /\ s \in Nat
  <1> DEFINE T == tables[TableOf(r)]
             s == slotOf[r.site]
  <1>1. r \in Reader /\ r.site \in DOMAIN slotOf /\ <<r.class, r.site[1]>> \in DOMAIN tables
        /\ TableOf(r) = <<r.class, r.site[1]>>
    BY DEF ReadsWell, TableOf
  <1>2. WellMade(T, r.class)
    BY <1>1 DEF TablesMade
  <1>3. r.class \in Implementors(r.site[1])
    BY <1>1, ImplementorsOfTables
  <1>4. s \in DOMAIN T.slots /\ T.slots[s] = r.site[2] /\ s \in Nat
    BY <1>1, <1>3 DEF SitesLinked
  <1>5. T \in Table /\ T.arrays # <<>> /\ Len(T.slots) <= Len(Current(T))
    BY <1>2 DEF WellMade
  <1> HIDE DEF T, s
  <1>6. s \in DOMAIN Current(T)
    BY <1>4, <1>5, CurrentOfTable
  <1> QED
    BY <1>1, <1>2, <1>4, <1>5, <1>6 DEF T, s

LEMMA InvokeReads ==
  ASSUME TablesInv, CallsRight, NEW t \in DOMAIN reading, NEW site \in DOMAIN slotOf, NEW c \in Class,
         NEW pending \in BOOLEAN, Exists(c), site[1] \in Ancestors[c], Invoke(t, site, c, pending)
  PROVE  TablesInv' /\ Stable /\ Reading(t)' /\ CallsRight'
  <1> DEFINE r == [at |-> "table", round |-> "test", site |-> site, class |-> c, pending |-> pending,
                   array |-> 0, failed |-> FALSE]
  <1>1. UNCHANGED <<tables, slotOf, gil, called, thrown>> /\ reading'[t] = r
    BY DEF Invoke
  <1>2. site \in Site
    BY DEF TablesInv, SitesLinked
  <1>3. <<c, site[1]>> \in DOMAIN tables
    <2>1. c \in Implementors(site[1])
      BY DEF Implementors
    <2> QED
      BY <2>1, ImplementorsOfTables DEF TablesInv
  <1>4. ReadsWell(r)
    BY <1>2, <1>3 DEF ReadsWell, Reader, TableOf
  <1>5. Reading(t)'
    <2>1. ReadsWell(r)'
      BY <1>1, <1>4 DEF ReadsWell, Reader, TableOf, Current
    <2> QED
      BY <1>1, <2>1 DEF Reading
  <1> QED
    BY <1>1, <1>5, UnchangedKept DEF CallsRight

LEMMA LoadTableReads ==
  ASSUME TablesInv, CallsRight, NEW t \in DOMAIN reading, Reading(t), LoadTable(t)
  PROVE  TablesInv' /\ Stable /\ Reading(t)' /\ CallsRight'
  <1> DEFINE r == reading[t]
             T == tables[TableOf(r)]
             n == Len(T.arrays)
             u == [r EXCEPT !.at = "slot", !.array = n]
             s == slotOf[r.site]
  <1>1. UNCHANGED <<tables, slotOf, gil, called, thrown>> /\ r.at = "table" /\ reading'[t] = u
    BY DEF LoadTable
  <1>2. r # Idle /\ ReadsWell(r)
    BY <1>1 DEF Reading, Idle
  <1>3. /\ r \in Reader /\ T \in Table /\ T.arrays # <<>> /\ s \in DOMAIN Current(T)
    BY <1>2, SlotThere DEF TablesInv
  <1>4. n \in DOMAIN T.arrays /\ T.arrays[n] = Current(T) /\ n \in Nat
    BY <1>3, CurrentOfTable
  <1>5. r.round = "call" /\ ~r.failed => Current(T)[s] # Null
    BY <1>1, <1>2 DEF ReadsWell
  <1>6. r.site \in DOMAIN slotOf /\ TableOf(r) \in DOMAIN tables
    BY <1>2 DEF ReadsWell
  <1> HIDE DEF n
  <1>7. /\ u \in Reader /\ u.site = r.site /\ TableOf(u) = TableOf(r) /\ u.array = n /\ u.at = "slot"
        /\ u.round = r.round /\ u.failed = r.failed
    BY <1>3, <1>4 DEF Reader, TableOf
  <1> HIDE DEF u, r
  <1>8. ReadsWell(u)
    BY <1>3, <1>4, <1>5, <1>6, <1>7 DEF ReadsWell
  <1>9. Reading(t)'
    <2>1. ReadsWell(reading[t])'
      BY <1>1, <1>8 DEF ReadsWell, Reader, TableOf, Current
    <2> QED
      BY <1>1, <2>1 DEF Reading
  <1> QED
    BY <1>1, <1>9, UnchangedKept DEF CallsRight

\* The test and the call may see different arrays, and one method.
LEMMA LoadSlotReads ==
  ASSUME TablesInv, CallsRight, NEW t \in DOMAIN reading, Reading(t), LoadSlot(t)
  PROVE  TablesInv' /\ Stable /\ Reading(t)' /\ CallsRight'
  <1> DEFINE r == reading[t]
             T == tables[TableOf(r)]
             s == slotOf[r.site]
             f == Loaded(r)
  <1>1. /\ UNCHANGED <<tables, slotOf, gil, thrown>> /\ r.at = "slot"
        /\ \/ /\ r.round = "test" /\ called' = called
              /\ reading'[t] = IF f = Null THEN [r EXCEPT !.at = "compile"] ELSE Again(r)
           \/ /\ r.round # "test" /\ reading'[t] = Idle
              /\ called' = called \cup {[site |-> r.site, class |-> r.class, pointer |-> f, failed |-> r.failed]}
    BY DEF LoadSlot
  <1>2. r # Idle /\ ReadsWell(r)
    BY <1>1 DEF Reading, Idle
  <1>3. /\ r \in Reader /\ T \in Table /\ WellMade(T, r.class)
        /\ s \in DOMAIN T.slots /\ T.slots[s] = r.site[2]
    BY <1>2, SlotThere DEF TablesInv
  <1>4. /\ r.array \in DOMAIN T.arrays /\ s \in DOMAIN T.arrays[r.array] /\ f = T.arrays[r.array][s]
        /\ r.round = "call" /\ ~r.failed => f # Null
    BY <1>1, <1>2 DEF ReadsWell, Loaded
  <1>5. f # Null => f = Method(r.class, r.site[2]) /\ Current(T)[s] = f
    <2>1. s \in DOMAIN T.arrays[r.array] \cap DOMAIN T.slots /\ f = T.arrays[r.array][s]
      BY <1>3, <1>4
    <2>2. T.arrays[r.array][s] # Null => T.arrays[r.array][s] = Method(r.class, T.slots[s]) /\ Current(T)[s] = T.arrays[r.array][s]
      BY <1>3, <1>4, <2>1 DEF WellMade
    <2> QED
      BY <1>3, <2>1, <2>2
  <1>6. r.site \in DOMAIN slotOf /\ TableOf(r) \in DOMAIN tables
    BY <1>2 DEF ReadsWell
  <1>7. TablesInv' /\ Stable
    BY <1>1, UnchangedKept
  <1> HIDE DEF f, T, s
  <1>8. CASE /\ r.round = "test" /\ called' = called
             /\ reading'[t] = IF f = Null THEN [r EXCEPT !.at = "compile"] ELSE Again(r)
    <2> DEFINE u == IF f = Null THEN [r EXCEPT !.at = "compile"] ELSE Again(r)
    <2>1. /\ u \in Reader /\ u.site = r.site /\ TableOf(u) = TableOf(r)
          /\ u.at # "slot" /\ (u.at = "table" => f # Null)
      BY <1>3 DEF Reader, TableOf, Again
    <2>2. tables[TableOf(u)] = T /\ slotOf[u.site] = s
      BY <2>1 DEF T, s
    <2>3. ReadsWell(u)
      BY <1>5, <1>6, <2>1, <2>2 DEF ReadsWell
    <2>4. reading'[t] = u /\ UNCHANGED <<tables, slotOf>>
      BY <1>1, <1>8
    <2> HIDE DEF u
    <2>5. ReadsWell(reading[t])'
      BY <2>3, <2>4 DEF ReadsWell, Reader, TableOf, Current
    <2> QED
      BY <1>7, <1>8, <2>5 DEF Reading, CallsRight
  <1>9. CASE /\ r.round # "test" /\ reading'[t] = Idle
             /\ called' = called \cup {[site |-> r.site, class |-> r.class, pointer |-> f, failed |-> r.failed]}
    <2>1. r.round = "call" /\ r.failed \in BOOLEAN
      BY <1>3, <1>9 DEF Reader
    <2>2. f = Method(r.class, r.site[2]) \/ (r.failed /\ f = Null)
      BY <1>4, <1>5, <2>1
    <2>3. CallsRight'
      BY <1>9, <2>2 DEF CallsRight
    <2> QED
      BY <1>7, <1>9, <2>3 DEF Reading
  <1> QED
    BY <1>1, <1>8, <1>9

\* A thread whose method has been compiled finds it, or the call failed.
LEMMA InstalledReads ==
  ASSUME TablesInv, NEW t \in DOMAIN reading, Reading(t), reading[t] # Idle,
         Install(TableOf(reading[t]), slotOf[reading[t].site], Method(reading[t].class, reading[t].site[2])),
         reading'[t] = Again(reading[t])
  PROVE  TablesInv' /\ Stable /\ Reading(t)'
  <1> DEFINE r == reading[t]
             p == TableOf(r)
             T == tables[p]
             s == slotOf[r.site]
  <1>1. ReadsWell(r)
    BY DEF Reading
  <1>2. /\ r \in Reader /\ r.site \in DOMAIN slotOf /\ p \in DOMAIN tables /\ p[1] = r.class
        /\ s \in DOMAIN T.slots /\ T.slots[s] = r.site[2]
    BY <1>1, SlotThere DEF TablesInv, ReadsWell, TableOf
  <1>3. Install(p, s, Method(p[1], T.slots[s]))
    BY <1>2
  <1>4. TablesInv' /\ Stable /\ Current(tables'[p])[s] # Null
    BY <1>2, <1>3, InstallKeeps
  <1>5. p \in DOMAIN tables' /\ r.site \in DOMAIN slotOf' /\ slotOf'[r.site] = s
    BY <1>2, <1>4 DEF Stable
  <1> DEFINE u == Again(r)
  <1>6. u \in Reader /\ u.site = r.site /\ TableOf(u) = p /\ u.at = "table"
    BY <1>2 DEF Reader, TableOf, Again
  <1> HIDE DEF u, r, p, T, s
  <1>7. reading'[t] = u
    BY DEF u, r
  <1>8. ReadsWell(reading[t])'
    BY <1>4, <1>5, <1>6, <1>7 DEF ReadsWell, Reader, TableOf, Current
  <1> QED
    BY <1>4, <1>8 DEF Reading

LEMMA FailedReads ==
  ASSUME TablesInv, NEW t \in DOMAIN reading, Reading(t), UNCHANGED <<tables, slotOf, gil, called, thrown>>,
         reading'[t] = IF reading[t] = Idle THEN Idle
                       ELSE IF reading[t].pending THEN [Again(reading[t]) EXCEPT !.failed = TRUE] ELSE Idle
  PROVE  TablesInv' /\ Stable /\ Reading(t)'
  <1> DEFINE r == reading[t]
             u == [Again(r) EXCEPT !.failed = TRUE]
  <1>1. CASE reading'[t] = Idle
    BY <1>1, UnchangedKept DEF Reading
  <1>2. CASE r # Idle /\ reading'[t] = u
    <2>1. ReadsWell(r)
      BY <1>2 DEF Reading
    <2>2. r \in Reader /\ r.site \in DOMAIN slotOf /\ TableOf(r) \in DOMAIN tables
      BY <2>1 DEF ReadsWell
    <2>3. u \in Reader /\ u.site = r.site /\ TableOf(u) = TableOf(r) /\ u.at = "table" /\ u.failed = TRUE
      BY <2>2 DEF Reader, TableOf, Again
    <2> HIDE DEF u, r
    <2>4. ReadsWell(reading[t])'
      BY <1>2, <2>2, <2>3 DEF ReadsWell, Reader, TableOf, Current
    <2> QED
      BY <2>4, UnchangedKept DEF Reading
  <1> QED
    BY <1>1, <1>2

-----------------------------------------------------------------------------
(* The runtime.                                                            *)

TypeName == {ForwardOf(k) : k \in Key} \cup {TypeOf(k, n) : k \in Key, n \in Nat}
Memo == TypeName \cup {Undefined, Raised}
TypeFrames == [kind : {"type"}, key : Key, results : Seq(Memo)]
CompileFrames ==
  [kind : {"compile"}, function : DOMAIN Program.code, target : {NoTable} \cup Class \X Class, slot : Nat,
   results : Seq(Memo), linked : Nat]
Frame == TypeFrames \cup CompileFrames

TypesRight ==
  /\ program \in DOMAIN Programs /\ DOMAIN types \subseteq TypeName
  /\ memo \in [Key -> DOMAIN types \cup {Undefined, Raised}] /\ runs \in [Key -> Nat]
StacksRight ==
  /\ held \in [Thread -> Seq(Frame)] /\ raising \in [Thread -> {Calm, Error, Interrupt}]
  /\ asked \in [Thread -> Key \cup {NoKey}] /\ at \in [Thread -> Nat \ {0}]
  /\ reading \in [Thread -> Reader \cup {Idle}]

HoldsAlone == \A t, u \in Thread : held[t] # <<>> /\ held[u] # <<>> => t = u

\* What is being compiled for a call is the method of that call, for its slot;
\* no operation that has the lock starts to compile.
Serves(t, f) ==
  LET r == reading[t]
  IN  /\ r # Idle /\ r.at = "compile" /\ f.target = TableOf(r) /\ f.slot = slotOf[r.site]
      /\ f.function = Method(r.class, r.site[2])
CompilesRight(t) ==
  \A i \in DOMAIN held[t] : held[t][i].kind = "compile" =>
    i = 1 /\ (held[t][i].target # NoTable => Serves(t, held[t][i]))

LockInv == TypesRight /\ StacksRight /\ HoldsAlone
RuntimeInv ==
  /\ LockInv /\ TablesInv /\ CallsRight
  /\ \A t \in Thread : Reading(t) /\ CompilesRight(t)

-----------------------------------------------------------------------------
(* Stacks.                                                                 *)

\* As an operation goes on, it is the same operation.
Same(f, g) ==
  f.kind = "compile" =>
    g.kind = "compile" /\ f.function = g.function /\ f.target = g.target /\ f.slot = g.slot
\* What is compiled on stack S was being compiled on R.
OldCompiles(R, S) ==
  \A i \in DOMAIN S : S[i].kind = "compile" => i \in DOMAIN R /\ Same(S[i], R[i])

LEMMA Answered ==
  ASSUME NEW f \in Frame, NEW a \in Memo
  PROVE  [f EXCEPT !.results = Append(@, a)] \in Frame /\ Same([f EXCEPT !.results = Append(@, a)], f)
  <1>1. f \in TypeFrames \/ f \in CompileFrames
    BY DEF Frame
  <1>2. f.results \in Seq(Memo) /\ Append(f.results, a) \in Seq(Memo)
    BY <1>1 DEF TypeFrames, CompileFrames
  <1> DEFINE results == Append(f.results, a)
             g == [f EXCEPT !.results = results]
  <1> HIDE DEF results
  <1>3. CASE f \in TypeFrames
    BY <1>2, <1>3 DEF TypeFrames, Frame, Same, results
  <1>4. CASE f \in CompileFrames
    BY <1>2, <1>4 DEF CompileFrames, Frame, Same, results
  <1> QED
    BY <1>1, <1>3, <1>4

LEMMA PushStack ==
  ASSUME NEW S \in Seq(Frame), NEW f \in Frame, f.kind = "type"
  PROVE  Append(S, f) \in Seq(Frame) /\ OldCompiles(S, Append(S, f))
  BY DEF OldCompiles, Same

LEMMA PopStack ==
  ASSUME NEW S \in Seq(Frame), S # <<>>
  PROVE  LET B == SubSeq(S, 1, Len(S) - 1)
         IN  /\ B \in Seq(Frame) /\ OldCompiles(S, B) /\ Len(B) = Len(S) - 1 /\ DOMAIN B = 1 .. Len(S) - 1
             /\ \A i \in 1 .. Len(S) - 1 : B[i] = S[i]
             /\ Len(S) \in DOMAIN S /\ S[Len(S)] \in Frame /\ Len(S) \in Nat
  <1> DEFINE B == SubSeq(S, 1, Len(S) - 1)
  <1>1. /\ Len(S) \in Nat /\ Len(S) >= 1 /\ DOMAIN S = 1 .. Len(S)
        /\ \A i \in DOMAIN S : S[i] \in Frame
    OBVIOUS
  <1>2. B \in Seq(Frame) /\ Len(B) = Len(S) - 1 /\ \A i \in 1 .. Len(S) - 1 : B[i] = S[i]
    BY <1>1
  <1> HIDE DEF B
  <1>3. DOMAIN B = 1 .. Len(S) - 1
    BY <1>1, <1>2
  <1>4. OldCompiles(S, B)
    BY <1>1, <1>2, <1>3 DEF OldCompiles, Same
  <1> QED
    BY <1>1, <1>2, <1>3, <1>4 DEF B

LEMMA TopStack ==
  ASSUME NEW S \in Seq(Frame), S # <<>>, NEW f \in Frame, Same(f, S[Len(S)])
  PROVE  LET U == Append(SubSeq(S, 1, Len(S) - 1), f)
         IN  U \in Seq(Frame) /\ OldCompiles(S, U)
  <1> DEFINE B == SubSeq(S, 1, Len(S) - 1)
             U == Append(B, f)
  <1>1. /\ B \in Seq(Frame) /\ Len(B) = Len(S) - 1 /\ DOMAIN S = 1 .. Len(S) /\ Len(S) \in Nat
        /\ \A i \in 1 .. Len(S) - 1 : B[i] = S[i] 
    BY PopStack
  <1> HIDE DEF B
  <1>2. /\ U \in Seq(Frame) /\ DOMAIN U = 1 .. Len(S) /\ U[Len(S)] = f
        /\ \A i \in 1 .. Len(S) - 1 : U[i] = S[i]
    BY <1>1
  <1> HIDE DEF U
  <1>3. ASSUME NEW i \in DOMAIN U, U[i].kind = "compile" PROVE i \in DOMAIN S /\ Same(U[i], S[i])
    <2>1. CASE i = Len(S)
      BY <2>1, <1>1, <1>2
    <2>2. CASE i \in 1 .. Len(S) - 1
      BY <2>2, <1>1, <1>2 DEF Same
    <2> QED
      BY <2>1, <2>2, <1>1, <1>2
  <1> QED
    BY <1>2, <1>3 DEF OldCompiles, U, B

\* The innermost operation of a stack gets an answer.
LEMMA AnsweredStack ==
  ASSUME NEW S \in Seq(Frame), S # <<>>, NEW a \in Memo
  PROVE  LET U == [S EXCEPT ![Len(S)].results = Append(@, a)]
         IN  U \in Seq(Frame) /\ OldCompiles(S, U)
  <1> DEFINE n == Len(S)
             f == [S[n] EXCEPT !.results = Append(@, a)]
             U == [S EXCEPT ![n] = f]
  <1>1. n \in DOMAIN S /\ S[n] \in Frame /\ DOMAIN S = 1 .. n /\ n \in Nat
    OBVIOUS
  <1>2. f \in Frame /\ Same(f, S[n])
    BY <1>1, Answered
  <1>a. [S EXCEPT ![Len(S)].results = Append(@, a)] = U
    BY Zenon
  <1> HIDE DEF f, n
  <1>3. U \in Seq(Frame)
    BY <1>1, <1>2
  <1>4. DOMAIN U = DOMAIN S /\ U[n] = f /\ \A i \in DOMAIN S : i # n => U[i] = S[i]
    BY <1>1
  <1> HIDE DEF U
  <1>5. OldCompiles(S, U)
    BY <1>2, <1>4 DEF OldCompiles, Same
  <1> QED
    BY <1>3, <1>5, <1>a

-----------------------------------------------------------------------------
(* The steps of TypeFunctions.                                             *)

\* One thread's stack changes, which is not empty then only if the lock is its;
\* nothing is on it then that starts to compile.
StackMove(t) ==
  held' = [held EXCEPT ![t] = held'[t]] /\ held'[t] \in Seq(Frame) /\ (held'[t] # <<>> => Mine(t))
StackStep(t) == StackMove(t) /\ OldCompiles(held[t], held'[t])
LockMove(t) ==
  /\ TypesRight' /\ StackMove(t)
  /\ raising' \in [Thread -> {Calm, Error, Interrupt}] /\ asked' \in [Thread -> Key \cup {NoKey}]
LockStep(t) == LockMove(t) /\ OldCompiles(held[t], held'[t])

LEMMA HolderAlone ==
  ASSUME LockInv, NEW t \in Thread, held[t] # <<>>
  PROVE  Mine(t)
  BY DEF LockInv, HoldsAlone, Mine

LEMMA StackStays ==
  ASSUME LockInv, NEW t \in Thread, UNCHANGED held
  PROVE  StackStep(t)
  <1>1. held[t] \in Seq(Frame) /\ held \in [Thread -> Seq(Frame)]
    BY DEF LockInv, StacksRight
  <1>2. OldCompiles(held[t], held'[t])
    BY DEF OldCompiles, Same
  <1> QED
    BY <1>1, <1>2, HolderAlone DEF StackStep, StackMove

LEMMA LockMoveKeeps ==
  ASSUME LockInv, NEW t \in Thread, LockMove(t), UNCHANGED program,
         at' \in [Thread -> Nat \ {0}], reading' \in [Thread -> Reader \cup {Idle}]
  PROVE  LockInv' /\ \A u \in Thread \ {t} : held'[u] = held[u]
  <1>1. held \in [Thread -> Seq(Frame)] /\ Frame' = Frame
    BY DEF LockInv, StacksRight, Frame, CompileFrames, Program
  <1>2. held' \in [Thread -> Seq(Frame)] /\ \A u \in Thread \ {t} : held'[u] = held[u]
    BY <1>1 DEF LockMove, StackMove
  <1>3. HoldsAlone'
    BY <1>2 DEF LockInv, HoldsAlone, LockMove, StackMove, Mine
  <1> QED
    BY <1>1, <1>2, <1>3 DEF LockInv, LockMove, StacksRight, StackMove

LEMMA BodyOf ==
  ASSUME TypesRight, NEW k \in Key
  PROVE  body[k].calls \in Seq(Key) /\ body[k].makes \in {"tuple", "class", "alias", "error"}
  BY BodyAssumption DEF TypesRight, body

LEMMA CodeOf ==
  ASSUME TypesRight, NEW f \in DOMAIN Program.code
  PROVE  Program.code[f].uses \in Seq(Key) /\ Program.code[f].sites \in Seq(Site)
  BY ProgramsAssumption DEF TypesRight, Program, Site

LEMMA TypesGrow ==
  ASSUME TypesRight, UNCHANGED <<program, runs>>, DOMAIN types \subseteq DOMAIN types', DOMAIN types' \subseteq TypeName,
         NEW k \in Key, NEW a \in DOMAIN types' \cup {Undefined, Raised}, memo' = [memo EXCEPT ![k] = a]
  PROVE  TypesRight'
  BY DEF TypesRight

LEMMA TypesStay ==
  ASSUME TypesRight, UNCHANGED <<program, types, memo, runs>>
  PROVE  TypesRight'
  BY DEF TypesRight

LEMMA AskKeeps ==
  ASSUME LockInv, UNCHANGED program, NEW t \in Thread, NEW k \in Key, Ask(t, k)
  PROVE  LockStep(t)
  <1>1. UNCHANGED <<types, memo, runs, held, raising>> /\ (asked' = asked \/ asked' = [asked EXCEPT ![t] = k])
    BY DEF Ask
  <1>2. TypesRight' /\ StackStep(t)
    BY <1>1, TypesStay, StackStays DEF LockInv
  <1>3. raising' \in [Thread -> {Calm, Error, Interrupt}] /\ asked' \in [Thread -> Key \cup {NoKey}]
    BY <1>1 DEF LockInv, StacksRight
  <1> QED
    BY <1>2, <1>3 DEF LockStep, LockMove, StackStep

\* What a stack has when an operation begins on top of it.
LEMMA BeginKeeps ==
  ASSUME LockInv, UNCHANGED program, NEW t \in Thread, Mine(t), NEW k \in Key, Begin(t, k, held[t])
  PROVE  TypesRight' /\ StackStep(t)
  <1>1. TypesRight /\ held \in [Thread -> Seq(Frame)]
    BY DEF LockInv, StacksRight
  <1>2. /\ memo' = [memo EXCEPT ![k] = ForwardOf(k)] /\ runs' = [runs EXCEPT ![k] = @ + 1]
        /\ DOMAIN types' = DOMAIN types \cup {ForwardOf(k)}
        /\ held' = [held EXCEPT ![t] = Append(held[t], TypeFrame(k))]
    BY DEF Begin, Extend
  <1>3. TypesRight'
    <2>1. DOMAIN types' \subseteq TypeName
      <3>1. ForwardOf(k) \in TypeName /\ DOMAIN types \subseteq TypeName
        BY <1>1 DEF TypesRight, TypeName
      <3>2. DOMAIN types' = DOMAIN types \cup {ForwardOf(k)}
        BY <1>2
      <3> QED
        BY <3>1, <3>2
    <2>2. memo' \in [Key -> DOMAIN types' \cup {Undefined, Raised}]
      BY <1>1, <1>2 DEF TypesRight
    <2>3. runs' \in [Key -> Nat]
      BY <1>1, <1>2 DEF TypesRight
    <2> QED
      BY <1>1, <2>1, <2>2, <2>3 DEF TypesRight
  <1>4. TypeFrame(k) \in Frame /\ TypeFrame(k).kind = "type"
    BY DEF TypeFrame, Frame, TypeFrames
  <1>5. held'[t] = Append(held[t], TypeFrame(k))
    BY <1>1, <1>2
  <1>6. held'[t] \in Seq(Frame) /\ OldCompiles(held[t], held'[t])
    BY <1>1, <1>4, <1>5, PushStack
  <1> QED
    BY <1>2, <1>3, <1>5, <1>6 DEF StackStep, StackMove

LEMMA LockedKeeps ==
  ASSUME LockInv, UNCHANGED program, NEW t \in Thread, Locked(t)
  PROVE  LockStep(t)
  <1>1. /\ asked[t] # NoKey /\ held[t] = <<>> /\ Mine(t) /\ asked' = [asked EXCEPT ![t] = NoKey] /\ raising' = raising
        /\ Begin(t, asked[t], <<>>) \/ UNCHANGED <<types, memo, runs, held>>
    BY DEF Locked
  <1>2. asked[t] \in Key /\ raising' \in [Thread -> {Calm, Error, Interrupt}] /\ asked' \in [Thread -> Key \cup {NoKey}]
    BY <1>1 DEF LockInv, StacksRight
  <1>3. CASE Begin(t, asked[t], <<>>)
    BY <1>1, <1>2, <1>3, BeginKeeps DEF LockStep, LockMove, StackStep, StackMove
  <1>4. CASE UNCHANGED <<types, memo, runs, held>>
    BY <1>2, <1>4, TypesStay, StackStays DEF LockStep, LockMove, LockInv, StackStep, StackMove
  <1> QED
    BY <1>1, <1>3, <1>4

LEMMA CallInsideKeeps ==
  ASSUME LockInv, UNCHANGED program, NEW t \in Thread, NEW calls \in Seq(Key), CallInside(t, calls)
  PROVE  LockStep(t)
  <1> DEFINE k == calls[Len(Top(t).results) + 1]
             f == [Top(t) EXCEPT !.results = Append(@, memo[k])]
             got == Append(Below(t), f)
  <1>1. /\ held[t] # <<>> /\ Len(Top(t).results) < Len(calls) /\ Mine(t) /\ asked' = asked
        /\ \/ Begin(t, k, held[t]) /\ UNCHANGED raising
           \/ /\ UNCHANGED <<types, memo, runs>>
              /\ \/ raising' = [raising EXCEPT ![t] = Error] /\ UNCHANGED held
                 \/ held' = [held EXCEPT ![t] = got] /\ UNCHANGED raising
    BY DEF CallInside, Pending
  <1>2. held[t] \in Seq(Frame) /\ Top(t) \in Frame /\ TypesRight
    BY <1>1, PopStack DEF LockInv, StacksRight, Top
  <1>3. Top(t).results \in Seq(Memo)
    BY <1>2 DEF Frame, TypeFrames, CompileFrames
  <1>4. k \in Key
    <2> DEFINE n == Len(Top(t).results)
    <2>1. n \in Nat /\ n < Len(calls)
      BY <1>1, <1>3
    <2> HIDE DEF n
    <2>2. calls[n + 1] \in Key
      BY <2>1
    <2> QED
      BY <2>2 DEF n
  <1>5. memo[k] \in Memo
    BY <1>2, <1>4 DEF TypesRight, Memo
  <1>6. f \in Frame /\ Same(f, Top(t))
    BY <1>2, <1>5, Answered
  <1>7. got \in Seq(Frame) /\ OldCompiles(held[t], got)
    BY <1>1, <1>2, <1>6, TopStack DEF Top, Below
  <1>8. /\ raising \in [Thread -> {Calm, Error, Interrupt}] /\ asked' \in [Thread -> Key \cup {NoKey}]
        /\ held \in [Thread -> Seq(Frame)]
    BY <1>1 DEF LockInv, StacksRight
  <1> HIDE DEF got, k
  <1>9. CASE Begin(t, k, held[t]) /\ UNCHANGED raising
    BY <1>1, <1>4, <1>8, <1>9, BeginKeeps DEF LockStep, LockMove, StackStep, StackMove
  <1>10. CASE /\ UNCHANGED <<types, memo, runs>>
              /\ raising' = [raising EXCEPT ![t] = Error] /\ UNCHANGED held
    BY <1>2, <1>8, <1>10, TypesStay, StackStays DEF LockStep, LockMove, StackStep, StackMove
  <1>11. CASE /\ UNCHANGED <<types, memo, runs>>
              /\ held' = [held EXCEPT ![t] = got] /\ UNCHANGED raising
    BY <1>1, <1>2, <1>7, <1>8, <1>11, TypesStay DEF LockStep, LockMove, StackStep, StackMove
  <1> QED
    BY <1>1, <1>9, <1>10, <1>11

LEMMA OldCompilesOn ==
  ASSUME NEW R, NEW S, NEW U, OldCompiles(R, S), OldCompiles(S, U)
  PROVE  OldCompiles(R, U)
  BY DEF OldCompiles, Same

\* What is left when the innermost operation has gone, with or without an
\* answer for the one below.
LEMMA BelowKeeps ==
  ASSUME LockInv, NEW t \in Thread, held[t] # <<>>, NEW a \in Memo
  PROVE  /\ Below(t) \in Seq(Frame) /\ OldCompiles(held[t], Below(t))
         /\ Told(Below(t), a) \in Seq(Frame) /\ OldCompiles(held[t], Told(Below(t), a))
  <1>1. held[t] \in Seq(Frame)
    BY DEF LockInv, StacksRight
  <1>2. Below(t) \in Seq(Frame) /\ OldCompiles(held[t], Below(t))
    BY <1>1, PopStack DEF Below
  <1>3. CASE Below(t) # <<>>
    <2> DEFINE U == [Below(t) EXCEPT ![Len(Below(t))].results = Append(@, a)]
    <2>1. U \in Seq(Frame) /\ OldCompiles(Below(t), U)
      BY <1>2, <1>3, AnsweredStack
    <2>2. Told(Below(t), a) = U
      BY <1>3 DEF Told
    <2> HIDE DEF U
    <2> QED
      BY <1>2, <2>1, <2>2, OldCompilesOn
  <1>4. CASE Below(t) = <<>>
    BY <1>2, <1>4 DEF OldCompiles, Told
  <1> QED
    BY <1>2, <1>3, <1>4

LEMMA InsideType ==
  ASSUME LockInv, NEW t \in Thread, In(t, "type")
  PROVE  Top(t) \in TypeFrames /\ Top(t).key \in Key
  <1>1. Top(t) \in Frame /\ Top(t).kind = "type"
    BY PopStack DEF LockInv, StacksRight, In, Top
  <1> QED
    BY <1>1 DEF Frame, TypeFrames, CompileFrames

LEMMA GraphGrows ==
  ASSUME LockInv, NEW t \in Thread, In(t, "type")
  PROVE  DOMAIN types \subseteq DOMAIN Graph(t) /\ DOMAIN Graph(t) \subseteq TypeName
  <1>1. Top(t).key \in Key /\ TypesRight
    BY InsideType DEF LockInv
  <1>2. Made(Top(t).key) \in TypeName /\ DOMAIN types \subseteq TypeName
    BY <1>1 DEF Made, TypeName, TypesRight
  <1> QED
    BY <1>2 DEF Graph, Make

LEMMA ReturnKeeps ==
  ASSUME LockInv, UNCHANGED program, NEW t \in Thread, Return(t)
  PROVE  LockStep(t)
  <1> DEFINE k == Top(t).key
             r == Result(t)
             U == Told(Below(t), r)
  <1>1. /\ In(t, "type") /\ held[t] # <<>> /\ r \in DOMAIN Graph(t) /\ types' = Define(Graph(t), ForwardOf(k), r)
        /\ memo' = [memo EXCEPT ![k] = r] /\ Answer(t, k, r) /\ UNCHANGED <<runs, raising, asked>>
    BY DEF Return, Returns, Ran, Running, In
  <1>2. DOMAIN types \subseteq DOMAIN Graph(t) /\ DOMAIN Graph(t) \subseteq TypeName /\ k \in Key
    BY <1>1, GraphGrows, InsideType
  <1>3. DOMAIN types' = DOMAIN Graph(t)
    BY <1>1 DEF Define
  <1>4. r \in Memo
    BY <1>1, <1>2 DEF Memo
  <1>5. held' = [held EXCEPT ![t] = U]
    BY <1>1 DEF Answer
  <1>6. U \in Seq(Frame) /\ OldCompiles(held[t], U)
    BY <1>1, <1>4, BelowKeeps
  <1> HIDE DEF U, r, k
  <1>7. TypesRight'
    BY <1>1, <1>2, <1>3, TypesGrow DEF LockInv
  <1>8. held'[t] = U
    BY <1>5 DEF LockInv, StacksRight
  <1>9. StackStep(t)
    BY <1>1, <1>5, <1>6, <1>8, HolderAlone DEF StackStep, StackMove
  <1> QED
    BY <1>1, <1>7, <1>9 DEF LockStep, LockMove, LockInv, StacksRight, StackStep, StackMove

LEMMA FailKeeps ==
  ASSUME LockInv, UNCHANGED program, NEW t \in Thread, Fail(t)
  PROVE  LockStep(t)
  <1>1. /\ In(t, "type") /\ types' = Graph(t) /\ UNCHANGED <<memo, runs, held, asked>>
        /\ raising' = [raising EXCEPT ![t] = Error]
    BY DEF Fail, Ran, Running
  <1>2. DOMAIN types \subseteq DOMAIN types' /\ DOMAIN types' \subseteq TypeName
    BY <1>1, GraphGrows
  <1>3. TypesRight'
    BY <1>1, <1>2 DEF LockInv, TypesRight
  <1> QED
    BY <1>1, <1>3, StackStays DEF LockStep, LockMove, LockInv, StacksRight, StackStep, StackMove

LEMMA InterruptedKeeps ==
  ASSUME LockInv, UNCHANGED program, NEW t \in Thread, Interrupted(t)
  PROVE  LockStep(t)
  BY TypesStay, StackStays DEF Interrupted, LockStep, LockMove, LockInv, StacksRight, StackStep, StackMove

LEMMA UnwindKeeps ==
  ASSUME LockInv, UNCHANGED program, NEW t \in Thread, Unwind(t)
  PROVE  LockStep(t)
  <1> DEFINE k == Top(t).key
             B == Below(t)
             U == IF raising[t] = Error THEN Caught(B) ELSE B
  <1>1. /\ In(t, "type") /\ held[t] # <<>> /\ UNCHANGED <<types, runs, asked>>
        /\ memo' = memo \/ memo' = [memo EXCEPT ![k] = Raised]
        /\ held' = [held EXCEPT ![t] = U]
        /\ raising' = raising \/ raising' = [raising EXCEPT ![t] = Calm]
    BY DEF Unwind, In
  <1>2. Raised \in Memo /\ k \in Key
    BY <1>1, InsideType DEF Memo
  <1>3. U \in Seq(Frame) /\ OldCompiles(held[t], U)
    BY <1>1, <1>2, BelowKeeps DEF Caught
  <1> HIDE DEF U, k
  <1>4. held'[t] = U
    BY <1>1 DEF LockInv, StacksRight
  <1>5. StackStep(t)
    BY <1>1, <1>3, <1>4, HolderAlone DEF StackStep, StackMove
  <1>6. TypesRight'
    BY <1>1, <1>2, TypesStay, TypesGrow DEF LockInv, TypesRight
  <1> QED
    BY <1>1, <1>5, <1>6 DEF LockStep, LockMove, LockInv, StacksRight, StackStep, StackMove

LEMMA CallKeeps ==
  ASSUME LockInv, UNCHANGED program, NEW t \in Thread, Call(t)
  PROVE  LockStep(t)
  <1>1. In(t, "type") /\ CallInside(t, body[Top(t).key].calls)
    BY DEF Call, Running
  <1>2. body[Top(t).key].calls \in Seq(Key)
    BY <1>1, InsideType, BodyOf DEF LockInv
  <1> QED
    BY <1>1, <1>2, CallInsideKeeps

-----------------------------------------------------------------------------
(* The steps of the runtime.                                               *)

\* What a thread compiles stays what its call needs, while it does not move.
LEMMA CompilesKept ==
  ASSUME RuntimeInv, NEW u \in Thread, Stable, reading'[u] = reading[u], OldCompiles(held[u], held'[u])
  PROVE  CompilesRight(u)'
  <1> SUFFICES ASSUME NEW i \in DOMAIN held'[u], held'[u][i].kind = "compile"
               PROVE  (i = 1 /\ (held[u][i].target # NoTable => Serves(u, held[u][i])))'
    BY DEF CompilesRight
  <1>1. /\ i \in DOMAIN held[u] /\ held[u][i].kind = "compile" /\ held'[u][i].function = held[u][i].function
        /\ held'[u][i].target = held[u][i].target /\ held'[u][i].slot = held[u][i].slot
    BY DEF OldCompiles, Same
  <1>2. i = 1 /\ (held[u][i].target # NoTable => Serves(u, held[u][i]))
    BY <1>1 DEF RuntimeInv, CompilesRight
  <1>3. reading[u] # Idle => slotOf'[reading[u].site] = slotOf[reading[u].site]
    BY DEF RuntimeInv, Reading, ReadsWell, Stable
  <1>4. ASSUME held[u][i].target # NoTable PROVE Serves(u, held[u][i])'
    BY <1>1, <1>2, <1>3, <1>4 DEF Serves, TableOf
  <1> QED
    BY <1>1, <1>2, <1>4

\* It is enough to look at the thread that takes the step.
LEMMA ThreadStep ==
  ASSUME RuntimeInv, NEW t \in Thread, UNCHANGED program, TablesInv', Stable, CallsRight',
         LockMove(t), at' \in [Thread -> Nat \ {0}], reading' = [reading EXCEPT ![t] = reading'[t]],
         Reading(t)', CompilesRight(t)'
  PROVE  RuntimeInv'
  <1>1. reading \in [Thread -> Reader \cup {Idle}] /\ reading' \in [Thread -> Reader \cup {Idle}]
    <2>1. reading \in [Thread -> Reader \cup {Idle}]
      BY DEF RuntimeInv, LockInv, StacksRight
    <2>2. reading'[t] \in Reader \cup {Idle}
      BY DEF Reading, ReadsWell
    <2> QED
      BY <2>1, <2>2
  <1>2. LockInv' /\ \A u \in Thread \ {t} : held'[u] = held[u]
    BY <1>1, LockMoveKeeps DEF RuntimeInv
  <1>3. \A u \in Thread \ {t} : reading'[u] = reading[u]
    BY <1>1
  <1>4. ASSUME NEW u \in Thread \ {t} PROVE Reading(u)' /\ CompilesRight(u)'
    <2>1. Reading(u)'
      BY <1>3, ReadingKept DEF RuntimeInv, TablesInv
    <2>2. OldCompiles(held[u], held'[u])
      BY <1>2 DEF OldCompiles, Same
    <2> QED
      BY <1>3, <2>1, <2>2, CompilesKept
  <1> QED
    BY <1>2, <1>4 DEF RuntimeInv

\* A step that is none of compiled code, and starts to compile nothing.
LEMMA TypeStepKeeps ==
  ASSUME RuntimeInv, NEW t \in Thread, UNCHANGED <<program, reading, called>>, TablesInv', Stable,
         LockStep(t), at' \in [Thread -> Nat \ {0}]
  PROVE  RuntimeInv'
  <1>1. Reading(t)'
    BY ReadingKept DEF RuntimeInv, TablesInv
  <1>2. CompilesRight(t)'
    BY CompilesKept DEF LockStep
  <1>3. CallsRight'
    BY DEF RuntimeInv, CallsRight
  <1>4. reading' = [reading EXCEPT ![t] = reading'[t]]
    BY DEF RuntimeInv, LockInv, StacksRight
  <1> QED
    BY <1>1, <1>2, <1>3, <1>4, ThreadStep DEF LockStep

LEMMA StartsWhat ==
  ASSUME RuntimeInv, NEW t \in Thread, NEW op, Starts(t, op)
  PROVE  /\ at' \in [Thread -> Nat \ {0}] /\ UNCHANGED program /\ Free(t)
         /\ Next1(t) \in Operation(Program) /\ Next1(t).op = op
         /\ Next1(t).op = "call" => Next1(t).site[1] \in Ancestors[Next1(t).class]
  <1>1. at \in [Thread -> Nat \ {0}] /\ program \in DOMAIN Programs
    BY DEF RuntimeInv, LockInv, StacksRight, TypesRight
  <1>2. /\ Program.plan \in [Thread -> Seq(Operation(Program))]
        /\ \A i \in DOMAIN Program.plan[t] :
             Program.plan[t][i].op = "call" => Program.plan[t][i].site[1] \in Ancestors[Program.plan[t][i].class]
    BY <1>1, ProgramsAssumption DEF Program
  <1>3. at[t] \in DOMAIN Program.plan[t]
    BY <1>1, <1>2 DEF Starts
  <1> QED
    BY <1>1, <1>2, <1>3 DEF Starts, Next1

LEMMA AskTypeKeeps ==
  ASSUME RuntimeInv, NEW t \in Thread, AskType(t)
  PROVE  RuntimeInv'
  <1>1. Starts(t, "type") /\ Ask(t, Next1(t).key) /\ UNCHANGED dispatchVars
    BY DEF AskType
  <1>2. Next1(t).key \in Key /\ UNCHANGED program /\ at' \in [Thread -> Nat \ {0}]
    BY <1>1, StartsWhat DEF Operation
  <1>3. LockStep(t)
    BY <1>1, <1>2, AskKeeps DEF RuntimeInv
  <1>4. TablesInv' /\ Stable
    BY <1>1, UnchangedKept DEF RuntimeInv, dispatchVars
  <1> QED
    BY <1>1, <1>2, <1>3, <1>4, TypeStepKeeps DEF dispatchVars

LEMMA TypeStepsKeep ==
  ASSUME RuntimeInv, NEW t \in Thread, TypeStep(t)
  PROVE  RuntimeInv'
  <1>1. /\ Unheld /\ UNCHANGED <<program, at>>
        /\ Locked(t) \/ Call(t) \/ Interrupted(t) \/ Unwind(t) \/ Return(t) \/ Fail(t)
        /\ \/ UNCHANGED dispatchVars
           \/ MakesClass(t) /\ MakeClass(Program.class[Top(t).key])
    BY DEF TypeStep
  <1>2. LockStep(t)
    BY <1>1, LockedKeeps, CallKeeps, InterruptedKeeps, UnwindKeeps, ReturnKeeps, FailKeeps DEF RuntimeInv
  <1>3. at' \in [Thread -> Nat \ {0}]
    BY <1>1 DEF RuntimeInv, LockInv, StacksRight
  <1>4. TablesInv' /\ Stable /\ UNCHANGED <<reading, called>>
    <2>1. CASE UNCHANGED dispatchVars
      BY <2>1, UnchangedKept DEF RuntimeInv, dispatchVars
    <2>2. CASE MakesClass(t) /\ MakeClass(Program.class[Top(t).key])
      <3>1. Top(t).key \in Key
        BY <2>2, InsideType DEF RuntimeInv, MakesClass, Ran, Running
      <3>2. Program.class[Top(t).key] \in Class
        BY <2>2, <3>1, ProgramsAssumption DEF MakesClass, Program, RuntimeInv, LockInv, TypesRight
      <3> QED
        BY <1>1, <2>2, <3>2, MakeClassKeeps DEF RuntimeInv, MakeClass
    <2> QED
      BY <1>1, <2>1, <2>2
  <1> QED
    BY <1>1, <1>2, <1>3, <1>4, TypeStepKeeps

LEMMA InsideCompile ==
  ASSUME RuntimeInv, NEW t \in Thread, In(t, "compile")
  PROVE  /\ held[t] \in Seq(Frame) /\ held[t] # <<>> /\ Top(t) \in CompileFrames
         /\ Len(held[t]) = 1 /\ Top(t) = held[t][1] /\ Below(t) = <<>>
         /\ Top(t).target # NoTable => Serves(t, Top(t))
         /\ Code(t).uses \in Seq(Key) /\ Code(t).sites \in Seq(Site)
  <1>1. held[t] \in Seq(Frame) /\ held[t] # <<>> /\ Top(t) \in Frame /\ Top(t).kind = "compile"
        /\ Len(held[t]) \in DOMAIN held[t] /\ Top(t) = held[t][Len(held[t])]
    BY PopStack DEF RuntimeInv, LockInv, StacksRight, In, Top
  <1>2. Len(held[t]) = 1 /\ (Top(t).target # NoTable => Serves(t, Top(t)))
    BY <1>1 DEF RuntimeInv, CompilesRight
  <1>3. Top(t) \in CompileFrames
    BY <1>1 DEF Frame, TypeFrames, CompileFrames
  <1>4. Below(t) = <<>>
    <2>1. Below(t) \in Seq(Frame) /\ Len(Below(t)) = 0
      BY <1>1, <1>2, PopStack DEF Below
    <2> QED
      BY <2>1, EmptySeq
  <1>5. Code(t).uses \in Seq(Key) /\ Code(t).sites \in Seq(Site)
    BY <1>3, CodeOf DEF CompileFrames, Code, RuntimeInv, LockInv
  <1> QED
    BY <1>1, <1>2, <1>3, <1>4, <1>5

LEMMA UseTypeKeeps ==
  ASSUME RuntimeInv, NEW t \in Thread, UseType(t)
  PROVE  RuntimeInv'
  <1>1. In(t, "compile") /\ CallInside(t, Code(t).uses) /\ UNCHANGED <<dispatchVars, at, program>>
    BY DEF UseType, Compiling
  <1>2. LockStep(t)
    BY <1>1, InsideCompile, CallInsideKeeps DEF RuntimeInv
  <1>3. at' \in [Thread -> Nat \ {0}]
    BY <1>1 DEF RuntimeInv, LockInv, StacksRight
  <1>4. TablesInv' /\ Stable
    BY <1>1, UnchangedKept DEF RuntimeInv, dispatchVars
  <1> QED
    BY <1>1, <1>2, <1>3, <1>4, TypeStepKeeps DEF dispatchVars

\* A compilation is the first on its stack.
LEMMA PushKeeps ==
  ASSUME RuntimeInv, NEW t \in Thread, UNCHANGED <<program, reading, called>>, at' \in [Thread -> Nat \ {0}],
         held[t] = <<>>, NEW f \in CompileFrames, Push(t, f), f.target # NoTable => Serves(t, f)
  PROVE  RuntimeInv'
  <1>1. /\ Mine(t) /\ held' = [held EXCEPT ![t] = Append(held[t], f)]
        /\ UNCHANGED <<types, memo, runs, raising, asked>> /\ UNCHANGED dispatchVars
    BY DEF Push
  <1>2. held'[t] = <<f>> /\ f \in Frame
    <2>1. held'[t] = Append(<<>>, f)
      BY <1>1 DEF RuntimeInv, LockInv, StacksRight
    <2> QED
      BY <2>1 DEF Frame
  <1>3. LockMove(t)
    <2>1. <<f>> \in Seq(Frame)
      BY <1>2
    <2>2. StackMove(t)
      BY <1>1, <1>2, <2>1 DEF StackMove
    <2> QED
      BY <1>1, <2>2, TypesStay DEF RuntimeInv, LockInv, StacksRight, LockMove
  <1>4. TablesInv' /\ Stable
    BY <1>1, UnchangedKept DEF RuntimeInv, dispatchVars
  <1>5. Reading(t)'
    BY <1>4, ReadingKept DEF RuntimeInv, TablesInv
  <1>6. CompilesRight(t)'
    <2> SUFFICES ASSUME NEW i \in DOMAIN held'[t]
                 PROVE  (i = 1 /\ (held[t][i].target # NoTable => Serves(t, held[t][i])))'
      BY DEF CompilesRight
    <2>1. i = 1 /\ held'[t][i] = f
      BY <1>2
    <2> QED
      BY <1>1, <2>1 DEF Serves, TableOf, dispatchVars
  <1>7. CallsRight'
    BY DEF RuntimeInv, CallsRight
  <1>8. reading' = [reading EXCEPT ![t] = reading'[t]]
    BY DEF RuntimeInv, LockInv, StacksRight
  <1> QED
    BY <1>3, <1>4, <1>5, <1>6, <1>7, <1>8, ThreadStep

LEMMA CompileKeeps ==
  ASSUME RuntimeInv, NEW t \in Thread, Compile(t)
  PROVE  RuntimeInv'
  <1> DEFINE f == CompileFrame(Next1(t).function, NoTable, 0)
  <1>1. /\ Push(t, f) /\ UNCHANGED <<program, reading, called>> /\ at' \in [Thread -> Nat \ {0}]
        /\ held[t] = <<>> /\ Next1(t).function \in DOMAIN Program.code
    BY StartsWhat DEF Compile, Push, dispatchVars, Free, Operation
  <1>2. f \in CompileFrames /\ f.target = NoTable
    BY <1>1 DEF CompileFrame, CompileFrames
  <1> QED
    BY <1>1, <1>2, PushKeeps

LEMMA CompileMethodKeeps ==
  ASSUME RuntimeInv, NEW t \in Thread, CompileMethod(t)
  PROVE  RuntimeInv'
  <1> DEFINE r == reading[t]
             s == slotOf[r.site]
             g == Method(r.class, tables[TableOf(r)].slots[s])
             f == CompileFrame(g, TableOf(r), s)
  <1>1. /\ Push(t, f) /\ UNCHANGED <<program, at, reading, called>> /\ r.at = "compile" /\ held[t] = <<>>
    BY DEF CompileMethod, Push, dispatchVars
  <1>2. r # Idle /\ ReadsWell(r)
    BY <1>1 DEF RuntimeInv, Reading, Idle
  <1>3. r \in Reader /\ tables[TableOf(r)].slots[s] = r.site[2] /\ s \in Nat
    BY <1>2, SlotThere DEF RuntimeInv, TablesInv
  <1>4. g = Method(r.class, r.site[2]) /\ TableOf(r) \in Class \X Class /\ g \in Class \X Signature
    BY <1>3 DEF Reader, Site, TableOf, Method
  <1>5. g \in DOMAIN Program.code
    BY <1>4, ProgramsAssumption DEF RuntimeInv, LockInv, TypesRight, Program
  <1> HIDE DEF s, g
  <1>6. f \in CompileFrames /\ Serves(t, f)
    BY <1>1, <1>2, <1>3, <1>4, <1>5 DEF CompileFrame, CompileFrames, Serves, s
  <1>7. at' \in [Thread -> Nat \ {0}]
    BY <1>1 DEF RuntimeInv, LockInv, StacksRight
  <1> QED
    BY <1>1, <1>6, <1>7, PushKeeps

LEMMA LinkSiteKeeps ==
  ASSUME RuntimeInv, NEW t \in Thread, LinkSite(t)
  PROVE  RuntimeInv'
  <1> DEFINE f == [Top(t) EXCEPT !.linked = @ + 1]
             S == Append(Below(t), f)
             site == Code(t).sites[Top(t).linked + 1]
  <1>1. /\ In(t, "compile") /\ Top(t).linked < Len(Code(t).sites) /\ Allocate(t, site)
        /\ held' = [held EXCEPT ![t] = S] /\ UNCHANGED <<program, types, memo, runs, raising, asked, at>>
    BY DEF LinkSite, Typed, Compiling, typeVars
  <1>2. /\ Top(t) \in CompileFrames /\ Code(t).sites \in Seq(Site) /\ held[t] \in Seq(Frame)
        /\ held[t] # <<>> /\ Top(t) = held[t][Len(held[t])]
    BY <1>1, InsideCompile DEF Top
  <1>3. site \in Site
    <2>1. Top(t).linked \in Nat
      BY <1>2 DEF CompileFrames
    <2>2. Top(t).linked + 1 \in 1 .. Len(Code(t).sites)
      BY <1>1, <1>2, <2>1
    <2> QED
      BY <1>2, <2>2
  <1>4. f \in Frame /\ Same(f, Top(t))
    <2> DEFINE n == Top(t).linked + 1
    <2>1. n \in Nat
      BY <1>2 DEF CompileFrames
    <2> HIDE DEF n
    <2>2. [Top(t) EXCEPT !.linked = n] \in Frame /\ Same([Top(t) EXCEPT !.linked = n], Top(t))
      BY <1>2, <2>1 DEF CompileFrames, Frame, Same
    <2> QED
      BY <2>2 DEF n
  <1> HIDE DEF f, site
  <1>5. S \in Seq(Frame) /\ OldCompiles(held[t], S)
    BY <1>2, <1>4, TopStack DEF Below, Top
  <1> HIDE DEF S
  <1>6. LockStep(t)
    <2>1. held'[t] = S
      BY <1>1 DEF RuntimeInv, LockInv, StacksRight
    <2>2. StackStep(t)
      BY <1>1, <1>2, <1>5, <2>1, HolderAlone DEF StackStep, StackMove, RuntimeInv
    <2> QED
      BY <1>1, <2>2, TypesStay DEF RuntimeInv, LockInv, StacksRight, LockStep, LockMove, StackStep
  <1>7. TablesInv' /\ Stable /\ UNCHANGED <<reading, called>>
    BY <1>1, <1>3, AllocateKeeps DEF RuntimeInv, Allocate
  <1>8. at' \in [Thread -> Nat \ {0}]
    BY <1>1 DEF RuntimeInv, LockInv, StacksRight
  <1> QED
    BY <1>1, <1>6, <1>7, <1>8, TypeStepKeeps

LEMMA AddSlotsKeep ==
  ASSUME RuntimeInv, NEW t \in Thread, AddSlots(t)
  PROVE  RuntimeInv'
  <1>1. /\ Grow(t) \/ AddSlot(t) \/ NextTable(t)
        /\ UNCHANGED <<program, types, memo, runs, held, raising, asked, at>>
    BY DEF AddSlots, typeVars, callVars
  <1>2. TablesInv' /\ Stable /\ UNCHANGED <<reading, called>>
    BY <1>1, GrowKeeps, AddSlotKeeps, NextTableKeeps DEF RuntimeInv, Grow, AddSlot, NextTable
  <1>3. LockStep(t)
    BY <1>1, TypesStay, StackStays DEF RuntimeInv, LockInv, StacksRight, LockStep, LockMove, StackStep
  <1>4. at' \in [Thread -> Nat \ {0}]
    BY <1>1 DEF RuntimeInv, LockInv, StacksRight
  <1> QED
    BY <1>1, <1>2, <1>3, <1>4, TypeStepKeeps

\* When a compilation ends nothing is left on the stack.
LEMMA PopMoves ==
  ASSUME RuntimeInv, NEW t \in Thread, In(t, "compile"), Pop(t), raising' \in [Thread -> {Calm, Error, Interrupt}]
  PROVE  LockMove(t) /\ CompilesRight(t)' /\ at' \in [Thread -> Nat \ {0}] /\ UNCHANGED program
  <1>1. held' = [held EXCEPT ![t] = Below(t)] /\ Below(t) = <<>> /\ UNCHANGED <<program, types, memo, runs, asked, at>>
    BY InsideCompile DEF Pop, typeVars
  <1>2. held'[t] = <<>>
    BY <1>1 DEF RuntimeInv, LockInv, StacksRight
  <1>3. StackMove(t)
    BY <1>1, <1>2, EmptySeq DEF StackMove
  <1>4. LockMove(t)
    BY <1>1, <1>3, TypesStay DEF RuntimeInv, LockInv, StacksRight, LockMove
  <1>5. CompilesRight(t)'
    BY <1>2 DEF CompilesRight
  <1> QED
    BY <1>1, <1>4, <1>5 DEF RuntimeInv, LockInv, StacksRight

LEMMA CompiledKeeps ==
  ASSUME RuntimeInv, NEW t \in Thread, Compiled(t)
  PROVE  RuntimeInv'
  <1>1. /\ In(t, "compile") /\ Pop(t) /\ UNCHANGED raising
        /\ \/ Top(t).target = NoTable /\ UNCHANGED dispatchVars
           \/ /\ Top(t).target # NoTable /\ Install(Top(t).target, Top(t).slot, Top(t).function)
              /\ reading' = [reading EXCEPT ![t] = Again(@)]
    BY DEF Compiled, Typed, Compiling
  <1>2. LockMove(t) /\ CompilesRight(t)' /\ at' \in [Thread -> Nat \ {0}] /\ UNCHANGED program
    BY <1>1, PopMoves DEF RuntimeInv, LockInv, StacksRight
  <1>3. reading \in [Thread -> Reader \cup {Idle}]
    BY DEF RuntimeInv, LockInv, StacksRight
  <1>4. /\ TablesInv' /\ Stable /\ Reading(t)' /\ CallsRight'
        /\ reading' = [reading EXCEPT ![t] = reading'[t]]
    <2>1. CASE UNCHANGED dispatchVars
      <3>1. TablesInv' /\ Stable /\ reading' = reading /\ called' = called
        BY <2>1, UnchangedKept DEF RuntimeInv, dispatchVars
      <3> QED
        BY <1>3, <3>1, ReadingKept DEF RuntimeInv, TablesInv, CallsRight
    <2>2. CASE /\ Top(t).target # NoTable /\ Install(Top(t).target, Top(t).slot, Top(t).function)
               /\ reading' = [reading EXCEPT ![t] = Again(@)]
      <3>1. Serves(t, Top(t))
        BY <1>1, <2>2, InsideCompile
      <3>2. reading[t] # Idle /\ Install(TableOf(reading[t]), slotOf[reading[t].site], Method(reading[t].class, reading[t].site[2]))
        BY <2>2, <3>1 DEF Serves
      <3>3. reading'[t] = Again(reading[t]) /\ reading' = [reading EXCEPT ![t] = reading'[t]]
        BY <1>3, <2>2
      <3>4. TablesInv' /\ Stable /\ Reading(t)'
        BY <1>3, <3>2, <3>3, InstalledReads DEF RuntimeInv
      <3> QED
        BY <2>2, <3>3, <3>4 DEF RuntimeInv, CallsRight, Install
    <2> QED
      BY <1>1, <2>1, <2>2
  <1> QED
    BY <1>2, <1>4, ThreadStep

LEMMA CompileFailsKeeps ==
  ASSUME RuntimeInv, NEW t \in Thread, CompileFails(t)
  PROVE  RuntimeInv'
  <1>1. /\ In(t, "compile") /\ Pop(t) /\ raising' = [raising EXCEPT ![t] = Calm]
        /\ reading' = [reading EXCEPT ![t] =
             IF @ = Idle THEN Idle ELSE IF @.pending THEN [Again(@) EXCEPT !.failed = TRUE] ELSE Idle]
        /\ UNCHANGED <<tables, slotOf, gil, called, thrown>>
    BY DEF CompileFails
  <1>2. reading \in [Thread -> Reader \cup {Idle}] /\ raising' \in [Thread -> {Calm, Error, Interrupt}]
    BY <1>1 DEF RuntimeInv, LockInv, StacksRight
  <1>3. LockMove(t) /\ CompilesRight(t)' /\ at' \in [Thread -> Nat \ {0}] /\ UNCHANGED program
    BY <1>1, <1>2, PopMoves
  <1>4. reading'[t] = IF reading[t] = Idle THEN Idle
                      ELSE IF reading[t].pending THEN [Again(reading[t]) EXCEPT !.failed = TRUE] ELSE Idle
    BY <1>1, <1>2
  <1>5. reading' = [reading EXCEPT ![t] = reading'[t]]
    BY <1>1, <1>2
  <1>6. TablesInv' /\ Stable /\ Reading(t)'
    BY <1>1, <1>2, <1>4, FailedReads DEF RuntimeInv
  <1>7. CallsRight'
    BY <1>1 DEF RuntimeInv, CallsRight
  <1> QED
    BY <1>3, <1>5, <1>6, <1>7, ThreadStep

LEMMA CallMethodKeeps ==
  ASSUME RuntimeInv, NEW t \in Thread, CallMethod(t)
  PROVE  RuntimeInv'
  <1> DEFINE op == Next1(t)
  <1>1. /\ Starts(t, "call") /\ UNCHANGED <<program, types, memo, runs, held, raising, asked>>
        /\ \/ UNCHANGED dispatchVars
           \/ op.site \in DOMAIN slotOf /\ Exists(op.class) /\ Invoke(t, op.site, op.class, op.pending)
    BY DEF CallMethod, typeVars, callVars, Starts
  <1>2. /\ op \in Operation(Program) /\ op.op = "call" /\ op.site[1] \in Ancestors[op.class]
        /\ at' \in [Thread -> Nat \ {0}]
    BY <1>1, StartsWhat
  <1>3. op.class \in Class /\ op.pending \in BOOLEAN
    BY <1>2 DEF Operation
  <1>4. reading \in [Thread -> Reader \cup {Idle}]
    BY DEF RuntimeInv, LockInv, StacksRight
  <1> HIDE DEF op
  <1>5. LockStep(t)
    BY <1>1, TypesStay, StackStays DEF RuntimeInv, LockInv, StacksRight, LockStep, LockMove, StackStep
  <1>6. CASE UNCHANGED dispatchVars
    <2>1. TablesInv' /\ Stable /\ UNCHANGED <<reading, called>>
      BY <1>6, UnchangedKept DEF RuntimeInv, dispatchVars
    <2> QED
      BY <1>1, <1>2, <1>5, <2>1, TypeStepKeeps
  <1>7. CASE op.site \in DOMAIN slotOf /\ Exists(op.class) /\ Invoke(t, op.site, op.class, op.pending)
    <2>1. TablesInv' /\ Stable /\ Reading(t)' /\ CallsRight'
      BY <1>2, <1>3, <1>4, <1>7, InvokeReads DEF RuntimeInv
    <2>2. reading' = [reading EXCEPT ![t] = reading'[t]]
      BY <1>4, <1>7 DEF Invoke
    \* It compiles nothing yet.
    <2>3. CompilesRight(t)'
      BY <1>1, StartsWhat DEF Free, CompilesRight
    <2> QED
      BY <1>1, <1>2, <1>5, <2>1, <2>2, <2>3, ThreadStep DEF LockStep
  <1> QED
    BY <1>1, <1>6, <1>7

\* While a method is compiled for a call, the call waits.
LEMMA RunCodeKeeps ==
  ASSUME RuntimeInv, NEW t \in Thread, RunCode(t)
  PROVE  RuntimeInv'
  <1>1. /\ LoadTable(t) \/ LoadSlot(t)
        /\ UNCHANGED <<program, types, memo, runs, held, raising, asked, at>>
    BY DEF RunCode, typeVars, callVars
  <1>2. reading \in [Thread -> Reader \cup {Idle}] /\ at' \in [Thread -> Nat \ {0}]
    BY <1>1 DEF RuntimeInv, LockInv, StacksRight
  <1>3. TablesInv' /\ Stable /\ Reading(t)' /\ CallsRight'
    BY <1>1, <1>2, LoadTableReads, LoadSlotReads DEF RuntimeInv
  <1>4. reading' = [reading EXCEPT ![t] = reading'[t]]
    BY <1>1, <1>2 DEF LoadTable, LoadSlot
  <1>5. reading[t].at # "compile"
    BY <1>1 DEF LoadTable, LoadSlot
  <1>6. CompilesRight(t)'
    BY <1>1, <1>5 DEF RuntimeInv, CompilesRight, Serves
  <1>7. LockStep(t)
    BY <1>1, TypesStay, StackStays DEF RuntimeInv, LockInv, StacksRight, LockStep, LockMove, StackStep
  <1> QED
    BY <1>1, <1>2, <1>3, <1>4, <1>6, <1>7, ThreadStep DEF LockStep

LEMMA StutterKeeps ==
  ASSUME RuntimeInv, UNCHANGED vars
  PROVE  RuntimeInv'
  <1>1. UNCHANGED <<program, types, memo, runs, held, raising, asked, at, reading, called, tables, slotOf, gil, thrown>>
    BY DEF vars, typeVars, callVars, dispatchVars
  <1>2. LockInv'
    BY <1>1 DEF RuntimeInv, LockInv, TypesRight, StacksRight, HoldsAlone, Frame, CompileFrames, Program
  <1>3. TablesInv' /\ Stable
    BY <1>1, UnchangedKept DEF RuntimeInv
  <1>4. ASSUME NEW u \in Thread PROVE Reading(u)' /\ CompilesRight(u)'
    <2>1. Reading(u)'
      BY <1>1, <1>3, ReadingKept DEF RuntimeInv, TablesInv
    <2>2. OldCompiles(held[u], held'[u])
      BY <1>1 DEF OldCompiles, Same
    <2> QED
      BY <1>1, <1>3, <2>1, <2>2, CompilesKept
  <1>5. CallsRight'
    BY <1>1 DEF RuntimeInv, CallsRight
  <1> QED
    BY <1>2, <1>3, <1>4, <1>5 DEF RuntimeInv

LEMMA InitRight == Init => RuntimeInv
  <1> SUFFICES ASSUME Init PROVE RuntimeInv
    OBVIOUS
  <1>1. /\ program \in DOMAIN Programs /\ at = [t \in Thread |-> 1] /\ InitTypes
        /\ InitDispatch(Thread, Program.classes)
    BY DEF Init
  <1>2. TypesRight
    BY <1>1 DEF InitTypes, TypesRight
  <1>3. StacksRight
    <2>1. held = [t \in Thread |-> <<>>] /\ raising = [t \in Thread |-> Calm] /\ asked = [t \in Thread |-> NoKey]
          /\ reading = [t \in Thread |-> Idle]
      BY <1>1 DEF InitTypes, InitDispatch
    <2>2. <<>> \in Seq(Frame)
      BY EmptySeq
    <2> QED
      BY <1>1, <2>1, <2>2 DEF StacksRight
  <1>4. HoldsAlone /\ CallsRight /\ \A t \in Thread : Reading(t) /\ CompilesRight(t)
    BY <1>1 DEF InitTypes, InitDispatch, HoldsAlone, CallsRight, Reading, CompilesRight
  <1>5. TablesInv
    <2> DEFINE cs == Program.classes
    <2>1. cs \subseteq Class /\ \A c \in cs : Ancestors[c] \subseteq cs
      BY <1>1, ProgramsAssumption DEF Program
    <2>2. /\ tables = [p \in UNION {{c} \X Ancestors[c] : c \in cs} |-> NewTable]
          /\ slotOf = [s \in {} |-> 0] /\ gil = Nobody /\ thrown = {}
      BY <1>1 DEF InitDispatch
    <2> HIDE DEF cs
    <2>3. /\ \A p \in DOMAIN tables : p[1] \in cs /\ p[2] \in Ancestors[p[1]] /\ p = <<p[1], p[2]>> /\ tables[p] = NewTable
          /\ \A c \in cs : \A i \in Ancestors[c] : <<c, i>> \in DOMAIN tables
      BY <2>2
    <2>4. \A c \in cs : c \in Ancestors[c] /\ Ancestors[c] \subseteq Class /\ \A i \in Ancestors[c] : i \in cs
      BY <2>1, AncestorsAssumption
    <2>5. \A c \in cs : Exists(c)
      BY <2>3, <2>4 DEF Exists
    <2>6. Places
      BY <2>1, <2>3, <2>4, <2>5 DEF Places
    <2>7. TablesMade
      BY <2>3, NewTableMade DEF TablesMade
    <2>8. InOrder
      <3>1. \A p \in DOMAIN tables : Own(p[2]) = NewTable /\ tables[p] = NewTable
        BY <2>3, <2>4 DEF Own
      <3> QED
        BY <2>2, <3>1 DEF InOrder, Unheld, Nobody
    <2>9. SitesLinked
      BY <2>2 DEF SitesLinked
    <2> QED
      BY <2>2, <2>6, <2>7, <2>8, <2>9 DEF TablesInv
  <1> QED
    BY <1>2, <1>3, <1>4, <1>5 DEF RuntimeInv, LockInv

-----------------------------------------------------------------------------
(* Recursive functions on the numbers from 0.                              *)

LEMMA LeastOf ==
  ASSUME NEW S, S \subseteq Nat, S # {}
  PROVE  \E x \in S : \A y \in S : x <= y
  <1>1. IsWellFoundedOn(OpToRel(<, Nat), Nat)
    BY NatLessThanWellFounded
  <1>2. PICK x \in S : \A y \in S : <<y, x>> \notin OpToRel(<, Nat)
    BY <1>1, WFMin
  <1>3. ASSUME NEW y \in S PROVE x <= y
    <2>1. <<y, x>> \in Nat \X Nat /\ ~(y < x)
      BY <1>2 DEF OpToRel
    <2> QED
      BY <2>1
  <1> QED
    BY <1>3

\* F makes the value at n from the one at n - 1.
Stepwise(X, R, F) ==
  /\ X \subseteq Nat /\ \A n \in X : n # 0 => n - 1 \in X
  /\ F \in [[X -> R] -> [X -> R]]
  /\ \A V, W \in [X -> R] : \A n \in X : n = 0 \/ V[n - 1] = W[n - 1] => F[V][n] = F[W][n]

\* W solves W = F[W] as far as n.
SolvesTo(X, R, F, W, n) == W \in [X -> R] /\ \A m \in X : m <= n => W[m] = F[W][m]

LEMMA SolutionsAgree ==
  ASSUME NEW X, NEW R, NEW F, Stepwise(X, R, F), NEW n \in X, NEW V, NEW W,
         SolvesTo(X, R, F, V, n), SolvesTo(X, R, F, W, n)
  PROVE  V[n] = W[n]
  <1> DEFINE S == {m \in X : m <= n /\ V[m] # W[m]}
  <1>1. SUFFICES ASSUME S # {} PROVE FALSE
    BY DEF Stepwise
  <1>2. PICK m \in S : \A y \in S : m <= y
    BY <1>1, LeastOf DEF Stepwise
  <1>3. m = 0 \/ V[m - 1] = W[m - 1]
    BY <1>2 DEF Stepwise
  <1>4. F[V][m] = F[W][m]
    BY <1>3 DEF Stepwise, SolvesTo
  <1> QED
    BY <1>2, <1>4 DEF SolvesTo

LEMMA SolutionsReach ==
  ASSUME NEW X, NEW R, NEW F, Stepwise(X, R, F), R # {}, NEW n \in X
  PROVE  \E W : SolvesTo(X, R, F, W, n)
  <1> DEFINE S == {m \in X : ~\E W : SolvesTo(X, R, F, W, m)}
  <1>1. SUFFICES ASSUME S # {} PROVE FALSE
    OBVIOUS
  <1>2. PICK m \in S : \A y \in S : m <= y
    BY <1>1, LeastOf DEF Stepwise
  <1>3. PICK r \in R : TRUE
    OBVIOUS
  <1>4. PICK V \in [X -> R] : \A y \in X : y < m => V[y] = F[V][y]
    <2>1. CASE m = 0
      <3> DEFINE V == [x \in X |-> r]
      <3>1. V \in [X -> R] /\ \A y \in X : ~(y < m)
        BY <2>1 DEF Stepwise
      <3> QED
        BY <3>1
    <2>2. CASE m # 0
      <3>1. m - 1 \in X /\ m - 1 \notin S
        BY <1>2, <2>2 DEF Stepwise
      <3>2. PICK V : SolvesTo(X, R, F, V, m - 1)
        BY <3>1
      <3>3. \A y \in X : y < m => y <= m - 1
        BY DEF Stepwise
      <3> QED
        BY <3>2, <3>3 DEF SolvesTo
    <2> QED
      BY <2>1, <2>2
  <1>5. PICK W : W = F[V]
    OBVIOUS
  <1>6. W \in [X -> R]
    BY <1>5 DEF Stepwise
  <1>7. ASSUME NEW y \in X, y <= m PROVE W[y] = F[W][y]
    <2>1. y = 0 \/ W[y - 1] = V[y - 1]
      BY <1>4, <1>5, <1>7 DEF Stepwise
    <2>2. F[W][y] = F[V][y]
      BY <1>6, <2>1 DEF Stepwise
    <2> QED
      BY <1>5, <2>2
  <1> QED
    BY <1>2, <1>6, <1>7 DEF SolvesTo

\* So a recursive definition that takes one step at a time has a solution.
LEMMA RecursionExists ==
  ASSUME NEW X, NEW R, NEW F, Stepwise(X, R, F), R # {}
  PROVE  \E W \in [X -> R] : W = F[W]
  <1> DEFINE U == [n \in X |-> CHOOSE W : SolvesTo(X, R, F, W, n)]
             W == [n \in X |-> U[n][n]]
  <1>1. \A n \in X : SolvesTo(X, R, F, U[n], n)
    BY SolutionsReach
  <1> HIDE DEF U
  <1>2. W \in [X -> R] /\ \A n \in X : W[n] = U[n][n]
    BY <1>1 DEF SolvesTo
  <1> HIDE DEF W
  <1>3. ASSUME NEW n \in X PROVE W[n] = F[W][n]
    <2>1. n = 0 \/ W[n - 1] = U[n][n - 1]
      <3> SUFFICES ASSUME n # 0 PROVE W[n - 1] = U[n][n - 1]
        OBVIOUS
      <3>1. n - 1 \in X
        BY DEF Stepwise
      <3>2. SolvesTo(X, R, F, U[n], n - 1)
        BY <1>1 DEF SolvesTo, Stepwise
      <3>3. SolvesTo(X, R, F, U[n - 1], n - 1)
        BY <1>1, <3>1
      <3>4. U[n - 1][n - 1] = U[n][n - 1]
        BY <3>1, <3>2, <3>3, SolutionsAgree
      <3> QED
        BY <1>2, <3>1, <3>4
    <2>2. U[n] \in [X -> R] /\ U[n][n] = F[U[n]][n]
      BY <1>1 DEF SolvesTo, Stepwise
    <2>3. F[W][n] = F[U[n]][n]
      BY <1>2, <2>1, <2>2 DEF Stepwise
    <2> QED
      BY <1>2, <2>2, <2>3
  <1>4. F[W] \in [X -> R]
    BY <1>2 DEF Stepwise
  <1>5. W = F[W]
    BY <1>2, <1>3, <1>4
  <1> QED
    BY <1>2, <1>5

LEMMA Induction ==
  ASSUME NEW X, X \subseteq Nat, \A n \in X : n # 0 => n - 1 \in X,
         NEW S, \A n \in X : n = 0 \/ n - 1 \in S => n \in S
  PROVE  X \subseteq S
  <1>1. SUFFICES ASSUME X \ S # {} PROVE FALSE
    OBVIOUS
  <1>2. PICK n \in X \ S : \A m \in X \ S : n <= m
    <2>1. X \ S \subseteq Nat
      OBVIOUS
    <2> QED
      BY <1>1, <2>1, LeastOf
  <1> QED
    BY <1>2

-----------------------------------------------------------------------------
(* All that can be got to: the least set that has where one starts from     *)
(* and what its members lead to.                                           *)

Hull(step, T) ==
  {x \in DOMAIN step : \A S \in SUBSET DOMAIN step : T \subseteq S /\ (\A s \in S : step[s] \subseteq S) => x \in S}

LEMMA HullIs ==
  ASSUME NEW D, NEW step \in [D -> SUBSET D], NEW T \in SUBSET D
  PROVE  /\ Hull(step, T) \in SUBSET D /\ T \subseteq Hull(step, T)
         /\ \A x \in Hull(step, T) : step[x] \subseteq Hull(step, T)
         /\ \A S \in SUBSET D : T \subseteq S /\ (\A s \in S : step[s] \subseteq S) => Hull(step, T) \subseteq S
  <1>1. DOMAIN step = D /\ \A x \in D : step[x] \subseteq D
    OBVIOUS
  <1>2. Hull(step, T) = {x \in D : \A S \in SUBSET D : T \subseteq S /\ (\A s \in S : step[s] \subseteq S) => x \in S}
    BY <1>1 DEF Hull
  <1>3. ASSUME NEW x \in Hull(step, T), NEW y \in step[x] PROVE y \in Hull(step, T)
    <2>1. y \in D
      BY <1>1, <1>2
    <2>2. ASSUME NEW S \in SUBSET D, T \subseteq S /\ (\A s \in S : step[s] \subseteq S) PROVE y \in S
      BY <1>2, <2>2
    <2> QED
      BY <1>2, <2>1, <2>2
  <1> QED
    BY <1>2, <1>3

\* What is got to is a start, or got to from something else.
LEMMA HullFrom ==
  ASSUME NEW D, NEW step \in [D -> SUBSET D], NEW T \in SUBSET D, NEW x \in Hull(step, T)
  PROVE  x \in T \/ \E y \in Hull(step, T) : y # x /\ x \in step[y]
  <1> DEFINE H == Hull(step, T)
  <1>1. /\ H \in SUBSET D /\ T \subseteq H /\ \A y \in H : step[y] \subseteq H
        /\ \A S \in SUBSET D : T \subseteq S /\ (\A s \in S : step[s] \subseteq S) => H \subseteq S
    BY HullIs
  <1>2. x \in H
    OBVIOUS
  <1> HIDE DEF H
  <1>3. SUFFICES ASSUME x \notin T, \A y \in H : y # x => x \notin step[y] PROVE FALSE
    BY DEF H
  <1>4. H \ {x} \in SUBSET D /\ T \subseteq H \ {x} /\ \A s \in H \ {x} : step[s] \subseteq H \ {x}
    BY <1>1, <1>3
  <1> QED
    BY <1>1, <1>2, <1>4

LEMMA HullInside ==
  ASSUME NEW D, NEW step \in [D -> SUBSET D], NEW T \in SUBSET D, NEW U \in SUBSET D, T \subseteq Hull(step, U)
  PROVE  Hull(step, T) \subseteq Hull(step, U)
  <1>1. Hull(step, U) \in SUBSET D /\ \A x \in Hull(step, U) : step[x] \subseteq Hull(step, U)
    BY HullIs
  <1> QED
    BY <1>1, HullIs

LEMMA HullOfOne ==
  ASSUME NEW D, NEW step \in [D -> SUBSET D], NEW x \in D
  PROVE  Hull(step, {x}) = {x} \cup Hull(step, step[x])
  <1>1. {x} \in SUBSET D /\ step[x] \in SUBSET D
    OBVIOUS
  <1> DEFINE A == Hull(step, {x})
             B == Hull(step, step[x])
  <1>2. A \in SUBSET D /\ x \in A /\ \A y \in A : step[y] \subseteq A
    BY <1>1, HullIs
  <1>3. B \in SUBSET D /\ step[x] \subseteq B /\ \A y \in B : step[y] \subseteq B
    BY <1>1, HullIs
  <1>4. \A S \in SUBSET D : {x} \subseteq S /\ (\A s \in S : step[s] \subseteq S) => A \subseteq S
    BY <1>1, HullIs
  <1>5. \A S \in SUBSET D : step[x] \subseteq S /\ (\A s \in S : step[s] \subseteq S) => B \subseteq S
    BY <1>1, HullIs
  <1> HIDE DEF A, B
  <1>6. A \subseteq {x} \cup B
    <2>1. {x} \cup B \in SUBSET D /\ \A s \in {x} \cup B : step[s] \subseteq {x} \cup B
      BY <1>3
    <2> QED
      BY <1>4, <2>1
  <1>7. B \subseteq A
    BY <1>2, <1>5
  <1> QED
    BY <1>2, <1>6, <1>7 DEF A, B

\* What is got to depends on the steps from there alone.
LEMMA HullSame ==
  ASSUME NEW D, NEW E, D \subseteq E, NEW step \in [D -> SUBSET D], NEW new \in [E -> SUBSET E], NEW T \in SUBSET D,
         \A x \in Hull(step, T) : new[x] = step[x]
  PROVE  Hull(new, T) = Hull(step, T)
  <1> DEFINE A == Hull(step, T)
             B == Hull(new, T)
  <1>1. /\ A \in SUBSET D /\ T \subseteq A /\ \A y \in A : step[y] \subseteq A
        /\ \A S \in SUBSET D : T \subseteq S /\ (\A s \in S : step[s] \subseteq S) => A \subseteq S
    BY HullIs
  <1>2. T \in SUBSET E
    OBVIOUS
  <1>3. /\ B \in SUBSET E /\ T \subseteq B /\ \A y \in B : new[y] \subseteq B
        /\ \A S \in SUBSET E : T \subseteq S /\ (\A s \in S : new[s] \subseteq S) => B \subseteq S
    BY <1>2, HullIs
  <1>4. \A x \in A : new[x] = step[x]
    OBVIOUS
  <1> HIDE DEF A, B
  <1>5. B \subseteq A
    <2>1. A \in SUBSET E /\ \A s \in A : new[s] \subseteq A
      BY <1>1, <1>4
    <2> QED
      BY <1>1, <1>3, <2>1
  <1>6. A \subseteq B
    <2>1. B \in SUBSET D /\ \A s \in B : step[s] \subseteq B
      BY <1>1, <1>3, <1>4, <1>5
    <2> QED
      BY <1>1, <1>3, <2>1
  <1> QED
    BY <1>5, <1>6 DEF A, B

\* What leads to f now leads to z instead.
Redirected(old, new, f, z) ==
  /\ f \notin new /\ new \subseteq old \cup {z} /\ old \subseteq new \cup {f}
  /\ (f \in old => z \in new) /\ (z \in new => z \in old \/ f \in old)

LEMMA NotRedirected ==
  ASSUME NEW old, NEW new, NEW f, NEW z, Redirected(old, new, f, z), f \notin old
  PROVE  new = old
  <1>1. \A x \in new : x \in old
    BY DEF Redirected
  <1>2. \A x \in old : x \in new
    BY DEF Redirected
  <1> QED
    BY <1>1, <1>2

LEMMA HullRedirected ==
  ASSUME NEW D, NEW step \in [D -> SUBSET D], NEW new \in [D -> SUBSET D], NEW f \in D, NEW z \in D, f # z,
         step[f] = {}, NEW T \in SUBSET D, NEW U \in SUBSET D, Redirected(T, U, f, z),
         \A x \in (Hull(step, T) \cup Hull(step, {z})) \ {f} : Redirected(step[x], new[x], f, z)
  PROVE  /\ f \in Hull(step, T) => Hull(new, U) = (Hull(step, T) \cup Hull(step, {z})) \ {f}
         /\ f \notin Hull(step, T) => Hull(new, U) = Hull(step, T)
  <1> DEFINE M == Hull(step, T)
             N == Hull(step, {z})
             C == Hull(new, U)
  <1>1. /\ M \in SUBSET D /\ T \subseteq M /\ \A y \in M : step[y] \subseteq M
        /\ \A S \in SUBSET D : T \subseteq S /\ (\A s \in S : step[s] \subseteq S) => M \subseteq S
    BY HullIs
  <1>2. {z} \in SUBSET D
    OBVIOUS
  <1>3. /\ N \in SUBSET D /\ z \in N /\ \A y \in N : step[y] \subseteq N
        /\ \A S \in SUBSET D : {z} \subseteq S /\ (\A s \in S : step[s] \subseteq S) => N \subseteq S
    BY <1>2, HullIs
  <1>4. /\ C \in SUBSET D /\ U \subseteq C /\ \A y \in C : new[y] \subseteq C
        /\ \A S \in SUBSET D : U \subseteq S /\ (\A s \in S : new[s] \subseteq S) => C \subseteq S
    BY HullIs
  <1>5. \A x \in (M \cup N) \ {f} : Redirected(step[x], new[x], f, z)
    OBVIOUS
  <1>6. \A x \in M : x \in T \/ \E y \in M : y # x /\ x \in step[y]
    BY HullFrom
  <1> HIDE DEF M, N, C
  <1>7. ASSUME f \notin M PROVE C = M
    <2>1. U = T
      BY <1>1, <1>7, NotRedirected
    <2>2. \A x \in M : new[x] = step[x]
      <3> SUFFICES ASSUME NEW x \in M PROVE new[x] = step[x]
        OBVIOUS
      <3>1. f \notin step[x] /\ Redirected(step[x], new[x], f, z)
        BY <1>1, <1>5, <1>7
      <3> QED
        BY <3>1, NotRedirected
    <2> QED
      BY <2>1, <2>2, HullSame DEF M, C
  <1>8. ASSUME f \in M PROVE C = (M \cup N) \ {f}
    <2> DEFINE A == (M \cup N) \ {f}
    <2>1. C \subseteq A
      <3>1. A \in SUBSET D
        BY <1>1, <1>3
      <3>2. U \subseteq A
        BY <1>1, <1>3 DEF Redirected
      <3>3. \A x \in A : new[x] \subseteq A
        BY <1>1, <1>3, <1>5 DEF Redirected
      <3> QED
        BY <1>4, <3>1, <3>2, <3>3
    <2>2. \A x \in C \cup {f} : step[x] \subseteq C \cup {f}
      BY <1>4, <1>5, <2>1 DEF Redirected
    <2>3. M \subseteq C \cup {f}
      <3>1. C \cup {f} \in SUBSET D /\ T \subseteq C \cup {f}
        BY <1>4 DEF Redirected
      <3> QED
        BY <1>1, <2>2, <3>1
    <2>4. z \in C
      <3>1. CASE f \in T
        BY <1>4, <3>1 DEF Redirected
      <3>2. CASE \E y \in M : y # f /\ f \in step[y]
        <4>1. PICK y \in M : y # f /\ f \in step[y]
          BY <3>2
        <4>2. z \in new[y] /\ y \in C
          BY <1>5, <2>3, <4>1 DEF Redirected
        <4> QED
          BY <1>4, <4>2
      <3> QED
        BY <1>6, <1>8, <3>1, <3>2
    <2>5. N \subseteq C \cup {f}
      <3>1. C \cup {f} \in SUBSET D /\ {z} \subseteq C \cup {f}
        BY <1>4, <2>4
      <3> QED
        BY <1>3, <2>2, <3>1
    <2> QED
      BY <2>1, <2>3, <2>5
  <1> QED
    BY <1>7, <1>8 DEF M, N, C

\* What is got to from a set is got to from one of its members.
LEMMA HullOfSet ==
  ASSUME NEW D, NEW step \in [D -> SUBSET D], NEW T \in SUBSET D
  PROVE  \A x : x \in Hull(step, T) <=> \E s \in T : x \in Hull(step, {s})
  <1>1. ASSUME NEW s \in T
        PROVE  /\ Hull(step, {s}) \in SUBSET D /\ s \in Hull(step, {s}) /\ Hull(step, {s}) \subseteq Hull(step, T)
               /\ \A x \in Hull(step, {s}) : step[x] \subseteq Hull(step, {s})
    <2>1. {s} \in SUBSET D /\ {s} \subseteq Hull(step, T)
      BY HullIs
    <2> QED
      BY <2>1, HullIs, HullInside
  <1> DEFINE U == {x \in D : \E s \in T : x \in Hull(step, {s})}
  <1>2. U \in SUBSET D /\ T \subseteq U /\ \A x \in U : step[x] \subseteq U
    BY <1>1
  <1> HIDE DEF U
  <1>3. Hull(step, T) \subseteq U
    BY <1>2, HullIs
  <1> QED
    BY <1>1, <1>3 DEF U

LEMMA HullOfNone ==
  ASSUME NEW D, NEW step \in [D -> SUBSET D]
  PROVE  Hull(step, {}) = {}
  <1>1. {} \in SUBSET D
    OBVIOUS
  <1>2. Hull(step, {}) \subseteq {}
    BY <1>1, HullIs
  <1> QED
    BY <1>2

\* What is got to in each number of steps.
IsWalk(step, T, N, w) == w = [n \in 0 .. N |-> IF n = 0 THEN T ELSE w[n - 1] \cup UNION {step[s] : s \in w[n - 1]}]

\* A finite graph is walked through in as many steps as it has nodes.
LEMMA WalkIsHull ==
  ASSUME NEW D, IsFiniteSet(D), NEW step \in [D -> SUBSET D], NEW T \in SUBSET D, NEW N, N = Cardinality(D),
         NEW reach, IsWalk(step, T, N, reach)
  PROVE  reach[N] = Hull(step, T)
  <1> DEFINE H == Hull(step, T)
             X == 0 .. N
             Closed(R) == \A s \in R : step[s] \subseteq R
  <1>1. N \in Nat
    BY FS_CardinalityType
  <1>2. X \subseteq Nat /\ (\A n \in X : n # 0 => n - 1 \in X) /\ N \in X
    BY <1>1
  <1>3. /\ H \in SUBSET D /\ T \subseteq H /\ \A y \in H : step[y] \subseteq H
        /\ \A S \in SUBSET D : T \subseteq S /\ (\A s \in S : step[s] \subseteq S) => H \subseteq S
    BY HullIs
  <1>4. \A n \in X : reach[n] = IF n = 0 THEN T ELSE reach[n - 1] \cup UNION {step[s] : s \in reach[n - 1]}
    <2>1. ASSUME NEW n \in 0 .. N
          PROVE  reach[n] = IF n = 0 THEN T ELSE reach[n - 1] \cup UNION {step[s] : s \in reach[n - 1]}
      BY Zenon DEF IsWalk
    <2> QED
      BY <2>1
  <1> HIDE DEF H, X
  \* Each number of steps stays inside, and is either all or has got to one more.
  <1> DEFINE S == {n \in X : /\ T \subseteq reach[n] /\ reach[n] \subseteq H
                             /\ Closed(reach[n]) \/ Cardinality(reach[n]) >= n + 1}
  <1>5. \A n \in X : n = 0 \/ n - 1 \in S => n \in S
    <2>1. ASSUME 0 \in X PROVE 0 \in S
      <3>1. reach[0] = T
        BY <1>4, <2>1
      <3>2. CASE T = {}
        BY <1>3, <2>1, <3>1, <3>2
      <3>3. CASE T # {}
        <4>1. IsFiniteSet(T)
          BY FS_Subset
        <4>2. Cardinality(T) \in Nat /\ Cardinality(T) # 0
          BY <3>3, <4>1, FS_CardinalityType, FS_EmptySet
        <4>3. Cardinality(reach[0]) >= 0 + 1
          BY <3>1, <4>2
        <4>4. T \subseteq reach[0] /\ reach[0] \subseteq H
          BY <1>3, <3>1
        <4> QED
          BY <2>1, <4>3, <4>4
      <3> QED
        BY <3>2, <3>3
    <2>2. ASSUME NEW n \in X, n # 0, n - 1 \in S PROVE n \in S
      <3> DEFINE A == reach[n - 1]
                 B == A \cup UNION {step[s] : s \in A}
      <3>1. reach[n] = B
        BY <1>4, <2>2
      <3>2. /\ n \in Nat /\ n - 1 \in Nat /\ T \subseteq A /\ A \subseteq H
            /\ Closed(A) \/ Cardinality(A) >= (n - 1) + 1
        BY <1>2, <2>2
      <3> HIDE DEF A
      <3>3. T \subseteq B /\ B \subseteq H
        BY <1>3, <3>2
      <3>4. CASE Closed(A)
        <4>1. B = A
          BY <3>4
        <4> QED
          BY <2>2, <3>1, <3>2, <3>4, <4>1
      <3>5. CASE ~Closed(A)
        <4>1. PICK y \in B : y \notin A
          BY <3>5
        <4>2. IsFiniteSet(A) /\ IsFiniteSet(B)
          <5>1. A \in SUBSET D /\ B \in SUBSET D
            BY <1>3, <3>2, <3>3
          <5> HIDE DEF B
          <5> QED
            BY <5>1, FS_Subset
        <4> HIDE DEF B
        <4>3. IsFiniteSet(A \cup {y}) /\ Cardinality(A \cup {y}) = Cardinality(A) + 1
          BY <4>1, <4>2, FS_AddElement
        <4>4. A \cup {y} \in SUBSET B
          BY <4>1 DEF B
        <4>5. Cardinality(A \cup {y}) <= Cardinality(B)
          BY <4>2, <4>4, FS_Subset
        <4>6. Cardinality(A) \in Nat /\ Cardinality(B) \in Nat
          BY <4>2, FS_CardinalityType
        <4>7. Cardinality(B) >= n + 1
          BY <3>2, <3>5, <4>3, <4>5, <4>6
        <4> QED
          BY <2>2, <3>1, <3>3, <4>7
      <3> QED
        BY <3>4, <3>5
    <2> QED
      BY <2>1, <2>2
  <1> HIDE DEF S
  <1>6. X \subseteq S
    BY <1>2, <1>5, Induction
  <1>7. N \in S
    BY <1>2, <1>6
  <1> DEFINE R == reach[N]
  <1>8. T \subseteq R /\ R \subseteq H /\ (Closed(R) \/ Cardinality(R) >= N + 1)
    BY <1>7 DEF S
  <1> HIDE DEF R
  <1>9. Closed(R)
    <2>1. R \in SUBSET D
      BY <1>3, <1>8
    <2>2. Cardinality(R) \in Nat /\ Cardinality(R) <= N
      BY <2>1, FS_Subset, FS_CardinalityType
    <2> QED
      BY <1>1, <1>8, <2>2
  <1>10. R = H
    BY <1>3, <1>8, <1>9
  <1> QED
    BY <1>10 DEF R, H

\* There is such a walk.
LEMMA WalkExists ==
  ASSUME NEW D, IsFiniteSet(D), NEW step \in [D -> SUBSET D], NEW T \in SUBSET D, NEW N \in Nat
  PROVE  \E reach \in [0 .. N -> SUBSET D] : IsWalk(step, T, N, reach)
  <1> DEFINE X == 0 .. N
             R == SUBSET D
             Next1st(V, n) == IF n = 0 THEN T ELSE V[n - 1] \cup UNION {step[s] : s \in V[n - 1]}
             F == [V \in [X -> R] |-> [n \in X |-> Next1st(V, n)]]
  <1>1. X \subseteq Nat /\ \A n \in X : n # 0 => n - 1 \in X
    OBVIOUS
  <1>2. ASSUME NEW V \in [X -> R], NEW n \in X PROVE Next1st(V, n) \in R
    <2>1. CASE n = 0
      BY <2>1
    <2>2. CASE n # 0
      <3>1. V[n - 1] \in SUBSET D
        BY <1>1, <2>2
      <3> QED
        BY <2>2, <3>1
    <2> QED
      BY <2>1, <2>2
  <1>3. ASSUME NEW V \in [X -> R], NEW W \in [X -> R], NEW n \in X, n = 0 \/ V[n - 1] = W[n - 1]
        PROVE  Next1st(V, n) = Next1st(W, n)
    BY <1>3
  <1> HIDE DEF X, R, Next1st
  <1>4. Stepwise(X, R, F)
    BY <1>1, <1>2, <1>3 DEF Stepwise
  <1>5. R # {}
    BY DEF R
  <1> HIDE DEF F
  <1>6. PICK W \in [X -> R] : W = F[W]
    BY <1>4, <1>5, RecursionExists
  <1>7. W = [n \in X |-> Next1st(W, n)]
    BY <1>6 DEF F
  <1> QED
    BY <1>7 DEF X, R, Next1st, IsWalk

-----------------------------------------------------------------------------
(* Forwards that have a target, and what they stand for.                   *)

Final(g, x) == ~(IsForward(g, x) /\ g[x].target # Undefined)
Chases(g, e) == e = [x \in DOMAIN g |-> IF IsForward(g, x) /\ g[x].target # Undefined THEN e[g[x].target] ELSE x]
\* What each type stands for is determined.
Chasable(g) ==
  \E e \in [DOMAIN g -> DOMAIN g] :
    /\ Chases(g, e) /\ \A w : Chases(g, w) => w = e
    /\ \A x \in DOMAIN g : Final(g, e[x])

LEMMA ChasedIs ==
  ASSUME NEW g, NEW e, Chases(g, e), \A w : Chases(g, w) => w = e, NEW x \in DOMAIN g
  PROVE  Chased(g, x) = e[x]
  <1> DEFINE chase == CHOOSE w : w = [y \in DOMAIN g |->
                        IF IsForward(g, y) /\ g[y].target # Undefined THEN w[g[y].target] ELSE y]
  <1>1. chase = [y \in DOMAIN g |-> IF IsForward(g, y) /\ g[y].target # Undefined THEN chase[g[y].target] ELSE y]
    BY DEF Chases
  <1>2. Chased(g, x) = chase[x]
    BY DEF Chased
  <1> HIDE DEF chase
  <1>3. Chases(g, chase)
    BY <1>1 DEF Chases
  <1> QED
    BY <1>2, <1>3

LEMMA ChasedAt ==
  ASSUME NEW g, NEW e, Chases(g, e), NEW x \in DOMAIN g
  PROVE  /\ Final(g, x) => e[x] = x
         /\ ~Final(g, x) => e[x] = e[g[x].target]
  <1>1. e[x] = IF IsForward(g, x) /\ g[x].target # Undefined THEN e[g[x].target] ELSE x
    BY Zenon DEF Chases
  <1> QED
    BY <1>1 DEF Final

\* It is enough that a function does, at each type, what Chases says.
LEMMA ChasesBy ==
  ASSUME NEW g, NEW e, e = [x \in DOMAIN g |-> e[x]],
         \A x \in DOMAIN g : e[x] = IF Final(g, x) THEN x ELSE e[g[x].target]
  PROVE  Chases(g, e)
  BY DEF Chases, Final

LEMMA ChasedProps ==
  ASSUME NEW g, Chasable(g)
  PROVE  \A x \in DOMAIN g : /\ Chased(g, x) \in DOMAIN g /\ Final(g, Chased(g, x))
                             /\ Final(g, x) => Chased(g, x) = x
                             /\ ~Final(g, x) /\ g[x].target \in DOMAIN g => Chased(g, x) = Chased(g, g[x].target)
  <1>1. PICK e \in [DOMAIN g -> DOMAIN g] :
           /\ Chases(g, e) /\ \A w : Chases(g, w) => w = e
           /\ \A x \in DOMAIN g : Final(g, e[x])
    BY DEF Chasable
  <1>2. \A x \in DOMAIN g : Chased(g, x) = e[x]
    BY <1>1, ChasedIs
  <1>3. \A x \in DOMAIN g : (Final(g, x) => e[x] = x) /\ (~Final(g, x) => e[x] = e[g[x].target])
    BY <1>1, ChasedAt
  <1> QED
    BY <1>1, <1>2, <1>3

\* New types that are no forwards with a target change nothing for the old.
LEMMA ChaseMore ==
  ASSUME NEW g, NEW h, Chasable(g), DOMAIN g \subseteq DOMAIN h,
         \A x \in DOMAIN g : Final(h, x) <=> Final(g, x),
         \A x \in DOMAIN g : ~Final(g, x) => g[x].target \in DOMAIN g /\ h[x].target = g[x].target,
         \A x \in DOMAIN h \ DOMAIN g : Final(h, x)
  PROVE  Chasable(h) /\ \A x \in DOMAIN g : Chased(h, x) = Chased(g, x)
  <1>1. PICK e \in [DOMAIN g -> DOMAIN g] :
           /\ Chases(g, e) /\ \A w : Chases(g, w) => w = e
           /\ \A x \in DOMAIN g : Final(g, e[x])
    BY DEF Chasable
  <1> DEFINE d == [x \in DOMAIN h |-> IF x \in DOMAIN g THEN e[x] ELSE x]
  <1>2. d \in [DOMAIN h -> DOMAIN h] /\ \A x \in DOMAIN h : d[x] = IF x \in DOMAIN g THEN e[x] ELSE x
    BY <1>1
  <1>3. \A x \in DOMAIN g : (Final(g, x) => e[x] = x) /\ (~Final(g, x) => e[x] = e[g[x].target])
    BY <1>1, ChasedAt
  <1> HIDE DEF d
  <1>4. Chases(h, d)
    <2>1. \A x \in DOMAIN h : d[x] = IF Final(h, x) THEN x ELSE d[h[x].target]
      BY <1>2, <1>3
    <2>2. d = [x \in DOMAIN h |-> d[x]]
      BY <1>2
    <2> QED
      BY <2>1, <2>2, ChasesBy
  <1>5. ASSUME NEW w, Chases(h, w) PROVE w = d
    <2> DEFINE v == [x \in DOMAIN g |-> w[x]]
    <2>1. \A x \in DOMAIN h : (Final(h, x) => w[x] = x) /\ (~Final(h, x) => w[x] = w[h[x].target])
      BY <1>5, ChasedAt
    <2>2. v = [x \in DOMAIN g |-> v[x]] /\ \A x \in DOMAIN g : v[x] = w[x]
      OBVIOUS
    <2> HIDE DEF v
    <2>3. \A x \in DOMAIN g : v[x] = IF Final(g, x) THEN x ELSE v[g[x].target]
      BY <2>1, <2>2
    <2>4. Chases(g, v)
      BY <2>2, <2>3, ChasesBy
    <2>5. v = e
      BY <1>1, <2>4
    <2>6. \A x \in DOMAIN h : w[x] = d[x]
      BY <1>2, <2>1, <2>2, <2>5
    <2>7. w = [x \in DOMAIN h |-> w[x]]
      BY <1>5 DEF Chases
    <2> QED
      BY <1>2, <2>6, <2>7
  <1>6. \A x \in DOMAIN h : Final(h, d[x])
    BY <1>1, <1>2
  <1>7. Chasable(h)
    BY <1>2, <1>4, <1>5, <1>6 DEF Chasable
  <1>8. \A x \in DOMAIN h : Chased(h, x) = d[x]
    BY <1>4, <1>5, ChasedIs
  <1>9. \A x \in DOMAIN g : Chased(g, x) = e[x]
    BY <1>1, ChasedIs
  <1> QED
    BY <1>2, <1>7, <1>8, <1>9

\* A forward gets a target: what stood for it stands for that now.
LEMMA ChaseOn ==
  ASSUME NEW g, NEW h, Chasable(g), DOMAIN h = DOMAIN g, NEW f \in DOMAIN g, NEW z \in DOMAIN g,
         Final(g, f), Final(g, z), f # z, ~Final(h, f), h[f].target = z,
         \A x \in DOMAIN g \ {f} : Final(h, x) <=> Final(g, x),
         \A x \in DOMAIN g \ {f} : ~Final(g, x) => g[x].target \in DOMAIN g /\ h[x].target = g[x].target
  PROVE  /\ Chasable(h)
         /\ \A x \in DOMAIN g : Chased(h, x) = IF Chased(g, x) = f THEN z ELSE Chased(g, x)
  <1>1. PICK e \in [DOMAIN g -> DOMAIN g] :
           /\ Chases(g, e) /\ \A w : Chases(g, w) => w = e
           /\ \A x \in DOMAIN g : Final(g, e[x])
    BY DEF Chasable
  <1> DEFINE d == [x \in DOMAIN g |-> IF e[x] = f THEN z ELSE e[x]]
  <1>2. d \in [DOMAIN g -> DOMAIN g] /\ \A x \in DOMAIN g : d[x] = IF e[x] = f THEN z ELSE e[x]
    BY <1>1
  <1>3. \A x \in DOMAIN g : (Final(g, x) => e[x] = x) /\ (~Final(g, x) => e[x] = e[g[x].target])
    BY <1>1, ChasedAt
  <1> HIDE DEF d
  <1>4. Chases(h, d)
    <2>1. \A x \in DOMAIN h : d[x] = IF Final(h, x) THEN x ELSE d[h[x].target]
      BY <1>2, <1>3
    <2>2. d = [x \in DOMAIN h |-> d[x]]
      BY <1>2
    <2> QED
      BY <2>1, <2>2, ChasesBy
  <1>5. ASSUME NEW w, Chases(h, w) PROVE w = d
    <2>1. \A x \in DOMAIN g : (Final(h, x) => w[x] = x) /\ (~Final(h, x) => w[x] = w[h[x].target])
      BY <1>5, ChasedAt
    <2>2. w[z] = z /\ w[f] = z
      BY <2>1
    <2> DEFINE v == [x \in DOMAIN g |-> IF e[x] # f THEN w[x] ELSE IF w[x] = z THEN f ELSE z]
    <2>3. /\ v = [x \in DOMAIN g |-> v[x]]
          /\ \A x \in DOMAIN g : v[x] = IF e[x] # f THEN w[x] ELSE IF w[x] = z THEN f ELSE z
      OBVIOUS
    <2> HIDE DEF v
    <2>4. \A x \in DOMAIN g : v[x] = IF Final(g, x) THEN x ELSE v[g[x].target]
      <3> SUFFICES ASSUME NEW x \in DOMAIN g PROVE v[x] = IF Final(g, x) THEN x ELSE v[g[x].target]
        OBVIOUS
      <3>1. CASE Final(g, x)
        <4>1. CASE x = f
          BY <1>3, <2>2, <2>3, <3>1, <4>1
        <4>2. CASE x # f
          <5>1. e[x] = x /\ w[x] = x
            BY <1>3, <2>1, <3>1, <4>2
          <5> QED
            BY <2>3, <3>1, <4>2, <5>1
        <4> QED
          BY <4>1, <4>2
      <3>2. CASE ~Final(g, x)
        <4>1. g[x].target \in DOMAIN g /\ e[x] = e[g[x].target] /\ w[x] = w[g[x].target]
          BY <1>3, <2>1, <3>2
        <4> QED
          BY <2>3, <3>2, <4>1
      <3> QED
        BY <3>1, <3>2
    <2>5. v = e
      <3>1. Chases(g, v)
        BY <2>3, <2>4, ChasesBy
      <3> QED
        BY <1>1, <3>1
    <2>6. \A x \in DOMAIN g : w[x] = d[x]
      BY <1>2, <2>3, <2>5
    <2>7. w = [x \in DOMAIN g |-> w[x]]
      BY <1>5 DEF Chases
    <2> QED
      BY <1>2, <2>6, <2>7
  <1>6. \A x \in DOMAIN h : Final(h, d[x])
    BY <1>1, <1>2
  <1>7. Chasable(h)
    BY <1>2, <1>4, <1>5, <1>6 DEF Chasable
  <1>8. \A x \in DOMAIN h : Chased(h, x) = d[x]
    BY <1>4, <1>5, ChasedIs
  <1>9. \A x \in DOMAIN g : Chased(g, x) = e[x]
    BY <1>1, ChasedIs
  <1> QED
    BY <1>2, <1>7, <1>8, <1>9

-----------------------------------------------------------------------------
(* Graphs of types.                                                        *)

ForwardNode(D) == [kind : {"forward"}, target : D \cup {Undefined}, users : SUBSET D]
TypeNode(D) ==
  [kind : {"tuple", "class"}, subs : SUBSET D, referenced : SUBSET D, contained : SUBSET D, resolved : BOOLEAN]
GraphOK(g) ==
  /\ IsFiniteSet(DOMAIN g) /\ Undefined \notin DOMAIN g
  /\ \A x \in DOMAIN g : g[x] \in ForwardNode(DOMAIN g) \cup TypeNode(DOMAIN g)

Ref(g) == [x \in DOMAIN g |-> Refers(g, x)]
Con(g) == [x \in DOMAIN g |-> Contains(g, x)]

\* The books of a type, by what it gets to.
Books(g, t) ==
  LET inside == Hull(Con(g), Contains(g, t))
  IN  /\ g[t].referenced = UndefinedAmong(g, Hull(Ref(g), {t}))
      /\ g[t].contained = UndefinedAmong(g, inside)
      /\ \A f \in g[t].referenced : t \in g[f].users
      /\ g[t].resolved = (g[t].referenced = {})
      /\ t \notin inside

LEMMA NodeIs ==
  ASSUME NEW g, GraphOK(g), NEW x \in DOMAIN g
  PROVE  /\ IsForward(g, x) => g[x] \in ForwardNode(DOMAIN g)
         /\ ~IsForward(g, x) => g[x] \in TypeNode(DOMAIN g)
         /\ ~IsForward(g, x) => Final(g, x)
         /\ ~Final(g, x) => IsForward(g, x) /\ g[x].target \in DOMAIN g
  BY DEF GraphOK, IsForward, ForwardNode, TypeNode, Final

LEMMA StepsOK ==
  ASSUME NEW g, GraphOK(g)
  PROVE  /\ Ref(g) \in [DOMAIN g -> SUBSET DOMAIN g] /\ Con(g) \in [DOMAIN g -> SUBSET DOMAIN g]
         /\ \A x \in DOMAIN g : Ref(g)[x] = Refers(g, x) /\ Con(g)[x] = Contains(g, x)
                                   /\ Contains(g, x) \subseteq Refers(g, x)
  <1>1. ASSUME NEW x \in DOMAIN g PROVE Refers(g, x) \in SUBSET DOMAIN g /\ Contains(g, x) \subseteq Refers(g, x)
    BY NodeIs DEF Refers, Contains, ForwardNode, TypeNode
  <1> QED
    BY <1>1 DEF Ref, Con

LEMMA ClosureRefers ==
  ASSUME NEW g, GraphOK(g), NEW T \in SUBSET DOMAIN g
  PROVE  Closure(g, T, Refers) = Hull(Ref(g), T)
  <1>1. PICK N \in Nat : N = Cardinality(DOMAIN g)
    BY FS_CardinalityType DEF GraphOK
  <1>2. IsFiniteSet(DOMAIN g) /\ Ref(g) \in [DOMAIN g -> SUBSET DOMAIN g]
    BY StepsOK DEF GraphOK
  <1> DEFINE walk == CHOOSE w : w = [n \in 0 .. N |->
                       IF n = 0 THEN T ELSE w[n - 1] \cup UNION {Refers(g, s) : s \in w[n - 1]}]
  <1>3. Closure(g, T, Refers) = walk[N]
    BY <1>1 DEF Closure
  <1>4. ASSUME NEW A \in SUBSET DOMAIN g
        PROVE  UNION {Ref(g)[s] : s \in A} = UNION {Refers(g, s) : s \in A}
    <2>1. \A s \in A : Ref(g)[s] = Refers(g, s)
      BY StepsOK
    <2> QED
      BY <2>1
  <1>5. walk = [n \in 0 .. N |-> IF n = 0 THEN T ELSE walk[n - 1] \cup UNION {Refers(g, s) : s \in walk[n - 1]}]
    <2>1. PICK v \in [0 .. N -> SUBSET DOMAIN g] : IsWalk(Ref(g), T, N, v)
      <3>1. IsFiniteSet(DOMAIN g)
        BY <1>2
      <3>2. Ref(g) \in [DOMAIN g -> SUBSET DOMAIN g]
        BY <1>2
      <3>3. N \in Nat /\ T \in SUBSET DOMAIN g
        BY <1>1
      <3> QED
        BY <3>1, <3>2, <3>3, WalkExists
    <2>2. ASSUME NEW n \in 0 .. N, n # 0
          PROVE  UNION {Ref(g)[s] : s \in v[n - 1]} = UNION {Refers(g, s) : s \in v[n - 1]}
      <3>1. v[n - 1] \in SUBSET DOMAIN g
        BY <2>2
      <3> QED
        BY <1>4, <3>1
    <2>3. v = [n \in 0 .. N |-> IF n = 0 THEN T ELSE v[n - 1] \cup UNION {Refers(g, s) : s \in v[n - 1]}]
      BY <2>1, <2>2 DEF IsWalk
    <2> QED
      BY <2>3
  <1> HIDE DEF walk
  <1>6. \A n \in 0 .. N : walk[n] = IF n = 0 THEN T ELSE walk[n - 1] \cup UNION {Refers(g, s) : s \in walk[n - 1]}
    <2>1. ASSUME NEW n \in 0 .. N
          PROVE  walk[n] = IF n = 0 THEN T ELSE walk[n - 1] \cup UNION {Refers(g, s) : s \in walk[n - 1]}
      BY <1>5, Zenon
    <2> QED
      BY <2>1
  <1> DEFINE S == {n \in 0 .. N : walk[n] \in SUBSET DOMAIN g}
  <1>7. \A n \in 0 .. N : n = 0 \/ n - 1 \in S => n \in S
    <2>1. \A s \in DOMAIN g : Refers(g, s) \in SUBSET DOMAIN g
      BY StepsOK
    <2> SUFFICES ASSUME NEW n \in 0 .. N, n = 0 \/ n - 1 \in S PROVE walk[n] \in SUBSET DOMAIN g
      OBVIOUS
    <2>2. CASE n = 0
      BY <1>6, <2>2
    <2>3. CASE n # 0
      <3>1. walk[n - 1] \in SUBSET DOMAIN g
        BY <2>3
      <3>2. walk[n] = walk[n - 1] \cup UNION {Refers(g, s) : s \in walk[n - 1]}
        BY <1>6, <2>3
      <3> QED
        BY <2>1, <3>1, <3>2
    <2> QED
      BY <2>2, <2>3
  <1> HIDE DEF S
  <1>8. 0 .. N \subseteq S
    <2>1. 0 .. N \subseteq Nat /\ \A n \in 0 .. N : n # 0 => n - 1 \in 0 .. N
      BY <1>1
    <2> QED
      BY <1>7, <2>1, Induction
  <1>9. \A n \in 0 .. N : n # 0 => walk[n - 1] \in SUBSET DOMAIN g
    BY <1>8 DEF S
  <1>10. IsWalk(Ref(g), T, N, walk)
    <2>1. \A n \in 0 .. N : n # 0 => UNION {Ref(g)[s] : s \in walk[n - 1]} = UNION {Refers(g, s) : s \in walk[n - 1]}
      BY <1>4, <1>9
    <2> QED
      BY <1>5, <2>1 DEF IsWalk
  <1>11. walk[N] = Hull(Ref(g), T)
    <2>1. IsFiniteSet(DOMAIN g)
      BY <1>2
    <2>2. Ref(g) \in [DOMAIN g -> SUBSET DOMAIN g]
      BY <1>2
    <2>3. N = Cardinality(DOMAIN g) /\ T \in SUBSET DOMAIN g
      BY <1>1
    <2> QED
      BY <1>10, <2>1, <2>2, <2>3, WalkIsHull
  <1> QED
    BY <1>3, <1>11

LEMMA ClosureContains ==
  ASSUME NEW g, GraphOK(g), NEW T \in SUBSET DOMAIN g
  PROVE  Closure(g, T, Contains) = Hull(Con(g), T)
  <1>1. PICK N \in Nat : N = Cardinality(DOMAIN g)
    BY FS_CardinalityType DEF GraphOK
  <1>2. IsFiniteSet(DOMAIN g) /\ Con(g) \in [DOMAIN g -> SUBSET DOMAIN g]
    BY StepsOK DEF GraphOK
  <1> DEFINE walk == CHOOSE w : w = [n \in 0 .. N |->
                       IF n = 0 THEN T ELSE w[n - 1] \cup UNION {Contains(g, s) : s \in w[n - 1]}]
  <1>3. Closure(g, T, Contains) = walk[N]
    BY <1>1 DEF Closure
  <1>4. ASSUME NEW A \in SUBSET DOMAIN g
        PROVE  UNION {Con(g)[s] : s \in A} = UNION {Contains(g, s) : s \in A}
    <2>1. \A s \in A : Con(g)[s] = Contains(g, s)
      BY StepsOK
    <2> QED
      BY <2>1
  <1>5. walk = [n \in 0 .. N |-> IF n = 0 THEN T ELSE walk[n - 1] \cup UNION {Contains(g, s) : s \in walk[n - 1]}]
    <2>1. PICK v \in [0 .. N -> SUBSET DOMAIN g] : IsWalk(Con(g), T, N, v)
      <3>1. IsFiniteSet(DOMAIN g)
        BY <1>2
      <3>2. Con(g) \in [DOMAIN g -> SUBSET DOMAIN g]
        BY <1>2
      <3>3. N \in Nat /\ T \in SUBSET DOMAIN g
        BY <1>1
      <3> QED
        BY <3>1, <3>2, <3>3, WalkExists
    <2>2. ASSUME NEW n \in 0 .. N, n # 0
          PROVE  UNION {Con(g)[s] : s \in v[n - 1]} = UNION {Contains(g, s) : s \in v[n - 1]}
      <3>1. v[n - 1] \in SUBSET DOMAIN g
        BY <2>2
      <3> QED
        BY <1>4, <3>1
    <2>3. v = [n \in 0 .. N |-> IF n = 0 THEN T ELSE v[n - 1] \cup UNION {Contains(g, s) : s \in v[n - 1]}]
      BY <2>1, <2>2 DEF IsWalk
    <2> QED
      BY <2>3
  <1> HIDE DEF walk
  <1>6. \A n \in 0 .. N : walk[n] = IF n = 0 THEN T ELSE walk[n - 1] \cup UNION {Contains(g, s) : s \in walk[n - 1]}
    <2>1. ASSUME NEW n \in 0 .. N
          PROVE  walk[n] = IF n = 0 THEN T ELSE walk[n - 1] \cup UNION {Contains(g, s) : s \in walk[n - 1]}
      BY <1>5, Zenon
    <2> QED
      BY <2>1
  <1> DEFINE S == {n \in 0 .. N : walk[n] \in SUBSET DOMAIN g}
  <1>7. \A n \in 0 .. N : n = 0 \/ n - 1 \in S => n \in S
    <2>1. \A s \in DOMAIN g : Contains(g, s) \in SUBSET DOMAIN g
      BY StepsOK
    <2> SUFFICES ASSUME NEW n \in 0 .. N, n = 0 \/ n - 1 \in S PROVE walk[n] \in SUBSET DOMAIN g
      OBVIOUS
    <2>2. CASE n = 0
      BY <1>6, <2>2
    <2>3. CASE n # 0
      <3>1. walk[n - 1] \in SUBSET DOMAIN g
        BY <2>3
      <3>2. walk[n] = walk[n - 1] \cup UNION {Contains(g, s) : s \in walk[n - 1]}
        BY <1>6, <2>3
      <3> QED
        BY <2>1, <3>1, <3>2
    <2> QED
      BY <2>2, <2>3
  <1> HIDE DEF S
  <1>8. 0 .. N \subseteq S
    <2>1. 0 .. N \subseteq Nat /\ \A n \in 0 .. N : n # 0 => n - 1 \in 0 .. N
      BY <1>1
    <2> QED
      BY <1>7, <2>1, Induction
  <1>9. \A n \in 0 .. N : n # 0 => walk[n - 1] \in SUBSET DOMAIN g
    BY <1>8 DEF S
  <1>10. IsWalk(Con(g), T, N, walk)
    <2>1. \A n \in 0 .. N : n # 0 =>
            UNION {Con(g)[s] : s \in walk[n - 1]} = UNION {Contains(g, s) : s \in walk[n - 1]}
      BY <1>4, <1>9
    <2> QED
      BY <1>5, <2>1 DEF IsWalk
  <1>11. walk[N] = Hull(Con(g), T)
    <2>1. IsFiniteSet(DOMAIN g)
      BY <1>2
    <2>2. Con(g) \in [DOMAIN g -> SUBSET DOMAIN g]
      BY <1>2
    <2>3. N = Cardinality(DOMAIN g) /\ T \in SUBSET DOMAIN g
      BY <1>1
    <2> QED
      BY <1>10, <2>1, <2>2, <2>3, WalkIsHull
  <1> QED
    BY <1>3, <1>11

LEMMA BooksAre ==
  ASSUME NEW g, GraphOK(g), NEW t \in DOMAIN g
  PROVE  BooksAgree(g, t) <=> Books(g, t)
  <1>1. {t} \in SUBSET DOMAIN g /\ Contains(g, t) \in SUBSET DOMAIN g
    BY StepsOK
  <1>2. Closure(g, {t}, Refers) = Hull(Ref(g), {t})
    BY <1>1, ClosureRefers
  <1>3. Closure(g, Contains(g, t), Contains) = Hull(Con(g), Contains(g, t))
    BY <1>1, ClosureContains
  <1> QED
    BY <1>2, <1>3 DEF BooksAgree, Books, Incomplete

-----------------------------------------------------------------------------
(* What is known of forwards, but for types that were lost.                *)

\* A type that was not lost refers directly to no forward but undefined ones,
\* and they know it.
Direct(g, L) ==
  \A x \in DOMAIN g \ L : ~IsForward(g, x) =>
    \A y \in g[x].subs : IsForward(g, y) => g[y].target = Undefined /\ x \in g[y].users
\* The users of a forward have it among those they refer to.
UsersRefer(g) ==
  \A y \in DOMAIN g : IsForward(g, y) => \A x \in g[y].users : ~IsForward(g, x) /\ y \in g[x].referenced
Tame(g, L, t) == ~IsForward(g, t) /\ Hull(Ref(g), {t}) \cap L = {}
WellBooked(g, L) ==
  /\ L \subseteq DOMAIN g /\ \A x \in L : ~IsForward(g, x)
  /\ Direct(g, L) /\ UsersRefer(g)
  /\ \A t \in DOMAIN g : Tame(g, L, t) => Books(g, t)

\* A type of g in h: as it was, though a forward may have more users.
Kept(g, h, x) ==
  IF IsForward(g, x)
    THEN IsForward(h, x) /\ h[x].target = g[x].target /\ g[x].users \subseteq h[x].users
    ELSE h[x] = g[x]

LEMMA KeptSteps ==
  ASSUME NEW g, NEW h, NEW x, Kept(g, h, x)
  PROVE  /\ IsForward(h, x) <=> IsForward(g, x)
         /\ Final(h, x) <=> Final(g, x)
         /\ UndefinedForward(h, x) <=> UndefinedForward(g, x)
         /\ Refers(h, x) = Refers(g, x) /\ Contains(h, x) = Contains(g, x)
         /\ ~Final(g, x) => h[x].target = g[x].target
  BY DEF Kept, IsForward, Final, UndefinedForward, Refers, Contains

\* All that is kept of a type whose surroundings are.
LEMMA KeptHull ==
  ASSUME NEW g, NEW h, GraphOK(g), GraphOK(h), DOMAIN g \subseteq DOMAIN h, \A x \in DOMAIN g : Kept(g, h, x),
         NEW T \in SUBSET DOMAIN g
  PROVE  Hull(Ref(h), T) = Hull(Ref(g), T) /\ Hull(Con(h), T) = Hull(Con(g), T)
  <1>1. /\ Ref(g) \in [DOMAIN g -> SUBSET DOMAIN g] /\ Con(g) \in [DOMAIN g -> SUBSET DOMAIN g]
        /\ Ref(h) \in [DOMAIN h -> SUBSET DOMAIN h] /\ Con(h) \in [DOMAIN h -> SUBSET DOMAIN h]
    BY StepsOK
  <1>2. \A x \in DOMAIN g : Ref(h)[x] = Ref(g)[x] /\ Con(h)[x] = Con(g)[x]
    <2> SUFFICES ASSUME NEW x \in DOMAIN g PROVE Ref(h)[x] = Ref(g)[x] /\ Con(h)[x] = Con(g)[x]
      OBVIOUS
    <2>1. Refers(h, x) = Refers(g, x) /\ Contains(h, x) = Contains(g, x)
      BY KeptSteps
    <2> QED
      BY <2>1, StepsOK
  <1>3. Hull(Ref(g), T) \in SUBSET DOMAIN g /\ Hull(Con(g), T) \in SUBSET DOMAIN g
    BY <1>1, HullIs
  <1>4. \A x \in Hull(Ref(g), T) : Ref(h)[x] = Ref(g)[x]
    BY <1>2, <1>3
  <1>5. \A x \in Hull(Con(g), T) : Con(h)[x] = Con(g)[x]
    BY <1>2, <1>3
  <1> QED
    BY <1>1, <1>4, <1>5, HullSame

\* The books of a type stay right when its node does, what it gets to does and
\* what is undefined of it.
LEMMA BooksStay ==
  ASSUME NEW g, NEW h, NEW t, Books(g, t), h[t] = g[t], Contains(h, t) = Contains(g, t),
         Hull(Ref(h), {t}) = Hull(Ref(g), {t}), Hull(Con(h), Contains(g, t)) = Hull(Con(g), Contains(g, t)),
         \A x \in Hull(Ref(g), {t}) \cup Hull(Con(g), Contains(g, t)) :
            UndefinedForward(h, x) <=> UndefinedForward(g, x),
         \A f \in g[t].referenced : t \in g[f].users => t \in h[f].users
  PROVE  Books(h, t)
  <1> DEFINE A == Hull(Ref(g), {t})
             B == Hull(Con(g), Contains(g, t))
  <1>1. UndefinedAmong(h, A) = UndefinedAmong(g, A) /\ UndefinedAmong(h, B) = UndefinedAmong(g, B)
    BY DEF UndefinedAmong
  <1>2. /\ g[t].referenced = UndefinedAmong(g, A) /\ g[t].contained = UndefinedAmong(g, B)
        /\ \A f \in g[t].referenced : t \in g[f].users
        /\ g[t].resolved = (g[t].referenced = {}) /\ t \notin B
    BY DEF Books
  <1> HIDE DEF A, B
  <1>3. /\ h[t].referenced = UndefinedAmong(h, A) /\ h[t].contained = UndefinedAmong(h, B)
        /\ \A f \in h[t].referenced : t \in h[f].users
        /\ h[t].resolved = (h[t].referenced = {}) /\ t \notin B
    BY <1>1, <1>2
  <1>4. A = Hull(Ref(h), {t}) /\ B = Hull(Con(h), Contains(h, t))
    BY DEF A, B
  <1> QED
    BY <1>3, <1>4 DEF Books

\* A graph that has more, none of it forwards with a target or users.
LEMMA MoreBooked ==
  ASSUME NEW g, NEW h, GraphOK(g), GraphOK(h), DOMAIN g \subseteq DOMAIN h, \A x \in DOMAIN g : Kept(g, h, x),
         NEW L, WellBooked(g, L), NEW t \in DOMAIN g, Tame(h, L, t)
  PROVE  Books(h, t)
  <1>1. {t} \in SUBSET DOMAIN g /\ Contains(g, t) \in SUBSET DOMAIN g
    BY StepsOK
  <1>2. /\ Hull(Ref(h), {t}) = Hull(Ref(g), {t}) /\ Hull(Con(h), Contains(g, t)) = Hull(Con(g), Contains(g, t))
    BY <1>1, KeptHull
  <1>3. Kept(g, h, t) /\ ~IsForward(g, t) /\ Tame(g, L, t) /\ Contains(h, t) = Contains(g, t)
    BY <1>2, KeptSteps DEF Tame
  <1>4. Books(g, t) /\ h[t] = g[t]
    BY <1>3 DEF WellBooked, Kept
  <1>5. Hull(Ref(g), {t}) \in SUBSET DOMAIN g /\ Hull(Con(g), Contains(g, t)) \in SUBSET DOMAIN g
    BY <1>1, StepsOK, HullIs
  <1>6. \A x \in DOMAIN g : UndefinedForward(h, x) <=> UndefinedForward(g, x)
    BY KeptSteps
  <1>7. \A f \in g[t].referenced : f \in DOMAIN g /\ IsForward(g, f)
    BY <1>4, <1>5 DEF Books, UndefinedAmong, UndefinedForward
  <1>8. \A f \in g[t].referenced : t \in g[f].users => t \in h[f].users
    BY <1>7 DEF Kept
  <1> QED
    BY <1>2, <1>3, <1>4, <1>5, <1>6, <1>8, BooksStay

\* What a new forward changes.
LEMMA ForwardAdded ==
  ASSUME NEW g, NEW h, NEW f, NEW L, GraphOK(g), Chasable(g), WellBooked(g, L), f \notin DOMAIN g, f # Undefined,
         h = [y \in DOMAIN g \cup {f} |-> IF y = f THEN NewForward ELSE g[y]]
  PROVE  /\ GraphOK(h) /\ Chasable(h) /\ WellBooked(h, L)
         /\ \A x \in DOMAIN g : h[x] = g[x] /\ Chased(h, x) = Chased(g, x)
  <1>1. DOMAIN h = DOMAIN g \cup {f} /\ h[f] = NewForward /\ \A x \in DOMAIN g : h[x] = g[x]
    OBVIOUS
  <1>2. GraphOK(h)
    <2>1. IsFiniteSet(DOMAIN h)
      BY <1>1, FS_AddElement DEF GraphOK
    <2>2. NewForward \in ForwardNode(DOMAIN h)
      BY DEF NewForward, ForwardNode
    <2>3. \A x \in DOMAIN g : g[x] \in ForwardNode(DOMAIN h) \cup TypeNode(DOMAIN h)
      <3> SUFFICES ASSUME NEW x \in DOMAIN g PROVE g[x] \in ForwardNode(DOMAIN h) \cup TypeNode(DOMAIN h)
        OBVIOUS
      <3>1. DOMAIN g \subseteq DOMAIN h
        BY <1>1
      <3>2. g[x] \in ForwardNode(DOMAIN g) \/ g[x] \in TypeNode(DOMAIN g)
        BY DEF GraphOK
      <3>3. CASE g[x] \in ForwardNode(DOMAIN g)
        BY <3>1, <3>3 DEF ForwardNode
      <3>4. CASE g[x] \in TypeNode(DOMAIN g)
        BY <3>1, <3>4 DEF TypeNode
      <3> QED
        BY <3>2, <3>3, <3>4
    <2> QED
      BY <1>1, <2>1, <2>2, <2>3 DEF GraphOK
  <1>3. IsForward(h, f) /\ Final(h, f) /\ h[f].users = {}
    BY <1>1 DEF IsForward, Final, NewForward
  <1>4. \A x \in DOMAIN g : Kept(g, h, x) /\ (IsForward(h, x) <=> IsForward(g, x))
    BY <1>1 DEF Kept, IsForward
  <1>5. Chasable(h) /\ \A x \in DOMAIN g : Chased(h, x) = Chased(g, x)
    <2>1. \A x \in DOMAIN g : Final(h, x) <=> Final(g, x)
      BY <1>1 DEF Final, IsForward
    <2>2. \A x \in DOMAIN g : ~Final(g, x) => g[x].target \in DOMAIN g /\ h[x].target = g[x].target
      BY <1>1, NodeIs
    <2> QED
      BY <1>1, <1>3, <2>1, <2>2, ChaseMore
  <1>6. WellBooked(h, L)
    <2>1. L \subseteq DOMAIN h /\ \A x \in L : ~IsForward(h, x)
      BY <1>1, <1>4 DEF WellBooked
    <2>2. Direct(h, L)
      <3> SUFFICES ASSUME NEW x \in DOMAIN h \ L, ~IsForward(h, x), NEW y \in h[x].subs, IsForward(h, y)
                   PROVE  h[y].target = Undefined /\ x \in h[y].users
        BY DEF Direct
      <3>1. x \in DOMAIN g \ L /\ ~IsForward(g, x) /\ h[x] = g[x]
        BY <1>1, <1>3, <1>4
      <3>2. y \in DOMAIN g
        BY <3>1, NodeIs DEF TypeNode
      <3> QED
        BY <1>1, <1>4, <3>1, <3>2 DEF WellBooked, Direct
    <2>3. UsersRefer(h)
      <3> SUFFICES ASSUME NEW y \in DOMAIN h, IsForward(h, y), NEW x \in h[y].users
                   PROVE  ~IsForward(h, x) /\ y \in h[x].referenced
        BY DEF UsersRefer
      <3>1. y \in DOMAIN g /\ IsForward(g, y) /\ x \in g[y].users
        BY <1>1, <1>3, <1>4
      <3>2. x \in DOMAIN g
        BY <3>1, NodeIs DEF ForwardNode
      <3> QED
        BY <1>1, <1>4, <3>1, <3>2 DEF WellBooked, UsersRefer
    <2>4. \A t \in DOMAIN h : Tame(h, L, t) => Books(h, t)
      BY <1>1, <1>2, <1>3, <1>4, MoreBooked DEF Tame
    <2> QED
      BY <2>1, <2>2, <2>3, <2>4 DEF WellBooked
  <1> QED
    BY <1>1, <1>2, <1>5, <1>6

\* What a new type changes.
Makes(g, h, id, kind, subs, refs) ==
  /\ DOMAIN h = DOMAIN g \cup {id}
  /\ subs \in SUBSET DOMAIN g /\ refs \in SUBSET DOMAIN g
  /\ \A s \in subs : Final(g, s)
  /\ \A f \in refs : UndefinedForward(g, f)
  /\ refs = Referenced(g, subs)
  /\ h[id] = [kind |-> kind, subs |-> subs, referenced |-> refs,
              contained |-> IF kind = "tuple" THEN Contained(g, subs) ELSE {}, resolved |-> refs = {}]
  /\ \A x \in DOMAIN g : h[x] = IF x \in refs THEN [g[x] EXCEPT !.users = @ \cup {id}] ELSE g[x]

LEMMA MakeMakes ==
  ASSUME NEW g, GraphOK(g), Chasable(g), NEW uses \in SUBSET DOMAIN g, CanMake(g, uses), NEW id, id \notin DOMAIN g,
         NEW kind
  PROVE  Makes(g, Make(g, id, kind, uses), id, kind, Subtypes(g, uses), Referenced(g, Subtypes(g, uses)))
  <1> DEFINE subs == Subtypes(g, uses)
             refs == Referenced(g, subs)
             new == [kind |-> kind, subs |-> subs, referenced |-> refs,
                     contained |-> IF kind = "tuple" THEN Contained(g, subs) ELSE {}, resolved |-> refs = {}]
  <1>1. subs \in SUBSET DOMAIN g /\ \A s \in subs : Final(g, s)
    BY ChasedProps DEF Subtypes
  <1>2. \A f \in refs : UndefinedForward(g, f)
    BY DEF CanMake
  <1> DEFINE h == [t \in DOMAIN g \cup {id} |->
                     IF t = id THEN new ELSE IF t \in refs THEN [g[t] EXCEPT !.users = @ \cup {id}] ELSE g[t]]
  <1>3. Make(g, id, kind, uses) = h
    BY DEF Make
  <1> HIDE DEF subs
  <1>4. refs \in SUBSET DOMAIN g
    <2>1. ASSUME NEW t \in subs PROVE ReferencedForwards(g, t) \in SUBSET DOMAIN g
      BY <1>1, <2>1, NodeIs DEF ReferencedForwards, TypeNode
    <2> QED
      BY <1>1, <2>1 DEF Referenced, Forwards
  <1> HIDE DEF refs, new
  <1>5. DOMAIN h = DOMAIN g \cup {id} /\ h[id] = new
    OBVIOUS
  <1>6. \A x \in DOMAIN g : h[x] = IF x \in refs THEN [g[x] EXCEPT !.users = @ \cup {id}] ELSE g[x]
    OBVIOUS
  <1> HIDE DEF h
  <1> QED
    BY <1>1, <1>2, <1>3, <1>4, <1>5, <1>6 DEF Makes, new, refs, subs

IsMade(g, h, id, kind, subs, refs) ==
  /\ GraphOK(h) /\ ~IsForward(h, id) /\ \A x \in DOMAIN g : Kept(g, h, x)
  /\ \A x \in DOMAIN g : IsForward(g, x) => h[x].users = g[x].users \cup (IF x \in refs THEN {id} ELSE {})
  /\ h[id].kind = kind /\ h[id].subs = subs /\ h[id].referenced = refs
  /\ h[id].contained = (IF kind = "tuple" THEN Contained(g, subs) ELSE {})
  /\ h[id].resolved = (refs = {})

LEMMA MakesNodes ==
  ASSUME NEW g, GraphOK(g), NEW h, NEW id, id \notin DOMAIN g, id # Undefined, NEW kind \in {"tuple", "class"},
         NEW subs, NEW refs, Makes(g, h, id, kind, subs, refs)
  PROVE  IsMade(g, h, id, kind, subs, refs)
  <1> DEFINE D == DOMAIN h
  <1>1. /\ D = DOMAIN g \cup {id} /\ subs \in SUBSET DOMAIN g /\ refs \in SUBSET DOMAIN g
        /\ h[id] = [kind |-> kind, subs |-> subs, referenced |-> refs,
                    contained |-> IF kind = "tuple" THEN Contained(g, subs) ELSE {}, resolved |-> refs = {}]
        /\ \A x \in DOMAIN g : h[x] = IF x \in refs THEN [g[x] EXCEPT !.users = @ \cup {id}] ELSE g[x]
        /\ \A f \in refs : IsForward(g, f)
    BY DEF Makes, UndefinedForward
  <1>2. Contained(g, subs) \in SUBSET DOMAIN g
    <2>1. ASSUME NEW t \in subs PROVE ContainedForwards(g, t) \in SUBSET DOMAIN g
      BY <1>1, <2>1, NodeIs DEF ContainedForwards, TypeNode
    <2> QED
      BY <1>1, <2>1 DEF Contained, Forwards
  <1>3. h[id] \in TypeNode(D)
    <2>1. PICK c : c = IF kind = "tuple" THEN Contained(g, subs) ELSE {}
      OBVIOUS
    <2>2. PICK r : r = (refs = {})
      OBVIOUS
    <2>3. c \in SUBSET D /\ r \in BOOLEAN /\ subs \in SUBSET D /\ refs \in SUBSET D
      BY <1>1, <1>2, <2>1, <2>2
    <2>4. h[id] = [kind |-> kind, subs |-> subs, referenced |-> refs, contained |-> c, resolved |-> r]
      BY <1>1, <2>1, <2>2
    <2> HIDE DEF D
    <2> QED
      BY <2>3, <2>4 DEF TypeNode
  <1>4. ASSUME NEW x \in DOMAIN g
        PROVE  /\ h[x] \in ForwardNode(D) \cup TypeNode(D) /\ Kept(g, h, x)
               /\ IsForward(g, x) => h[x].users = g[x].users \cup (IF x \in refs THEN {id} ELSE {})
    <2>1. CASE IsForward(g, x)
      <3>1. g[x] \in ForwardNode(DOMAIN g)
        BY <2>1, NodeIs
      <3>2. PICK us : us = g[x].users \cup {id}
        OBVIOUS
      <3>3. h[x] = IF x \in refs THEN [g[x] EXCEPT !.users = us] ELSE g[x]
        BY <1>1, <3>2
      <3>4. us \in SUBSET D /\ g[x].users \in SUBSET D
        BY <1>1, <3>1, <3>2 DEF ForwardNode
      <3>5. g[x] \in ForwardNode(D)
        BY <1>1, <3>1 DEF ForwardNode
      <3> HIDE DEF D
      <3>6. CASE x \in refs
        <4>1. h[x] \in ForwardNode(D) /\ h[x].kind = g[x].kind /\ h[x].target = g[x].target /\ h[x].users = us
          BY <3>3, <3>4, <3>5, <3>6 DEF ForwardNode
        <4> QED
          BY <2>1, <3>2, <3>6, <4>1 DEF Kept, IsForward
      <3>7. CASE x \notin refs
        BY <2>1, <3>3, <3>5, <3>7 DEF Kept, IsForward
      <3> QED
        BY <3>6, <3>7
    <2>2. CASE ~IsForward(g, x)
      <3>1. g[x] \in TypeNode(DOMAIN g) /\ h[x] = g[x]
        BY <1>1, <2>2, NodeIs
      <3>2. g[x] \in TypeNode(D)
        BY <1>1, <3>1 DEF TypeNode
      <3> QED
        BY <2>2, <3>1, <3>2 DEF Kept
    <2> QED
      BY <2>1, <2>2
  <1>5. GraphOK(h)
    <2>1. IsFiniteSet(D) /\ Undefined \notin D
      BY <1>1, FS_AddElement DEF GraphOK
    <2> QED
      BY <1>1, <1>3, <1>4, <2>1 DEF GraphOK
  <1>6. PICK c : c = IF kind = "tuple" THEN Contained(g, subs) ELSE {}
    OBVIOUS
  <1>7. PICK r : r = (refs = {})
    OBVIOUS
  <1>8. h[id] = [kind |-> kind, subs |-> subs, referenced |-> refs, contained |-> c, resolved |-> r]
    BY <1>1, <1>6, <1>7
  <1>9. h[id].kind = kind /\ h[id].subs = subs /\ h[id].referenced = refs /\ h[id].contained = c /\ h[id].resolved = r
    BY <1>8
  <1> QED
    BY <1>4, <1>5, <1>6, <1>7, <1>9 DEF IsForward, IsMade

LEMMA UndefinedAlone ==
  ASSUME NEW g, GraphOK(g), NEW s \in DOMAIN g, IsForward(g, s), Final(g, s)
  PROVE  /\ UndefinedForward(g, s) /\ Refers(g, s) = {} /\ Contains(g, s) = {}
         /\ Hull(Ref(g), {s}) = {s} /\ Hull(Con(g), {s}) = {s}
  <1>1. g[s].target = Undefined
    BY DEF Final
  <1>2. UndefinedForward(g, s) /\ Refers(g, s) = {} /\ Contains(g, s) = {}
    BY <1>1 DEF UndefinedForward, Refers, Contains
  <1>3. Ref(g)[s] = {} /\ Con(g)[s] = {}
    BY <1>2, StepsOK
  <1>4. Hull(Ref(g), {s}) = {s} \cup {}
    BY <1>3, StepsOK, HullOfOne, HullOfNone
  <1>5. Hull(Con(g), {s}) = {s} \cup {}
    BY <1>3, StepsOK, HullOfOne, HullOfNone
  <1> QED
    BY <1>2, <1>4, <1>5

\* A new type has right books if those have it is made of.
LEMMA NewBooks ==
  ASSUME NEW g, GraphOK(g), NEW h, NEW id, id \notin DOMAIN g, id # Undefined, NEW kind \in {"tuple", "class"},
         NEW subs, NEW refs, Makes(g, h, id, kind, subs, refs), NEW L, WellBooked(g, L), Tame(h, L, id)
  PROVE  Books(h, id)
  <1> DEFINE A == Hull(Ref(g), subs)
             B == Hull(Con(g), subs)
  <1>1. /\ GraphOK(h) /\ ~IsForward(h, id) /\ \A x \in DOMAIN g : Kept(g, h, x)
        /\ \A x \in DOMAIN g : IsForward(g, x) => h[x].users = g[x].users \cup (IF x \in refs THEN {id} ELSE {})
        /\ h[id].kind = kind /\ h[id].subs = subs /\ h[id].referenced = refs
        /\ h[id].contained = (IF kind = "tuple" THEN Contained(g, subs) ELSE {})
        /\ h[id].resolved = (refs = {})
    <2>1. IsMade(g, h, id, kind, subs, refs)
      BY MakesNodes
    <2> QED
      BY <2>1 DEF IsMade
  <1>2. /\ DOMAIN h = DOMAIN g \cup {id} /\ subs \in SUBSET DOMAIN g /\ refs \in SUBSET DOMAIN g
        /\ \A s \in subs : Final(g, s)
        /\ \A f \in refs : UndefinedForward(g, f) /\ IsForward(g, f)
        /\ refs = Forwards(g, subs) \cup UNION {ReferencedForwards(g, t) : t \in subs}
    BY DEF Makes, UndefinedForward, Referenced
  <1>3. Refers(h, id) = subs /\ Contains(h, id) = IF kind = "class" THEN {} ELSE subs
    BY <1>1 DEF Refers, Contains
  <1>4. Hull(Ref(h), {id}) = {id} \cup A
    <2>1. Ref(h)[id] = subs /\ id \in DOMAIN h
      BY <1>1, <1>2, <1>3, StepsOK
    <2>2. Hull(Ref(h), {id}) = {id} \cup Hull(Ref(h), subs)
      BY <1>1, <2>1, StepsOK, HullOfOne
    <2>3. Hull(Ref(h), subs) = A
      BY <1>1, <1>2, KeptHull
    <2> QED
      BY <2>2, <2>3
  <1>5. Hull(Con(h), subs) = B
    BY <1>1, <1>2, KeptHull
  <1>6. A \in SUBSET DOMAIN g /\ B \in SUBSET DOMAIN g
    BY <1>2, StepsOK, HullIs
  <1>7. \A x : x \in A <=> \E s \in subs : x \in Hull(Ref(g), {s})
    BY <1>2, StepsOK, HullOfSet
  <1>8. \A x : x \in B <=> \E s \in subs : x \in Hull(Con(g), {s})
    BY <1>2, StepsOK, HullOfSet
  <1> HIDE DEF A, B
  <1>9. \A x \in DOMAIN g : UndefinedForward(h, x) <=> UndefinedForward(g, x)
    BY <1>1, KeptSteps
  <1>10. ASSUME NEW s \in subs, ~IsForward(g, s) PROVE Books(g, s) /\ s \in DOMAIN g
    <2>1. Tame(g, L, s)
      BY <1>4, <1>7, <1>10 DEF Tame
    <2> QED
      BY <1>2, <2>1 DEF WellBooked
  <1>11. ASSUME NEW s \in subs
         PROVE  \A f : f \in Hull(Ref(g), {s}) /\ UndefinedForward(g, f) <=>
                         (f = s /\ IsForward(g, s)) \/ f \in ReferencedForwards(g, s)
    <2>1. CASE IsForward(g, s)
      <3>1. s \in DOMAIN g /\ Final(g, s)
        BY <1>2
      <3>2. UndefinedForward(g, s) /\ Hull(Ref(g), {s}) = {s}
        BY <2>1, <3>1, UndefinedAlone
      <3> QED
        BY <2>1, <3>2 DEF ReferencedForwards
    <2>2. CASE ~IsForward(g, s)
      BY <1>10, <2>2 DEF ReferencedForwards, Books, UndefinedAmong
    <2> QED
      BY <2>1, <2>2
  <1>12. ASSUME NEW s \in subs
         PROVE  \A f : f \in Hull(Con(g), {s}) /\ UndefinedForward(g, f) <=>
                         (f = s /\ IsForward(g, s)) \/ f \in ContainedForwards(g, s)
    <2>1. CASE IsForward(g, s)
      <3>1. s \in DOMAIN g /\ Final(g, s)
        BY <1>2
      <3>2. UndefinedForward(g, s) /\ Hull(Con(g), {s}) = {s}
        BY <2>1, <3>1, UndefinedAlone
      <3> QED
        BY <2>1, <3>2 DEF ContainedForwards
    <2>2. CASE ~IsForward(g, s)
      <3>1. Hull(Con(g), {s}) = {s} \cup Hull(Con(g), Contains(g, s))
        BY <1>2, StepsOK, HullOfOne
      <3>2. ~UndefinedForward(g, s)
        BY <2>2 DEF UndefinedForward
      <3> QED
        BY <1>10, <2>2, <3>1, <3>2 DEF ContainedForwards, Books, UndefinedAmong
    <2> QED
      BY <2>1, <2>2
  <1>13. refs = UndefinedAmong(h, {id} \cup A)
    <2>1. \A f : f \in refs <=> (f \in subs /\ IsForward(g, f)) \/ \E s \in subs : f \in ReferencedForwards(g, s)
      BY <1>2 DEF Forwards
    <2>2. \A f : f \in refs <=> f \in A /\ UndefinedForward(g, f)
      BY <1>7, <1>11, <2>1
    <2>3. ~UndefinedForward(h, id)
      BY <1>1 DEF UndefinedForward
    <2> QED
      BY <1>2, <1>6, <1>9, <2>2, <2>3 DEF UndefinedAmong
  <1>14. kind = "tuple" => Contained(g, subs) = UndefinedAmong(h, B)
    <2> DEFINE c == Contained(g, subs)
    <2>1. \A f : f \in c <=> (f \in subs /\ IsForward(g, f)) \/ \E s \in subs : f \in ContainedForwards(g, s)
      BY DEF Contained, Forwards
    <2> HIDE DEF c
    <2>2. \A f : f \in c <=> f \in B /\ UndefinedForward(g, f)
      BY <1>8, <1>12, <2>1
    <2> QED
      BY <1>6, <1>9, <2>2 DEF c, UndefinedAmong
  <1>15. UndefinedAmong(h, {}) = {} /\ Hull(Con(h), {}) = {}
    BY <1>1, StepsOK, HullOfNone DEF UndefinedAmong
  <1>16. \A f \in refs : id \in h[f].users
    BY <1>1, <1>2
  <1>17. /\ h[id].referenced = UndefinedAmong(h, Hull(Ref(h), {id}))
         /\ h[id].contained = UndefinedAmong(h, Hull(Con(h), Contains(h, id)))
         /\ id \notin Hull(Con(h), Contains(h, id))
    <2>1. CASE kind = "tuple"
      BY <1>1, <1>2, <1>3, <1>4, <1>5, <1>6, <1>13, <1>14, <2>1
    <2>2. CASE kind = "class"
      BY <1>1, <1>2, <1>3, <1>4, <1>13, <1>15, <2>2
    <2> QED
      BY <2>1, <2>2
  <1> QED
    BY <1>1, <1>16, <1>17 DEF Books

LEMMA TypeAdded ==
  ASSUME NEW g, GraphOK(g), Chasable(g), NEW h, NEW id, id \notin DOMAIN g, id # Undefined,
         NEW kind \in {"tuple", "class"},
         NEW subs, NEW refs, Makes(g, h, id, kind, subs, refs), NEW L, WellBooked(g, L)
  PROVE  /\ GraphOK(h) /\ Chasable(h) /\ WellBooked(h, L)
         /\ \A x \in DOMAIN g : Kept(g, h, x) /\ Chased(h, x) = Chased(g, x)
  <1>1. /\ GraphOK(h) /\ ~IsForward(h, id) /\ \A x \in DOMAIN g : Kept(g, h, x)
        /\ \A x \in DOMAIN g : IsForward(g, x) => h[x].users = g[x].users \cup (IF x \in refs THEN {id} ELSE {})
        /\ h[id].subs = subs /\ h[id].referenced = refs
    <2>1. IsMade(g, h, id, kind, subs, refs)
      BY MakesNodes
    <2> QED
      BY <2>1 DEF IsMade
  <1>2. /\ DOMAIN h = DOMAIN g \cup {id} /\ subs \in SUBSET DOMAIN g /\ refs \in SUBSET DOMAIN g
        /\ \A s \in subs : Final(g, s)
        /\ refs = Forwards(g, subs) \cup UNION {ReferencedForwards(g, t) : t \in subs}
    BY DEF Makes, Referenced
  <1>3. Chasable(h) /\ \A x \in DOMAIN g : Chased(h, x) = Chased(g, x)
    <2>1. \A x \in DOMAIN g : Final(h, x) <=> Final(g, x)
      BY <1>1, KeptSteps
    <2>2. \A x \in DOMAIN g : ~Final(g, x) => g[x].target \in DOMAIN g /\ h[x].target = g[x].target
      BY <1>1, NodeIs, KeptSteps
    <2>3. Final(h, id)
      BY <1>1 DEF Final
    <2> QED
      BY <1>2, <2>1, <2>2, <2>3, ChaseMore
  <1>4. \A x \in DOMAIN g : IsForward(h, x) <=> IsForward(g, x)
    BY <1>1, KeptSteps
  <1>5. L \subseteq DOMAIN h /\ \A x \in L : ~IsForward(h, x)
    BY <1>2, <1>4 DEF WellBooked
  <1>6. Direct(h, L)
    <2> SUFFICES ASSUME NEW x \in DOMAIN h \ L, ~IsForward(h, x), NEW y \in h[x].subs, IsForward(h, y)
                 PROVE  h[y].target = Undefined /\ x \in h[y].users
      BY DEF Direct
    <2>1. CASE x = id
      <3>1. y \in subs /\ y \in DOMAIN g /\ IsForward(g, y) /\ Final(g, y)
        BY <1>1, <1>2, <1>4, <2>1
      <3>2. y \in refs
        BY <1>2, <3>1 DEF Forwards
      <3> QED
        BY <1>1, <2>1, <3>1, <3>2 DEF Final, Kept
    <2>2. CASE x # id
      <3>1. x \in DOMAIN g \ L /\ ~IsForward(g, x) /\ h[x] = g[x]
        BY <1>1, <1>2, <1>4, <2>2 DEF Kept
      <3>2. y \in DOMAIN g
        BY <3>1, NodeIs DEF TypeNode
      <3>3. g[y].target = Undefined /\ x \in g[y].users /\ IsForward(g, y)
        BY <1>4, <3>1, <3>2 DEF WellBooked, Direct
      <3> QED
        BY <1>1, <3>2, <3>3 DEF Kept
    <2> QED
      BY <2>1, <2>2
  <1>7. UsersRefer(h)
    <2> SUFFICES ASSUME NEW y \in DOMAIN h, IsForward(h, y), NEW x \in h[y].users
                 PROVE  ~IsForward(h, x) /\ y \in h[x].referenced
      BY DEF UsersRefer
    <2>1. y \in DOMAIN g /\ IsForward(g, y)
      BY <1>1, <1>2, <1>4
    <2>2. CASE x = id
      <3>1. id \notin g[y].users
        BY <2>1, NodeIs DEF ForwardNode
      <3>2. y \in refs
        BY <1>1, <2>1, <2>2, <3>1
      <3> QED
        BY <1>1, <2>2, <3>2
    <2>3. CASE x # id
      <3>1. x \in g[y].users
        BY <1>1, <2>1, <2>3
      <3>2. x \in DOMAIN g
        BY <2>1, <3>1, NodeIs DEF ForwardNode
      <3>3. ~IsForward(g, x) /\ y \in g[x].referenced
        BY <2>1, <3>1 DEF WellBooked, UsersRefer
      <3> QED
        BY <1>1, <1>4, <3>2, <3>3 DEF Kept
    <2> QED
      BY <2>2, <2>3
  <1>8. \A t \in DOMAIN h : Tame(h, L, t) => Books(h, t)
    <2>1. \A t \in DOMAIN g : Tame(h, L, t) => Books(h, t)
      BY <1>1, <1>2, MoreBooked
    <2>2. Tame(h, L, id) => Books(h, id)
      BY NewBooks
    <2> QED
      BY <1>2, <2>1, <2>2
  <1> QED
    BY <1>1, <1>3, <1>5, <1>6, <1>7, <1>8 DEF WellBooked

-----------------------------------------------------------------------------
(* A forward is defined.                                                   *)

NowRefers(g, x, f, z) ==
  (g[x].referenced \ {f}) \cup (IF IsForward(g, z) THEN {z} ELSE ReferencedForwards(g, z) \ {f})

\* What becomes of a type that refers to f.
Rewritten(g, h, x, f, z) ==
  /\ h[x].subs = {IF y = f THEN z ELSE y : y \in g[x].subs}
  /\ h[x].contained = (IF f \in g[x].contained THEN (g[x].contained \ {f}) \cup (ContainedForwards(g, z) \ {f})
                       ELSE g[x].contained)
  /\ h[x].referenced = NowRefers(g, x, f, z)
  /\ h[x].resolved = (g[x].resolved \/ NowRefers(g, x, f, z) = {})

\* h is g, where f has been defined as z.
Defines(g, h, f, z) ==
  /\ DOMAIN h = DOMAIN g /\ GraphOK(h)
  /\ f \in DOMAIN g /\ z \in DOMAIN g /\ f # z
  /\ UndefinedForward(g, f) /\ Final(g, z) /\ f \notin ContainedForwards(g, z)
  /\ IsForward(h, f) /\ h[f].target = z /\ h[f].users = {}
  /\ \A x \in DOMAIN g \ {f} : IsForward(g, x) =>
       IsForward(h, x) /\ h[x].target = g[x].target /\ h[x].users = g[x].users \cup NowUsers(g, f, z, x)
  /\ \A x \in DOMAIN g : ~IsForward(g, x) =>
       /\ ~IsForward(h, x) /\ h[x].kind = g[x].kind
       /\ IF x \in g[f].users THEN Rewritten(g, h, x, f, z) ELSE h[x] = g[x]

LEMMA DefineDefines ==
  ASSUME NEW g, GraphOK(g), Chasable(g), NEW f \in DOMAIN g, UndefinedForward(g, f), NEW to \in DOMAIN g,
         CanDefine(g, f, to)
  PROVE  Defines(g, Define(g, f, to), f, Chased(g, to))
  <1>1. PICK z : z = Chased(g, to)
    OBVIOUS
  <1>2. z \in DOMAIN g /\ Final(g, z)
    BY <1>1, ChasedProps
  <1>3. f # z /\ f \notin ContainedForwards(g, z)
    BY <1>1 DEF CanDefine
  <1> DEFINE D == DOMAIN g
             h == [t \in D |->
                     IF t = f THEN [g[f] EXCEPT !.target = z, !.users = {}]
                     ELSE IF IsForward(g, t) THEN [g[t] EXCEPT !.users = @ \cup NowUsers(g, f, z, t)]
                     ELSE IF t \in g[f].users THEN Resolved(g, t, f, z)
                     ELSE g[t]]
  <1>4. Define(g, f, to) = h
    BY <1>1 DEF Define
  <1>5. IsForward(g, f) /\ g[f] \in ForwardNode(D) /\ g[f].users \in SUBSET D
    BY NodeIs DEF UndefinedForward, ForwardNode
  <1>6. DOMAIN h = D /\ h[f] = [g[f] EXCEPT !.target = z, !.users = {}]
    OBVIOUS
  <1>7. ASSUME NEW x \in D \ {f}, IsForward(g, x)
        PROVE  h[x] = [g[x] EXCEPT !.users = @ \cup NowUsers(g, f, z, x)]
    BY <1>7
  <1>8. ASSUME NEW x \in D, ~IsForward(g, x), x \in g[f].users PROVE h[x] = Resolved(g, x, f, z)
    BY <1>5, <1>8
  <1>9. ASSUME NEW x \in D, ~IsForward(g, x), x \notin g[f].users PROVE h[x] = g[x]
    BY <1>5, <1>9
  <1> HIDE DEF D, h
  <1>10. h[f] \in ForwardNode(D) /\ h[f].target = z /\ h[f].users = {} /\ IsForward(h, f)
    BY <1>2, <1>5, <1>6 DEF D, ForwardNode, IsForward
  <1>11. ASSUME NEW x \in D \ {f}, IsForward(g, x)
         PROVE  /\ h[x] \in ForwardNode(D) /\ IsForward(h, x) /\ h[x].target = g[x].target
                /\ h[x].users = g[x].users \cup NowUsers(g, f, z, x)
    <2>1. g[x] \in ForwardNode(D)
      BY <1>11, NodeIs DEF D
    <2>2. NowUsers(g, f, z, x) \in SUBSET D
      BY <1>5 DEF NowUsers
    <2>3. PICK us : us = g[x].users \cup NowUsers(g, f, z, x)
      OBVIOUS
    <2>4. h[x] = [g[x] EXCEPT !.users = us]
      BY <1>7, <1>11, <2>3
    <2>5. us \in SUBSET D
      BY <2>1, <2>2, <2>3 DEF ForwardNode
    <2>6. h[x] \in ForwardNode(D) /\ h[x].target = g[x].target /\ h[x].users = us
      BY <2>1, <2>4, <2>5 DEF ForwardNode
    <2> QED
      BY <2>3, <2>6 DEF IsForward, ForwardNode
  <1>12. ASSUME NEW x \in D, ~IsForward(g, x)
         PROVE  /\ h[x] \in TypeNode(D) /\ ~IsForward(h, x) /\ h[x].kind = g[x].kind
                /\ IF x \in g[f].users THEN Rewritten(g, h, x, f, z) ELSE h[x] = g[x]
    <2>1. g[x] \in TypeNode(D)
      BY <1>12, NodeIs DEF D
    <2>2. CASE x \notin g[f].users
      BY <1>9, <1>12, <2>1, <2>2 DEF IsForward
    <2>3. CASE x \in g[f].users
      <3>1. PICK ss : ss = {IF t = f THEN z ELSE t : t \in g[x].subs}
        OBVIOUS
      <3>2. PICK cs : cs = IF f \in g[x].contained THEN (g[x].contained \ {f}) \cup (ContainedForwards(g, z) \ {f})
                           ELSE g[x].contained
        OBVIOUS
      <3>3. PICK rs : rs = NowRefers(g, x, f, z)
        OBVIOUS
      <3>4. PICK b : b = (g[x].resolved \/ rs = {})
        OBVIOUS
      <3>5. h[x] = [g[x] EXCEPT !.subs = ss, !.contained = cs, !.referenced = rs, !.resolved = b]
        <4>1. h[x] = Resolved(g, x, f, z)
          BY <1>8, <1>12, <2>3
        <4>2. rs = (g[x].referenced \ {f}) \cup
                     (IF IsForward(g, z) THEN {z} ELSE ReferencedForwards(g, z) \ {f})
          BY <3>3 DEF NowRefers
        <4> QED
          BY <3>1, <3>2, <3>4, <4>1, <4>2 DEF Resolved
      <3>6. ss \in SUBSET D /\ cs \in SUBSET D /\ rs \in SUBSET D /\ b \in BOOLEAN
        <4>1. ss \in SUBSET D
          BY <1>2, <2>1, <3>1 DEF TypeNode, D
        <4>2. ~IsForward(g, z) => g[z] \in TypeNode(D)
          BY <1>2, NodeIs DEF D
        <4>3. ContainedForwards(g, z) \in SUBSET D /\ ReferencedForwards(g, z) \in SUBSET D
          BY <4>2 DEF ContainedForwards, ReferencedForwards, TypeNode
        <4>4. cs \in SUBSET D
          BY <2>1, <3>2, <4>3 DEF TypeNode
        <4>5. z \in D
          BY <1>2 DEF D
        <4>6. rs \in SUBSET D
          BY <2>1, <3>3, <4>3, <4>5 DEF TypeNode, NowRefers
        <4> QED
          BY <3>4, <4>1, <4>4, <4>6
      <3>7. /\ h[x] \in TypeNode(D) /\ h[x].kind = g[x].kind /\ h[x].subs = ss /\ h[x].contained = cs
            /\ h[x].referenced = rs /\ h[x].resolved = b
        BY <2>1, <3>5, <3>6 DEF TypeNode
      <3>8. Rewritten(g, h, x, f, z)
        BY <3>1, <3>2, <3>3, <3>4, <3>7 DEF Rewritten
      <3> QED
        BY <1>12, <2>3, <3>7, <3>8 DEF IsForward
    <2> QED
      BY <2>2, <2>3
  <1>13. GraphOK(h)
    <2>1. \A x \in D : h[x] \in ForwardNode(D) \cup TypeNode(D)
      BY <1>10, <1>11, <1>12
    <2> QED
      BY <1>6, <2>1 DEF GraphOK, D
  <1>14. Defines(g, h, f, z)
    BY <1>2, <1>3, <1>5, <1>6, <1>10, <1>11, <1>12, <1>13 DEF D, Defines
  <1> QED
    BY <1>1, <1>4, <1>14

NowLost(g, L, f, z) == L \cup (IF IsForward(g, z) THEN g[f].users ELSE {})

LEMMA DefineSteps ==
  ASSUME NEW g, NEW h, NEW f, NEW z, GraphOK(g), UsersRefer(g), Defines(g, h, f, z)
  PROVE  /\ \A x \in DOMAIN g : IsForward(h, x) <=> IsForward(g, x)
         /\ \A x \in DOMAIN g \ {f} : UndefinedForward(h, x) <=> UndefinedForward(g, x)
         /\ \A x \in DOMAIN g \ {f} : x \notin g[f].users => Refers(h, x) = Refers(g, x)
              /\ Contains(h, x) = Contains(g, x)
         /\ \A x \in g[f].users : x \in DOMAIN g /\ ~IsForward(g, x) /\ f \in g[x].referenced
         /\ Refers(g, f) = {} /\ IsForward(g, f) /\ g[f].target = Undefined
  <1>1. f \in DOMAIN g /\ IsForward(g, f) /\ g[f].target = Undefined /\ IsForward(h, f) /\ DOMAIN h = DOMAIN g
    BY DEF Defines, UndefinedForward
  <1>2. \A x \in g[f].users : x \in DOMAIN g /\ ~IsForward(g, x) /\ f \in g[x].referenced
    BY <1>1, NodeIs DEF ForwardNode, UsersRefer
  <1>3. \A x \in DOMAIN g : IsForward(h, x) <=> IsForward(g, x)
    BY <1>1 DEF Defines
  <1>4. ASSUME NEW x \in DOMAIN g \ {f} PROVE UndefinedForward(h, x) <=> UndefinedForward(g, x)
    BY <1>3 DEF Defines, UndefinedForward
  <1>5. ASSUME NEW x \in DOMAIN g \ {f}, x \notin g[f].users
        PROVE  Refers(h, x) = Refers(g, x) /\ Contains(h, x) = Contains(g, x)
    <2>1. CASE IsForward(g, x)
      <3>1. IsForward(h, x) /\ h[x].target = g[x].target
        BY <2>1 DEF Defines
      <3> QED
        BY <2>1, <3>1 DEF Refers, Contains, IsForward
    <2>2. CASE ~IsForward(g, x)
      <3>1. h[x] = g[x]
        BY <1>5, <2>2 DEF Defines
      <3> QED
        BY <3>1 DEF Refers, Contains, IsForward
    <2> QED
      BY <2>1, <2>2
  <1>6. Refers(g, f) = {}
    BY <1>1 DEF Refers
  <1> QED
    BY <1>1, <1>2, <1>3, <1>4, <1>5, <1>6

LEMMA DefineChases ==
  ASSUME NEW g, NEW h, NEW f, NEW z, GraphOK(g), Chasable(g), Defines(g, h, f, z)
  PROVE  /\ Chasable(h)
         /\ \A x \in DOMAIN g : Chased(h, x) = IF Chased(g, x) = f THEN z ELSE Chased(g, x)
  <1>1. /\ DOMAIN h = DOMAIN g /\ f \in DOMAIN g /\ z \in DOMAIN g /\ Final(g, f) /\ Final(g, z) /\ f # z
        /\ h[f].target = z
    BY DEF Defines, UndefinedForward, Final
  <1>2. ~Final(h, f)
    BY <1>1 DEF Defines, Final, GraphOK
  <1>3. \A x \in DOMAIN g \ {f} : Final(h, x) <=> Final(g, x)
    BY DEF Defines, Final
  <1>4. \A x \in DOMAIN g \ {f} : ~Final(g, x) => g[x].target \in DOMAIN g /\ h[x].target = g[x].target
    BY NodeIs DEF Defines
  <1> QED
    BY <1>1, <1>2, <1>3, <1>4, ChaseOn

LEMMA DefineDirect ==
  ASSUME NEW g, NEW h, NEW f, NEW z, NEW L, GraphOK(g), WellBooked(g, L), Defines(g, h, f, z)
  PROVE  /\ NowLost(g, L, f, z) \subseteq DOMAIN h /\ \A x \in NowLost(g, L, f, z) : ~IsForward(h, x)
         /\ Direct(h, NowLost(g, L, f, z)) /\ UsersRefer(h)
  <1>1. UsersRefer(g) /\ Direct(g, L) /\ L \subseteq DOMAIN g /\ \A x \in L : ~IsForward(g, x)
    BY DEF WellBooked
  <1>2. /\ \A x \in DOMAIN g : IsForward(h, x) <=> IsForward(g, x)
        /\ \A x \in g[f].users : x \in DOMAIN g /\ ~IsForward(g, x) /\ f \in g[x].referenced
        /\ DOMAIN h = DOMAIN g
    BY <1>1, DefineSteps DEF Defines
  <1>3. NowLost(g, L, f, z) \subseteq DOMAIN h /\ \A x \in NowLost(g, L, f, z) : ~IsForward(h, x)
    BY <1>1, <1>2 DEF NowLost
  <1>4. Direct(h, NowLost(g, L, f, z))
    <2> SUFFICES ASSUME NEW x \in DOMAIN h \ NowLost(g, L, f, z), ~IsForward(h, x), NEW y \in h[x].subs,
                        IsForward(h, y)
                 PROVE  h[y].target = Undefined /\ x \in h[y].users
      BY DEF Direct
    <2>1. x \in DOMAIN g \ L /\ ~IsForward(g, x)
      BY <1>2 DEF NowLost
    <2>2. y \in DOMAIN g /\ IsForward(g, y)
      <3>1. GraphOK(h)
        BY DEF Defines
      <3> QED
        BY <1>2, <3>1, NodeIs DEF TypeNode
    <2>3. y \in g[x].subs /\ y # f
      <3>1. CASE x \in g[f].users
        <4>1. ~IsForward(g, z) /\ f # z
          BY <3>1 DEF NowLost, Defines
        <4>2. h[x].subs = {IF s = f THEN z ELSE s : s \in g[x].subs}
          BY <2>1, <3>1 DEF Defines, Rewritten
        <4> QED
          BY <2>2, <4>1, <4>2
      <3>2. CASE x \notin g[f].users
        <4>1. h[x] = g[x]
          BY <2>1, <3>2 DEF Defines
        <4> QED
          BY <1>1, <2>1, <2>2, <3>2, <4>1 DEF Direct
      <3> QED
        BY <3>1, <3>2
    <2>4. g[y].target = Undefined /\ x \in g[y].users
      BY <1>1, <2>1, <2>2, <2>3 DEF Direct
    <2> QED
      BY <2>2, <2>3, <2>4 DEF Defines
  <1>5. UsersRefer(h)
    <2> SUFFICES ASSUME NEW y \in DOMAIN h, IsForward(h, y), NEW x \in h[y].users
                 PROVE  ~IsForward(h, x) /\ y \in h[x].referenced
      BY DEF UsersRefer
    <2>1. y \in DOMAIN g \ {f} /\ IsForward(g, y)
      BY <1>2 DEF Defines
    <2>2. h[y].users = g[y].users \cup NowUsers(g, f, z, y)
      BY <2>1 DEF Defines
    <2>3. CASE x \in g[y].users
      <3>1. x \in DOMAIN g
        BY <2>1, <2>3, NodeIs DEF ForwardNode
      <3>2. ~IsForward(g, x) /\ y \in g[x].referenced
        BY <1>1, <2>1, <2>3 DEF UsersRefer
      <3>3. x \in g[f].users => y \in h[x].referenced
        <4>1. x \in g[f].users => Rewritten(g, h, x, f, z)
          BY <3>1, <3>2 DEF Defines
        <4> QED
          BY <2>1, <3>2, <4>1 DEF Rewritten, NowRefers
      <3>4. x \notin g[f].users => h[x] = g[x]
        BY <3>1, <3>2 DEF Defines
      <3> QED
        BY <1>2, <3>1, <3>2, <3>3, <3>4
    <2>4. CASE x \in NowUsers(g, f, z, y)
      <3>1. ~IsForward(g, z) /\ y \in g[z].referenced \ {f} /\ x \in g[f].users
        BY <2>4 DEF NowUsers
      <3>2. x \in DOMAIN g /\ ~IsForward(g, x)
        BY <1>2, <3>1
      <3>3. Rewritten(g, h, x, f, z)
        BY <3>1, <3>2 DEF Defines
      <3> QED
        BY <1>2, <3>1, <3>2, <3>3 DEF Rewritten, NowRefers, ReferencedForwards
    <2> QED
      BY <2>2, <2>3, <2>4
  <1> QED
    BY <1>3, <1>4, <1>5

\* The books of a type that gets neither to the forward nor to one of its users.
LEMMA BooksUntouched ==
  ASSUME NEW g, NEW h, NEW f, NEW z, GraphOK(g), UsersRefer(g), Defines(g, h, f, z),
         NEW t \in DOMAIN g, ~IsForward(g, t), Books(g, t),
         f \notin Hull(Ref(g), {t}), Hull(Ref(g), {t}) \cap g[f].users = {}
  PROVE  Books(h, t)
  <1> DEFINE D == DOMAIN g
             A == Hull(Ref(g), {t})
             B == Hull(Con(g), Contains(g, t))
  <1>1. DOMAIN h = D /\ GraphOK(h)
    BY DEF Defines
  <1>2. /\ Ref(g) \in [D -> SUBSET D] /\ Con(g) \in [D -> SUBSET D]
        /\ \A x \in D : Ref(g)[x] = Refers(g, x) /\ Con(g)[x] = Contains(g, x)
             /\ Contains(g, x) \subseteq Refers(g, x)
    BY StepsOK
  <1>3. /\ Ref(h) \in [D -> SUBSET D] /\ Con(h) \in [D -> SUBSET D]
        /\ \A x \in D : Ref(h)[x] = Refers(h, x) /\ Con(h)[x] = Contains(h, x)
    BY <1>1, StepsOK
  <1>4. {t} \in SUBSET D /\ Contains(g, t) \in SUBSET D
    BY <1>2
  <1>5. A \in SUBSET D /\ t \in A /\ \A x \in A : Ref(g)[x] \subseteq A
    BY <1>2, <1>4, HullIs
  <1>6. B \subseteq A
    <2>1. Contains(g, t) \subseteq A /\ \A x \in A : Con(g)[x] \subseteq A
      BY <1>2, <1>5
    <2> QED
      BY <1>2, <1>4, <1>5, <2>1, HullIs
  <1>7. f \notin A /\ A \cap g[f].users = {}
    OBVIOUS
  <1> HIDE DEF A, B
  <1>8. \A x \in A : Refers(h, x) = Refers(g, x) /\ Contains(h, x) = Contains(g, x)
    BY <1>5, <1>7, DefineSteps DEF D
  <1>9. Hull(Ref(h), {t}) = A
    <2>1. \A x \in Hull(Ref(g), {t}) : Ref(h)[x] = Ref(g)[x]
      BY <1>2, <1>3, <1>5, <1>8 DEF A
    <2>2. PICK T \in SUBSET D : T = {t}
      BY <1>4
    <2>3. D \subseteq D /\ \A x \in Hull(Ref(g), T) : Ref(h)[x] = Ref(g)[x]
      BY <2>1, <2>2
    <2>4. Ref(g) \in [D -> SUBSET D] /\ Ref(h) \in [D -> SUBSET D]
      BY <1>2, <1>3
    <2> HIDE DEF D
    <2>5. Hull(Ref(h), T) = Hull(Ref(g), T)
      BY <2>3, <2>4, HullSame
    <2> QED
      BY <2>2, <2>5 DEF A
  <1>10. Hull(Con(h), Contains(g, t)) = B
    <2>1. \A x \in B : Con(h)[x] = Con(g)[x]
      BY <1>2, <1>3, <1>5, <1>6, <1>8
    <2> QED
      BY <1>2, <1>3, <1>4, <2>1, HullSame DEF B
  <1>11. h[t] = g[t]
    BY <1>5, <1>7 DEF Defines
  <1>12. \A x \in A \cup B : UndefinedForward(h, x) <=> UndefinedForward(g, x)
    BY <1>5, <1>6, <1>7, DefineSteps DEF D
  <1>13. \A y \in g[t].referenced : t \in g[y].users => t \in h[y].users
    <2> SUFFICES ASSUME NEW y \in g[t].referenced PROVE t \in g[y].users => t \in h[y].users
      OBVIOUS
    <2>1. y \in A /\ IsForward(g, y)
      BY DEF Books, UndefinedAmong, UndefinedForward, A
    <2>2. y \in DOMAIN g \ {f}
      BY <1>5, <1>7, <2>1 DEF D
    <2> QED
      BY <2>1, <2>2 DEF Defines
  <1>14. Contains(h, t) = Contains(g, t)
    BY <1>5, <1>8
  <1> QED
    BY <1>9, <1>10, <1>11, <1>12, <1>13, <1>14, BooksStay DEF A, B

\* When a forward becomes another, whoever does not get to a user of it is not concerned.
LEMMA BooksPassedOn ==
  ASSUME NEW g, NEW h, NEW f, NEW z, NEW L, GraphOK(g), WellBooked(g, L), Defines(g, h, f, z), IsForward(g, z),
         NEW t \in DOMAIN g, Tame(h, NowLost(g, L, f, z), t)
  PROVE  Books(h, t)
  <1> DEFINE D == DOMAIN g
             A == Hull(Ref(g), {t})
             C == Hull(Ref(h), {t})
  <1>0. UsersRefer(g)
    BY DEF WellBooked
  <1>1. DOMAIN h = D /\ GraphOK(h) /\ f \in D
    BY DEF Defines
  <1>2. Ref(g) \in [D -> SUBSET D] /\ \A x \in D : Ref(g)[x] = Refers(g, x)
    BY StepsOK
  <1>3. Ref(h) \in [D -> SUBSET D] /\ \A x \in D : Ref(h)[x] = Refers(h, x)
    BY <1>1, StepsOK
  <1>4. {t} \in SUBSET D
    OBVIOUS
  <1>5. C \in SUBSET D /\ t \in C /\ \A x \in C : Ref(h)[x] \subseteq C
    BY <1>3, <1>4, HullIs
  <1>6. C \cap L = {} /\ C \cap g[f].users = {} /\ ~IsForward(g, t)
    BY <1>0, DefineSteps DEF Tame, NowLost
  <1>7. \A S \in SUBSET D : {t} \subseteq S /\ (\A s \in S : Ref(g)[s] \subseteq S) => A \subseteq S
    BY <1>2, <1>4, HullIs
  <1> HIDE DEF C
  <1>8. A \subseteq C
    <2>1. \A x \in C : Ref(g)[x] \subseteq C
      <3> SUFFICES ASSUME NEW x \in C PROVE Ref(g)[x] \subseteq C
        OBVIOUS
      <3>1. x # f => Refers(h, x) = Refers(g, x)
        BY <1>0, <1>5, <1>6, DefineSteps DEF D
      <3>2. Refers(g, f) = {}
        BY <1>0, DefineSteps
      <3> QED
        BY <1>2, <1>3, <1>5, <3>1, <3>2
    <2> QED
      BY <1>5, <1>7, <2>1
  <1>9. Tame(g, L, t) /\ Books(g, t)
    <2>1. Tame(g, L, t)
      BY <1>6, <1>8 DEF Tame
    <2> QED
      BY <2>1 DEF WellBooked
  <1>10. f \notin A
    <2> SUFFICES ASSUME f \in A PROVE FALSE
      OBVIOUS
    <2>1. f \in g[t].referenced
      BY <1>9 DEF Books, UndefinedAmong, Defines
    <2>2. t \in g[f].users
      BY <1>9, <2>1 DEF Books
    <2> QED
      BY <1>5, <1>6, <2>2
  <1> QED
    BY <1>0, <1>6, <1>8, <1>9, <1>10, BooksUntouched

\* What a tame type gets to after the definition was tame before it.
TameBefore(g, h, f, t) ==
  LET C == Hull(Ref(h), {t})
  IN  /\ C \subseteq DOMAIN g /\ t \in C /\ f \notin C
      /\ \A x \in C : Refers(h, x) \subseteq C /\ (IsForward(g, x) => g[x].target = Undefined)
      /\ \A x \in C : ~IsForward(g, x) =>
           Books(g, x) /\ Hull(Ref(g), {x}) \subseteq C \cup {f} /\ (f \in g[x].subs => x \in g[f].users)

LEMMA TameWasTame ==
  ASSUME NEW g, NEW h, NEW f, NEW z, NEW L, GraphOK(g), WellBooked(g, L), Defines(g, h, f, z), ~IsForward(g, z),
         NEW t \in DOMAIN g, Tame(h, L, t)
  PROVE  TameBefore(g, h, f, t)
  <1> DEFINE D == DOMAIN g
             C == Hull(Ref(h), {t})
  <1>0. UsersRefer(g) /\ Direct(g, L) /\ Direct(h, L) /\ \A x \in L : ~IsForward(g, x)
    <2>1. NowLost(g, L, f, z) = L
      BY DEF NowLost
    <2>2. Direct(h, NowLost(g, L, f, z))
      BY DefineDirect
    <2> QED
      BY <2>1, <2>2 DEF WellBooked
  <1>1. DOMAIN h = D /\ GraphOK(h) /\ f \in D /\ IsForward(h, f) /\ h[f].target = z /\ z \in D /\ z # Undefined
    BY DEF Defines, GraphOK
  <1>2. Ref(g) \in [D -> SUBSET D] /\ \A x \in D : Ref(g)[x] = Refers(g, x)
    BY StepsOK
  <1>3. Ref(h) \in [D -> SUBSET D] /\ \A x \in D : Ref(h)[x] = Refers(h, x)
    BY <1>1, StepsOK
  <1>4. {t} \in SUBSET D
    OBVIOUS
  <1>5. /\ C \in SUBSET D /\ t \in C /\ \A x \in C : Ref(h)[x] \subseteq C
        /\ \A S \in SUBSET D : {t} \subseteq S /\ (\A s \in S : Ref(h)[s] \subseteq S) => C \subseteq S
    BY <1>3, <1>4, HullIs
  <1>6. C \cap L = {} /\ ~IsForward(h, t)
    BY DEF Tame
  <1> HIDE DEF C, D
  <1>7. \A x \in D : IsForward(h, x) <=> IsForward(g, x)
    BY <1>0, DefineSteps DEF D
  <1>8. \A x \in C : IsForward(h, x) => h[x].target = Undefined
    <2> DEFINE S == {x \in C : IsForward(h, x) => h[x].target = Undefined}
    <2>1. {t} \subseteq S /\ S \in SUBSET D
      BY <1>5, <1>6
    <2>2. ASSUME NEW s \in S PROVE Ref(h)[s] \subseteq S
      <3> SUFFICES ASSUME NEW y \in Ref(h)[s], IsForward(h, y) PROVE h[y].target = Undefined
        BY <1>5
      <3>1. s \in C /\ s \in D /\ y \in Refers(h, s)
        BY <1>3, <1>5
      <3>2. ~IsForward(h, s)
        BY <3>1 DEF Refers
      <3>3. s \notin L /\ y \in h[s].subs
        BY <1>6, <3>1, <3>2 DEF Refers
      <3> QED
        BY <1>0, <1>1, <3>1, <3>2, <3>3 DEF Direct
    <2>3. C \subseteq S
      BY <1>5, <2>1, <2>2
    <2> QED
      BY <2>3
  <1>9. f \notin C
    BY <1>1, <1>8
  <1>10. \A x \in C : x \in D /\ x # f /\ (IsForward(g, x) => g[x].target = Undefined)
    <2> SUFFICES ASSUME NEW x \in C PROVE x \in D /\ x # f /\ (IsForward(g, x) => g[x].target = Undefined)
      OBVIOUS
    <2>1. x \in D /\ x # f
      BY <1>5, <1>9
    <2>2. IsForward(g, x) => h[x].target = g[x].target
      BY <2>1 DEF Defines, D
    <2> QED
      BY <1>7, <1>8, <2>1, <2>2
  <1>11. \A x \in C \cup {f} : Ref(g)[x] \subseteq C \cup {f}
    <2> SUFFICES ASSUME NEW x \in C \cup {f} PROVE Ref(g)[x] \subseteq C \cup {f}
      OBVIOUS
    <2>1. Refers(g, f) = {}
      BY <1>0, DefineSteps
    <2>2. CASE x = f
      BY <1>1, <1>2, <2>1, <2>2
    <2>3. CASE x \in C /\ x \notin g[f].users
      <3>1. Refers(h, x) = Refers(g, x)
        BY <1>0, <1>10, <2>3, DefineSteps DEF D
      <3> QED
        BY <1>2, <1>3, <1>5, <2>3, <3>1
    <2>4. CASE x \in C /\ x \in g[f].users
      <3>1. x \in D /\ ~IsForward(g, x) /\ ~IsForward(h, x)
        BY <1>0, <1>7, <2>4, DefineSteps DEF D
      <3>2. h[x].subs = {IF s = f THEN z ELSE s : s \in g[x].subs}
        BY <2>4, <3>1 DEF Defines, Rewritten, D
      <3>3. \A s \in g[x].subs : s = f \/ s \in h[x].subs
        BY <3>2
      <3>4. h[x].subs \subseteq C
        BY <1>3, <1>5, <2>4, <3>1 DEF Refers
      <3>5. Ref(g)[x] = g[x].subs
        BY <1>2, <3>1 DEF Refers
      <3> QED
        BY <3>3, <3>4, <3>5
    <2> QED
      BY <2>2, <2>3, <2>4
  <1>12. f \notin L
    BY <1>0, <1>1, <1>7
  <1>13. ASSUME NEW x \in C, ~IsForward(g, x)
         PROVE  Books(g, x) /\ Hull(Ref(g), {x}) \subseteq C \cup {f} /\ (f \in g[x].subs => x \in g[f].users)
    <2>1. x \in D /\ x \notin L
      BY <1>5, <1>6
    <2>2. Hull(Ref(g), {x}) \subseteq C \cup {f}
      <3>1. C \cup {f} \in SUBSET D /\ {x} \subseteq C \cup {f} /\ {x} \in SUBSET D
        BY <1>1, <1>5
      <3>2. PICK T \in SUBSET D : T = {x}
        BY <3>1
      <3>3. Ref(g) \in [D -> SUBSET D]
        BY <1>2
      <3>4. PICK S \in SUBSET D : S = C \cup {f}
        BY <3>1
      <3>5. T \subseteq S /\ \A s \in S : Ref(g)[s] \subseteq S
        BY <1>11, <3>1, <3>2, <3>4
      <3>6. Hull(Ref(g), T) \subseteq S
        BY <3>3, <3>5, HullIs
      <3> QED
        BY <3>2, <3>4, <3>6
    <2>3. Tame(g, L, x)
      BY <1>6, <1>12, <1>13, <2>2 DEF Tame
    <2>4. Books(g, x)
      BY <2>1, <2>3 DEF WellBooked, D
    <2>5. f \in g[x].subs => x \in g[f].users
      BY <1>0, <1>1, <1>7, <1>13, <2>1 DEF Direct, D
    <2> QED
      BY <2>2, <2>4, <2>5
  <1>14. \A x \in C : Refers(h, x) \subseteq C
    BY <1>3, <1>5
  <1> QED
    BY <1>5, <1>9, <1>10, <1>13, <1>14 DEF TameBefore, C, D

\* A tame type after the definition has right books.
LEMMA BooksRewritten ==
  ASSUME NEW g, NEW h, NEW f, NEW z, NEW L, GraphOK(g), WellBooked(g, L), Defines(g, h, f, z), ~IsForward(g, z),
         NEW t \in DOMAIN g, Tame(h, L, t)
  PROVE  Books(h, t)
  <1> DEFINE D == DOMAIN g
             C == Hull(Ref(h), {t})
             A == Hull(Ref(g), {t})
             B == Hull(Con(g), Contains(g, t))
             Z == Hull(Ref(g), {z})
             ZB == Hull(Con(g), {z})
  <1>0. UsersRefer(g)
    BY DEF WellBooked
  <1>1. /\ DOMAIN h = D /\ GraphOK(h) /\ f \in D /\ z \in D /\ f # z /\ UndefinedForward(g, f)
        /\ f \notin ContainedForwards(g, z)
    BY DEF Defines
  <1>2. /\ Ref(g) \in [D -> SUBSET D] /\ Con(g) \in [D -> SUBSET D]
        /\ \A x \in D : Ref(g)[x] = Refers(g, x) /\ Con(g)[x] = Contains(g, x)
             /\ Contains(g, x) \subseteq Refers(g, x)
    BY StepsOK
  <1>3. /\ Ref(h) \in [D -> SUBSET D] /\ Con(h) \in [D -> SUBSET D]
        /\ \A x \in D : Ref(h)[x] = Refers(h, x) /\ Con(h)[x] = Contains(h, x)
    BY <1>1, StepsOK
  <1>4. TameBefore(g, h, f, t)
    BY TameWasTame
  <1>5. /\ C \subseteq D /\ t \in C /\ f \notin C
        /\ \A x \in C : Refers(h, x) \subseteq C /\ (IsForward(g, x) => g[x].target = Undefined)
        /\ \A x \in C : ~IsForward(g, x) =>
             Books(g, x) /\ Hull(Ref(g), {x}) \subseteq C \cup {f} /\ (f \in g[x].subs => x \in g[f].users)
    BY <1>4 DEF TameBefore
  <1> HIDE DEF C
  <1>6. \A x \in D : IsForward(h, x) <=> IsForward(g, x)
    BY <1>0, DefineSteps
  <1>7. ~IsForward(g, t) /\ Books(g, t) /\ A \subseteq C \cup {f}
    BY <1>5, <1>6 DEF Tame
  <1>8. {t} \in SUBSET D /\ {z} \in SUBSET D /\ Contains(g, t) \in SUBSET D /\ Contains(h, t) \in SUBSET D
    <2>1. Con(h)[t] \in SUBSET D /\ Con(g)[t] \in SUBSET D
      BY <1>2, <1>3
    <2> QED
      BY <1>1, <1>2, <1>3, <2>1
  <1>9. A \in SUBSET D /\ t \in A /\ \A x \in A : Ref(g)[x] \subseteq A
    BY <1>2, <1>8, HullIs
  <1>10. Z \in SUBSET D /\ z \in Z /\ \A x \in Z : Ref(g)[x] \subseteq Z
    BY <1>2, <1>8, HullIs
  <1>11. \A x \in A : x = t \/ \E y \in A : y # x /\ x \in Ref(g)[y]
    BY <1>2, <1>8, HullFrom
  <1>12. B \in SUBSET D /\ ZB \in SUBSET D
    BY <1>2, <1>8, HullIs
  \* Contained is referred to.
  <1>13. B \subseteq A
    <2>1. Contains(g, t) \subseteq A /\ \A x \in A : Con(g)[x] \subseteq A
      BY <1>2, <1>9
    <2> QED
      BY <1>2, <1>8, <1>9, <2>1, HullIs
  <1>14. ZB \subseteq Z
    <2>1. {z} \subseteq Z /\ \A x \in Z : Con(g)[x] \subseteq Z
      BY <1>2, <1>10
    <2> QED
      BY <1>2, <1>8, <1>10, <2>1, HullIs
  <1>15. ASSUME NEW x \in A, x \in g[f].users PROVE f \in A
    <2>1. x \in D /\ ~IsForward(g, x) /\ f \in g[x].referenced
      BY <1>0, <1>15, DefineSteps
    <2>2. x \in C
      <3>1. x # f
        BY <1>1, <2>1 DEF UndefinedForward
      <3> QED
        BY <1>7, <3>1
    <2>3. f \in Hull(Ref(g), {x})
      BY <1>5, <2>1, <2>2 DEF Books, UndefinedAmong
    <2>4. Hull(Ref(g), {x}) \subseteq A
      <3>1. PICK T \in SUBSET D : T = {x}
        BY <2>1
      <3>2. PICK U \in SUBSET D : U = {t}
        BY <1>8
      <3>3. Ref(g) \in [D -> SUBSET D] /\ T \subseteq Hull(Ref(g), U)
        BY <1>2, <1>15, <3>1, <3>2
      <3>4. Hull(Ref(g), T) \subseteq Hull(Ref(g), U)
        BY <3>3, HullInside
      <3> QED
        BY <3>1, <3>2, <3>4
    <2> QED
      BY <2>3, <2>4
  <1>16. CASE f \notin A
    BY <1>0, <1>7, <1>15, <1>16, BooksUntouched
  <1>17. CASE f \in A
    <2>1. f \in g[t].referenced /\ t \in g[f].users
      BY <1>1, <1>7, <1>17 DEF Books, UndefinedAmong
    <2>2. Rewritten(g, h, t, f, z)
      BY <1>7, <2>1 DEF Defines
    <2>3. h[t].kind = g[t].kind /\ ~IsForward(h, t)
      BY <1>6, <1>7 DEF Defines
    \* How what is got to changes.
    <2>4. ASSUME NEW x \in C
          PROVE  Redirected(Refers(g, x), Refers(h, x), f, z) /\ Redirected(Contains(g, x), Contains(h, x), f, z)
      <3>1. x \in D /\ x # f
        BY <1>5
      <3>2. CASE x \notin g[f].users
        <4>1. Refers(h, x) = Refers(g, x) /\ Contains(h, x) = Contains(g, x)
          BY <1>0, <3>1, <3>2, DefineSteps
        <4>2. f \notin Refers(g, x)
          BY <1>5, <3>2 DEF Refers
        <4>3. f \notin Contains(g, x)
          BY <1>2, <3>1, <4>2
        <4> QED
          BY <4>1, <4>2, <4>3 DEF Redirected
      <3>3. CASE x \in g[f].users
        <4>1. ~IsForward(g, x) /\ ~IsForward(h, x)
          BY <1>0, <1>6, <3>1, <3>3, DefineSteps
        <4>2. h[x].subs = {IF s = f THEN z ELSE s : s \in g[x].subs} /\ h[x].kind = g[x].kind
          BY <3>1, <3>3, <4>1 DEF Defines, Rewritten
        <4>3. Refers(g, x) = g[x].subs /\ Refers(h, x) = h[x].subs
          BY <4>1 DEF Refers
        <4>4. Redirected(Refers(g, x), Refers(h, x), f, z)
          BY <1>1, <4>2, <4>3 DEF Redirected
        <4>5. \/ Contains(g, x) = {} /\ Contains(h, x) = {}
              \/ Contains(g, x) = Refers(g, x) /\ Contains(h, x) = Refers(h, x)
          BY <4>2 DEF Contains
        <4>6. Redirected({}, {}, f, z)
          BY DEF Redirected
        <4> QED
          BY <4>4, <4>5, <4>6
      <3> QED
        BY <3>2, <3>3
    <2>5. z \in C
      <3>1. t # f
        BY <1>5
      <3>2. PICK y \in A : y # f /\ f \in Ref(g)[y]
        BY <1>11, <1>17, <3>1
      <3>3. y \in C /\ f \in Refers(g, y)
        BY <1>2, <1>7, <1>9, <3>2
      <3>4. z \in Refers(h, y)
        BY <2>4, <3>3 DEF Redirected
      <3> QED
        BY <1>5, <3>3, <3>4
    <2>6. Books(g, z) /\ Z \subseteq C \cup {f}
      BY <1>5, <2>5
    <2>7. Hull(Ref(h), {t}) = (A \cup Z) \ {f}
      <3>1. PICK T \in SUBSET D : T = {t}
        BY <1>8
      <3>2. Redirected(T, T, f, z)
        BY <1>5, <2>5, <3>1 DEF Redirected
      <3>3. Ref(g)[f] = {} /\ f \in Hull(Ref(g), T)
        BY <1>0, <1>1, <1>2, <1>17, <3>1, DefineSteps
      <3>4. \A x \in (Hull(Ref(g), T) \cup Hull(Ref(g), {z})) \ {f} : Redirected(Ref(g)[x], Ref(h)[x], f, z)
        <4> SUFFICES ASSUME NEW x \in (A \cup Z) \ {f} PROVE Redirected(Ref(g)[x], Ref(h)[x], f, z)
          BY <3>1
        <4>1. x \in C /\ x \in D
          BY <1>5, <1>7, <2>6
        <4> QED
          BY <1>2, <1>3, <2>4, <4>1
      <3>5. f \in D /\ z \in D /\ f # z /\ Ref(g) \in [D -> SUBSET D] /\ Ref(h) \in [D -> SUBSET D]
        BY <1>1, <1>2, <1>3
      <3> HIDE DEF D
      <3>6. Hull(Ref(h), T) = (Hull(Ref(g), T) \cup Hull(Ref(g), {z})) \ {f}
        BY <3>2, <3>3, <3>4, <3>5, HullRedirected
      <3> QED
        BY <3>1, <3>6
    <2>8. /\ f \in B => Hull(Con(h), Contains(h, t)) = (B \cup ZB) \ {f}
          /\ f \notin B => Hull(Con(h), Contains(h, t)) = B
      <3>1. PICK T \in SUBSET D : T = Contains(g, t)
        BY <1>8
      <3>2. PICK U \in SUBSET D : U = Contains(h, t)
        BY <1>8
      <3>3. Redirected(T, U, f, z)
        BY <1>5, <2>4, <3>1, <3>2
      <3>4. Con(g)[f] = {}
        <4>1. Refers(g, f) = {}
          BY <1>0, DefineSteps
        <4> QED
          BY <1>1, <1>2, <4>1
      <3>5. \A x \in (Hull(Con(g), T) \cup Hull(Con(g), {z})) \ {f} : Redirected(Con(g)[x], Con(h)[x], f, z)
        <4> SUFFICES ASSUME NEW x \in (B \cup ZB) \ {f} PROVE Redirected(Con(g)[x], Con(h)[x], f, z)
          BY <3>1
        <4>1. x \in C /\ x \in D
          BY <1>5, <1>7, <1>13, <1>14, <2>6
        <4> QED
          BY <1>2, <1>3, <2>4, <4>1
      <3>6. f \in D /\ z \in D /\ f # z /\ Con(g) \in [D -> SUBSET D] /\ Con(h) \in [D -> SUBSET D]
        BY <1>1, <1>2, <1>3
      <3> HIDE DEF D
      <3>7. /\ f \in Hull(Con(g), T) => Hull(Con(h), U) = (Hull(Con(g), T) \cup Hull(Con(g), {z})) \ {f}
            /\ f \notin Hull(Con(g), T) => Hull(Con(h), U) = Hull(Con(g), T)
        BY <3>3, <3>4, <3>5, <3>6, HullRedirected
      <3> QED
        BY <3>1, <3>2, <3>7
    <2>9. ZB = {z} \cup Hull(Con(g), Contains(g, z))
      <3>1. ZB = {z} \cup Hull(Con(g), Con(g)[z])
        BY <1>1, <1>2, HullOfOne
      <3> QED
        BY <1>1, <1>2, <3>1
    <2>10. ~UndefinedForward(g, z)
      BY DEF UndefinedForward
    <2>11. /\ g[z].referenced = UndefinedAmong(g, Z) /\ g[z].contained = UndefinedAmong(g, ZB)
      BY <2>6, <2>9, <2>10 DEF Books, UndefinedAmong
    <2>12. /\ g[t].referenced = UndefinedAmong(g, A) /\ g[t].contained = UndefinedAmong(g, B) /\ t \notin B
           /\ \A y \in g[t].referenced : t \in g[y].users
           /\ g[t].resolved = (g[t].referenced = {})
      BY <1>7 DEF Books
    <2>13. /\ ReferencedForwards(g, z) = g[z].referenced /\ ContainedForwards(g, z) = g[z].contained
      BY DEF ReferencedForwards, ContainedForwards
    <2>14. \A x \in D \ {f} : UndefinedForward(h, x) <=> UndefinedForward(g, x)
      BY <1>0, DefineSteps
    <2> HIDE DEF A, B, Z, ZB, D
    <2>15. NowRefers(g, t, f, z) = (g[t].referenced \cup g[z].referenced) \ {f}
      BY <2>13 DEF NowRefers
    <2>16. h[t].referenced = UndefinedAmong(h, Hull(Ref(h), {t}))
      <3>1. h[t].referenced = (UndefinedAmong(g, A) \cup UndefinedAmong(g, Z)) \ {f}
        BY <2>2, <2>11, <2>12, <2>15 DEF Rewritten
      <3> QED
        BY <1>9, <1>10, <2>7, <2>14, <3>1 DEF UndefinedAmong
    <2>17. f \in B <=> f \in g[t].contained
      BY <1>1, <2>12 DEF UndefinedAmong
    <2>18. h[t].contained = UndefinedAmong(h, Hull(Con(h), Contains(h, t)))
      <3>1. CASE f \in B
        <4>1. h[t].contained = (UndefinedAmong(g, B) \ {f}) \cup (UndefinedAmong(g, ZB) \ {f})
          BY <2>2, <2>11, <2>12, <2>13, <2>17, <3>1 DEF Rewritten
        <4> QED
          BY <1>12, <2>8, <2>14, <3>1, <4>1 DEF UndefinedAmong
      <3>2. CASE f \notin B
        <4>1. h[t].contained = UndefinedAmong(g, B)
          BY <2>2, <2>12, <2>17, <3>2 DEF Rewritten
        <4> QED
          BY <1>12, <2>8, <2>14, <3>2, <4>1 DEF UndefinedAmong
      <3> QED
        BY <3>1, <3>2
    <2>19. \A y \in h[t].referenced : t \in h[y].users
      <3> SUFFICES ASSUME NEW y \in h[t].referenced PROVE t \in h[y].users
        OBVIOUS
      <3>1. y # f /\ (y \in g[t].referenced \/ y \in g[z].referenced)
        BY <2>2, <2>15 DEF Rewritten
      <3>2. y \in D /\ IsForward(g, y)
        BY <1>9, <1>10, <2>11, <2>12, <3>1 DEF UndefinedAmong, UndefinedForward
      <3>3. h[y].users = g[y].users \cup NowUsers(g, f, z, y)
        BY <3>1, <3>2 DEF Defines, D
      <3>4. y \in g[z].referenced => t \in NowUsers(g, f, z, y)
        BY <2>1, <3>1 DEF NowUsers
      <3> QED
        BY <2>12, <3>1, <3>3, <3>4
    <2>20. h[t].resolved = (h[t].referenced = {})
      <3>1. g[t].resolved = FALSE
        BY <2>1, <2>12
      <3>2. h[t].resolved = (g[t].resolved \/ NowRefers(g, t, f, z) = {}) /\ h[t].referenced = NowRefers(g, t, f, z)
        BY <2>2 DEF Rewritten
      <3> QED
        BY <3>1, <3>2
    <2>21. t \notin Hull(Con(h), Contains(h, t))
      <3>1. CASE f \notin B
        BY <2>8, <2>12, <3>1
      <3>2. CASE f \in B
        <4> SUFFICES ASSUME t \in ZB PROVE FALSE
          BY <2>8, <2>12, <3>2
        <4>1. f \in Hull(Con(g), {t})
          <5>1. Hull(Con(g), {t}) = {t} \cup Hull(Con(g), Con(g)[t])
            BY <1>2, HullOfOne DEF D
          <5> QED
            BY <1>2, <3>2, <5>1 DEF B, D
        <4>2. Hull(Con(g), {t}) \subseteq ZB
          <5>1. PICK T \in SUBSET D : T = {t}
            BY <1>8
          <5>2. PICK U \in SUBSET D : U = {z}
            BY <1>8
          <5>3. Con(g) \in [D -> SUBSET D] /\ T \subseteq Hull(Con(g), U)
            BY <1>2, <5>1, <5>2 DEF ZB
          <5>4. Hull(Con(g), T) \subseteq Hull(Con(g), U)
            BY <5>3, HullInside
          <5> QED
            BY <5>1, <5>2, <5>4 DEF ZB
        <4>3. f \in g[z].contained
          BY <1>1, <2>11, <4>1, <4>2 DEF UndefinedAmong
        <4> QED
          BY <1>1, <2>13, <4>3
      <3> QED
        BY <3>1, <3>2
    <2> QED
      BY <2>16, <2>18, <2>19, <2>20, <2>21 DEF Books
  <1> QED
    BY <1>16, <1>17

LEMMA ForwardDefined ==
  ASSUME NEW g, NEW h, NEW f, NEW z, NEW L, GraphOK(g), Chasable(g), WellBooked(g, L), Defines(g, h, f, z)
  PROVE  /\ GraphOK(h) /\ Chasable(h) /\ WellBooked(h, NowLost(g, L, f, z)) /\ DOMAIN h = DOMAIN g
         /\ \A x \in DOMAIN g : IsForward(h, x) <=> IsForward(g, x)
         /\ \A x \in DOMAIN g : Chased(h, x) = IF Chased(g, x) = f THEN z ELSE Chased(g, x)
  <1>1. GraphOK(h) /\ DOMAIN h = DOMAIN g
    BY DEF Defines
  <1>2. Chasable(h) /\ \A x \in DOMAIN g : Chased(h, x) = IF Chased(g, x) = f THEN z ELSE Chased(g, x)
    BY DefineChases
  <1>3. \A x \in DOMAIN g : IsForward(h, x) <=> IsForward(g, x)
    BY DefineSteps DEF WellBooked
  <1>4. \A t \in DOMAIN g : Tame(h, NowLost(g, L, f, z), t) => Books(h, t)
    <2>1. CASE IsForward(g, z)
      BY <2>1, BooksPassedOn
    <2>2. CASE ~IsForward(g, z)
      <3>1. NowLost(g, L, f, z) = L
        BY <2>2 DEF NowLost
      <3> QED
        BY <2>2, <3>1, BooksRewritten
    <2> QED
      BY <2>1, <2>2
  <1>5. WellBooked(h, NowLost(g, L, f, z))
    BY <1>1, <1>4, DefineDirect DEF WellBooked
  <1> QED
    BY <1>1, <1>2, <1>3, <1>5

-----------------------------------------------------------------------------
(* TypeFunctions: what the memo, the graph and the stacks say of a key.    *)

LEMMA Names ==
  /\ \A k, j : ForwardOf(k) = ForwardOf(j) => k = j
  /\ \A k, j, n : ForwardOf(k) # TypeOf(j, n)
  /\ \A k, j, n, m : TypeOf(k, n) = TypeOf(j, m) => k = j
  /\ \A k : ForwardOf(k) # Undefined /\ ForwardOf(k) # Raised
  /\ \A k, n : TypeOf(k, n) # Undefined /\ TypeOf(k, n) # Raised
  /\ Undefined # Raised /\ Undefined \notin TypeName /\ Raised \notin TypeName
  <1>1. \A k, j : ForwardOf(k) = ForwardOf(j) => k = j
    BY DEF ForwardOf
  <1>2. \A k, j, n : ForwardOf(k) # TypeOf(j, n)
    BY DEF ForwardOf, TypeOf
  <1>3. \A k, j, n, m : TypeOf(k, n) = TypeOf(j, m) => k = j
    BY DEF TypeOf
  <1>4. \A k : ForwardOf(k) # Undefined /\ ForwardOf(k) # Raised
    BY DEF ForwardOf, Undefined, Raised
  <1>5. \A k, n : TypeOf(k, n) # Undefined /\ TypeOf(k, n) # Raised
    BY DEF TypeOf, Undefined, Raised
  <1>6. Undefined # Raised
    BY DEF Undefined, Raised
  <1>7. Undefined \notin TypeName /\ Raised \notin TypeName
    BY <1>4, <1>5 DEF TypeName
  <1> QED
    BY <1>1, <1>2, <1>3, <1>4, <1>5, <1>6, <1>7

\* The type functions on stack S run on R, perhaps with fewer answers, and what
\* they have got since is in D.
OldTypes(R, S, D) ==
  \A i \in DOMAIN S : S[i].kind = "type" =>
    /\ i \in DOMAIN R /\ R[i].kind = "type" /\ S[i].key = R[i].key
    /\ \A m \in DOMAIN S[i].results :
         S[i].results[m] \in D \/ (m \in DOMAIN R[i].results /\ S[i].results[m] = R[i].results[m])
\* All of R still run on S, but for one of a key in Q.
KeptTypes(R, S, Q) ==
  \A i \in DOMAIN R : R[i].kind = "type" /\ R[i].key \notin Q =>
    i \in DOMAIN S /\ S[i].kind = "type" /\ S[i].key = R[i].key

LEMMA SameTypes ==
  ASSUME NEW R, NEW D
  PROVE  OldTypes(R, R, D) /\ KeptTypes(R, R, {})
  BY DEF OldTypes, KeptTypes

LEMMA AnsweredFrame ==
  ASSUME NEW f \in Frame, NEW a \in Memo, NEW g, g = [f EXCEPT !.results = Append(@, a)]
  PROVE  /\ g.kind = f.kind /\ (f.kind = "type" => g.key = f.key)
         /\ DOMAIN g.results = 1 .. Len(f.results) + 1 /\ DOMAIN f.results = 1 .. Len(f.results)
         /\ \A m \in DOMAIN g.results : g.results[m] = a \/ (m \in DOMAIN f.results /\ g.results[m] = f.results[m])
  <1>1. f \in TypeFrames \/ f \in CompileFrames
    BY DEF Frame
  <1>2. f.results \in Seq(Memo)
    BY <1>1 DEF TypeFrames, CompileFrames
  <1>3. PICK results : results = Append(f.results, a)
    OBVIOUS
  <1>4. g = [f EXCEPT !.results = results]
    BY <1>3
  <1>5. g.kind = f.kind /\ (f.kind = "type" => g.key = f.key) /\ g.results = results
    BY <1>1, <1>4 DEF TypeFrames, CompileFrames
  <1>6. /\ DOMAIN results = 1 .. Len(f.results) + 1 /\ DOMAIN f.results = 1 .. Len(f.results)
        /\ \A m \in DOMAIN results : results[m] = a \/ (m \in DOMAIN f.results /\ results[m] = f.results[m])
    BY <1>2, <1>3
  <1> QED
    BY <1>5, <1>6

\* The innermost operation of a stack is answered.
LEMMA AnsweredTypes ==
  ASSUME NEW R \in Seq(Frame), R # <<>>, NEW a \in Memo, NEW D, a \in D \/ R[Len(R)].kind # "type",
         NEW S, DOMAIN S = DOMAIN R, \A i \in DOMAIN R : i # Len(R) => S[i] = R[i],
         S[Len(R)] = [R[Len(R)] EXCEPT !.results = Append(@, a)]
  PROVE  OldTypes(R, S, D) /\ KeptTypes(R, S, {})
  <1>1. Len(R) \in DOMAIN R /\ R[Len(R)] \in Frame
    OBVIOUS
  <1>2. PICK n : n = Len(R)
    OBVIOUS
  <1>3. PICK f : f = R[n]
    OBVIOUS
  <1>4. PICK g : g = S[n]
    OBVIOUS
  <1>5. /\ g.kind = f.kind /\ (f.kind = "type" => g.key = f.key)
        /\ \A m \in DOMAIN g.results : g.results[m] = a \/ (m \in DOMAIN f.results /\ g.results[m] = f.results[m])
    <2>1. g = [f EXCEPT !.results = Append(@, a)] /\ f \in Frame
      BY <1>1, <1>2, <1>3, <1>4
    <2> QED
      BY <2>1, AnsweredFrame
  <1>6. a \in D \/ f.kind # "type"
    BY <1>2, <1>3
  <1>7. n \in DOMAIN R /\ DOMAIN S = DOMAIN R /\ \A i \in DOMAIN R : i # n => S[i] = R[i]
    BY <1>1, <1>2
  <1> QED
    BY <1>3, <1>4, <1>5, <1>6, <1>7 DEF OldTypes, KeptTypes

LEMMA OldTypesOn ==
  ASSUME NEW R, NEW S, NEW U, NEW D, NEW Q, OldTypes(R, S, D), OldTypes(S, U, D), KeptTypes(R, S, Q),
         KeptTypes(S, U, {})
  PROVE  OldTypes(R, U, D) /\ KeptTypes(R, U, Q)
  <1>1. OldTypes(R, U, D)
    BY DEF OldTypes
  <1>2. KeptTypes(R, U, Q)
    BY DEF KeptTypes
  <1> QED
    BY <1>1, <1>2

\* The innermost operation goes, and the one below gets an answer or does not.
LEMMA BelowTypes ==
  ASSUME LockInv, NEW t \in Thread, In(t, "type"), NEW D
  PROVE  /\ OldTypes(held[t], Below(t), D) /\ KeptTypes(held[t], Below(t), {Top(t).key})
         /\ Below(t) \in Seq(Frame) /\ Len(Below(t)) = Len(held[t]) - 1 /\ DOMAIN Below(t) = 1 .. Len(held[t]) - 1
         /\ \A i \in DOMAIN Below(t) : Below(t)[i] = held[t][i]
         /\ held[t] \in Seq(Frame) /\ Len(held[t]) \in DOMAIN held[t] /\ DOMAIN held[t] = 1 .. Len(held[t])
         /\ Len(held[t]) \in Nat /\ Top(t) = held[t][Len(held[t])] /\ Top(t).kind = "type"
  <1>1. held[t] \in Seq(Frame) /\ held[t] # <<>> /\ Top(t).kind = "type"
    BY DEF LockInv, StacksRight, In
  <1>2. PICK S : S = held[t]
    OBVIOUS
  <1>3. PICK B : B = Below(t)
    OBVIOUS
  <1>4. PICK n : n = Len(S)
    OBVIOUS
  <1>5. /\ B \in Seq(Frame) /\ Len(B) = n - 1 /\ DOMAIN B = 1 .. n - 1 /\ n \in DOMAIN S /\ n \in Nat
        /\ \A i \in 1 .. n - 1 : B[i] = S[i]
    BY <1>1, <1>2, <1>3, <1>4, PopStack DEF Below
  <1>6. DOMAIN S = 1 .. n /\ Top(t) = S[n]
    BY <1>1, <1>2, <1>4 DEF Top
  <1>7. OldTypes(S, B, D)
    BY <1>5, <1>6 DEF OldTypes
  <1>8. KeptTypes(S, B, {S[n].key})
    BY <1>5, <1>6 DEF KeptTypes
  <1> QED
    BY <1>1, <1>2, <1>3, <1>4, <1>5, <1>6, <1>7, <1>8

LEMMA ToldTypes ==
  ASSUME NEW R \in Seq(Frame), NEW a \in Memo, NEW D, a \in D \/ R = <<>> \/ R[Len(R)].kind # "type"
  PROVE  OldTypes(R, Told(R, a), D) /\ KeptTypes(R, Told(R, a), {})
  <1>1. CASE R = <<>>
    BY <1>1, SameTypes DEF Told
  <1>2. CASE R # <<>>
    <2>1. PICK n : n = Len(R)
      OBVIOUS
    <2>2. n \in DOMAIN R
      BY <1>2, <2>1
    <2>3. PICK f : f = [R[n] EXCEPT !.results = Append(@, a)]
      OBVIOUS
    <2>4. Told(R, a) = [R EXCEPT ![n] = f]
      <3>1. Told(R, a) = [R EXCEPT ![n].results = Append(@, a)]
        BY <1>2, <2>1 DEF Told
      <3>2. [R EXCEPT ![n].results = Append(@, a)] = [R EXCEPT ![n] = [R[n] EXCEPT !.results = Append(@, a)]]
        BY Zenon
      <3> QED
        BY <2>3, <3>1, <3>2
    <2>5. PICK S : S = [R EXCEPT ![n] = f]
      OBVIOUS
    <2>6. DOMAIN S = DOMAIN R /\ S[n] = f /\ \A i \in DOMAIN R : i # n => S[i] = R[i]
      BY <2>2, <2>5
    <2>7. OldTypes(R, S, D) /\ KeptTypes(R, S, {})
      BY <1>2, <2>1, <2>3, <2>6, AnsweredTypes
    <2> QED
      BY <2>4, <2>5, <2>7
  <1> QED
    BY <1>1, <1>2

-----------------------------------------------------------------------------
(* What is known of the keys, and kept from step to step: of a graph G, a   *)
(* memo M, stacks H, n interrupts, answers A.                              *)

\* A key is one of three: nothing is known of it; its forward is undefined, as
\* its function runs or has ended badly; or the forward stands for the answer.
MemoOK(G, M, k) ==
  LET f == ForwardOf(k)
  IN  /\ M[k] = Undefined <=> f \notin DOMAIN G
      /\ M[k] = Undefined => \A n \in Nat : TypeOf(k, n) \notin DOMAIN G
      /\ f \in DOMAIN G => IsForward(G, f)
      /\ M[k] \in {Raised, f} => UndefinedForward(G, f)
      /\ M[k] \notin {Undefined, Raised, f} =>
           M[k] \in DOMAIN G /\ ~UndefinedForward(G, f) /\ Chased(G, f) = Chased(G, M[k])

\* The functions that run: each of another key, with the forward in the memo,
\* with answers that are types, and without a type of its own until it raises.
FramesOK(S, M, D, calm) ==
  \A i \in DOMAIN S : S[i].kind = "type" =>
    /\ M[S[i].key] = ForwardOf(S[i].key)
    /\ \A m \in DOMAIN S[i].results : S[i].results[m] \in D
    /\ calm => \A n \in Nat : TypeOf(S[i].key, n) \notin D
    /\ \A l \in DOMAIN S : S[l].kind = "type" /\ S[l].key = S[i].key => l = i

\* Every answer is the forward of its key or what the memo has.
AnswersOK(A, M, D) ==
  \A p \in A : p[1] \in Key /\ \/ p[2] = Raised /\ M[p[1]] = Raised
                               \/ p[2] \in D /\ p[2] \in {ForwardOf(p[1]), M[p[1]]}
MadeByOK(B, G, M) ==
  \A x \in DOMAIN B : x \in DOMAIN G /\ B[x] \in Key /\ (IsForward(G, x) \/ M[B[x]] = x)

\* The key of a function that runs; and one whose function will not end any more.
Busy(H, k) == \E t \in Thread : \E i \in DOMAIN H[t] : H[t][i].kind = "type" /\ H[t][i].key = k
Left(M, H, n, k) == M[k] = Raised \/ (M[k] = ForwardOf(k) /\ n > 0 /\ ~Busy(H, k))
OpenOK(M, H, n) == n \in Nat /\ \A k \in Key : M[k] = ForwardOf(k) => Busy(H, k) \/ n > 0
\* Some types that refer to none but each other have everything that was
\* answered under the lock, and nobody is going to define any of them.
Settled(G, M, H, n, A) ==
  \E S \in SUBSET DOMAIN G :
    /\ \A x \in S : Refers(G, x) \subseteq S
    /\ \A k \in Key : ForwardOf(k) \in S /\ UndefinedForward(G, ForwardOf(k)) => Left(M, H, n, k)
    /\ \A p \in A : p[3] = "locked" /\ p[2] # Raised => p[2] \in S

TypesInv ==
  /\ GraphOK(types) /\ Chasable(types) /\ WellBooked(types, lost)
  /\ \A k \in Key : MemoOK(types, memo, k)
  /\ \A t \in Thread : FramesOK(held[t], memo, DOMAIN types, raising[t] = Calm)
  /\ AnswersOK(answers, memo, DOMAIN types)
  /\ MadeByOK(madeBy, types, memo)
  /\ OpenOK(memo, held, interrupts)
  /\ \A t \in Thread : raising[t] = Interrupt => interrupts > 0
  /\ Settled(types, memo, held, interrupts, answers)

\* What a step may do to the graph that is about key j.
Onward(G, W, j) ==
  /\ DOMAIN G \subseteq DOMAIN W
  /\ \A x \in DOMAIN W \ DOMAIN G : x = ForwardOf(j) \/ \E n \in Nat : x = TypeOf(j, n)
  /\ \A x \in DOMAIN G : IsForward(W, x) <=> IsForward(G, x)
  /\ \A x \in DOMAIN G \ {ForwardOf(j)} : UndefinedForward(W, x) <=> UndefinedForward(G, x)
  /\ \A x \in DOMAIN G \ {ForwardOf(j)} : ForwardOf(j) \notin Refers(G, x) => Refers(W, x) = Refers(G, x)
  /\ \A x, y \in DOMAIN G : Chased(G, x) = Chased(G, y) => Chased(W, x) = Chased(W, y)
\* And to the memo: what was there is nothing or the forward, if it changes.
Remembers(M, N, j) ==
  /\ \A k \in Key \ {j} : N[k] = M[k]
  /\ N[j] = M[j] \/ M[j] \in {Undefined, ForwardOf(j)}

LEMMA OnwardItself ==
  ASSUME NEW G, NEW j
  PROVE  Onward(G, G, j)
  BY DEF Onward

LEMMA MemoOn ==
  ASSUME NEW G, NEW W, NEW M, NEW N, NEW j \in Key, NEW k \in Key, k # j, Onward(G, W, j), N[k] = M[k],
         MemoOK(G, M, k)
  PROVE  MemoOK(W, N, k)
  <1>1. /\ \A n \in Nat : TypeOf(k, n) \notin DOMAIN W \ DOMAIN G
        /\ ForwardOf(k) \notin DOMAIN W \ DOMAIN G /\ ForwardOf(k) # ForwardOf(j)
    BY Names DEF Onward
  <1>2. DOMAIN G \subseteq DOMAIN W
    BY DEF Onward
  <1>3. M[k] = Undefined <=> ForwardOf(k) \notin DOMAIN W
    BY <1>1, <1>2 DEF MemoOK
  <1>4. M[k] = Undefined => \A n \in Nat : TypeOf(k, n) \notin DOMAIN W
    BY <1>1, <1>2 DEF MemoOK
  <1>5. ForwardOf(k) \in DOMAIN W => IsForward(W, ForwardOf(k))
    BY <1>1 DEF MemoOK, Onward
  <1>6. M[k] # Undefined => (UndefinedForward(W, ForwardOf(k)) <=> UndefinedForward(G, ForwardOf(k)))
    BY <1>1 DEF MemoOK, Onward
  <1>7. M[k] \notin {Undefined, Raised, ForwardOf(k)} =>
           M[k] \in DOMAIN W /\ Chased(W, ForwardOf(k)) = Chased(W, M[k])
    BY DEF MemoOK, Onward
  <1>8. M[k] \in {Raised, ForwardOf(k)} => M[k] # Undefined
    BY Names
  <1> QED
    BY <1>3, <1>4, <1>5, <1>6, <1>7, <1>8 DEF MemoOK

LEMMA FramesOn ==
  ASSUME NEW R, NEW S, NEW M, NEW N, NEW D, NEW E, D \subseteq E, NEW c \in BOOLEAN, NEW d \in BOOLEAN,
         FramesOK(R, M, D, c),
         OldTypes(R, S, E), \A i \in DOMAIN S : S[i].kind = "type" => N[S[i].key] = M[S[i].key],
         d => c \/ \A i \in DOMAIN S : S[i].kind # "type",
         \A i \in DOMAIN S : S[i].kind = "type" /\ d => \A n \in Nat : TypeOf(S[i].key, n) \notin E \ D
  PROVE  FramesOK(S, N, E, d)
  <1> SUFFICES ASSUME NEW i \in DOMAIN S, S[i].kind = "type"
               PROVE  /\ N[S[i].key] = ForwardOf(S[i].key)
                      /\ \A m \in DOMAIN S[i].results : S[i].results[m] \in E
                      /\ d => \A n \in Nat : TypeOf(S[i].key, n) \notin E
                      /\ \A l \in DOMAIN S : S[l].kind = "type" /\ S[l].key = S[i].key => l = i
    BY DEF FramesOK
  <1>1. i \in DOMAIN R /\ R[i].kind = "type" /\ S[i].key = R[i].key
    BY DEF OldTypes
  <1>2. N[S[i].key] = ForwardOf(S[i].key)
    BY <1>1 DEF FramesOK
  <1>3. ASSUME NEW m \in DOMAIN S[i].results PROVE S[i].results[m] \in E
    BY <1>1 DEF FramesOK, OldTypes
  <1>4. d => \A n \in Nat : TypeOf(S[i].key, n) \notin E
    BY <1>1 DEF FramesOK
  <1>5. ASSUME NEW l \in DOMAIN S, S[l].kind = "type", S[l].key = S[i].key PROVE l = i
    <2>1. l \in DOMAIN R /\ R[l].kind = "type" /\ S[l].key = R[l].key
      BY <1>5 DEF OldTypes
    <2> QED
      BY <1>1, <1>5, <2>1 DEF FramesOK
  <1> QED
    BY <1>2, <1>3, <1>4, <1>5

LEMMA FramesBegin ==
  ASSUME NEW S \in Seq(Frame), NEW M, NEW D, NEW c \in BOOLEAN, FramesOK(S, M, D, c), NEW k \in Key, NEW N,
         M[k] = Undefined, N[k] = ForwardOf(k), \A j \in Key \ {k} : N[j] = M[j],
         NEW E, E = D \cup {ForwardOf(k)}, \A n \in Nat : TypeOf(k, n) \notin D
  PROVE  FramesOK(Append(S, TypeFrame(k)), N, E, c)
  <1>1. PICK U : U = Append(S, TypeFrame(k))
    OBVIOUS
  <1>2. PICK z : z = Len(S) + 1
    OBVIOUS
  <1>3. /\ DOMAIN U = DOMAIN S \cup {z} /\ z \notin DOMAIN S /\ U[z] = TypeFrame(k)
        /\ \A i \in DOMAIN S : U[i] = S[i]
    BY <1>1, <1>2
  <1>4. /\ U[z].kind = "type" /\ U[z].key = k /\ DOMAIN U[z].results = {}
    BY <1>3 DEF TypeFrame
  <1>5. ASSUME NEW i \in DOMAIN S, S[i].kind = "type" PROVE S[i].key # k /\ S[i].key \in Key
    <2>1. S[i] \in Frame
      OBVIOUS
    <2>2. S[i].key \in Key
      BY <1>5, <2>1 DEF Frame, TypeFrames, CompileFrames
    <2>3. M[S[i].key] = ForwardOf(S[i].key)
      BY <1>5 DEF FramesOK
    <2> QED
      BY <2>2, <2>3, Names
  <1>6. \A j, n : TypeOf(j, n) # ForwardOf(k)
    BY Names
  <1> HIDE DEF FramesOK
  <1>7. ASSUME NEW i \in DOMAIN U, U[i].kind = "type"
        PROVE  /\ N[U[i].key] = ForwardOf(U[i].key)
               /\ \A m \in DOMAIN U[i].results : U[i].results[m] \in E
               /\ c => \A n \in Nat : TypeOf(U[i].key, n) \notin E
               /\ \A l \in DOMAIN U : U[l].kind = "type" /\ U[l].key = U[i].key => l = i
    <2>1. CASE i = z
      BY <2>1, <1>3, <1>4, <1>5, <1>6
    <2>2. CASE i \in DOMAIN S
      <3>1. /\ M[S[i].key] = ForwardOf(S[i].key)
            /\ \A m \in DOMAIN S[i].results : S[i].results[m] \in D
            /\ c => \A n \in Nat : TypeOf(S[i].key, n) \notin D
            /\ \A l \in DOMAIN S : S[l].kind = "type" /\ S[l].key = S[i].key => l = i
        BY <1>3, <1>7, <2>2 DEF FramesOK
      <3>2. S[i].key # k /\ S[i].key \in Key /\ U[i] = S[i]
        BY <1>3, <1>5, <1>7, <2>2
      <3>3. \A l \in DOMAIN U : U[l].kind = "type" /\ U[l].key = U[i].key => l = i
        BY <1>3, <1>4, <3>1, <3>2
      <3> QED
        BY <1>6, <3>1, <3>2, <3>3
    <2> QED
      BY <1>3, <2>1, <2>2
  <1>8. FramesOK(U, N, E, c)
    BY <1>7 DEF FramesOK
  <1> QED
    BY <1>1, <1>8

LEMMA AnswersOn ==
  ASSUME NEW A, NEW M, NEW D, AnswersOK(A, M, D), NEW N, NEW j, Remembers(M, N, j), NEW E, D \subseteq E,
         Undefined \notin D
  PROVE  AnswersOK(A, N, E)
  <1> SUFFICES ASSUME NEW p \in A
               PROVE  p[1] \in Key /\ \/ p[2] = Raised /\ N[p[1]] = Raised
                                      \/ p[2] \in E /\ p[2] \in {ForwardOf(p[1]), N[p[1]]}
    BY DEF AnswersOK
  <1>1. p[1] \in Key /\ \/ p[2] = Raised /\ M[p[1]] = Raised
                        \/ p[2] \in D /\ p[2] \in {ForwardOf(p[1]), M[p[1]]}
    BY DEF AnswersOK
  <1>2. N[p[1]] = M[p[1]] \/ M[p[1]] \in {Undefined, ForwardOf(p[1])}
    BY <1>1 DEF Remembers
  <1> QED
    BY <1>1, <1>2, Names

LEMMA AnswersMore ==
  ASSUME NEW A, NEW M, NEW D, AnswersOK(A, M, D), NEW k \in Key, NEW a, NEW how,
         (a = Raised /\ M[k] = Raised) \/ (a \in D /\ a \in {ForwardOf(k), M[k]})
  PROVE  AnswersOK(A \cup {<<k, a, how>>}, M, D)
  BY DEF AnswersOK

LEMMA MadeByOn ==
  ASSUME NEW B, NEW G, NEW M, MadeByOK(B, G, M), NEW W, NEW N, NEW j \in Key, Onward(G, W, j), Remembers(M, N, j),
         MemoOK(G, M, j), GraphOK(G)
  PROVE  MadeByOK(B, W, N)
  <1> SUFFICES ASSUME NEW x \in DOMAIN B
               PROVE  x \in DOMAIN W /\ B[x] \in Key /\ (IsForward(W, x) \/ N[B[x]] = x)
    BY DEF MadeByOK
  <1>1. x \in DOMAIN G /\ B[x] \in Key /\ (IsForward(G, x) \/ M[B[x]] = x)
    BY DEF MadeByOK
  <1>2. x \in DOMAIN W /\ (IsForward(W, x) <=> IsForward(G, x))
    BY <1>1 DEF Onward
  <1>3. N[B[x]] = M[B[x]] \/ (B[x] = j /\ M[j] \in {Undefined, ForwardOf(j)})
    BY <1>1 DEF Remembers
  <1>4. M[j] = ForwardOf(j) => IsForward(G, ForwardOf(j))
    BY Names DEF MemoOK
  <1>5. x # Undefined
    BY <1>1 DEF GraphOK
  <1> QED
    BY <1>1, <1>2, <1>3, <1>4, <1>5

LEMMA MadeByMore ==
  ASSUME NEW B, NEW G, NEW M, MadeByOK(B, G, M), NEW x \in DOMAIN G, NEW k \in Key, IsForward(G, x) \/ M[k] = x
  PROVE  MadeByOK(Extend(B, x, k), G, M)
  BY DEF MadeByOK, Extend

LEMMA MadeByLess ==
  ASSUME NEW B, NEW G, NEW M, MadeByOK(B, G, M), NEW x
  PROVE  MadeByOK(Without(B, x), G, M)
  BY DEF MadeByOK, Without

\* Who is done for stays so.
LEMMA LeftOn ==
  ASSUME NEW M, NEW N, NEW H, NEW J, NEW n \in Nat, NEW q \in Nat, n <= q, NEW k, Left(M, H, n, k), N[k] = M[k],
         Busy(J, k) => Busy(H, k)
  PROVE  Left(N, J, q, k)
  BY DEF Left

LEMMA SettledOn ==
  ASSUME NEW G, NEW M, NEW H, NEW n \in Nat, NEW A, Settled(G, M, H, n, A),
         NEW W, NEW N, NEW J, NEW q \in Nat, n <= q, NEW C, NEW j, j \in Key \/ (W = G /\ N = M), Onward(G, W, j),
         Remembers(M, N, j),
         ForwardOf(j) \in DOMAIN G => N = M \/ (UndefinedForward(G, ForwardOf(j)) /\ ~Left(M, H, n, j)),
         ForwardOf(j) \in DOMAIN G => W = G \/ (UndefinedForward(G, ForwardOf(j)) /\ ~Left(M, H, n, j)),
         \A k \in Key : Busy(J, k) /\ ForwardOf(k) \in DOMAIN G => Busy(H, k),
         \A p \in C : p \in A \/ p[3] # "locked" \/ p[2] = Raised
  PROVE  Settled(W, N, J, q, C)
  <1>1. PICK S \in SUBSET DOMAIN G :
          /\ \A x \in S : Refers(G, x) \subseteq S
          /\ \A k \in Key : ForwardOf(k) \in S /\ UndefinedForward(G, ForwardOf(k)) => Left(M, H, n, k)
          /\ \A p \in A : p[3] = "locked" /\ p[2] # Raised => p[2] \in S
    BY DEF Settled
  <1>2. ForwardOf(j) \notin S \/ (N = M /\ W = G)
    <2>1. ASSUME j \in Key, ForwardOf(j) \in S, UndefinedForward(G, ForwardOf(j)), ~Left(M, H, n, j) PROVE FALSE
      BY <1>1, <2>1
    <2> QED
      BY <1>1, <2>1
  <1>3. S \in SUBSET DOMAIN W
    BY DEF Onward
  <1>4. ASSUME NEW x \in S
        PROVE  Refers(W, x) = Refers(G, x) /\ (UndefinedForward(W, x) <=> UndefinedForward(G, x))
    <2>1. CASE W = G
      BY <2>1
    <2>2. CASE ForwardOf(j) \notin S
      <3>1. ForwardOf(j) \notin Refers(G, x) /\ x \in DOMAIN G \ {ForwardOf(j)}
        BY <1>1, <2>2
      <3> QED
        BY <3>1 DEF Onward
    <2> QED
      BY <1>2, <2>1, <2>2
  <1>5. ASSUME NEW k \in Key, ForwardOf(k) \in S, UndefinedForward(W, ForwardOf(k)) PROVE Left(N, J, q, k)
    <2>1. Left(M, H, n, k)
      BY <1>1, <1>4, <1>5
    <2>2. N[k] = M[k]
      BY <1>2, <1>5 DEF Remembers
    <2>3. Busy(J, k) => Busy(H, k)
      BY <1>5
    <2> QED
      BY <2>1, <2>2, <2>3, LeftOn
  <1>6. \A p \in C : p[3] = "locked" /\ p[2] # Raised => p[2] \in S
    BY <1>1
  <1> QED
    BY <1>1, <1>3, <1>4, <1>5, <1>6 DEF Settled

\* When nobody has the lock everything is settled.
LEMMA FreeIsSettled ==
  ASSUME NEW G, GraphOK(G), NEW M, \A k \in Key : MemoOK(G, M, k), NEW H, \A t \in Thread : H[t] = <<>>, NEW n,
         OpenOK(M, H, n), NEW A, AnswersOK(A, M, DOMAIN G)
  PROVE  Settled(G, M, H, n, A)
  <1>1. PICK S : S = DOMAIN G
    OBVIOUS
  <1>2. S \in SUBSET DOMAIN G
    BY <1>1
  <1>3. \A x \in S : Refers(G, x) \subseteq S
    BY <1>1, StepsOK
  <1>4. \A k : ~Busy(H, k)
    BY DEF Busy
  <1>5. ASSUME NEW k \in Key, ForwardOf(k) \in S, UndefinedForward(G, ForwardOf(k)) PROVE Left(M, H, n, k)
    <2>1. M[k] \in {Raised, ForwardOf(k)}
      BY <1>1, <1>5 DEF MemoOK
    <2> QED
      BY <1>4, <2>1 DEF Left, OpenOK
  <1>6. \A p \in A : p[3] = "locked" /\ p[2] # Raised => p[2] \in S
    BY <1>1 DEF AnswersOK
  <1> QED
    BY <1>2, <1>3, <1>5, <1>6 DEF Settled

-----------------------------------------------------------------------------
(* What the steps do to the graph.                                         *)

LEMMA KeptOnward ==
  ASSUME NEW G, NEW W, NEW j, DOMAIN G \subseteq DOMAIN W,
         \A x \in DOMAIN W \ DOMAIN G : x = ForwardOf(j) \/ \E n \in Nat : x = TypeOf(j, n),
         \A x \in DOMAIN G : Kept(G, W, x) /\ Chased(W, x) = Chased(G, x)
  PROVE  Onward(G, W, j)
  <1>1. \A x \in DOMAIN G : /\ IsForward(W, x) <=> IsForward(G, x)
                            /\ UndefinedForward(W, x) <=> UndefinedForward(G, x)
                            /\ Refers(W, x) = Refers(G, x)
    BY KeptSteps
  <1> QED
    BY <1>1 DEF Onward

LEMMA BegunGraph ==
  ASSUME NEW G, GraphOK(G), Chasable(G), NEW L, WellBooked(G, L), NEW k, ForwardOf(k) \notin DOMAIN G,
         NEW W, W = Extend(G, ForwardOf(k), NewForward)
  PROVE  /\ GraphOK(W) /\ Chasable(W) /\ WellBooked(W, L) /\ Onward(G, W, k)
         /\ DOMAIN W = DOMAIN G \cup {ForwardOf(k)} /\ UndefinedForward(W, ForwardOf(k))
  <1>1. PICK f : f = ForwardOf(k)
    OBVIOUS
  <1>2. W = [y \in DOMAIN G \cup {f} |-> IF y = f THEN NewForward ELSE G[y]] /\ f \notin DOMAIN G /\ f # Undefined
    BY <1>1, Names DEF Extend
  <1>3. /\ GraphOK(W) /\ Chasable(W) /\ WellBooked(W, L)
        /\ \A x \in DOMAIN G : W[x] = G[x] /\ Chased(W, x) = Chased(G, x)
    BY <1>2, ForwardAdded
  <1>4. DOMAIN W = DOMAIN G \cup {f} /\ W[f] = NewForward
    BY <1>2
  <1>5. \A x \in DOMAIN G : Kept(G, W, x)
    BY <1>3 DEF Kept, IsForward
  <1>6. \A x \in DOMAIN W \ DOMAIN G : x = ForwardOf(k)
    BY <1>1, <1>4
  <1>7. Onward(G, W, k)
    BY <1>3, <1>4, <1>5, <1>6, KeptOnward
  <1>8. UndefinedForward(W, f)
    BY <1>4 DEF UndefinedForward, IsForward, NewForward
  <1> QED
    BY <1>1, <1>3, <1>4, <1>7, <1>8

\* A function has run and made its type, if it makes one.
LEMMA RanGraph ==
  ASSUME LockInv, TypesInv, NEW t \in Thread, Ran(t)
  PROVE  /\ GraphOK(Graph(t)) /\ Chasable(Graph(t)) /\ WellBooked(Graph(t), lost)
         /\ Onward(types, Graph(t), Top(t).key)
         /\ \A x \in DOMAIN types : Kept(types, Graph(t), x) /\ Chased(Graph(t), x) = Chased(types, x)
  <1> DEFINE k == Top(t).key
             got == {Top(t).results[i] : i \in DOMAIN Top(t).results}
             kind == body[k].makes
             id == Made(k)
             W == Graph(t)
  <1>1. In(t, "type") /\ raising[t] = Calm
    BY DEF Ran, Running
  <1>2. k \in Key /\ Top(t) = held[t][Len(held[t])] /\ Len(held[t]) \in DOMAIN held[t] /\ Top(t).kind = "type"
    BY <1>1, InsideType, BelowTypes
  <1>3. GraphOK(types) /\ Chasable(types) /\ WellBooked(types, lost)
        /\ FramesOK(held[t], memo, DOMAIN types, raising[t] = Calm)
    BY DEF TypesInv
  <1>4. (\A m \in DOMAIN Top(t).results : Top(t).results[m] \in DOMAIN types)
          /\ \A n \in Nat : TypeOf(k, n) \notin DOMAIN types
    BY <1>1, <1>2, <1>3 DEF FramesOK
  <1>5. got \in SUBSET DOMAIN types
    BY <1>4
  <1>6. runs[k] \in Nat /\ id = TypeOf(k, runs[k])
    BY <1>2 DEF LockInv, TypesRight, Made
  <1>7. id \notin DOMAIN types /\ id # Undefined
    BY <1>4, <1>6, Names
  <1>8. CASE kind \in {"tuple", "class"} /\ CanMake(types, got)
    <2>1. PICK G : G = Make(types, id, kind, got)
      OBVIOUS
    <2>2. W = G
      BY <1>8, <2>1 DEF Graph
    <2>3. PICK subs : subs = Subtypes(types, got)
      OBVIOUS
    <2>4. PICK refs : refs = Referenced(types, subs)
      OBVIOUS
    <2> HIDE DEF k, got, kind, id, W
    <2>5. Makes(types, G, id, kind, subs, refs)
      BY <1>3, <1>5, <1>7, <1>8, <2>1, <2>3, <2>4, MakeMakes
    <2>6. /\ GraphOK(G) /\ Chasable(G) /\ WellBooked(G, lost)
          /\ \A x \in DOMAIN types : Kept(types, G, x) /\ Chased(G, x) = Chased(types, x)
      BY <1>3, <1>7, <1>8, <2>5, TypeAdded
    <2>7. DOMAIN G = DOMAIN types \cup {id}
      BY <2>5 DEF Makes
    <2>8. \A x \in DOMAIN G \ DOMAIN types : x = ForwardOf(k) \/ \E n \in Nat : x = TypeOf(k, n)
      BY <1>6, <2>7
    <2>9. Onward(types, G, k)
      BY <2>6, <2>7, <2>8, KeptOnward
    <2> QED
      BY <2>2, <2>6, <2>9 DEF W, k
  <1>9. CASE ~(kind \in {"tuple", "class"} /\ CanMake(types, got))
    <2>1. W = types
      BY <1>9 DEF Graph
    <2>2. \A x \in DOMAIN types : Kept(types, types, x)
      BY DEF Kept
    <2> QED
      BY <1>3, <2>1, <2>2, OnwardItself
  <1> QED
    BY <1>8, <1>9

LEMMA OnwardTwice ==
  ASSUME NEW G, NEW W, NEW X, NEW j, Onward(G, W, j), Onward(W, X, j), ForwardOf(j) \in DOMAIN G
  PROVE  Onward(G, X, j)
  <1>1. DOMAIN G \subseteq DOMAIN W /\ DOMAIN W \subseteq DOMAIN X
    BY DEF Onward
  <1>2. \A x \in DOMAIN X \ DOMAIN G : x = ForwardOf(j) \/ \E n \in Nat : x = TypeOf(j, n)
    BY <1>1 DEF Onward
  <1>3. \A x \in DOMAIN G : IsForward(X, x) <=> IsForward(G, x)
    BY <1>1 DEF Onward
  <1>4. \A x \in DOMAIN G \ {ForwardOf(j)} : UndefinedForward(X, x) <=> UndefinedForward(G, x)
    BY <1>1 DEF Onward
  <1>5. \A x \in DOMAIN G \ {ForwardOf(j)} : ForwardOf(j) \notin Refers(G, x) => Refers(X, x) = Refers(G, x)
    BY <1>1 DEF Onward
  <1>6. \A x, y \in DOMAIN G : Chased(G, x) = Chased(G, y) => Chased(X, x) = Chased(X, y)
    BY <1>1 DEF Onward
  <1> QED
    BY <1>1, <1>2, <1>3, <1>4, <1>5, <1>6 DEF Onward

\* A forward is defined: what stands for it and what does for its target agree.
LEMMA DefinedGraph ==
  ASSUME NEW G, GraphOK(G), Chasable(G), NEW L, WellBooked(G, L), NEW k, ForwardOf(k) \in DOMAIN G,
         UndefinedForward(G, ForwardOf(k)), NEW r \in DOMAIN G, CanDefine(G, ForwardOf(k), r),
         NEW W, W = Define(G, ForwardOf(k), r)
  PROVE  /\ GraphOK(W) /\ Chasable(W) /\ WellBooked(W, NowLost(G, L, ForwardOf(k), Chased(G, r)))
         /\ Onward(G, W, k) /\ DOMAIN W = DOMAIN G /\ r # ForwardOf(k)
         /\ IsForward(W, ForwardOf(k)) /\ ~UndefinedForward(W, ForwardOf(k)) /\ Chased(W, ForwardOf(k)) = Chased(W, r)
  <1>1. PICK f : f = ForwardOf(k)
    OBVIOUS
  <1>2. PICK z : z = Chased(G, r)
    OBVIOUS
  <1>3. f \in DOMAIN G /\ UndefinedForward(G, f) /\ CanDefine(G, f, r) /\ W = Define(G, f, r)
    BY <1>1
  <1>4. Defines(G, W, f, z)
    BY <1>2, <1>3, DefineDefines
  <1>5. /\ GraphOK(W) /\ Chasable(W) /\ WellBooked(W, NowLost(G, L, f, z)) /\ DOMAIN W = DOMAIN G
        /\ \A x \in DOMAIN G : IsForward(W, x) <=> IsForward(G, x)
        /\ \A x \in DOMAIN G : Chased(W, x) = IF Chased(G, x) = f THEN z ELSE Chased(G, x)
    BY <1>4, ForwardDefined
  <1>6. UsersRefer(G)
    BY DEF WellBooked
  <1>7. /\ \A x \in DOMAIN G \ {f} : UndefinedForward(W, x) <=> UndefinedForward(G, x)
        /\ \A x \in DOMAIN G \ {f} : x \notin G[f].users => Refers(W, x) = Refers(G, x)
        /\ \A x \in G[f].users : x \in DOMAIN G /\ ~IsForward(G, x)
    BY <1>4, <1>6, DefineSteps
  <1>8. ASSUME NEW x \in DOMAIN G \ {f}, f \notin Refers(G, x) PROVE Refers(W, x) = Refers(G, x)
    <2>1. CASE x \in G[f].users
      <3>1. ~IsForward(G, x) /\ Rewritten(G, W, x, f, z) /\ ~IsForward(W, x)
        BY <1>4, <1>7, <2>1 DEF Defines
      <3>2. W[x].subs = {IF y = f THEN z ELSE y : y \in G[x].subs} /\ f \notin G[x].subs
        BY <1>8, <3>1 DEF Rewritten, Refers
      <3>3. W[x].subs = G[x].subs
        BY <3>2
      <3> QED
        BY <3>1, <3>3 DEF Refers
    <2> QED
      BY <1>7, <2>1
  <1>9. \A x, y \in DOMAIN G : Chased(G, x) = Chased(G, y) => Chased(W, x) = Chased(W, y)
    BY <1>5
  <1>10. Onward(G, W, k)
    BY <1>1, <1>5, <1>7, <1>8, <1>9 DEF Onward
  <1>11. Final(G, f) /\ Chased(G, f) = f
    <2>1. Final(G, f)
      BY <1>3 DEF Final, UndefinedForward
    <2> QED
      BY <1>3, <2>1, ChasedProps
  <1>12. z # f
    BY <1>2, <1>3 DEF CanDefine
  <1>13. r # f
    BY <1>2, <1>11, <1>12
  <1>14. Chased(W, f) = z /\ Chased(W, r) = z
    BY <1>2, <1>3, <1>5, <1>11, <1>12
  <1>15. IsForward(W, f) /\ ~UndefinedForward(W, f)
    <2>1. IsForward(W, f) /\ W[f].target = z /\ z \in DOMAIN G
      BY <1>4 DEF Defines
    <2> QED
      BY <2>1 DEF UndefinedForward, GraphOK
  <1> QED
    BY <1>1, <1>2, <1>5, <1>10, <1>13, <1>14, <1>15

-----------------------------------------------------------------------------
(* The steps, for what is known of the keys.                               *)

LEMMA StillBusy ==
  ASSUME NEW H, NEW J, NEW t \in Thread, \A u \in Thread \ {t} : J[u] = H[u], NEW Q, KeptTypes(H[t], J[t], Q)
  PROVE  \A k : k \notin Q /\ Busy(H, k) => Busy(J, k)
  <1> SUFFICES ASSUME NEW k, k \notin Q, NEW u \in Thread, NEW i \in DOMAIN H[u], H[u][i].kind = "type",
                      H[u][i].key = k
               PROVE  \E v \in Thread : \E l \in DOMAIN J[v] : J[v][l].kind = "type" /\ J[v][l].key = k
    BY DEF Busy
  <1>1. i \in DOMAIN J[u] /\ J[u][i].kind = "type" /\ J[u][i].key = k
    BY DEF KeptTypes
  <1> QED
    BY <1>1

LEMMA WasBusy ==
  ASSUME NEW H, NEW J, NEW t \in Thread, \A u \in Thread \ {t} : J[u] = H[u], NEW D, OldTypes(H[t], J[t], D)
  PROVE  \A k : Busy(J, k) => Busy(H, k)
  <1> SUFFICES ASSUME NEW k, NEW u \in Thread, NEW i \in DOMAIN J[u], J[u][i].kind = "type", J[u][i].key = k
               PROVE  \E v \in Thread : \E l \in DOMAIN H[v] : H[v][l].kind = "type" /\ H[v][l].key = k
    BY DEF Busy
  <1>1. i \in DOMAIN H[u] /\ H[u][i].kind = "type" /\ H[u][i].key = k
    BY DEF OldTypes
  <1> QED
    BY <1>1

\* A thread moves, about a key.
Moves(t) ==
  /\ \A u \in Thread \ {t} : held'[u] = held[u] /\ raising'[u] = raising[u]
  /\ interrupts' \in Nat /\ interrupts <= interrupts' /\ (raising'[t] = Interrupt => interrupts' > 0)
LEMMA StepKeeps ==
  ASSUME TypesInv, NEW t \in Thread, NEW j \in Key, Moves(t),
         GraphOK(types'), Chasable(types'), WellBooked(types', lost'), Onward(types, types', j),
         Remembers(memo, memo', j), MemoOK(types', memo', j),
         FramesOK(held'[t], memo', DOMAIN types', raising'[t] = Calm),
         UNCHANGED <<types, memo>> \/ \A u \in Thread \ {t} : held[u] = <<>>,
         AnswersOK(answers', memo', DOMAIN types'), MadeByOK(madeBy', types', memo'),
         OpenOK(memo', held', interrupts'), Settled(types', memo', held', interrupts', answers')
  PROVE  TypesInv'
  <1>1. ASSUME NEW k \in Key PROVE MemoOK(types', memo', k)
    <2>1. CASE k = j
      BY <2>1
    <2>2. CASE k # j
      <3>1. MemoOK(types, memo, k) /\ memo'[k] = memo[k]
        BY <2>2 DEF TypesInv, Remembers
      <3> QED
        BY <2>2, <3>1, MemoOn
    <2> QED
      BY <2>1, <2>2
  <1>2. ASSUME NEW u \in Thread PROVE FramesOK(held'[u], memo', DOMAIN types', raising'[u] = Calm)
    <2>1. CASE u = t
      BY <2>1
    <2>2. CASE u # t
      <3>1. held'[u] = held[u] /\ raising'[u] = raising[u] /\ FramesOK(held[u], memo, DOMAIN types, raising[u] = Calm)
        BY <2>2 DEF Moves, TypesInv
      <3>2. CASE UNCHANGED <<types, memo>>
        BY <3>1, <3>2
      <3>3. CASE held[u] = <<>>
        BY <3>1, <3>3 DEF FramesOK
      <3> QED
        BY <2>2, <3>2, <3>3
    <2> QED
      BY <2>1, <2>2
  <1>3. ASSUME NEW u \in Thread, raising'[u] = Interrupt PROVE interrupts' > 0
    <2>1. CASE u = t
      BY <1>3, <2>1 DEF Moves
    <2>2. CASE u # t
      BY <1>3, <2>2 DEF Moves, TypesInv, OpenOK
    <2> QED
      BY <2>1, <2>2
  <1> QED
    BY <1>1, <1>2, <1>3 DEF TypesInv

\* The graph, the memo and the functions that run stay; at most there are answers
\* from the memo.
LEMMA StillKeeps ==
  ASSUME LockInv, TypesInv, NEW t \in Thread, Moves(t), UNCHANGED <<types, memo, madeBy, lost>>,
         OldTypes(held[t], held'[t], DOMAIN types), KeptTypes(held[t], held'[t], {}),
         raising'[t] = Calm => raising[t] = Calm \/ \A i \in DOMAIN held'[t] : held'[t][i].kind # "type",
         answers' = answers \/ \E k \in Key, how \in {"locked", "unlocked", "inside"} :
           /\ memo[k] # Undefined /\ answers' = answers \cup {<<k, memo[k], how>>}
           /\ how = "locked" => \A u \in Thread : held'[u] = <<>>
  PROVE  TypesInv'
  <1>1. /\ GraphOK(types) /\ Chasable(types) /\ WellBooked(types, lost)
        /\ \A k \in Key : MemoOK(types, memo, k)
        /\ FramesOK(held[t], memo, DOMAIN types, raising[t] = Calm)
        /\ AnswersOK(answers, memo, DOMAIN types) /\ MadeByOK(madeBy, types, memo)
        /\ OpenOK(memo, held, interrupts) /\ Settled(types, memo, held, interrupts, answers)
    BY DEF TypesInv
  <1>2. /\ types' = types /\ memo' = memo /\ madeBy' = madeBy /\ lost' = lost
        /\ interrupts \in Nat /\ interrupts' \in Nat /\ interrupts <= interrupts'
    BY <1>1 DEF OpenOK, Moves
  <1>3. FramesOK(held'[t], memo, DOMAIN types, raising'[t] = Calm)
    <2>1. PICK c \in BOOLEAN : c = (raising[t] = Calm)
      OBVIOUS
    <2>2. PICK d \in BOOLEAN : d = (raising'[t] = Calm)
      OBVIOUS
    <2>3. d => c \/ \A i \in DOMAIN held'[t] : held'[t][i].kind # "type"
      BY <2>1, <2>2
    <2>4. FramesOK(held[t], memo, DOMAIN types, c)
      BY <1>1, <2>1
    <2>5. FramesOK(held'[t], memo, DOMAIN types, d)
      BY <2>3, <2>4, FramesOn
    <2> QED
      BY <2>2, <2>5
  <1>4. \A k : Busy(held', k) <=> Busy(held, k)
    <2>1. \A u \in Thread \ {t} : held'[u] = held[u]
      BY DEF Moves
    <2>2. \A k : Busy(held', k) => Busy(held, k)
      BY <2>1, WasBusy
    <2>3. PICK Q : Q = {}
      OBVIOUS
    <2>4. KeptTypes(held[t], held'[t], Q)
      BY <2>3
    <2>5. \A k : k \notin Q /\ Busy(held, k) => Busy(held', k)
      BY <2>1, <2>4, StillBusy
    <2> QED
      BY <2>2, <2>3, <2>5
  <1>5. OpenOK(memo, held', interrupts')
    BY <1>1, <1>2, <1>4 DEF OpenOK
  <1>6. AnswersOK(answers', memo, DOMAIN types)
    <2>1. CASE answers' = answers
      BY <1>1, <2>1
    <2>2. CASE \E k \in Key, how \in {"locked", "unlocked", "inside"} :
                 memo[k] # Undefined /\ answers' = answers \cup {<<k, memo[k], how>>}
      <3>1. PICK k \in Key, how \in {"locked", "unlocked", "inside"} :
                 memo[k] # Undefined /\ answers' = answers \cup {<<k, memo[k], how>>}
        BY <2>2
      <3>2. memo[k] = Raised \/ memo[k] \in DOMAIN types
        BY <3>1 DEF LockInv, TypesRight
      <3> QED
        BY <1>1, <3>1, <3>2, AnswersMore
    <2> QED
      BY <2>1, <2>2
  <1>7. Settled(types, memo, held', interrupts', answers')
    <2>1. CASE \A u \in Thread : held'[u] = <<>>
      BY <1>1, <1>5, <1>6, <2>1, FreeIsSettled
    <2>2. CASE \A p \in answers' : p \in answers \/ p[3] # "locked" \/ p[2] = Raised
      <3>1. PICK k : k = NoKey
        OBVIOUS
      <3>2. Onward(types, types, k) /\ Remembers(memo, memo, k)
        BY OnwardItself DEF Remembers
      <3> QED
        BY <1>1, <1>2, <1>4, <2>2, <3>2, SettledOn
    <2>3. ASSUME ~\A u \in Thread : held'[u] = <<>> PROVE \A p \in answers' : p \in answers \/ p[3] # "locked"
      BY <2>3
    <2> QED
      BY <2>1, <2>2, <2>3
  <1>8. CASE Key = {}
    BY <1>1, <1>2, <1>3, <1>5, <1>6, <1>7, <1>8 DEF TypesInv, Moves, FramesOK
  <1>9. CASE Key # {}
    <2>1. PICK k : k \in Key
      BY <1>9
    <2>2. Onward(types, types', k) /\ Remembers(memo, memo', k)
      BY <1>2, OnwardItself DEF Remembers
    <2>3. GraphOK(types') /\ Chasable(types') /\ WellBooked(types', lost') /\ MemoOK(types', memo', k)
      BY <1>1, <1>2, <2>1
    <2>4. FramesOK(held'[t], memo', DOMAIN types', raising'[t] = Calm)
      BY <1>2, <1>3
    <2>5. /\ AnswersOK(answers', memo', DOMAIN types') /\ MadeByOK(madeBy', types', memo')
          /\ OpenOK(memo', held', interrupts') /\ Settled(types', memo', held', interrupts', answers')
      BY <1>1, <1>2, <1>5, <1>6, <1>7
    <2> QED
      BY <2>1, <2>2, <2>3, <2>4, <2>5, StepKeeps
  <1> QED
    BY <1>8, <1>9

\* The function that runs innermost, and its key.
LEMMA TopRight ==
  ASSUME LockInv, TypesInv, NEW t \in Thread, In(t, "type"), NEW k, k = Top(t).key
  PROVE  /\ k \in Key /\ memo[k] = ForwardOf(k) /\ ForwardOf(k) \in DOMAIN types
         /\ UndefinedForward(types, ForwardOf(k)) /\ IsForward(types, ForwardOf(k))
         /\ Busy(held, k) /\ ~Left(memo, held, interrupts, k)
         /\ \A u \in Thread \ {t} : held[u] = <<>>
         /\ \A S, D : OldTypes(Below(t), S, D) =>
              \A i \in DOMAIN S : S[i].kind = "type" => S[i].key \in Key /\ S[i].key # k
  <1>1. k \in Key
    BY InsideType
  <1>2. /\ held[t] \in Seq(Frame) /\ Len(held[t]) \in DOMAIN held[t] /\ DOMAIN Below(t) = 1 .. Len(held[t]) - 1
        /\ \A i \in DOMAIN Below(t) : Below(t)[i] = held[t][i]
        /\ Len(held[t]) \in Nat /\ DOMAIN held[t] = 1 .. Len(held[t])
        /\ Top(t) = held[t][Len(held[t])] /\ Top(t).kind = "type"
    BY BelowTypes
  <1>3. FramesOK(held[t], memo, DOMAIN types, raising[t] = Calm) /\ MemoOK(types, memo, k)
    BY <1>1 DEF TypesInv
  <1>4. /\ memo[k] = ForwardOf(k)
        /\ \A l \in DOMAIN held[t] : held[t][l].kind = "type" /\ held[t][l].key = k => l = Len(held[t])
    BY <1>2, <1>3 DEF FramesOK
  <1>5. /\ ForwardOf(k) \in DOMAIN types
        /\ UndefinedForward(types, ForwardOf(k)) /\ IsForward(types, ForwardOf(k))
    BY <1>3, <1>4, Names DEF MemoOK
  <1>6. Busy(held, k)
    BY <1>2 DEF Busy
  <1>7. ~Left(memo, held, interrupts, k)
    BY <1>4, <1>6, Names DEF Left
  <1>8. \A u \in Thread \ {t} : held[u] = <<>>
    BY HolderAlone DEF Mine, In
  <1>9. ASSUME NEW S, NEW D, OldTypes(Below(t), S, D), NEW i \in DOMAIN S, S[i].kind = "type"
        PROVE  S[i].key \in Key /\ S[i].key # k
    <2>1. i \in DOMAIN Below(t) /\ Below(t)[i].kind = "type" /\ S[i].key = Below(t)[i].key
      BY <1>9 DEF OldTypes
    <2>2. i \in DOMAIN held[t] /\ i # Len(held[t]) /\ held[t][i].kind = "type" /\ S[i].key = held[t][i].key
      BY <1>2, <2>1
    <2>3. held[t][i] \in Frame
      BY <1>2, <2>2
    <2>4. held[t][i].key \in Key
      BY <2>2, <2>3 DEF Frame, TypeFrames, CompileFrames
    <2> QED
      BY <1>4, <2>2, <2>4
  <1> QED
    BY <1>1, <1>4, <1>5, <1>6, <1>7, <1>8, <1>9

LEMMA PushedTypes ==
  ASSUME NEW H, NEW J, NEW t \in Thread, H[t] \in Seq(Frame), NEW k, J[t] = Append(H[t], TypeFrame(k)),
         \A u \in Thread \ {t} : J[u] = H[u]
  PROVE  \A i : Busy(J, i) <=> Busy(H, i) \/ i = k
  <1>1. PICK R : R = H[t]
    OBVIOUS
  <1>2. PICK S : S = J[t]
    OBVIOUS
  <1>3. PICK z : z = Len(R) + 1
    OBVIOUS
  <1>4. /\ DOMAIN S = DOMAIN R \cup {z} /\ S[z] = TypeFrame(k) /\ \A i \in DOMAIN R : S[i] = R[i]
    BY <1>1, <1>2, <1>3
  <1>5. S[z].kind = "type" /\ S[z].key = k
    BY <1>4 DEF TypeFrame
  <1>6. Busy(J, k)
    BY <1>2, <1>4, <1>5 DEF Busy
  <1>7. KeptTypes(H[t], J[t], {})
    BY <1>1, <1>2, <1>4 DEF KeptTypes
  <1>8. PICK Q : Q = {}
    OBVIOUS
  <1>9. \A i : i \notin Q /\ Busy(H, i) => Busy(J, i)
    BY <1>7, <1>8, StillBusy
  <1>10. ASSUME NEW i, Busy(J, i), i # k PROVE Busy(H, i)
    <2>1. PICK u \in Thread : \E l \in DOMAIN J[u] : J[u][l].kind = "type" /\ J[u][l].key = i
      BY <1>10 DEF Busy
    <2>2. PICK l \in DOMAIN J[u] : J[u][l].kind = "type" /\ J[u][l].key = i
      BY <2>1
    <2>3. l \in DOMAIN H[u] /\ J[u][l] = H[u][l]
      BY <1>1, <1>2, <1>4, <1>5, <1>10, <2>2
    <2> QED
      BY <2>2, <2>3 DEF Busy
  <1> QED
    BY <1>6, <1>8, <1>9, <1>10

LEMMA BeginTypes ==
  ASSUME LockInv, TypesInv, NEW t \in Thread, Mine(t), NEW k \in Key, memo[k] = Undefined, Begin(t, k, held[t]),
         UNCHANGED <<lost, raising, answers, interrupts>>
  PROVE  TypesInv'
  <1>1. /\ GraphOK(types) /\ Chasable(types) /\ WellBooked(types, lost)
        /\ MemoOK(types, memo, k) /\ FramesOK(held[t], memo, DOMAIN types, raising[t] = Calm)
        /\ AnswersOK(answers, memo, DOMAIN types) /\ MadeByOK(madeBy, types, memo)
        /\ OpenOK(memo, held, interrupts) /\ Settled(types, memo, held, interrupts, answers)
        /\ \A u \in Thread : raising[u] = Interrupt => interrupts > 0
    BY DEF TypesInv
  <1>2. PICK f : f = ForwardOf(k)
    OBVIOUS
  <1>3. /\ memo' = [memo EXCEPT ![k] = f] /\ types' = Extend(types, f, NewForward)
        /\ madeBy' = Extend(madeBy, f, k) /\ held' = [held EXCEPT ![t] = Append(held[t], TypeFrame(k))]
        /\ lost' = lost /\ raising' = raising /\ answers' = answers /\ interrupts' = interrupts
    BY <1>2 DEF Begin
  <1>4. memo \in [Key -> DOMAIN types \cup {Undefined, Raised}] /\ held \in [Thread -> Seq(Frame)]
    BY DEF LockInv, TypesRight, StacksRight
  <1>5. memo'[k] = f /\ (\A j \in Key \ {k} : memo'[j] = memo[j])
        /\ held'[t] = Append(held[t], TypeFrame(k)) /\ \A u \in Thread \ {t} : held'[u] = held[u]
    BY <1>3, <1>4
  <1>6. f \notin DOMAIN types /\ \A n \in Nat : TypeOf(k, n) \notin DOMAIN types
    BY <1>1, <1>2 DEF MemoOK
  <1>7. /\ GraphOK(types') /\ Chasable(types') /\ WellBooked(types', lost') /\ Onward(types, types', k)
        /\ DOMAIN types' = DOMAIN types \cup {f} /\ UndefinedForward(types', f)
    <2>1. PICK W : W = types'
      OBVIOUS
    <2>2. W = Extend(types, ForwardOf(k), NewForward) /\ ForwardOf(k) \notin DOMAIN types
      BY <1>2, <1>3, <1>6, <2>1
    <2>3. /\ GraphOK(W) /\ Chasable(W) /\ WellBooked(W, lost) /\ Onward(types, W, k)
          /\ DOMAIN W = DOMAIN types \cup {ForwardOf(k)} /\ UndefinedForward(W, ForwardOf(k))
      BY <1>1, <2>2, BegunGraph
    <2> QED
      BY <1>2, <1>3, <2>1, <2>3
  <1>8. Remembers(memo, memo', k)
    BY <1>5 DEF Remembers
  <1>9. MemoOK(types', memo', k)
    BY <1>2, <1>5, <1>7, Names DEF MemoOK, UndefinedForward
  <1>10. FramesOK(held'[t], memo', DOMAIN types', raising'[t] = Calm)
    <2>1. PICK c \in BOOLEAN : c = (raising[t] = Calm)
      OBVIOUS
    <2>2. FramesOK(held[t], memo, DOMAIN types, c) /\ held[t] \in Seq(Frame)
            /\ DOMAIN types' = DOMAIN types \cup {ForwardOf(k)}
      BY <1>1, <1>2, <1>4, <1>7, <2>1
    <2>3. memo'[k] = ForwardOf(k)
      BY <1>2, <1>5
    <2>4. FramesOK(Append(held[t], TypeFrame(k)), memo', DOMAIN types', c)
      BY <1>5, <1>6, <2>2, <2>3, FramesBegin
    <2> QED
      BY <1>3, <1>5, <2>1, <2>4
  <1>11. AnswersOK(answers', memo', DOMAIN types')
    <2>1. Undefined \notin DOMAIN types /\ DOMAIN types \subseteq DOMAIN types'
      BY <1>1, <1>7 DEF GraphOK
    <2>2. AnswersOK(answers, memo', DOMAIN types')
      BY <1>1, <1>8, <2>1, AnswersOn
    <2> QED
      BY <1>3, <2>2
  <1>12. MadeByOK(madeBy', types', memo')
    <2>1. MadeByOK(madeBy, types', memo')
      BY <1>1, <1>7, <1>8, MadeByOn
    <2>2. f \in DOMAIN types' /\ IsForward(types', f)
      BY <1>7 DEF UndefinedForward
    <2> QED
      BY <1>3, <2>1, <2>2, MadeByMore
  <1>13. \A i : Busy(held', i) <=> Busy(held, i) \/ i = k
    <2>1. held[t] \in Seq(Frame)
      BY <1>4
    <2> QED
      BY <1>5, <2>1, PushedTypes
  <1>14. OpenOK(memo', held', interrupts')
    BY <1>1, <1>3, <1>5, <1>13 DEF OpenOK
  <1>15. Settled(types', memo', held', interrupts', answers')
    <2>1. interrupts \in Nat /\ interrupts' \in Nat /\ interrupts <= interrupts'
      BY <1>1, <1>3 DEF OpenOK
    <2>2. \A i \in Key : Busy(held', i) /\ ForwardOf(i) \in DOMAIN types => Busy(held, i)
      BY <1>2, <1>6, <1>13
    <2>3. \A p \in answers' : p \in answers
      BY <1>3
    <2>4. ForwardOf(k) \notin DOMAIN types
      BY <1>2, <1>6
    <2> QED
      BY <1>1, <1>7, <1>8, <2>1, <2>2, <2>3, <2>4, SettledOn
  <1>16. Moves(t)
    BY <1>1, <1>3, <1>5 DEF Moves, OpenOK
  <1>17. \A u \in Thread \ {t} : held[u] = <<>>
    BY DEF Mine
  <1> QED
    BY <1>7, <1>8, <1>9, <1>10, <1>11, <1>12, <1>14, <1>15, <1>16, <1>17, StepKeeps

LEMMA ReturnTypes ==
  ASSUME LockInv, TypesInv, NEW t \in Thread, Return(t)
  PROVE  TypesInv'
  <1>1. /\ GraphOK(types) /\ Chasable(types) /\ WellBooked(types, lost)
        /\ FramesOK(held[t], memo, DOMAIN types, raising[t] = Calm)
        /\ AnswersOK(answers, memo, DOMAIN types) /\ MadeByOK(madeBy, types, memo)
        /\ OpenOK(memo, held, interrupts) /\ Settled(types, memo, held, interrupts, answers)
        /\ (\A u \in Thread : raising[u] = Interrupt => interrupts > 0)
        /\ \A i \in Key : MemoOK(types, memo, i)
    BY DEF TypesInv
  <1>2. PICK k : k = Top(t).key
    OBVIOUS
  <1>3. PICK f : f = ForwardOf(k)
    OBVIOUS
  <1>4. PICK r : r = Result(t)
    OBVIOUS
  <1>5. PICK G : G = Graph(t)
    OBVIOUS
  <1>6. PICK how : how = IF Len(held[t]) = 1 THEN "locked" ELSE "inside"
    OBVIOUS
  <1>7. /\ Ran(t) /\ In(t, "type") /\ r \in DOMAIN G /\ CanDefine(G, f, r) /\ types' = Define(G, f, r)
        /\ lost' = NowLost(G, lost, f, Chased(G, r))
        /\ memo' = [memo EXCEPT ![k] = r]
        /\ held' = [held EXCEPT ![t] = Told(Below(t), r)] /\ answers' = answers \cup {<<k, r, how>>}
        /\ raising' = raising /\ interrupts' = interrupts
    BY <1>2, <1>3, <1>4, <1>5, <1>6 DEF Return, Returns, Ran, Running, Answer, NowLost
  <1>8. madeBy' = IF r \in DOMAIN Without(madeBy, f) THEN Without(madeBy, f) ELSE Extend(Without(madeBy, f), r, k)
    BY <1>2, <1>3, <1>4 DEF Return
  <1>9. /\ k \in Key /\ memo[k] = f /\ f \in DOMAIN types /\ UndefinedForward(types, f) /\ IsForward(types, f)
        /\ Busy(held, k) /\ ~Left(memo, held, interrupts, k)
        /\ (\A u \in Thread \ {t} : held[u] = <<>>)
        /\ \A S, D : OldTypes(Below(t), S, D) =>
             \A i \in DOMAIN S : S[i].kind = "type" => S[i].key \in Key /\ S[i].key # k
    BY <1>2, <1>3, <1>7, TopRight
  <1>10. memo \in [Key -> DOMAIN types \cup {Undefined, Raised}] /\ held \in [Thread -> Seq(Frame)]
    BY DEF LockInv, TypesRight, StacksRight
  <1>11. memo'[k] = r /\ (\A j \in Key \ {k} : memo'[j] = memo[j])
         /\ held'[t] = Told(Below(t), r) /\ \A u \in Thread \ {t} : held'[u] = held[u]
    BY <1>7, <1>9, <1>10
  <1>12. /\ GraphOK(G) /\ Chasable(G) /\ WellBooked(G, lost) /\ Onward(types, G, k)
         /\ \A x \in DOMAIN types : Kept(types, G, x)
    BY <1>2, <1>5, <1>7, RanGraph
  <1>13. f \in DOMAIN G /\ UndefinedForward(G, f)
    <2>1. DOMAIN types \subseteq DOMAIN G
      BY <1>12 DEF Onward
    <2> QED
      BY <1>9, <1>12, <2>1, KeptSteps
  <1>14. /\ GraphOK(types') /\ Chasable(types') /\ WellBooked(types', lost')
         /\ Onward(G, types', k) /\ DOMAIN types' = DOMAIN G /\ r # f
         /\ IsForward(types', f) /\ ~UndefinedForward(types', f) /\ Chased(types', f) = Chased(types', r)
    <2>1. PICK W : W = Define(G, f, r)
      OBVIOUS
    <2>2. W = Define(G, ForwardOf(k), r) /\ ForwardOf(k) \in DOMAIN G /\ UndefinedForward(G, ForwardOf(k))
          /\ CanDefine(G, ForwardOf(k), r)
      BY <1>3, <1>7, <1>13, <2>1
    <2>3. /\ GraphOK(W) /\ Chasable(W) /\ WellBooked(W, NowLost(G, lost, ForwardOf(k), Chased(G, r)))
          /\ Onward(G, W, k) /\ DOMAIN W = DOMAIN G /\ r # ForwardOf(k)
          /\ IsForward(W, ForwardOf(k)) /\ ~UndefinedForward(W, ForwardOf(k))
               /\ Chased(W, ForwardOf(k)) = Chased(W, r)
      BY <1>7, <1>12, <2>2, DefinedGraph
    <2> QED
      BY <1>3, <1>7, <2>1, <2>3
  <1>15. Onward(types, types', k)
    BY <1>3, <1>9, <1>12, <1>14, OnwardTwice
  <1>16. Remembers(memo, memo', k)
    BY <1>3, <1>9, <1>11 DEF Remembers
  <1>17. r # Undefined /\ r # Raised /\ r \in Memo
    <2>1. DOMAIN G \subseteq TypeName
      BY <1>5, <1>7, GraphGrows
    <2> QED
      BY <1>7, <2>1, Names DEF Memo
  <1>18. MemoOK(types', memo', k)
    BY <1>3, <1>7, <1>11, <1>13, <1>14, <1>17 DEF MemoOK
  <1>19. /\ OldTypes(held[t], held'[t], DOMAIN types') /\ KeptTypes(held[t], held'[t], {k})
         /\ \A i \in DOMAIN held'[t] : held'[t][i].kind = "type" => held'[t][i].key \in Key /\ held'[t][i].key # k
    <2>1. PICK D : D = DOMAIN types'
      OBVIOUS
    <2>2. /\ OldTypes(held[t], Below(t), D) /\ KeptTypes(held[t], Below(t), {k}) /\ Below(t) \in Seq(Frame)
      BY <1>2, <1>7, BelowTypes
    <2>3. PICK S : S = Told(Below(t), r)
      OBVIOUS
    <2>4. OldTypes(Below(t), S, D) /\ KeptTypes(Below(t), S, {})
      <3>1. r \in D
        BY <1>7, <1>14, <2>1
      <3>2. OldTypes(Below(t), Told(Below(t), r), D) /\ KeptTypes(Below(t), Told(Below(t), r), {})
        BY <1>17, <2>2, <3>1, ToldTypes
      <3> QED
        BY <2>3, <3>2
    <2>5. OldTypes(held[t], S, D) /\ KeptTypes(held[t], S, {k})
      BY <2>2, <2>4, OldTypesOn
    <2>6. \A i \in DOMAIN S : S[i].kind = "type" => S[i].key \in Key /\ S[i].key # k
      BY <1>9, <2>4
    <2> QED
      BY <1>11, <2>1, <2>3, <2>5, <2>6
  <1>20. DOMAIN types \subseteq DOMAIN types'
    BY <1>15 DEF Onward
  <1>21. FramesOK(held'[t], memo', DOMAIN types', raising'[t] = Calm)
    <2>1. PICK c \in BOOLEAN : c = (raising[t] = Calm)
      OBVIOUS
    <2>2. FramesOK(held[t], memo, DOMAIN types, c)
      BY <1>1, <2>1
    <2>3. \A i \in DOMAIN held'[t] : held'[t][i].kind = "type" => memo'[held'[t][i].key] = memo[held'[t][i].key]
      BY <1>11, <1>19
    <2>4. ASSUME NEW i \in DOMAIN held'[t], held'[t][i].kind = "type", NEW n \in Nat
          PROVE  TypeOf(held'[t][i].key, n) \notin DOMAIN types' \ DOMAIN types
      <3>1. held'[t][i].key # k
        BY <1>19, <2>4
      <3> QED
        BY <1>15, <3>1, Names DEF Onward
    <2>5. FramesOK(held'[t], memo', DOMAIN types', c)
      BY <1>19, <1>20, <2>2, <2>3, <2>4, FramesOn
    <2> QED
      BY <1>7, <2>1, <2>5
  <1>22. AnswersOK(answers', memo', DOMAIN types')
    <2>1. Undefined \notin DOMAIN types
      BY <1>1 DEF GraphOK
    <2>2. AnswersOK(answers, memo', DOMAIN types')
      BY <1>1, <1>16, <1>20, <2>1, AnswersOn
    <2>3. r \in DOMAIN types' /\ r = memo'[k]
      BY <1>7, <1>11, <1>14
    <2> QED
      BY <1>7, <1>9, <2>2, <2>3, AnswersMore
  <1>23. MadeByOK(madeBy', types', memo')
    <2>1. MadeByOK(madeBy, types', memo')
      BY <1>1, <1>9, <1>15, <1>16, MadeByOn
    <2>2. MadeByOK(Without(madeBy, f), types', memo')
      BY <2>1, MadeByLess
    <2>3. r \in DOMAIN types' /\ memo'[k] = r
      BY <1>7, <1>11, <1>14
    <2>4. MadeByOK(Extend(Without(madeBy, f), r, k), types', memo')
      BY <1>9, <2>2, <2>3, MadeByMore
    <2> QED
      BY <1>8, <2>2, <2>4
  <1>24. \A i : Busy(held', i) => Busy(held, i)
    BY <1>11, <1>19, WasBusy
  <1>25. OpenOK(memo', held', interrupts')
    <2>1. PICK Q : Q = {k}
      OBVIOUS
    <2>2. \A i : i \notin Q /\ Busy(held, i) => Busy(held', i)
      BY <1>11, <1>19, <2>1, StillBusy
    <2>3. ASSUME NEW i \in Key, memo'[i] = ForwardOf(i) PROVE Busy(held', i) \/ interrupts' > 0
      <3>1. i # k
        BY <1>3, <1>11, <1>14, <2>3
      <3>2. memo[i] = ForwardOf(i)
        BY <1>11, <2>3, <3>1
      <3> QED
        BY <1>1, <1>7, <2>1, <2>2, <3>1, <3>2 DEF OpenOK
    <2> QED
      BY <1>1, <1>7, <2>3 DEF OpenOK
  <1>26. Settled(types', memo', held', interrupts', answers')
    <2>1. CASE Len(held[t]) = 1
      <3>1. Below(t) = <<>>
        <4>1. held[t] \in Seq(Frame) /\ held[t] # <<>>
          BY <1>7, <1>10 DEF In
        <4>2. Below(t) \in Seq(Frame) /\ Len(Below(t)) = Len(held[t]) - 1
          BY <4>1, PopStack DEF Below
        <4>3. Len(Below(t)) = 0
          BY <2>1, <4>2
        <4> QED
          BY <4>2, <4>3, EmptySeq
      <3>2. \A u \in Thread : held'[u] = <<>>
        BY <1>9, <1>11, <3>1 DEF Told
      <3>3. \A i \in Key : MemoOK(types', memo', i)
        BY <1>1, <1>9, <1>11, <1>15, <1>18, MemoOn
      <3> QED
        BY <1>14, <1>22, <1>25, <3>2, <3>3, FreeIsSettled
    <2>2. CASE Len(held[t]) # 1
      <3>1. \A p \in answers' : p \in answers \/ p[3] # "locked" \/ p[2] = Raised
        BY <1>6, <1>7, <2>2
      <3>2. interrupts \in Nat /\ interrupts' \in Nat /\ interrupts <= interrupts'
        BY <1>1, <1>7 DEF OpenOK
      <3>3. UndefinedForward(types, ForwardOf(k)) /\ ~Left(memo, held, interrupts, k)
        BY <1>3, <1>9
      <3> QED
        BY <1>1, <1>9, <1>15, <1>16, <1>24, <3>1, <3>2, <3>3, SettledOn
    <2> QED
      BY <2>1, <2>2
  <1>27. Moves(t)
    BY <1>1, <1>7, <1>11 DEF Moves, OpenOK
  <1> QED
    BY <1>9, <1>14, <1>15, <1>16, <1>18, <1>21, <1>22, <1>23, <1>25, <1>26, <1>27, StepKeeps

LEMMA FailTypes ==
  ASSUME LockInv, TypesInv, NEW t \in Thread, Fail(t)
  PROVE  TypesInv'
  <1>1. /\ FramesOK(held[t], memo, DOMAIN types, raising[t] = Calm)
        /\ AnswersOK(answers, memo, DOMAIN types) /\ MadeByOK(madeBy, types, memo) /\ GraphOK(types)
        /\ OpenOK(memo, held, interrupts) /\ Settled(types, memo, held, interrupts, answers)
        /\ \A i \in Key : MemoOK(types, memo, i)
    BY DEF TypesInv
  <1>2. PICK k : k = Top(t).key
    OBVIOUS
  <1>3. PICK f : f = ForwardOf(k)
    OBVIOUS
  <1>4. /\ Ran(t) /\ In(t, "type") /\ types' = Graph(t) /\ raising' = [raising EXCEPT ![t] = Error]
        /\ UNCHANGED <<memo, madeBy, lost, held, answers, interrupts>>
    BY DEF Fail, Ran, Running
  <1>5. /\ k \in Key /\ memo[k] = f /\ f \in DOMAIN types /\ UndefinedForward(types, f)
        /\ ~Left(memo, held, interrupts, k) /\ \A u \in Thread \ {t} : held[u] = <<>>
    BY <1>2, <1>3, <1>4, TopRight
  <1>6. raising \in [Thread -> {Calm, Error, Interrupt}]
    BY DEF LockInv, StacksRight
  <1>7. raising'[t] = Error /\ \A u \in Thread \ {t} : raising'[u] = raising[u]
    BY <1>4, <1>6
  <1>8. raising'[t] # Calm /\ raising'[t] # Interrupt
    BY <1>7 DEF Error, Calm, Interrupt
  <1>9. /\ GraphOK(types') /\ Chasable(types') /\ WellBooked(types', lost') /\ Onward(types, types', k)
        /\ \A x \in DOMAIN types : Kept(types, types', x)
    BY <1>2, <1>4, RanGraph
  <1>10. DOMAIN types \subseteq DOMAIN types'
    BY <1>9 DEF Onward
  <1>11. Remembers(memo, memo', k)
    BY <1>4 DEF Remembers
  <1>12. MemoOK(types', memo', k)
    <2>1. f \in DOMAIN types' /\ UndefinedForward(types', f)
      BY <1>5, <1>9, <1>10, KeptSteps
    <2> QED
      BY <1>3, <1>4, <1>5, <2>1, Names DEF MemoOK, UndefinedForward
  <1>13. FramesOK(held'[t], memo', DOMAIN types', raising'[t] = Calm)
    <2>1. OldTypes(held[t], held'[t], DOMAIN types')
      BY <1>4, SameTypes
    <2>2. PICK c \in BOOLEAN : c = (raising[t] = Calm)
      OBVIOUS
    <2>3. PICK d \in BOOLEAN : d = (raising'[t] = Calm)
      OBVIOUS
    <2>4. ~d /\ FramesOK(held[t], memo, DOMAIN types, c)
      BY <1>1, <1>8, <2>2, <2>3
    <2>5. \A i \in DOMAIN held'[t] : held'[t][i].kind = "type" => memo'[held'[t][i].key] = memo[held'[t][i].key]
      BY <1>4
    <2>6. FramesOK(held'[t], memo', DOMAIN types', d)
      BY <1>10, <2>1, <2>4, <2>5, FramesOn
    <2> QED
      BY <2>3, <2>6
  <1>14. AnswersOK(answers', memo', DOMAIN types')
    <2>1. Undefined \notin DOMAIN types
      BY <1>1 DEF GraphOK
    <2>2. AnswersOK(answers, memo', DOMAIN types')
      BY <1>1, <1>10, <1>11, <2>1, AnswersOn
    <2> QED
      BY <1>4, <2>2
  <1>15. MadeByOK(madeBy', types', memo')
    <2>1. MadeByOK(madeBy, types', memo')
      BY <1>1, <1>5, <1>9, <1>11, MadeByOn
    <2> QED
      BY <1>4, <2>1
  <1>16. OpenOK(memo', held', interrupts')
    BY <1>1, <1>4
  <1>17. Settled(types', memo', held', interrupts', answers')
    <2>1. interrupts \in Nat /\ interrupts' \in Nat /\ interrupts <= interrupts'
      BY <1>1, <1>4 DEF OpenOK
    <2>2. \A i \in Key : Busy(held', i) /\ ForwardOf(i) \in DOMAIN types => Busy(held, i)
      BY <1>4
    <2>3. \A p \in answers' : p \in answers
      BY <1>4
    <2>4. UndefinedForward(types, ForwardOf(k)) /\ ~Left(memo, held, interrupts, k)
      BY <1>3, <1>5
    <2> QED
      BY <1>1, <1>5, <1>9, <1>11, <2>1, <2>2, <2>3, <2>4, SettledOn
  <1>18. Moves(t)
    BY <1>1, <1>4, <1>7, <1>8 DEF Moves, OpenOK
  <1> QED
    BY <1>5, <1>9, <1>11, <1>12, <1>13, <1>14, <1>15, <1>16, <1>17, <1>18, StepKeeps

\* An exception leaves a function: its key is left with the error, or open.
LEMMA UnwindTypes ==
  ASSUME LockInv, TypesInv, NEW t \in Thread, CompilesRight(t), Unwind(t)
  PROVE  TypesInv'
  <1>1. /\ FramesOK(held[t], memo, DOMAIN types, raising[t] = Calm)
        /\ AnswersOK(answers, memo, DOMAIN types) /\ MadeByOK(madeBy, types, memo)
        /\ GraphOK(types) /\ Chasable(types) /\ WellBooked(types, lost)
        /\ OpenOK(memo, held, interrupts) /\ Settled(types, memo, held, interrupts, answers)
        /\ (\A i \in Key : MemoOK(types, memo, i))
        /\ \A u \in Thread : raising[u] = Interrupt => interrupts > 0
    BY DEF TypesInv
  <1>2. PICK k : k = Top(t).key
    OBVIOUS
  <1>3. PICK f : f = ForwardOf(k)
    OBVIOUS
  <1>4. PICK B : B = Below(t)
    OBVIOUS
  <1>5. PICK S : S = IF raising[t] = Error THEN Caught(B) ELSE B
    OBVIOUS
  <1>6. /\ In(t, "type") /\ raising[t] # Calm /\ held' = [held EXCEPT ![t] = S]
        /\ memo' = (IF raising[t] = Error THEN [memo EXCEPT ![k] = Raised] ELSE memo)
        /\ answers' = (IF raising[t] = Error THEN answers \cup {<<k, Raised, "locked">>} ELSE answers)
        /\ UNCHANGED <<types, madeBy, lost, interrupts>>
    BY <1>2, <1>4, <1>5 DEF Unwind
  <1>7. /\ raising' = raising \/ raising' = [raising EXCEPT ![t] = Calm]
        /\ raising' # raising => B = <<>> \/ (raising[t] = Error /\ B[Len(B)].kind = "compile")
    BY <1>4 DEF Unwind
  <1>8. /\ k \in Key /\ memo[k] = f /\ f \in DOMAIN types /\ UndefinedForward(types, f) /\ IsForward(types, f)
        /\ Busy(held, k) /\ ~Left(memo, held, interrupts, k)
        /\ (\A u \in Thread \ {t} : held[u] = <<>>)
        /\ \A U, D : OldTypes(B, U, D) =>
             \A i \in DOMAIN U : U[i].kind = "type" => U[i].key \in Key /\ U[i].key # k
    BY <1>2, <1>3, <1>4, <1>6, TopRight
  <1>9. /\ memo \in [Key -> DOMAIN types \cup {Undefined, Raised}] /\ held \in [Thread -> Seq(Frame)]
        /\ raising \in [Thread -> {Calm, Error, Interrupt}]
    BY DEF LockInv, TypesRight, StacksRight
  <1>10. /\ memo'[k] = (IF raising[t] = Error THEN Raised ELSE f) /\ (\A j \in Key \ {k} : memo'[j] = memo[j])
         /\ held'[t] = S /\ (\A u \in Thread \ {t} : held'[u] = held[u])
         /\ \A u \in Thread \ {t} : raising'[u] = raising[u]
    BY <1>6, <1>7, <1>8, <1>9
  <1>11. Onward(types, types', k) /\ Remembers(memo, memo', k)
    BY <1>3, <1>6, <1>8, <1>10, OnwardItself DEF Remembers
  <1>12. MemoOK(types', memo', k)
    BY <1>3, <1>6, <1>8, <1>10, Names DEF MemoOK, UndefinedForward
  <1>13. /\ OldTypes(held[t], S, DOMAIN types) /\ KeptTypes(held[t], S, {k}) /\ OldTypes(B, S, DOMAIN types)
         /\ DOMAIN B = 1 .. Len(B)
    <2>1. PICK D : D = DOMAIN types
      OBVIOUS
    <2>2. OldTypes(held[t], B, D) /\ KeptTypes(held[t], B, {k}) /\ B \in Seq(Frame)
      BY <1>2, <1>4, <1>6, BelowTypes
    <2>3. OldTypes(B, S, D) /\ KeptTypes(B, S, {})
      <3>1. CASE S = B
        BY <3>1, SameTypes
      <3>2. CASE S = Told(B, Raised) /\ B[Len(B)].kind = "compile"
        <4>1. Raised \in Memo /\ B[Len(B)].kind # "type"
          BY <3>2 DEF Memo
        <4>2. OldTypes(B, Told(B, Raised), D) /\ KeptTypes(B, Told(B, Raised), {})
          BY <2>2, <4>1, ToldTypes
        <4> QED
          BY <3>2, <4>2
      <3> QED
        BY <1>5, <3>1, <3>2 DEF Caught
    <2>4. OldTypes(held[t], S, D) /\ KeptTypes(held[t], S, {k})
      BY <2>2, <2>3, OldTypesOn
    <2> QED
      BY <2>1, <2>2, <2>3, <2>4
  <1>14. \A i \in DOMAIN S : S[i].kind = "type" => S[i].key \in Key /\ S[i].key # k
    BY <1>8, <1>13
  <1>15. raising'[t] = Calm => \A i \in DOMAIN S : S[i].kind # "type"
    <2> SUFFICES ASSUME raising'[t] = Calm, NEW i \in DOMAIN S, S[i].kind = "type" PROVE FALSE
      OBVIOUS
    <2>1. i \in DOMAIN B /\ B[i].kind = "type"
      BY <1>13 DEF OldTypes
    <2>2. raising' # raising
      BY <1>6
    <2>3. B # <<>> /\ B[Len(B)].kind = "compile"
      BY <1>7, <2>1, <2>2
    <2>4. Len(B) = 1
      <3>1. /\ held[t] \in Seq(Frame) /\ DOMAIN B = 1 .. Len(held[t]) - 1 /\ DOMAIN held[t] = 1 .. Len(held[t])
            /\ (\A n \in DOMAIN B : B[n] = held[t][n]) /\ B \in Seq(Frame) /\ Len(held[t]) \in Nat
        BY <1>4, <1>6, BelowTypes
      <3>2. Len(B) \in DOMAIN B
        BY <2>3, <3>1
      <3>3. Len(B) \in DOMAIN held[t] /\ held[t][Len(B)].kind = "compile"
        BY <2>3, <3>1, <3>2
      <3> QED
        BY <3>3 DEF CompilesRight
    <2>5. i = Len(B)
      BY <1>13, <2>1, <2>4
    <2> QED
      BY <2>1, <2>3, <2>5
  <1>16. FramesOK(held'[t], memo', DOMAIN types', raising'[t] = Calm)
    <2>1. PICK c \in BOOLEAN : c = (raising[t] = Calm)
      OBVIOUS
    <2>2. PICK d \in BOOLEAN : d = (raising'[t] = Calm)
      OBVIOUS
    <2>3. FramesOK(held[t], memo, DOMAIN types, c) /\ (d => \A i \in DOMAIN S : S[i].kind # "type")
      BY <1>1, <1>15, <2>1, <2>2
    <2>4. \A i \in DOMAIN S : S[i].kind = "type" => memo'[S[i].key] = memo[S[i].key]
      BY <1>10, <1>14
    <2>5. FramesOK(S, memo', DOMAIN types, d)
      BY <1>13, <2>3, <2>4, FramesOn
    <2> QED
      BY <1>6, <1>10, <2>2, <2>5
  <1>17. AnswersOK(answers', memo', DOMAIN types')
    <2>1. Undefined \notin DOMAIN types
      BY <1>1 DEF GraphOK
    <2>2. AnswersOK(answers, memo', DOMAIN types)
      BY <1>1, <1>11, <2>1, AnswersOn
    <2>3. raising[t] = Error => memo'[k] = Raised
      BY <1>10
    <2>4. raising[t] = Error => AnswersOK(answers \cup {<<k, Raised, "locked">>}, memo', DOMAIN types)
      BY <1>8, <2>2, <2>3, AnswersMore
    <2> QED
      BY <1>6, <2>2, <2>4
  <1>18. MadeByOK(madeBy', types', memo')
    <2>1. MadeByOK(madeBy, types', memo')
      BY <1>1, <1>8, <1>11, MadeByOn
    <2> QED
      BY <1>6, <2>1
  <1>19. OpenOK(memo', held', interrupts')
    <2>1. PICK Q : Q = {k}
      OBVIOUS
    <2>2. KeptTypes(held[t], held'[t], Q)
      BY <1>10, <1>13, <2>1
    <2>3. \A i : i \notin Q /\ Busy(held, i) => Busy(held', i)
      BY <1>10, <2>2, StillBusy
    <2>4. ASSUME NEW i \in Key, memo'[i] = ForwardOf(i) PROVE Busy(held', i) \/ interrupts' > 0
      <3>1. CASE i # k
        BY <1>1, <1>6, <1>10, <2>1, <2>3, <2>4, <3>1 DEF OpenOK
      <3>2. CASE i = k
        <4>1. raising[t] # Error
          BY <1>10, <2>4, <3>2, Names
        <4>2. raising[t] = Interrupt
          BY <1>6, <1>9, <4>1
        <4> QED
          BY <1>1, <1>6, <4>2
      <3> QED
        BY <3>1, <3>2
    <2> QED
      BY <1>1, <1>6, <2>4 DEF OpenOK
  <1>20. Settled(types', memo', held', interrupts', answers')
    <2>1. interrupts \in Nat /\ interrupts' \in Nat /\ interrupts <= interrupts'
      BY <1>1, <1>6 DEF OpenOK
    <2>2. \A i : Busy(held', i) => Busy(held, i)
      <3>1. OldTypes(held[t], held'[t], DOMAIN types)
        BY <1>10, <1>13
      <3> QED
        BY <1>10, <3>1, WasBusy
    <2>3. \A p \in answers' : p \in answers \/ p[3] # "locked" \/ p[2] = Raised
      BY <1>6
    <2>4. UndefinedForward(types, ForwardOf(k)) /\ ~Left(memo, held, interrupts, k)
      BY <1>3, <1>8
    <2> QED
      BY <1>1, <1>8, <1>11, <2>1, <2>2, <2>3, <2>4, SettledOn
  <1>21. Moves(t)
    <2>1. raising'[t] = Interrupt => raising[t] = Interrupt
      BY <1>7, <1>9 DEF Calm, Interrupt
    <2> QED
      BY <1>1, <1>6, <1>10, <2>1 DEF Moves, OpenOK
  <1>22. GraphOK(types') /\ Chasable(types') /\ WellBooked(types', lost')
    BY <1>1, <1>6
  <1> QED
    BY <1>8, <1>11, <1>12, <1>16, <1>17, <1>18, <1>19, <1>20, <1>21, <1>22, StepKeeps

LEMMA LockedTypes ==
  ASSUME LockInv, TypesInv, NEW t \in Thread, Locked(t)
  PROVE  TypesInv'
  <1>1. PICK k : k = asked[t]
    OBVIOUS
  <1>2. k \in Key /\ held[t] = <<>> /\ Mine(t) /\ UNCHANGED <<lost, raising, interrupts>>
    BY <1>1 DEF Locked, LockInv, StacksRight
  <1>3. CASE First(k)
    <2>1. Begin(t, k, held[t]) /\ answers' = answers /\ memo[k] = Undefined
      BY <1>1, <1>2, <1>3 DEF Locked, First
    <2> QED
      BY <1>2, <2>1, BeginTypes
  <1>4. CASE ~First(k)
    <2>1. answers' = answers \cup {<<k, memo[k], "locked">>} /\ UNCHANGED <<types, memo, madeBy, held>>
            /\ memo[k] # Undefined
      BY <1>1, <1>4 DEF Locked, First
    <2>2. OldTypes(held[t], held'[t], DOMAIN types) /\ KeptTypes(held[t], held'[t], {})
      BY <2>1, SameTypes
    <2>3. Moves(t)
      BY <1>2, <2>1 DEF Moves, TypesInv, OpenOK
    <2>4. \A u \in Thread : held'[u] = <<>>
      BY <1>2, <2>1 DEF Mine
    <2>5. \E j \in Key, how \in {"locked", "unlocked", "inside"} :
           /\ memo[j] # Undefined /\ answers' = answers \cup {<<j, memo[j], how>>}
           /\ how = "locked" => \A u \in Thread : held'[u] = <<>>
      BY <1>2, <2>1, <2>4
    <2> QED
      BY <1>2, <2>1, <2>2, <2>3, <2>5, StillKeeps
  <1> QED
    BY <1>3, <1>4

LEMMA InterruptedTypes ==
  ASSUME LockInv, TypesInv, NEW t \in Thread, Interrupted(t)
  PROVE  TypesInv'
  <1>1. /\ raising' = [raising EXCEPT ![t] = Interrupt] /\ interrupts' = interrupts + 1
        /\ UNCHANGED <<types, memo, madeBy, lost, held, answers>>
    BY DEF Interrupted
  <1>2. raising \in [Thread -> {Calm, Error, Interrupt}] /\ interrupts \in Nat
    BY DEF LockInv, StacksRight, TypesInv, OpenOK
  <1>3. raising'[t] = Interrupt /\ raising'[t] # Calm
    BY <1>1, <1>2 DEF Interrupt, Calm
  <1>4. Moves(t)
    BY <1>1, <1>2 DEF Moves
  <1>5. OldTypes(held[t], held'[t], DOMAIN types) /\ KeptTypes(held[t], held'[t], {})
    BY <1>1, SameTypes
  <1> QED
    BY <1>1, <1>3, <1>4, <1>5, StillKeeps

LEMMA CallInsideTypes ==
  ASSUME LockInv, TypesInv, NEW t \in Thread, NEW calls \in Seq(Key), CallInside(t, calls)
  PROVE  TypesInv'
  <1>1. PICK n : n = Len(Top(t).results) + 1
    OBVIOUS
  <1>2. PICK k : k = calls[n]
    OBVIOUS
  <1>3. /\ held[t] # <<>> /\ raising[t] = Calm /\ Len(Top(t).results) < Len(calls) /\ Mine(t)
        /\ UNCHANGED <<lost, interrupts>>
    BY DEF CallInside, Pending
  <1>4. /\ held \in [Thread -> Seq(Frame)] /\ raising \in [Thread -> {Calm, Error, Interrupt}]
        /\ memo \in [Key -> DOMAIN types \cup {Undefined, Raised}] /\ DOMAIN types \subseteq TypeName
    BY DEF LockInv, StacksRight, TypesRight
  <1>5. /\ held[t] \in Seq(Frame) /\ Top(t) \in Frame /\ Top(t) = held[t][Len(held[t])]
        /\ Below(t) \in Seq(Frame) /\ Len(Below(t)) = Len(held[t]) - 1
        /\ \A i \in 1 .. Len(held[t]) - 1 : Below(t)[i] = held[t][i]
    BY <1>3, <1>4, PopStack DEF Top, Below
  <1>6. Top(t).results \in Seq(Memo)
    BY <1>5 DEF Frame, TypeFrames, CompileFrames
  <1>7. k \in Key
    <2>1. Len(Top(t).results) \in Nat
      BY <1>6
    <2>2. n \in 1 .. Len(calls)
      BY <1>1, <1>3, <2>1
    <2> QED
      BY <1>2, <2>2
  <1>8. CASE memo[k] = Undefined
    <2>1. Begin(t, k, held[t]) /\ UNCHANGED <<raising, answers>>
      BY <1>1, <1>2, <1>8 DEF CallInside
    <2> QED
      BY <1>3, <1>7, <1>8, <2>1, BeginTypes
  <1>9. CASE memo[k] # Undefined
    <2>1. PICK f : f = [Top(t) EXCEPT !.results = Append(@, memo[k])]
      OBVIOUS
    <2>2. /\ answers' = answers \cup {<<k, memo[k], "inside">>} /\ UNCHANGED <<types, memo, madeBy>>
          /\ \/ raising' = [raising EXCEPT ![t] = Error] /\ held' = held
             \/ /\ held' = [held EXCEPT ![t] = Append(Below(t), f)] /\ raising' = raising
                /\ ~(memo[k] = Raised /\ Top(t).kind = "type")
      BY <1>1, <1>2, <1>9, <2>1 DEF CallInside
    <2>3. \E j \in Key, how \in {"locked", "unlocked", "inside"} :
           /\ memo[j] # Undefined /\ answers' = answers \cup {<<j, memo[j], how>>}
           /\ how = "locked" => \A u \in Thread : held'[u] = <<>>
      BY <1>7, <1>9, <2>2
    <2>4. interrupts \in Nat /\ \A u \in Thread : raising[u] = Interrupt => interrupts > 0
      BY DEF TypesInv, OpenOK
    <2>5. CASE raising' = [raising EXCEPT ![t] = Error] /\ held' = held
      <3>1. raising'[t] # Calm /\ raising'[t] # Interrupt
        BY <1>4, <2>5 DEF Error, Calm, Interrupt
      <3>2. Moves(t)
        BY <1>3, <2>4, <2>5, <3>1 DEF Moves
      <3>3. OldTypes(held[t], held'[t], DOMAIN types) /\ KeptTypes(held[t], held'[t], {})
        BY <2>5, SameTypes
      <3> QED
        BY <1>3, <2>2, <2>3, <3>1, <3>2, <3>3, StillKeeps
    <2>6. CASE /\ held' = [held EXCEPT ![t] = Append(Below(t), f)] /\ raising' = raising
               /\ ~(memo[k] = Raised /\ Top(t).kind = "type")
      <3>1. PICK S : S = Append(Below(t), f)
        OBVIOUS
      <3>2. held'[t] = S /\ \A u \in Thread \ {t} : held'[u] = held[u]
        BY <1>4, <2>6, <3>1
      <3>3. Moves(t)
        BY <1>3, <2>4, <2>6, <3>2 DEF Moves
      <3>4. PICK R : R = held[t]
        OBVIOUS
      <3>5. R \in Seq(Frame) /\ R # <<>> /\ DOMAIN S = DOMAIN R /\ S[Len(R)] = f
              /\ \A i \in DOMAIN R : i # Len(R) => S[i] = R[i]
        <4>1. PICK B : B = Below(t)
          OBVIOUS
        <4>2. PICK z : z = Len(R)
          OBVIOUS
        <4>3. /\ R \in Seq(Frame) /\ R # <<>> /\ B \in Seq(Frame) /\ Len(B) = z - 1 /\ S = Append(B, f)
              /\ (\A i \in 1 .. z - 1 : B[i] = R[i]) /\ z \in Nat /\ DOMAIN R = 1 .. z
          BY <1>3, <1>5, <3>1, <3>4, <4>1, <4>2
        <4>4. DOMAIN S = 1 .. z /\ S[z] = f /\ \A i \in 1 .. z - 1 : S[i] = B[i]
          BY <4>3
        <4> QED
          BY <4>2, <4>3, <4>4
      <3>6. PICK a : a = memo[k]
        OBVIOUS
      <3>7. a \in Memo /\ (a \in DOMAIN types \/ R[Len(R)].kind # "type")
        BY <1>4, <1>5, <1>7, <1>9, <2>6, <3>4, <3>6 DEF Memo
      <3>8. S[Len(R)] = [R[Len(R)] EXCEPT !.results = Append(@, a)]
        BY <1>5, <2>1, <3>4, <3>5, <3>6
      <3>9. OldTypes(R, S, DOMAIN types) /\ KeptTypes(R, S, {})
        BY <3>5, <3>7, <3>8, AnsweredTypes
      <3> QED
        BY <1>3, <2>2, <2>3, <2>6, <3>2, <3>3, <3>4, <3>9, StillKeeps
    <2> QED
      BY <2>2, <2>5, <2>6
  <1> QED
    BY <1>8, <1>9

LEMMA CallTypes ==
  ASSUME LockInv, TypesInv, NEW t \in Thread, Call(t)
  PROVE  TypesInv'
  <1>1. In(t, "type") /\ CallInside(t, body[Top(t).key].calls)
    BY DEF Call, Running
  <1>2. body[Top(t).key].calls \in Seq(Key)
    BY <1>1, InsideType, BodyOf DEF LockInv
  <1> QED
    BY <1>1, <1>2, CallInsideTypes

LEMMA AskTypes ==
  ASSUME LockInv, TypesInv, NEW t \in Thread, NEW k \in Key, Ask(t, k)
  PROVE  TypesInv'
  <1>1. /\ UNCHANGED <<types, memo, madeBy, lost, held, raising, interrupts>>
        /\ answers' = answers \/ (memo[k] # Undefined /\ answers' = answers \cup {<<k, memo[k], "unlocked">>})
    BY DEF Ask, Hit
  <1>2. Moves(t)
    BY <1>1 DEF Moves, TypesInv, OpenOK
  <1>3. OldTypes(held[t], held'[t], DOMAIN types) /\ KeptTypes(held[t], held'[t], {})
    BY <1>1, SameTypes
  <1>4. answers' = answers \/ \E j \in Key, how \in {"locked", "unlocked", "inside"} :
           /\ memo[j] # Undefined /\ answers' = answers \cup {<<j, memo[j], how>>}
           /\ how = "locked" => \A u \in Thread : held'[u] = <<>>
    BY <1>1
  <1> QED
    BY <1>1, <1>2, <1>3, <1>4, StillKeeps

\* Steps of the compiler: it runs alone on its stack, or under the functions.
LEMMA CompilerTypes ==
  ASSUME LockInv, TypesInv, NEW t \in Thread, UNCHANGED <<types, memo, madeBy, lost, answers, interrupts>>,
         \A u \in Thread \ {t} : held'[u] = held[u] /\ raising'[u] = raising[u],
         OldTypes(held[t], held'[t], DOMAIN types), KeptTypes(held[t], held'[t], {}),
         raising'[t] = raising[t] \/ (raising'[t] = Calm /\ \A i \in DOMAIN held'[t] : held'[t][i].kind # "type")
  PROVE  TypesInv'
  <1>1. raising'[t] = Interrupt => raising[t] = Interrupt
    BY DEF Calm, Interrupt
  <1>2. Moves(t)
    BY <1>1 DEF Moves, TypesInv, OpenOK
  <1> QED
    BY <1>2, StillKeeps

LEMMA IdleTypes ==
  ASSUME LockInv, TypesInv, UNCHANGED <<types, memo, madeBy, lost, answers, interrupts, held, raising>>
  PROVE  TypesInv'
  <1>1. PICK H : H = held
    OBVIOUS
  <1>2. held' = H
    BY <1>1
  <1> QED
    BY DEF TypesInv

LEMMA PushTypes ==
  ASSUME LockInv, TypesInv, NEW t \in Thread, NEW f, f.kind = "compile", Push(t, f)
  PROVE  TypesInv'
  <1>1. /\ held' = [held EXCEPT ![t] = Append(held[t], f)]
        /\ UNCHANGED <<types, memo, madeBy, lost, answers, interrupts, raising>>
    BY DEF Push
  <1>2. held \in [Thread -> Seq(Frame)]
    BY DEF LockInv, StacksRight
  <1>3. PICK R : R = held[t]
    OBVIOUS
  <1>4. PICK S : S = Append(R, f)
    OBVIOUS
  <1>5. PICK z : z = Len(R) + 1
    OBVIOUS
  <1>6. R \in Seq(Frame) /\ held'[t] = S /\ \A u \in Thread \ {t} : held'[u] = held[u]
    BY <1>1, <1>2, <1>3, <1>4
  <1>7. DOMAIN S = DOMAIN R \cup {z} /\ S[z] = f /\ \A i \in DOMAIN R : S[i] = R[i]
    BY <1>4, <1>5, <1>6
  <1>8. OldTypes(R, S, DOMAIN types) /\ KeptTypes(R, S, {})
    BY <1>7 DEF OldTypes, KeptTypes
  <1> QED
    BY <1>1, <1>3, <1>6, <1>8, CompilerTypes

\* While a program is compiled no function runs, but those it calls.
LEMMA CompileTypes ==
  ASSUME RuntimeInv, TypesInv, NEW t \in Thread, In(t, "compile"), NEW S,
         S = <<>> \/ (Len(S) = 1 /\ S[1].kind = "compile" /\ DOMAIN S = {1}),
         held' = [held EXCEPT ![t] = S], UNCHANGED <<types, memo, madeBy, lost, answers, interrupts>>,
         raising' = raising \/ raising' = [raising EXCEPT ![t] = Calm]
  PROVE  TypesInv'
  <1>1. LockInv /\ held \in [Thread -> Seq(Frame)] /\ raising \in [Thread -> {Calm, Error, Interrupt}]
    BY DEF RuntimeInv, LockInv, StacksRight
  <1>2. held[t] \in Seq(Frame) /\ Len(held[t]) = 1 /\ held[t][1].kind = "compile"
    BY InsideCompile DEF In
  <1>3. DOMAIN held[t] = {1}
    BY <1>2
  <1>4. held'[t] = S /\ \A u \in Thread \ {t} : held'[u] = held[u] /\ raising'[u] = raising[u]
    BY <1>1
  <1>5. \A i \in DOMAIN S : S[i].kind # "type"
    OBVIOUS
  <1>6. OldTypes(held[t], S, DOMAIN types) /\ KeptTypes(held[t], S, {})
    BY <1>2, <1>3, <1>5 DEF OldTypes, KeptTypes
  <1>7. raising'[t] = raising[t] \/ (raising'[t] = Calm /\ \A i \in DOMAIN held'[t] : held'[t][i].kind # "type")
    BY <1>1, <1>4, <1>5
  <1> QED
    BY <1>1, <1>4, <1>6, <1>7, CompilerTypes

LEMMA TypesStep ==
  ASSUME RuntimeInv, TypesInv, NEW t \in Thread, Step(t)
  PROVE  TypesInv'
  <1>1. LockInv /\ CompilesRight(t)
    BY DEF RuntimeInv
  <1>2. CASE AskType(t)
    <2>1. Starts(t, "type") /\ Ask(t, Next1(t).key)
      BY <1>2 DEF AskType
    <2>2. Next1(t).key \in Key
      BY <2>1, StartsWhat DEF Operation
    <2> QED
      BY <1>1, <2>1, <2>2, AskTypes
  <1>3. CASE Compile(t)
    <2>1. PICK f : f = CompileFrame(Next1(t).function, NoTable, 0)
      OBVIOUS
    <2>2. Push(t, f) /\ f.kind = "compile"
      BY <1>3, <2>1 DEF Compile, CompileFrame
    <2> QED
      BY <1>1, <2>2, PushTypes
  <1>4. CASE CallMethod(t)
    <2>1. UNCHANGED <<types, memo, madeBy, lost, answers, interrupts, held, raising>>
      BY <1>4 DEF CallMethod, typeVars, callVars
    <2> QED
      BY <1>1, <2>1, IdleTypes
  <1>5. CASE CompileMethod(t)
    <2>1. \E g, T, s : Push(t, CompileFrame(g, T, s))
      BY <1>5 DEF CompileMethod
    <2>2. PICK f : Push(t, f) /\ f.kind = "compile"
      BY <2>1 DEF CompileFrame
    <2> QED
      BY <1>1, <2>2, PushTypes
  <1>6. CASE UseType(t)
    <2>1. In(t, "compile") /\ CallInside(t, Code(t).uses)
      BY <1>6 DEF UseType, Compiling
    <2>2. Code(t).uses \in Seq(Key)
      BY <2>1, InsideCompile
    <2> QED
      BY <1>1, <2>1, <2>2, CallInsideTypes
  <1>7. CASE LinkSite(t)
    <2>1. PICK f : f = [Top(t) EXCEPT !.linked = @ + 1]
      OBVIOUS
    <2>2. /\ In(t, "compile") /\ held' = [held EXCEPT ![t] = Append(Below(t), f)]
          /\ UNCHANGED <<types, memo, madeBy, lost, answers, interrupts, raising>>
      BY <1>7, <2>1 DEF LinkSite, Typed, Compiling, typeVars
    <2>3. Top(t) \in CompileFrames /\ Below(t) = <<>>
      BY <2>2, InsideCompile
    <2>4. f.kind = "compile"
      <3>1. PICK n : n = Top(t).linked + 1
        OBVIOUS
      <3>2. f = [Top(t) EXCEPT !.linked = n]
        BY <2>1, <3>1
      <3> QED
        BY <2>3, <3>2 DEF CompileFrames
    <2>5. Append(Below(t), f) = <<f>>
      BY <2>3
    <2>6. Len(<<f>>) = 1 /\ <<f>>[1].kind = "compile" /\ DOMAIN <<f>> = {1}
      BY <2>4
    <2> QED
      BY <2>2, <2>5, <2>6, CompileTypes
  <1>8. CASE AddSlots(t)
    <2>1. UNCHANGED <<types, memo, madeBy, lost, answers, interrupts, held, raising>>
      BY <1>8 DEF AddSlots, typeVars, callVars
    <2> QED
      BY <1>1, <2>1, IdleTypes
  <1>9. CASE Compiled(t) \/ CompileFails(t)
    <2>1. /\ In(t, "compile") /\ held' = [held EXCEPT ![t] = Below(t)]
          /\ UNCHANGED <<types, memo, madeBy, lost, answers, interrupts>>
          /\ raising' = raising \/ raising' = [raising EXCEPT ![t] = Calm]
      BY <1>9 DEF Compiled, CompileFails, Typed, Compiling, Pop, typeVars
    <2>2. Below(t) = <<>>
      BY <2>1, InsideCompile
    <2> QED
      BY <2>1, <2>2, CompileTypes
  <1>10. CASE TypeStep(t)
    <2>1. Locked(t) \/ Call(t) \/ Interrupted(t) \/ Unwind(t) \/ Return(t) \/ Fail(t)
      BY <1>10 DEF TypeStep
    <2> QED
      BY <1>1, <2>1, LockedTypes, CallTypes, InterruptedTypes, UnwindTypes, ReturnTypes, FailTypes
  <1>11. CASE RunCode(t)
    <2>1. UNCHANGED <<types, memo, madeBy, lost, answers, interrupts, held, raising>>
      BY <1>11 DEF RunCode, typeVars, callVars
    <2> QED
      BY <1>1, <2>1, IdleTypes
  <1> QED
    BY <1>2, <1>3, <1>4, <1>5, <1>6, <1>7, <1>8, <1>9, <1>10, <1>11 DEF Step

LEMMA InitTypesRight == Init => TypesInv
  <1> SUFFICES ASSUME Init PROVE TypesInv
    OBVIOUS
  <1>1. /\ types = [x \in {} |-> Undefined] /\ madeBy = [x \in {} |-> NoKey] /\ lost = {}
        /\ memo = [k \in Key |-> Undefined] /\ held = [t \in Thread |-> <<>>] /\ raising = [t \in Thread |-> Calm]
        /\ answers = {} /\ interrupts = 0
    BY DEF Init, InitTypes
  <1>2. DOMAIN types = {} /\ DOMAIN madeBy = {}
    BY <1>1
  <1>3. GraphOK(types)
    BY <1>2, FS_EmptySet DEF GraphOK
  <1>4. Chasable(types)
    <2>1. PICK e : e = [x \in DOMAIN types |-> x]
      OBVIOUS
    <2>2. e \in [DOMAIN types -> DOMAIN types]
      BY <2>1
    <2>3. ASSUME NEW w, Chases(types, w) PROVE w = e
      <3>1. w = [x \in DOMAIN types |->
                   IF IsForward(types, x) /\ types[x].target # Undefined THEN w[types[x].target] ELSE x]
        BY <2>3 DEF Chases
      <3> QED
        BY <1>2, <2>1, <3>1
    <2>4. Chases(types, e)
      BY <1>2, <2>1 DEF Chases
    <2> QED
      BY <1>2, <2>2, <2>3, <2>4 DEF Chasable
  <1>5. WellBooked(types, lost)
    BY <1>1, <1>2 DEF WellBooked, Direct, UsersRefer
  <1>6. \A k \in Key : MemoOK(types, memo, k)
    BY <1>1, <1>2, Names DEF MemoOK
  <1>7. ASSUME NEW t \in Thread
        PROVE  FramesOK(held[t], memo, DOMAIN types, raising[t] = Calm) /\ raising[t] # Interrupt
    BY <1>1 DEF FramesOK, Calm, Interrupt
  <1>8. AnswersOK(answers, memo, DOMAIN types) /\ MadeByOK(madeBy, types, memo)
    BY <1>1, <1>2 DEF AnswersOK, MadeByOK
  <1>9. OpenOK(memo, held, interrupts)
    BY <1>1, Names DEF OpenOK
  <1>10. Settled(types, memo, held, interrupts, answers)
    BY <1>1, <1>3, <1>6, <1>8, <1>9, FreeIsSettled
  <1> QED
    BY <1>3, <1>4, <1>5, <1>6, <1>7, <1>8, <1>9, <1>10 DEF TypesInv

-----------------------------------------------------------------------------
(* The theorems.                                                           *)

\* Whatever threads compile, call and ask for, and however their steps mix, the
\* invariant that the rest follows from holds.
THEOREM RuntimeInvariant == Spec => []RuntimeInv
  <1>1. RuntimeInv /\ [Next]_vars => RuntimeInv'
    <2> SUFFICES ASSUME RuntimeInv, [Next]_vars PROVE RuntimeInv'
      OBVIOUS
    <2>1. ASSUME NEW t \in Thread, Step(t) PROVE RuntimeInv'
      <3>1. CASE AskType(t)       BY <3>1, AskTypeKeeps
      <3>2. CASE Compile(t)       BY <3>2, CompileKeeps
      <3>3. CASE CallMethod(t)    BY <3>3, CallMethodKeeps
      <3>4. CASE CompileMethod(t) BY <3>4, CompileMethodKeeps
      <3>5. CASE UseType(t)       BY <3>5, UseTypeKeeps
      <3>6. CASE LinkSite(t)      BY <3>6, LinkSiteKeeps
      <3>7. CASE AddSlots(t)      BY <3>7, AddSlotsKeep
      <3>8. CASE Compiled(t)      BY <3>8, CompiledKeeps
      <3>9. CASE CompileFails(t)  BY <3>9, CompileFailsKeeps
      <3>10. CASE TypeStep(t)     BY <3>10, TypeStepsKeep
      <3>11. CASE RunCode(t)      BY <3>11, RunCodeKeeps
      <3> QED
        BY <2>1, <3>1, <3>2, <3>3, <3>4, <3>5, <3>6, <3>7, <3>8, <3>9, <3>10, <3>11 DEF Step
    <2>2. CASE UNCHANGED vars
      BY <2>2, StutterKeeps
    <2> QED
      BY <2>1, <2>2 DEF Next, Done
  <1> QED
    BY <1>1, InitRight, PTL DEF Spec

\* Compiled code enters the method of the object's own class, though it loads
\* the table and the slot without the GIL, while tables get slots, arrays are
\* replaced and methods compiled by other threads (class_wrapper.py).
THEOREM CallsAreRight == Spec => []CallsRight
  <1>1. RuntimeInv => CallsRight
    BY DEF RuntimeInv
  <1> QED
    BY <1>1, RuntimeInvariant, PTL

\* The internal checks of the dispatch tables never fire, and when no slot is
\* being added the tables of an interface agree (HeldClassType.hpp).
THEOREM TablesAgree == Spec => []SlotsAgree
  <1>1. RuntimeInv => SlotsAgree
    BY DEF RuntimeInv, TablesInv, SlotsAgree, InOrder, TablesMade, WellMade, Own
  <1> QED
    BY <1>1, RuntimeInvariant, PTL

\* runtimeLock is one thread's, for all its nested calls (runtime_lock.py).
THEOREM LockIsOnes == Spec => []LockProtects
  <1>1. RuntimeInv => LockProtects
    <2> SUFFICES ASSUME RuntimeInv PROVE LockProtects
      OBVIOUS
    <2>1. \A s \in DOMAIN slotOf : slotOf[s] \in DOMAIN tables[<<s[1], s[1]>>].slots
      <3> SUFFICES ASSUME NEW s \in DOMAIN slotOf PROVE slotOf[s] \in DOMAIN tables[<<s[1], s[1]>>].slots
        OBVIOUS
      <3>1. s \in Site /\ Exists(s[1])
        BY DEF RuntimeInv, TablesInv, SitesLinked
      <3>2. s[1] \in Implementors(s[1])
        BY <3>1, ImplementorsOfTables DEF RuntimeInv, TablesInv, Site
      <3> QED
        BY <3>2 DEF RuntimeInv, TablesInv, SitesLinked
    <2>2. TypeOK
      BY <2>1 DEF RuntimeInv, LockInv, TypesRight, StacksRight, TypeOK
    <2> QED
      BY <2>2 DEF RuntimeInv, LockInv, HoldsAlone, LockProtects
  <1> QED
    BY <1>1, RuntimeInvariant, PTL

\* Whatever threads ask for and compile, and wherever an exception strikes, what
\* is known of the keys, the graph of types and the answers holds together.
THEOREM TypesInvariant == Spec => []TypesInv
  <1>1. RuntimeInv /\ TypesInv /\ [Next]_vars => TypesInv'
    <2> SUFFICES ASSUME RuntimeInv, TypesInv, [Next]_vars PROVE TypesInv'
      OBVIOUS
    <2>1. ASSUME NEW t \in Thread, Step(t) PROVE TypesInv'
      BY <2>1, TypesStep
    <2>2. CASE UNCHANGED vars
      <3>1. UNCHANGED <<types, memo, madeBy, lost, answers, interrupts, held, raising>>
        BY <2>2 DEF vars, typeVars, callVars
      <3> QED
        BY <3>1, IdleTypes DEF RuntimeInv
    <2> QED
      BY <2>1, <2>2 DEF Next, Done
  <1> QED
    BY <1>1, InitTypesRight, RuntimeInvariant, PTL DEF Spec

\* All calls with the same arguments agree on the type or on the error, the key
\* of a type gives the type, and who waited for the lock gets nothing that
\* anybody is still completing, however the calls interleave, nest, raise and
\* are interrupted (type_function.py).
THEOREM OneAnswerForAll == Spec => []OneAnswer
  <1>1. LockInv /\ TypesInv => OneAnswer
    <2> SUFFICES ASSUME LockInv, TypesInv PROVE OneAnswer
      OBVIOUS
    <2>1. /\ GraphOK(types) /\ Chasable(types) /\ AnswersOK(answers, memo, DOMAIN types)
               /\ MadeByOK(madeBy, types, memo)
          /\ Settled(types, memo, held, interrupts, answers)
          /\ \A k \in Key : MemoOK(types, memo, k)
      BY DEF TypesInv
    <2>2. DOMAIN types \subseteq TypeName
      BY DEF LockInv, TypesRight
    <2> DEFINE Ends(a) == a = Raised \/ ~UndefinedForward(types, Chased(types, a))
               Agree(a, b) == IF Raised \in {a, b} THEN a = b ELSE Chased(types, a) = Chased(types, b)
    <2>3. ASSUME NEW p \in answers, Ends(p[2])
          PROVE  /\ p[1] \in Key
                 /\ p[2] = Raised => memo[p[1]] = Raised
                 /\ p[2] # Raised => memo[p[1]] \in DOMAIN types /\ memo[p[1]] # Raised
                      /\ Chased(types, p[2]) = Chased(types, memo[p[1]])
      <3>1. PICK k : k = p[1]
        OBVIOUS
      <3>2. PICK a : a = p[2]
        OBVIOUS
      <3>3. PICK f : f = ForwardOf(k)
        OBVIOUS
      <3>4. k \in Key /\ ((a = Raised /\ memo[k] = Raised) \/ (a \in DOMAIN types /\ a \in {f, memo[k]}))
              /\ MemoOK(types, memo, k)
        BY <2>1, <3>1, <3>2, <3>3 DEF AnswersOK
      <3>5. Raised \notin DOMAIN types /\ f # Raised
        BY <2>2, <3>3, Names
      <3>6. CASE a # Raised /\ a = f /\ a # memo[k]
        <4>1. memo[k] # Undefined
          BY <3>3, <3>4, <3>6 DEF MemoOK
        <4>2. UndefinedForward(types, f) => Final(types, f) /\ Chased(types, f) = f
          BY <2>1, <3>4, <3>5, <3>6, ChasedProps DEF UndefinedForward, Final
        <4>3. ~UndefinedForward(types, f)
          BY <2>3, <3>2, <3>6, <4>2 DEF Ends
        <4>4. memo[k] # Raised
          BY <3>3, <3>4, <4>3 DEF MemoOK
        <4> QED
          BY <3>1, <3>2, <3>3, <3>4, <3>6, <4>1, <4>4 DEF MemoOK
      <3>7. CASE a = Raised \/ a = memo[k]
        BY <3>1, <3>2, <3>4, <3>5, <3>7
      <3> QED
        BY <3>4, <3>6, <3>7
    <2>4. ASSUME NEW p \in answers, NEW q \in answers, p[1] = q[1], Ends(p[2]), Ends(q[2]) PROVE Agree(p[2], q[2])
      <3>1. /\ p[2] = Raised => memo[p[1]] = Raised
            /\ p[2] # Raised => memo[p[1]] # Raised /\ Chased(types, p[2]) = Chased(types, memo[p[1]])
        BY <2>3, <2>4
      <3>2. /\ q[2] = Raised => memo[q[1]] = Raised
            /\ q[2] # Raised => memo[q[1]] # Raised /\ Chased(types, q[2]) = Chased(types, memo[q[1]])
        BY <2>3, <2>4
      <3> QED
        BY <2>4, <3>1, <3>2 DEF Agree
    <2>5. \A x \in DOMAIN madeBy : IsForward(types, x) \/ memo[madeBy[x]] = x
      BY <2>1 DEF MadeByOK
    <2>6. LockedIsComplete
      <3> SUFFICES ASSUME NEW p \in answers, p[3] = "locked", p[2] # Raised, NEW k \in Key,
                          ForwardOf(k) \in Incomplete(types, p[2])
                   PROVE  LeftOpen(k)
        BY DEF LockedIsComplete
      <3>1. PICK S \in SUBSET DOMAIN types :
              /\ \A x \in S : Refers(types, x) \subseteq S
              /\ \A j \in Key : ForwardOf(j) \in S /\ UndefinedForward(types, ForwardOf(j)) =>
                   Left(memo, held, interrupts, j)
              /\ \A o \in answers : o[3] = "locked" /\ o[2] # Raised => o[2] \in S
        BY <2>1 DEF Settled
      <3>2. PICK T \in SUBSET DOMAIN types : T = {p[2]}
        BY <2>1, <3>1 DEF AnswersOK
      <3>3. PICK C : C = Closure(types, T, Refers)
        OBVIOUS
      <3>4. ForwardOf(k) \in C /\ UndefinedForward(types, ForwardOf(k))
        BY <3>2, <3>3 DEF Incomplete, UndefinedAmong
      <3>5. C = Hull(Ref(types), T)
        BY <2>1, <3>3, ClosureRefers
      <3>6. C \subseteq S
        <4>1. Ref(types) \in [DOMAIN types -> SUBSET DOMAIN types]
                /\ \A x \in DOMAIN types : Ref(types)[x] = Refers(types, x)
          BY <2>1, StepsOK
        <4>2. T \subseteq S /\ \A x \in S : Ref(types)[x] \subseteq S
          BY <3>1, <3>2, <4>1
        <4> QED
          BY <3>5, <4>1, <4>2, HullIs
      <3>7. Left(memo, held, interrupts, k)
        BY <3>1, <3>4, <3>6
      <3> QED
        BY <3>7 DEF Left, Busy, LeftOpen, InProgress
    <2> HIDE DEF Ends, Agree
    <2> QED
      BY <2>4, <2>5, <2>6 DEF OneAnswer, Ends, Agree
  <1>2. RuntimeInv => LockInv
    BY DEF RuntimeInv
  <1> QED
    BY <1>1, <1>2, RuntimeInvariant, TypesInvariant, PTL

\* Each type has marked the forwards that it refers to and that it contains, and
\* is resolved when there are none: in whatever order types are made and
\* forwards defined, though nothing ever walks the graph (ForwardType.hpp,
\* Type.cpp); but for what uses a forward that became another.
THEOREM ForwardsKnown == Spec => []ForwardsAreKnown
  <1>1. TypesInv => ForwardsAreKnown
    <2> SUFFICES ASSUME TypesInv, NEW x \in DOMAIN types, ~IsForward(types, x),
                        Closure(types, {x}, Refers) \cap lost = {}
                 PROVE  BooksAgree(types, x)
      BY DEF ForwardsAreKnown
    <2>1. GraphOK(types) /\ WellBooked(types, lost)
      BY DEF TypesInv
    <2>2. PICK T \in SUBSET DOMAIN types : T = {x}
      OBVIOUS
    <2>3. Closure(types, T, Refers) = Hull(Ref(types), T)
      BY <2>1, ClosureRefers
    <2>4. Hull(Ref(types), {x}) \cap lost = {}
      BY <2>2, <2>3
    <2>5. Books(types, x)
      BY <2>1, <2>4 DEF WellBooked, Tame
    <2> QED
      BY <2>1, <2>5, BooksAre
  <1> QED
    BY <1>1, TypesInvariant, PTL
=============================================================================
