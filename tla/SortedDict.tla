----------------------------- MODULE SortedDict -----------------------------
(***************************************************************************)
(* lib/sorted_dict.py: a dictionary in the order of its keys, as a binary  *)
(* tree whose nodes count what is below them and are rebalanced by those   *)
(* counts on the way up from every change.  Keys are numbers, compared by  *)
(* the default comparator.  A node is a record; no node is [count |-> 0].  *)
(***************************************************************************)
EXTENDS Integers, Sequences

LOCAL Ext == INSTANCE SequencesExt

CONSTANTS
  SortedKey,     \* the keys that are set and deleted
  SortedValues,  \* [SortedKey -> the values that a key is set to]
  Starts         \* sequences of keys, set to themselves before that

VARIABLES
  root,     \* _root
  contents  \* the map that the tree stands for

sortedVars == <<root, contents>>

None == [count |-> 0]
Leaf(k, v) == [key |-> k, value |-> v, left |-> None, right |-> None, count |-> 1]

\* Node.first, last, get and in: k, or the key itself, is in the tree.
RECURSIVE FirstIn(_), LastIn(_), NodeAt(_, _)
FirstIn(n) == IF n.left = None THEN n ELSE FirstIn(n.left)
LastIn(n) == IF n.right = None THEN n ELSE LastIn(n.right)
NodeAt(n, k) ==
  IF n = None \/ n.key = k THEN n
  ELSE IF k < n.key THEN NodeAt(n.left, k) ELSE NodeAt(n.right, k)

RECURSIVE Set(_, _, _), RemoveFrom(_, _)

\* Node.rebalance.  A side that is alone gets the node's own entry and takes
\* its place; an outer grandchild that is much heavier than the other three
\* together is rotated up.
MutantRotateRight(n) ==  \* the new node's count forgets the subtree it was given
  [n.left EXCEPT !.right = [n EXCEPT !.left = n.left.right, !.count = 1 + n.right.count],
                 !.count = n.count]
RotateRight(n) ==
  [n.left EXCEPT !.right = [n EXCEPT !.left = n.left.right, !.count = 1 + n.left.right.count + n.right.count],
                 !.count = 1 + n.left.left.count + 1 + n.left.right.count + n.right.count]
RotateLeft(n) ==
  [n.right EXCEPT !.left = [n EXCEPT !.right = n.right.left, !.count = 1 + n.right.left.count + n.left.count],
                  !.count = 1 + n.right.right.count + 1 + n.right.left.count + n.left.count]

Heavy(outer, others) == outer > (3 + others) * 2
Rebalance(n) ==
  CASE n.left = None /\ n.right = None -> n
    [] n.left = None /\ n.right # None -> IF n.right.count <= 2 THEN n ELSE Set(n.right, n.key, n.value)
    [] n.left # None /\ n.right = None -> IF n.left.count <= 2 THEN n ELSE Set(n.left, n.key, n.value)
    [] OTHER ->
         LET ll == n.left.left.count   lr == n.left.right.count
             rl == n.right.left.count  rr == n.right.right.count
         IN  IF Heavy(ll, lr + rl + rr) THEN RotateRight(n)
             ELSE IF Heavy(rr, rl + lr + ll) THEN RotateLeft(n)
             ELSE n

\* Node.set, which says whether the key is new; a node given its first child on
\* a side is not rebalanced.
Set(n, k, v) ==
  LET Grown(old, new, with) == IF new.count # old.count THEN Rebalance([with EXCEPT !.count = @ + 1]) ELSE with
  IN  IF n.key = k THEN [n EXCEPT !.value = v]
      ELSE IF k < n.key
        THEN IF n.left = None THEN [n EXCEPT !.left = Leaf(k, v), !.count = @ + 1]
             ELSE LET new == Set(n.left, k, v) IN Grown(n.left, new, [n EXCEPT !.left = new])
        ELSE IF n.right = None THEN [n EXCEPT !.right = Leaf(k, v), !.count = @ + 1]
             ELSE LET new == Set(n.right, k, v) IN Grown(n.right, new, [n EXCEPT !.right = new])

\* Node.remove, of a key that is there: none if the node is to go.  A node with
\* both children takes the nearest entry of the heavier side, of the right one
\* if they weigh the same.
Shrunk(n) == Rebalance([n EXCEPT !.count = @ - 1])
RemoveFrom(n, k) ==
  IF k < n.key THEN Shrunk([n EXCEPT !.left = RemoveFrom(n.left, k)])
  ELSE IF n.key < k THEN Shrunk([n EXCEPT !.right = RemoveFrom(n.right, k)])
  ELSE IF n.count = 1 THEN None
  ELSE IF n.right = None THEN n.left
  ELSE IF n.left = None THEN n.right
  ELSE IF n.right.count < n.left.count
    THEN LET e == LastIn(n.left)
         IN  Shrunk([n EXCEPT !.key = e.key, !.value = e.value, !.left = RemoveFrom(n.left, e.key)])
  ELSE LET e == FirstIn(n.right)
       IN  Shrunk([n EXCEPT !.key = e.key, !.value = e.value, !.right = RemoveFrom(n.right, e.key)])

\* SortedDict.items: what is left of a node, the node, what is right of it.
RECURSIVE Items(_)
Items(n) == IF n = None THEN <<>> ELSE Items(n.left) \o <<<<n.key, n.value>>>> \o Items(n.right)

-----------------------------------------------------------------------------
SetRoot(n, k, v) == IF n = None THEN Leaf(k, v) ELSE Set(n, k, v)
SetSorted(k, v) ==
  /\ root' = SetRoot(root, k, v)
  /\ contents' = [x \in DOMAIN contents \cup {k} |-> IF x = k THEN v ELSE contents[x]]

\* __delitem__ and pop; without the key they raise KeyError or return the
\* default, and change nothing.
DeleteSorted(k) ==
  /\ root # None /\ NodeAt(root, k) # None
  /\ root' = RemoveFrom(root, k)
  /\ contents' = [x \in DOMAIN contents \ {k} |-> contents[x]]

InitSorted ==
  \E keys \in Starts :
    /\ root = Ext!FoldLeft(LAMBDA n, k : SetRoot(n, k, k), None, keys)
    /\ contents = [k \in Ext!ToSet(keys) |-> k]
NextSorted == \E k \in SortedKey : DeleteSorted(k) \/ \E v \in SortedValues[k] : SetSorted(k, v)

-----------------------------------------------------------------------------
\* Node._checkInvariants: each node counts itself and what is below it.
RECURSIVE Counted(_)
Counted(n) == n = None \/ (n.count = 1 + n.left.count + n.right.count /\ Counted(n.left) /\ Counted(n.right))

\* Whatever is set and deleted in whatever order, and however the tree is
\* rotated for it, len, look-ups and iteration are those of a map in the order
\* of its keys.
SortedActsAsMap ==
  LET items == Items(root)
  IN  /\ Counted(root)
      /\ \A i, j \in DOMAIN items : i < j => items[i][1] < items[j][1]
      /\ {items[i] : i \in DOMAIN items} = {<<k, contents[k]>> : k \in DOMAIN contents}
      /\ \A k \in SortedKey \cup DOMAIN contents :
           LET n == NodeAt(root, k)
           IN  IF k \in DOMAIN contents THEN n # None /\ n.value = contents[k] ELSE n = None
=============================================================================
