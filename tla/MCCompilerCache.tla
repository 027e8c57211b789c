-------------------------- MODULE MCCompilerCache --------------------------
EXTENDS CompilerCache
CONSTANTS f, g, k, j, fd, gd, old, new

Callees == (f :> {}) @@ (g :> {f}) @@ (k :> {f}) @@ (j :> {f, k}) @@ (fd :> {f}) @@ (gd :> {g})
Program(valid, entries, dispatch, modules) ==
  [valid |-> valid, entries |-> entries, dispatch |-> dispatch, modules |-> modules]
Everywhere == [n \in Name |-> {old}]
OnlyOld == [n \in Name |-> IF n = g THEN {old} ELSE Version]
Direct == [n \in Name |-> NoName]
Dispatched == [Direct EXCEPT ![f] = fd, ![g] = gd]

\* Functions of one version of the source, called through their entry points;
\* methods of classes, called directly, of which g is gone in the new version.
Programs == {Program(Everywhere, {f, g}, Dispatched, 3), Program(OnlyOld, {g, k}, Direct, 3),
             Program(OnlyOld, {g, k, j}, Direct, 2)}

Symmetry == Permutations(Proc)
=============================================================================
