------------------------------- MODULE MCPmap -------------------------------
(* Bounded instance of pmap for TLC: the calls of two threads nest in several *)
(* ways, in batches of one or two, with items that raise in different places. *)
EXTENDS Pmap

CONSTANTS alice, bob

Run(works, grains, roots) == [work |-> works, grain |-> grains, start |-> [c \in Caller |-> IF c = alice THEN roots[1] ELSE roots[2]]]

\* Two calls within one, of which one raises; three within each other; two
\* callers, one of which nests.  A list may be empty.
TwoInOne   == Run(<<<<>>, <<Ok, Raise>>, <<Ok, Ok>>, <<3, 2>>>>, <<1, 1, 1, 1>>, <<4, 1>>)
Nested     == Run(<<<<Ok>>, <<Ok, Ok, Ok>>, <<2>>, <<3, Raise, Ok>>>>, <<1, 2, 1, 2>>, <<4, 1>>)
TwoCallers == Run(<<<<>>, <<Ok, Ok>>, <<Ok, Raise, Raise>>, <<2, 1>>>>, <<1, 1, 2, 1>>, <<4, 3>>)
Runs == {TwoInOne, Nested, TwoCallers}
=============================================================================
