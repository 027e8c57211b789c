---------------------------- MODULE MCConverter ----------------------------
(* Bounded instances of the converter for TLC. *)
EXTENDS Converter

CONSTANTS main, helper, leaf, int, str

\* "return i()", "return o(i())", and "return o(i())" where o is one function
\* when i returns an int, and another for anything else.
Plain(i) == [inner |-> i, outer |-> [t \in Types |-> NoFn]]
Nested(o, i) == [inner |-> i, outer |-> [t \in Types |-> o]]
Picked(o, p, i) == [inner |-> i, outer |-> [t \in Types |-> IF t = {int} THEN o ELSE p]]

Bodies(kinds, returns, calls) == [kind : kinds, returns : returns, calls : calls]
Program(b, c, d) == [x \in Fn |-> CASE x = main -> b [] x = helper -> c [] x = leaf -> d]
Choose(B, C, D) == {Program(b, c, d) : b \in B, c \in C, d \in D}
Cold(programs, mayRaise) == {[body |-> b, store |-> [x \in {} |-> {}], faults |-> mayRaise] : b \in programs}

\* Every way three functions can call each other; the third may be native.
AnyCalls == SUBSET {Plain(x) : x \in Fn}
Web == Choose(Bodies({"inferred"}, {{}}, AnyCalls), Bodies({"inferred"}, {{}, {int}}, AnyCalls),
                    Bodies({"inferred", "native"}, {{str}}, AnyCalls))

\* Calls within calls, also such that the type of the one picks the other.
OneCall(Inner) == {{s} : s \in {Nested(x, y) : x \in Fn, y \in Inner} \cup {Picked(helper, leaf, y) : y \in Inner}}
Chains == Choose(Bodies({"inferred"}, {{}}, OneCall({helper, leaf})), Bodies({"inferred", "declared"}, {{int}}, OneCall(Fn)),
                       Bodies({"inferred"}, {{str}}, OneCall(Fn)))

\* main calls helper and leaf, helper calls leaf, and leaf, which is native,
\* calls main or nothing.  The cache holds nothing, leaf, or leaf and helper.
Ladder(calls) == Program([kind |-> "inferred", returns |-> {int}, calls |-> {Plain(helper), Plain(leaf)}],
                         [kind |-> "inferred", returns |-> {}, calls |-> {Plain(leaf)}],
                         [kind |-> "native", returns |-> {str}, calls |-> calls])
Warm(mayRaise) == {[body |-> Ladder({}), store |-> [x \in S |-> {str}], faults |-> mayRaise] : S \in {{leaf}, {helper, leaf}}}
                  \cup Cold({Ladder({}), Ladder({Plain(main)})}, mayRaise)

\* Every program without faults, and a few with any.
AllScenarios == Cold(Web \cup Chains, {}) \cup Warm(Faults)

\* Only a parser that raises.
Unparsable == Warm({"ast"})
=============================================================================
