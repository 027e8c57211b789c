----------------------------- MODULE MCRuntime ------------------------------
\* Programs for the runtime: type functions in cycles, and classes, of which B
\* and C derive from A, made while code that calls methods of A is running.
EXTENDS Runtime, TLC

K(calls, makes) == [calls |-> calls, makes |-> makes]
NoKeys == [k \in Key |-> K(<<>>, "class")]
Type(k) == [op |-> "type", key |-> k]
CompileOf(f) == [op |-> "compile", function |-> f]
CallOf(sig, c, pending) == [op |-> "call", site |-> <<"A", sig>>, class |-> c, pending |-> pending]
F(uses, sigs, raises) == [uses |-> uses, sites |-> [i \in DOMAIN sigs |-> <<"A", sigs[i]>>], raises |-> raises]

Methods == [m \in Class \X Signature |-> F(<<>>, <<>>, FALSE)]
AncestorsOf == [c \in Class |-> {c, "A"}]
Plan(p1, p2, p3) == "t1" :> p1 @@ "t2" :> p2 @@ "t3" :> p3

TypesOnly(bodies, p1, p2, p3) ==
  [body |-> bodies @@ NoKeys, class |-> [k \in Key |-> NoClass], classes |-> {}, code |-> Methods, plan |-> Plan(p1, p2, p3)]

\* x uses y, which uses x.
Cycle == TypesOnly("x" :> K(<<"y", "z">>, "class") @@ "y" :> K(<<"x">>, "class"),
                   <<Type("x"), Type("y")>>, <<Type("y"), Type("x")>>, <<Type("z"), Type("y")>>)
\* Tuples that contain each other are infinite, whichever comes first.
Infinite == TypesOnly("x" :> K(<<"y">>, "tuple") @@ "y" :> K(<<"z">>, "tuple") @@ "z" :> K(<<"x", "y">>, "tuple"),
                      <<Type("x")>>, <<Type("y")>>, <<Type("z"), Type("y")>>)
\* y is made of x's forward, and x then raises: z finds one made, the other not.
Failing == TypesOnly("x" :> K(<<"y">>, "error") @@ "y" :> K(<<"x">>, "tuple") @@ "z" :> K(<<"y", "x">>, "class"),
                     <<Type("x"), Type("z")>>, <<Type("y")>>, <<Type("z")>>)
\* z is made of y's forward, which then becomes x's: only x's type is told.
Alias == TypesOnly("x" :> K(<<"y">>, "class") @@ "y" :> K(<<"z", "x">>, "alias") @@ "z" :> K(<<"y">>, "class"),
                   <<Type("x"), Type("z")>>, <<Type("y")>>, <<Type("z")>>)

\* t1 runs code that calls A's methods; t2 makes B, of A, and compiles code
\* that calls more of them; compiling B's method makes C.
Classes ==
  [body |-> "y" :> K(<<"x">>, "class") @@ NoKeys,
   class |-> [k \in Key |-> CASE k = "x" -> "B" [] k = "y" -> "C" [] OTHER -> NoClass],
   classes |-> {"A"},
   code |-> <<"main">> :> F(<<>>, <<"f">>, FALSE) @@ <<"more">> :> F(<<"x">>, <<"g", "h">>, FALSE)
            @@ <<"A", "f">> :> F(<<>>, <<>>, FALSE) @@ <<"A", "g">> :> F(<<>>, <<"f">>, FALSE)
            @@ <<"B", "f">> :> F(<<"y">>, <<"h">>, FALSE) @@ <<"B", "g">> :> F(<<>>, <<>>, FALSE)
            @@ <<"C", "f">> :> F(<<>>, <<>>, FALSE) @@ <<"C", "g">> :> F(<<>>, <<>>, TRUE) @@ Methods,
   plan |-> Plan(<<CompileOf(<<"main">>), CallOf("f", "A", FALSE), CallOf("f", "B", FALSE)>>,
                 <<CompileOf(<<"more">>), CallOf("g", "B", FALSE), CallOf("f", "B", FALSE)>>,
                 <<Type("y"), CallOf("g", "C", TRUE), CallOf("f", "C", FALSE)>>)]

CyclePrograms == <<Cycle>>
MCPrograms == <<Cycle, Infinite, Failing, Alias, Classes>>
=============================================================================
