------------------------------- MODULE MCNaming -------------------------------
(* A global, an extern or another function beside program(), and nested functions *)
(* with the names of all of them.                                                 *)
EXTENDS Naming

CONSTANTS p, x

MCNames == {p, x}

Proc(n, ps) == [name |-> n, params |-> ps, returns |-> FALSE]
Func(n, ps) == [name |-> n, params |-> ps, returns |-> TRUE]
Def(h)      == [kind |-> "func", heading |-> h]
Unit(es, ss) == [defs |-> <<>>, extens |-> es, stmts |-> ss]

MCHeadings    == {Func(p, <<>>), Func(x, <<x>>)}
MCDeclarators == {<<x>>}

MCUnits == {Unit(<<Proc(x, <<>>)>>, <<Def(Func(p, <<>>))>>),
            Unit(<<>>, <<[kind |-> "var"], Def(Func(p, <<>>))>>),
            Unit(<<>>, <<Def(Func(p, <<>>)), [kind |-> "var"]>>),
            Unit(<<>>, <<Def(Func(p, <<>>)), Def(Proc(x, <<x>>))>>)}
=============================================================================
