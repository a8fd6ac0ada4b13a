-------------------------- MODULE MCSemanticVisitor --------------------------
(* Two functions, of which one is declared ahead while the other is visited; a    *)
(* global before a function; and a unit that declares its names again.           *)
EXTENDS SemanticVisitor

CONSTANTS f, x, int, arr

MCNames == {f, x}

Proc(n, ps) == [name |-> n, params |-> ps, returns |-> FALSE]
Func(n, ps) == [name |-> n, params |-> ps, returns |-> TRUE]
Def(h)      == [kind |-> "func", heading |-> h]

MCHeadings    == {Proc(x, <<>>), Func(f, <<x>>)}
MCDeclarators == {<<x>>, <<x, x>>}

Unit(ds, es, ss) == [defs |-> ds, extens |-> es, stmts |-> ss]

MCUnits == {Unit(<<>>, <<>>, <<Def(Proc(x, <<>>)), Def(Func(f, <<>>))>>),
            Unit(<<>>, <<>>, <<[kind |-> "var"], Def(Proc(f, <<>>))>>),
            Unit(<<f>>, <<Func(f, <<x, x>>)>>, <<[kind |-> "var"]>>)}
=============================================================================
