------------------------------ MODULE MCSumTypes ------------------------------
(* A program with an enum A { int, str }, an anonymous sum of the same cases   *)
(* that A is copied to and from, an enum W { A, bool, str } that A is nested in, and *)
(* structures P { A v, int n } and Q { str n, P v }.  For the second instance W *)
(* is { A, bool } and there is no structure.                                   *)
EXTENDS SumTypes, TLC

CONSTANTS int, bool, str, A, Anon, W, P, Q, v, n

MCBase == {int, bool, str}
MCSums == {A, Anon, W}

\* "(INT + STR)" < "A" < "BOOL" < "INT" < "P" < "Q" < "STR" < "W"
MCSorted == <<Anon, A, bool, int, str, W>>
MCSortedAll == <<Anon, A, bool, int, P, Q, str, W>>

MCCases == A :> {int, str} @@ Anon :> {int, str} @@ W :> {A, bool, str}
MCNestedCases == A :> {int, str} @@ Anon :> {int, str} @@ W :> {A, bool}

MCDeclares == P :> <<<<v, A>>, <<n, int>>>> @@ Q :> <<<<n, str>>, <<v, P>>>>
MCNoDeclares == <<>>
MCNoPaths == {<<>>}
MCPaths == {<<>>, <<v>>, <<n>>, <<v, v>>, <<v, n>>}
=============================================================================
