--------------------------- MODULE MCTypeInference ---------------------------
(* Instances of TypeInference for TLC.                                        *)
EXTENDS TypeInference, TLC

CONSTANTS int, str, sum

\* Base types are subtypes of themselves only.
MCBaseTypes   == {int, str}
MCBaseSubtype == {<<int, int>>, <<str, str>>}

\* sum is INT + STR: a supertype of both cases (TypeSum::isSupertypeFor).
MCSumTypes   == {int, str, sum}
MCSumSubtype == {<<int, int>>, <<str, str>>, <<sum, sum>>, <<int, sum>>, <<str, sum>>}

\* Names and addresses are interchangeable, and so are the base types.
Symmetric == Permutations(Cells) \union Permutations(Names)
               \union Permutations(MCBaseTypes)
=============================================================================
