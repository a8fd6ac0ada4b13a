----------------------------- MODULE MCSTManager -----------------------------
(* Instances of STManager for TLC.  The three kinds of symbol are the ones    *)
(* the semantic pass creates: locals and parameters, globals, definitions.    *)
EXTENDS STManager

MCFlags == {[isDefinition |-> FALSE, isGlobal |-> FALSE],
            [isDefinition |-> FALSE, isGlobal |-> TRUE],
            [isDefinition |-> TRUE,  isGlobal |-> FALSE]}
=============================================================================
