---------------------------- MODULE TypeInference ----------------------------
(***************************************************************************)
(* Type inference for `var` declarations: the TypeInfer objects of         *)
(* src/src/symbol/include/Type.h (cells here), driven by the statements of *)
(* the semantic pass that compare types (SemanticVisitor.cpp).             *)
(*                                                                         *)
(* A comparison a->isSubtype(b) in which a cell takes part has side        *)
(* effects: it gives the cell a type, gives that type to every cell it     *)
(* depends on, or makes two cells depend on each other.  Types themselves  *)
(* are opaque; Subtype is what isSubtype answers for two of them.          *)
(***************************************************************************)
EXTENDS Integers

CONSTANTS Names,    \* declared variables of one scope
          Cells,    \* addresses of TypeInfer objects (bounds how many are made)
          Types,    \* types an expression can have that are not TypeInfer
          Subtype,  \* <<a, b>> \in Subtype: a->isSubtype(b)
          None      \* no type inferred; not declared

ASSUME SubtypeAssumption == Subtype \subseteq Types \X Types
ASSUME NoneAssumption == None \notin Types \union Cells
ASSUME CellsAssumption == Cells \intersect Types = {}

VARIABLES value,      \* TypeInfer::valueType of each cell
          links,      \* TypeInfer::infTypes of each cell
          made,       \* cells allocated so far
          typeOf,     \* Symbol::type of each name
          accepted,   \* no error was reported
          done,       \* the scope was left
          demands     \* history: comparisons <<a, b>> of cells answered true

vars == <<value, links, made, typeOf, accepted, done, demands>>

Init == /\ value = [c \in Cells |-> None]
        /\ links = [c \in Cells |-> {}]
        /\ made = {}
        /\ typeOf = [x \in Names |-> None]
        /\ accepted = TRUE
        /\ done = FALSE
        /\ demands = {}

-----------------------------------------------------------------------------
(* The comparison.  Each operator returns the heap after the call and the    *)
(* boolean the call returns.                                                  *)

Answer(ok) == [value |-> value, links |-> links, ok |-> ok]

\* The cells a value spreads to: those reached through links of cells that have
\* no value when they are reached.
Spreads(S) == \A d \in S : \A e \in links[d] : value[e] = None => e \in S
Reach(c) == {d \in Cells : \A S \in SUBSET Cells : c \in S /\ Spreads(S) => d \in S}

\* Every cell along the way takes the type, also when one further on objects.
\* Links go both ways, so a cell set by a neighbour is compared with it again
\* on the way back; that comparison is the one counted here for both.
setValue(c, t) ==
  LET after == [d \in Cells |-> IF d \in Reach(c) THEN t ELSE value[d]]
  IN  [value |-> after,
       links |-> links,
       ok    |-> \A d \in Reach(c) : \A e \in links[d] : <<t, after[e]>> \in Subtype]

\* Mutant: only the first of the two cells knows of the other.
link_OneWay(c, d) ==
  [value |-> value, links |-> [links EXCEPT ![c] = @ \union {d}], ok |-> TRUE]

link(c, d) ==
  [value |-> value,
   links |-> [e \in Cells |-> links[e] \union (IF e = c THEN {d} ELSE {})
                                       \union (IF e = d THEN {c} ELSE {})],
   ok    |-> TRUE]

\* Mutants: another cell is taken for a type; a new type replaces the first.
inferSupertypeFor_TakesCells(c, r) ==
  IF value[c] # None THEN Answer(<<r, value[c]>> \in Subtype) ELSE setValue(c, r)

inferSupertypeFor_Again(c, r) ==
  IF r \in Types THEN setValue(c, r)
  ELSE IF value[r] # None THEN setValue(c, value[r]) ELSE link(c, r)

\* TypeInfer::isSupertypeFor.  A cell that is asked about a cell passes the
\* question on to the other one.
inferSupertypeFor(c, r) ==
  CASE value[c] # None /\ r \in Types ->
         Answer(<<r, value[c]>> \in Subtype)
    [] value[c] # None /\ r \in Cells /\ value[r] # None ->
         Answer(<<value[c], value[r]>> \in Subtype)
    [] value[c] # None /\ r \in Cells /\ value[r] = None ->
         setValue(r, value[c])
    [] value[c] = None /\ r \in Types ->
         setValue(c, r)
    [] value[c] = None /\ r \in Cells /\ value[r] # None ->
         setValue(c, value[r])
    [] value[c] = None /\ r \in Cells /\ value[r] = None ->
         link(c, r)

isSubtype(a, b) ==
  IF a \in Cells THEN inferSupertypeFor(a, b)
  ELSE IF b \in Cells THEN inferSupertypeFor(b, a)
  ELSE Answer(<<a, b>> \in Subtype)

\* A comparison as the semantic pass makes it: an error unless it holds.
Require(a, b) ==
  LET r == isSubtype(a, b)
  IN  /\ value' = r.value
      /\ links' = r.links
      /\ accepted' = (accepted /\ r.ok)
      /\ demands' = IF r.ok /\ (a \in Cells \/ b \in Cells)
                      THEN demands \union {<<a, b>>} ELSE demands

-----------------------------------------------------------------------------
Declared == {x \in Names : typeOf[x] # None}

\* Types of expressions: constants and calls, and the variables in scope.
Expressions == Types \union {typeOf[x] : x \in Declared}

\* var x;
declareVar(x, c) ==
  /\ ~ done /\ typeOf[x] = None /\ c \notin made
  /\ typeOf' = [typeOf EXCEPT ![x] = c]
  /\ made' = made \union {c}
  /\ UNCHANGED <<value, links, accepted, done, demands>>

\* var x <- e;  The expression is compared with a cell of its own, but the
\* symbol is given the type of the expression: a cell, when e is a var.
declareVarAs(x, c, r) ==
  /\ ~ done /\ typeOf[x] = None /\ c \notin made
  /\ Require(r, c)
  /\ typeOf' = [typeOf EXCEPT ![x] = r]
  /\ made' = made \union {c}
  /\ UNCHANGED done

\* t x <- e;
declareTyped(x, t, r) ==
  /\ ~ done /\ typeOf[x] = None
  /\ Require(r, t)
  /\ typeOf' = [typeOf EXCEPT ![x] = t]
  /\ UNCHANGED <<made, done>>

\* x <- e;
assign(x, r) ==
  /\ ~ done /\ typeOf[x] # None
  /\ Require(r, typeOf[x])
  /\ UNCHANGED <<made, typeOf, done>>

\* x as an operand, condition, argument or returned value, where t is expected.
use(x, t) ==
  /\ ~ done /\ typeOf[x] # None
  /\ Require(typeOf[x], t)
  /\ UNCHANGED <<made, typeOf, done>>

\* Mutant: a scope is left without looking at its variables.
exitScope_Unchecked ==
  /\ ~ done
  /\ done' = TRUE
  /\ UNCHANGED <<value, links, made, typeOf, accepted, demands>>

\* safeExitScope: no variable may leave its scope without a type.
exitScope ==
  /\ ~ done
  /\ done' = TRUE
  /\ accepted' = (accepted /\ \A x \in Declared :
                                typeOf[x] \in Cells => value[typeOf[x]] # None)
  /\ UNCHANGED <<value, links, made, typeOf, demands>>

Next == \/ \E x \in Names, c \in Cells :
              declareVar(x, c) \/ \E r \in Expressions : declareVarAs(x, c, r)
        \/ \E x \in Names, r \in Expressions :
              assign(x, r) \/ \E t \in Types : declareTyped(x, t, r)
        \/ \E x \in Names, t \in Types : use(x, t)
        \/ exitScope

Spec == Init /\ [][Next]_vars

-----------------------------------------------------------------------------
Refs == Types \union Cells

TypeOK == /\ value \in [Cells -> Types \union {None}]
          /\ links \in [Cells -> SUBSET Cells]
          /\ made \subseteq Cells
          /\ typeOf \in [Names -> Refs \union {None}]
          /\ accepted \in BOOLEAN
          /\ done \in BOOLEAN
          /\ demands \subseteq Refs \X Refs

\* Cells that depend on each other are inferred together: both have no type, or
\* both have the same one.  A link is never made from an inferred cell, and a
\* type given to a cell reaches every cell linked to it, however indirectly.
LinksAgree ==
  \A c \in Cells : \A d \in links[c] : c \in links[d] /\ value[c] = value[d]

\* Cells that were not allocated are untouched.
FreshCells ==
  \A c \in Cells \ made : /\ value[c] = None
                          /\ links[c] = {}
                          /\ \A d \in Cells : c \notin links[d]

\* The type a variable was inferred to have never changes: what was checked
\* against it stays checked.
InferredOnce ==
  [][\A c \in Cells : value[c] # None => value'[c] = value[c]]_vars

Now(r) == IF r \in Cells THEN value[r] ELSE r

\* Every comparison that was answered true still holds of the types inferred
\* since, and in an accepted program every one of them is between known types:
\* a variable that was used before its type was known has a type that fits all
\* of its uses and all that was assigned to it, through any chain of variables.
FlowsHold ==
  accepted =>
    \A d \in demands :
       LET a == Now(d[1])
           b == Now(d[2])
       IN  IF a # None /\ b # None THEN <<a, b>> \in Subtype
                                   ELSE a = None /\ b = None /\ ~ done

\* "If we already have an inferred type, we can simply check if that type is a
\* subtype of other" (Type.h:626): a variable accepted where t is expected has a
\* type that is a subtype of t.
UsesAreSubtypes ==
  accepted =>
    \A c \in Cells, t \in Types :
       <<c, t>> \in demands /\ value[c] # None => <<value[c], t>> \in Subtype
=============================================================================
