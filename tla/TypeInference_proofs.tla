------------------------ MODULE TypeInference_proofs ------------------------
(* Proofs about type inference, for every set of variables, every number of   *)
(* TypeInfer objects and every set of types.                                  *)
EXTENDS TypeInference, TLAPS

-----------------------------------------------------------------------------
(* What setValue reaches.                                                     *)

\* What a cell spreads to: itself, and whatever is reached keeps spreading.
LEMMA ReachFacts ==
  ASSUME links \in [Cells -> SUBSET Cells], NEW c \in Cells
  PROVE  c \in Reach(c) /\ Reach(c) \subseteq Cells /\ Spreads(Reach(c))
<1>1. c \in Reach(c) /\ Reach(c) \subseteq Cells
  BY DEF Reach
<1>2. ASSUME NEW d \in Reach(c), NEW e \in links[d], value[e] = None
      PROVE  e \in Reach(c)
  <2>1. d \in Cells /\ e \in Cells
    BY <1>1, <1>2
  <2>2. ASSUME NEW S \in SUBSET Cells, c \in S, Spreads(S)
        PROVE  e \in S
    <3>1. d \in S
      BY <2>2, <1>2 DEF Reach
    <3>. QED BY <1>2, <2>2, <3>1 DEF Spreads
  <2>. QED BY <2>1, <2>2 DEF Reach
<1>. QED BY <1>1, <1>2 DEF Spreads

\* When linked cells agree, all that a cell without a type spreads to has none,
\* and no link leads out of it or into it.
LEMMA ReachUninferred ==
  ASSUME links \in [Cells -> SUBSET Cells], LinksAgree,
         NEW c \in Cells, value[c] = None
  PROVE  /\ \A d \in Reach(c) : value[d] = None
         /\ \A d \in Cells : \A e \in links[d] : d \in Reach(c) <=> e \in Reach(c)
<1>2. \A d \in Reach(c) : value[d] = None
  <2> DEFINE U == {d \in Cells : value[d] = None}
  <2>1. U \in SUBSET Cells /\ c \in U
    OBVIOUS
  <2>2. Spreads(U)
    BY DEF Spreads
  <2> HIDE DEF U
  <2>3. \A d \in Reach(c) : d \in U
    BY <2>1, <2>2 DEF Reach
  <2>. QED BY <2>3 DEF U
<1>3. ASSUME NEW d \in Cells, NEW e \in links[d]
      PROVE  d \in Reach(c) <=> e \in Reach(c)
  <2>1. e \in Cells /\ d \in links[e] /\ value[d] = value[e]
    BY DEF LinksAgree
  <2>2. Spreads(Reach(c))
    BY ReachFacts
  <2>3. d \in Reach(c) => e \in Reach(c)
    BY <1>2, <2>1, <2>2 DEF Spreads
  <2>4. e \in Reach(c) => d \in Reach(c)
    BY <1>2, <2>1, <2>2 DEF Spreads
  <2>. QED BY <2>3, <2>4
<1>. QED BY <1>2, <1>3

-----------------------------------------------------------------------------
(* What a comparison leaves behind.                                           *)

\* The heap r is a good successor of the present one.
Keeps(r) ==
  /\ r.value \in [Cells -> Types \union {None}]
  /\ r.links \in [Cells -> SUBSET Cells]
  /\ \A c \in Cells : \A d \in r.links[c] : c \in r.links[d] /\ r.value[c] = r.value[d]
  /\ \A c \in Cells : value[c] # None => r.value[c] = value[c]
  /\ \A c \in Cells : links[c] \subseteq r.links[c]

Good == /\ value \in [Cells -> Types \union {None}]
        /\ links \in [Cells -> SUBSET Cells]
        /\ LinksAgree

LEMMA AnswerKeeps ==
  ASSUME Good, NEW ok
  PROVE  Keeps(Answer(ok))
BY DEF Good, Keeps, Answer, LinksAgree

LEMMA SetValueKeeps ==
  ASSUME Good, NEW c \in Cells, value[c] = None, NEW t \in Types
  PROVE  Keeps(setValue(c, t))
<1> DEFINE after == [d \in Cells |-> IF d \in Reach(c) THEN t ELSE value[d]]
<1>1. setValue(c, t).value = after /\ setValue(c, t).links = links
  BY DEF setValue
<1>2. after \in [Cells -> Types \union {None}]
  BY DEF Good
<1>3. \A d \in Cells : value[d] # None => after[d] = value[d]
  BY ReachUninferred DEF Good
<1>4. ASSUME NEW d \in Cells, NEW e \in links[d]
      PROVE  d \in links[e] /\ after[d] = after[e]
  <2>1. e \in Cells /\ d \in links[e] /\ value[d] = value[e]
    BY DEF Good, LinksAgree
  <2>2. d \in Reach(c) <=> e \in Reach(c)
    BY ReachUninferred DEF Good
  <2>. QED BY <2>1, <2>2
<1> HIDE DEF after
<1>. QED BY <1>1, <1>2, <1>3, <1>4 DEF Keeps, Good

LEMMA LinkKeeps ==
  ASSUME Good, NEW c \in Cells, NEW d \in Cells, value[c] = None, value[d] = None
  PROVE  Keeps(link(c, d))
<1> DEFINE new == [e \in Cells |-> links[e] \union (IF e = c THEN {d} ELSE {})
                                            \union (IF e = d THEN {c} ELSE {})]
<1>1. link(c, d).value = value /\ link(c, d).links = new
  BY DEF link
<1>2. new \in [Cells -> SUBSET Cells]
  BY DEF Good
<1>3. ASSUME NEW e \in Cells, NEW f \in new[e]
      PROVE  e \in new[f] /\ value[e] = value[f]
  <2>1. f \in links[e] \/ (e = c /\ f = d) \/ (e = d /\ f = c)
    OBVIOUS
  <2>2. CASE f \in links[e]
    BY <2>2 DEF Good, LinksAgree
  <2>3. CASE (e = c /\ f = d) \/ (e = d /\ f = c)
    BY <2>3
  <2>. QED BY <2>1, <2>2, <2>3
<1>4. \A e \in Cells : links[e] \subseteq new[e]
  OBVIOUS
<1> HIDE DEF new
<1>. QED BY <1>1, <1>2, <1>3, <1>4 DEF Keeps, Good

\* Whatever is compared, the heap stays good and nothing inferred is changed.
LEMMA InferKeeps ==
  ASSUME Good, NEW c \in Cells, NEW r \in Refs
  PROVE  Keeps(inferSupertypeFor(c, r))
<1> USE NoneAssumption, CellsAssumption DEF Refs
<1>0. value[c] \in Types \union {None} /\ (r \in Cells => value[r] \in Types \union {None})
  BY DEF Good
<1>1. CASE value[c] # None /\ r \in Types
  BY <1>1, AnswerKeeps DEF inferSupertypeFor
<1>2. CASE value[c] # None /\ r \in Cells /\ value[r] # None
  BY <1>2, AnswerKeeps DEF inferSupertypeFor
<1>3. CASE value[c] # None /\ r \in Cells /\ value[r] = None
  BY <1>0, <1>3, SetValueKeeps DEF inferSupertypeFor
<1>4. CASE value[c] = None /\ r \in Types
  BY <1>4, SetValueKeeps DEF inferSupertypeFor
<1>5. CASE value[c] = None /\ r \in Cells /\ value[r] # None
  BY <1>0, <1>5, SetValueKeeps DEF inferSupertypeFor
<1>6. CASE value[c] = None /\ r \in Cells /\ value[r] = None
  BY <1>6, LinkKeeps DEF inferSupertypeFor
<1>. QED BY <1>1, <1>2, <1>3, <1>4, <1>5, <1>6

LEMMA SubtypeKeeps ==
  ASSUME Good, NEW a \in Refs, NEW b \in Refs
  PROVE  Keeps(isSubtype(a, b))
<1>1. CASE a \in Cells
  BY <1>1, InferKeeps DEF isSubtype
<1>2. CASE a \notin Cells /\ b \in Cells
  BY <1>2, InferKeeps DEF isSubtype
<1>3. CASE a \notin Cells /\ b \notin Cells
  BY <1>3, AnswerKeeps DEF isSubtype
<1>. QED BY <1>1, <1>2, <1>3

LEMMA ExpressionsTyped ==
  ASSUME TypeOK
  PROVE  Expressions \subseteq Refs
BY DEF TypeOK, Expressions, Declared, Refs

\* A step leaves the heap good, and the types inferred so far as they were.
HeapStep == /\ Good'
            /\ \A c \in Cells : value[c] # None => value'[c] = value[c]
            /\ \A c \in Cells : links[c] \subseteq links'[c]

LEMMA RequireKeeps ==
  ASSUME TypeOK, LinksAgree, NEW a \in Refs, NEW b \in Refs, Require(a, b)
  PROVE  /\ HeapStep
         /\ accepted' \in BOOLEAN
         /\ demands' \subseteq Refs \X Refs
<1>1. Keeps(isSubtype(a, b))
  BY SubtypeKeeps DEF TypeOK, Good
<1>2. value' = isSubtype(a, b).value /\ links' = isSubtype(a, b).links
  BY DEF Require
<1>3. HeapStep
  BY <1>1, <1>2 DEF Keeps, HeapStep, Good, LinksAgree
<1>4. accepted' \in BOOLEAN
  BY Zenon DEF Require
<1>5. demands' \subseteq Refs \X Refs
  <2>1. demands' = demands \union {<<a, b>>} \/ demands' = demands
    BY Zenon DEF Require
  <2>. QED BY <2>1 DEF TypeOK
<1>. QED BY <1>3, <1>4, <1>5

LEMMA UnchangedHeap ==
  ASSUME TypeOK, LinksAgree, UNCHANGED <<value, links>>
  PROVE  HeapStep
BY DEF TypeOK, HeapStep, Good, LinksAgree

LEMMA StepKeeps ==
  ASSUME TypeOK, LinksAgree, [Next]_vars
  PROVE  TypeOK' /\ HeapStep
<1> USE ExpressionsTyped
<1>1. ASSUME NEW x \in Names, NEW c \in Cells, declareVar(x, c)
      PROVE  TypeOK' /\ HeapStep
  <2>1. HeapStep
    BY <1>1, UnchangedHeap DEF declareVar
  <2>2. typeOf' \in [Names -> Refs \union {None}] /\ made' \subseteq Cells
    BY <1>1 DEF declareVar, TypeOK, Refs
  <2>. QED BY <1>1, <2>1, <2>2 DEF declareVar, TypeOK, HeapStep, Good
<1>2. ASSUME NEW x \in Names, NEW c \in Cells, NEW r \in Expressions,
             declareVarAs(x, c, r)
      PROVE  TypeOK' /\ HeapStep
  <2>1. r \in Refs /\ c \in Refs /\ Require(r, c)
    BY <1>2 DEF declareVarAs, Refs
  <2>2. HeapStep /\ accepted' \in BOOLEAN /\ demands' \subseteq Refs \X Refs
    BY <2>1, RequireKeeps
  <2>3. typeOf' \in [Names -> Refs \union {None}] /\ made' \subseteq Cells
    BY <1>2, <2>1 DEF declareVarAs, TypeOK
  <2>4. done' \in BOOLEAN
    BY <1>2 DEF declareVarAs, TypeOK
  <2>. QED BY <2>2, <2>3, <2>4 DEF TypeOK, HeapStep, Good
<1>3. ASSUME NEW x \in Names, NEW r \in Expressions, assign(x, r)
      PROVE  TypeOK' /\ HeapStep
  <2>1. r \in Refs /\ typeOf[x] \in Refs /\ Require(r, typeOf[x])
    BY <1>3 DEF assign, TypeOK
  <2>2. HeapStep /\ accepted' \in BOOLEAN /\ demands' \subseteq Refs \X Refs
    BY <2>1, RequireKeeps
  <2>. QED BY <1>3, <2>2 DEF assign, TypeOK, HeapStep, Good
<1>4. ASSUME NEW x \in Names, NEW r \in Expressions, NEW t \in Types,
             declareTyped(x, t, r)
      PROVE  TypeOK' /\ HeapStep
  <2>1. r \in Refs /\ t \in Refs /\ Require(r, t)
    BY <1>4 DEF declareTyped, Refs
  <2>2. HeapStep /\ accepted' \in BOOLEAN /\ demands' \subseteq Refs \X Refs
    BY <2>1, RequireKeeps
  <2>3. typeOf' \in [Names -> Refs \union {None}]
    BY <1>4, <2>1 DEF declareTyped, TypeOK
  <2>. QED BY <1>4, <2>2, <2>3 DEF declareTyped, TypeOK, HeapStep, Good
<1>5. ASSUME NEW x \in Names, NEW t \in Types, use(x, t)
      PROVE  TypeOK' /\ HeapStep
  <2>1. typeOf[x] \in Refs /\ t \in Refs /\ Require(typeOf[x], t)
    BY <1>5 DEF use, TypeOK, Refs
  <2>2. HeapStep /\ accepted' \in BOOLEAN /\ demands' \subseteq Refs \X Refs
    BY <2>1, RequireKeeps
  <2>. QED BY <1>5, <2>2 DEF use, TypeOK, HeapStep, Good
<1>6. ASSUME exitScope
      PROVE  TypeOK' /\ HeapStep
  <2>1. HeapStep
    BY <1>6, UnchangedHeap DEF exitScope
  <2>2. accepted' \in BOOLEAN
    BY <1>6, Zenon DEF exitScope
  <2>. QED BY <1>6, <2>1, <2>2 DEF exitScope, TypeOK, HeapStep, Good
<1>7. ASSUME UNCHANGED vars
      PROVE  TypeOK' /\ HeapStep
  BY <1>7, UnchangedHeap DEF vars, TypeOK
<1>. QED BY <1>1, <1>2, <1>3, <1>4, <1>5, <1>6, <1>7 DEF Next

LEMMA InitKeeps ==
  ASSUME Init
  PROVE  TypeOK /\ LinksAgree
BY DEF Init, TypeOK, LinksAgree

-----------------------------------------------------------------------------
(* Links.                                                                     *)

\* Type correctness, and that cells that depend on each other are inferred
\* together (setValue and isSupertypeFor of TypeInfer).
THEOREM LinksCorrect == Spec => [](TypeOK /\ LinksAgree)
<1>1. Init => TypeOK /\ LinksAgree
  BY InitKeeps
<1>2. TypeOK /\ LinksAgree /\ [Next]_vars => (TypeOK /\ LinksAgree)'
  BY StepKeeps DEF HeapStep, Good
<1>. QED BY <1>1, <1>2, PTL DEF Spec

\* Every comparison leaves the cells, their links and the symbols in their types:
\* what is inferred is a type and never another cell.
THEOREM CellsTyped == Spec => []TypeOK
BY LinksCorrect, PTL

\* An inferred type is final: no later comparison, of this variable or of one it
\* is linked to, replaces the type it was checked with.
THEOREM InferredOnceCorrect == Spec => InferredOnce
<1>1. TypeOK /\ LinksAgree /\ [Next]_vars
        => [\A c \in Cells : value[c] # None => value'[c] = value[c]]_vars
  BY StepKeeps DEF HeapStep
<1>. QED BY <1>1, LinksCorrect, PTL DEF Spec, InferredOnce

-----------------------------------------------------------------------------
(* Flows.  Where no type but itself is a supertype of a type -- the base       *)
(* types, the enums, the structs -- every comparison that was accepted keeps   *)
(* holding.  (With sums it does not: the run TypeInference_sum.)               *)

Flat == /\ \A t \in Types : <<t, t>> \in Subtype
        /\ \A s, t \in Types : <<s, t>> \in Subtype => <<t, s>> \in Subtype

\* In the heap h: the types on both sides are known and fit, or neither is and
\* the two cells are linked.
NowIn(h, a) == IF a \in Cells THEN h.value[a] ELSE a
FlowsIn(h, a, b) ==
  \/ NowIn(h, a) \in Types /\ NowIn(h, b) \in Types
       /\ <<NowIn(h, a), NowIn(h, b)>> \in Subtype
  \/ a \in Cells /\ b \in Cells /\ b \in h.links[a] /\ a \in h.links[b]
       /\ h.value[a] = None /\ h.value[b] = None

Heap == [value |-> value, links |-> links]

\* Nothing that flowed stops flowing.
KeepsFlows(h) == \A p, q \in Refs : FlowsIn(Heap, p, q) => FlowsIn(h, p, q)

LEMMA SetValueFlows ==
  ASSUME Good, Flat, NEW c \in Cells, value[c] = None, NEW t \in Types,
         setValue(c, t).ok
  PROVE  KeepsFlows(setValue(c, t)) /\ setValue(c, t).value[c] = t
<1> DEFINE h == setValue(c, t)
<1> USE NoneAssumption, CellsAssumption
<1>1. /\ h.value = [d \in Cells |-> IF d \in Reach(c) THEN t ELSE value[d]]
      /\ h.links = links
  BY DEF setValue
<1> HIDE DEF h
<1>2. h.value[c] = t
  BY <1>1, ReachFacts DEF Good
<1>3. ASSUME NEW p \in Refs, NEW q \in Refs, FlowsIn(Heap, p, q)
      PROVE  FlowsIn(h, p, q)
  <2>1. \A d \in Cells : value[d] # None => h.value[d] = value[d]
    BY <1>1, ReachUninferred DEF Good
  <2>2. CASE /\ NowIn(Heap, p) \in Types /\ NowIn(Heap, q) \in Types
             /\ <<NowIn(Heap, p), NowIn(Heap, q)>> \in Subtype
    <3>1. NowIn(h, p) = NowIn(Heap, p) /\ NowIn(h, q) = NowIn(Heap, q)
      BY <2>1, <2>2 DEF NowIn, Heap
    <3>. QED BY <2>2, <3>1 DEF FlowsIn
  <2>3. CASE /\ p \in Cells /\ q \in Cells /\ q \in links[p] /\ p \in links[q]
             /\ value[p] = None /\ value[q] = None
    <3>1. p \in Reach(c) <=> q \in Reach(c)
      BY <2>3, ReachUninferred DEF Good
    <3>2. CASE p \in Reach(c)
      <4>1. h.value[p] = t /\ h.value[q] = t
        BY <1>1, <2>3, <3>1, <3>2
      <4>2. NowIn(h, p) = t /\ NowIn(h, q) = t
        BY <2>3, <4>1 DEF NowIn
      <4>. QED BY <4>2 DEF FlowsIn, Flat
    <3>3. CASE p \notin Reach(c)
      <4>1. h.value[p] = None /\ h.value[q] = None
        BY <1>1, <2>3, <3>1, <3>3
      <4>. QED BY <1>1, <2>3, <4>1 DEF FlowsIn
    <3>. QED BY <3>2, <3>3
  <2>. QED BY <1>3, <2>2, <2>3 DEF FlowsIn, Heap
<1>. QED BY <1>2, <1>3 DEF KeepsFlows, h

LEMMA LinkFlows ==
  ASSUME Good, NEW c \in Cells, NEW d \in Cells, value[c] = None, value[d] = None
  PROVE  /\ KeepsFlows(link(c, d))
         /\ FlowsIn(link(c, d), c, d) /\ FlowsIn(link(c, d), d, c)
<1> DEFINE h == link(c, d)
<1>1. /\ h.value = value
      /\ h.links = [e \in Cells |-> links[e] \union (IF e = c THEN {d} ELSE {})
                                             \union (IF e = d THEN {c} ELSE {})]
  BY DEF link
<1> HIDE DEF h
<1>2. d \in h.links[c] /\ c \in h.links[d]
  BY <1>1
<1>3. KeepsFlows(h)
  <2>1. \A e \in Cells : links[e] \subseteq h.links[e]
    BY <1>1
  <2>. QED BY <1>1, <2>1 DEF KeepsFlows, FlowsIn, NowIn, Heap
<1>. QED BY <1>1, <1>2, <1>3 DEF FlowsIn, h

LEMMA AnswerOk ==
  ASSUME NEW s, NEW t, Answer(<<s, t>> \in Subtype).ok
  PROVE  <<s, t>> \in Subtype
<1> DEFINE P == <<s, t>> \in Subtype
<1>1. Answer(P).ok = P
  BY DEF Answer
<1>2. Answer(P).ok
  OBVIOUS
<1>. QED BY <1>1, <1>2

LEMMA AnswerHeap ==
  ASSUME NEW ok
  PROVE  Answer(ok).value = value /\ Answer(ok).links = links
BY DEF Answer

\* A comparison that holds keeps the flows there were and adds its own.
LEMMA InferFlows ==
  ASSUME Good, Flat, NEW c \in Cells, NEW r \in Refs, inferSupertypeFor(c, r).ok
  PROVE  LET h == inferSupertypeFor(c, r)
         IN  KeepsFlows(h) /\ FlowsIn(h, c, r) /\ FlowsIn(h, r, c)
<1> DEFINE h == inferSupertypeFor(c, r)
<1> USE NoneAssumption, CellsAssumption DEF Refs
<1>0. value[c] \in Types \union {None} /\ (r \in Cells => value[r] \in Types \union {None})
  BY DEF Good
<1>1. CASE value[c] # None /\ r \in Types
  <2>1. h = Answer(<<r, value[c]>> \in Subtype)
    BY <1>1 DEF inferSupertypeFor
  <2>2. h.value = value /\ h.links = links /\ <<r, value[c]>> \in Subtype
    <3>1. h.value = value /\ h.links = links
      BY <2>1, AnswerHeap
    <3>2. <<r, value[c]>> \in Subtype
      <4>1. Answer(<<r, value[c]>> \in Subtype).ok
        BY <2>1
      <4>. QED BY <4>1, AnswerOk
    <3>. QED BY <3>1, <3>2
  <2> HIDE DEF h
  <2>3. KeepsFlows(h)
    BY <2>2 DEF KeepsFlows, FlowsIn, NowIn, Heap
  <2>4. NowIn(h, c) = value[c] /\ NowIn(h, r) = r
    BY <1>1, <2>2 DEF NowIn
  <2>. QED BY <1>0, <1>1, <2>2, <2>3, <2>4 DEF FlowsIn, Flat, h
<1>2. CASE value[c] # None /\ r \in Cells /\ value[r] # None
  <2>1. h = Answer(<<value[c], value[r]>> \in Subtype)
    BY <1>2 DEF inferSupertypeFor
  <2>2. h.value = value /\ h.links = links /\ <<value[c], value[r]>> \in Subtype
    <3>1. h.value = value /\ h.links = links
      BY <2>1, AnswerHeap
    <3>2. <<value[c], value[r]>> \in Subtype
      <4>1. Answer(<<value[c], value[r]>> \in Subtype).ok
        BY <2>1
      <4>. QED BY <4>1, AnswerOk
    <3>. QED BY <3>1, <3>2
  <2> HIDE DEF h
  <2>3. KeepsFlows(h)
    BY <2>2 DEF KeepsFlows, FlowsIn, NowIn, Heap
  <2>4. NowIn(h, c) = value[c] /\ NowIn(h, r) = value[r]
    BY <1>2, <2>2 DEF NowIn
  <2>. QED BY <1>0, <1>2, <2>2, <2>3, <2>4 DEF FlowsIn, Flat, h
<1>3. CASE value[c] # None /\ r \in Cells /\ value[r] = None
  <2>1. h = setValue(r, value[c]) /\ value[c] \in Types
    BY <1>0, <1>3 DEF inferSupertypeFor
  <2>2. KeepsFlows(h) /\ h.value[r] = value[c]
    BY <1>3, <2>1, SetValueFlows
  <2>3. h.value[c] = value[c]
    BY <1>3, <2>1, SetValueKeeps DEF Keeps
  <2> HIDE DEF h
  <2>4. NowIn(h, c) = value[c] /\ NowIn(h, r) = value[c]
    BY <1>3, <2>2, <2>3 DEF NowIn
  <2>. QED BY <2>1, <2>2, <2>4 DEF FlowsIn, Flat, h
<1>4. CASE value[c] = None /\ r \in Types
  <2>1. h = setValue(c, r)
    BY <1>4 DEF inferSupertypeFor
  <2>2. KeepsFlows(h) /\ h.value[c] = r
    BY <1>4, <2>1, SetValueFlows
  <2> HIDE DEF h
  <2>3. NowIn(h, c) = r /\ NowIn(h, r) = r
    BY <1>4, <2>2 DEF NowIn
  <2>. QED BY <1>4, <2>2, <2>3 DEF FlowsIn, Flat, h
<1>5. CASE value[c] = None /\ r \in Cells /\ value[r] # None
  <2>1. h = setValue(c, value[r]) /\ value[r] \in Types
    BY <1>0, <1>5 DEF inferSupertypeFor
  <2>2. KeepsFlows(h) /\ h.value[c] = value[r]
    BY <1>5, <2>1, SetValueFlows
  <2>3. h.value[r] = value[r]
    BY <1>5, <2>1, SetValueKeeps DEF Keeps
  <2> HIDE DEF h
  <2>4. NowIn(h, c) = value[r] /\ NowIn(h, r) = value[r]
    BY <1>5, <2>2, <2>3 DEF NowIn
  <2>. QED BY <2>1, <2>2, <2>4 DEF FlowsIn, Flat, h
<1>6. CASE value[c] = None /\ r \in Cells /\ value[r] = None
  BY <1>6, LinkFlows DEF inferSupertypeFor
<1>. QED BY <1>1, <1>2, <1>3, <1>4, <1>5, <1>6

LEMMA SubtypeFlows ==
  ASSUME Good, Flat, NEW a \in Refs, NEW b \in Refs, isSubtype(a, b).ok
  PROVE  KeepsFlows(isSubtype(a, b)) /\
         (a \in Cells \/ b \in Cells => FlowsIn(isSubtype(a, b), a, b))
<1>1. CASE a \in Cells
  BY <1>1, InferFlows DEF isSubtype
<1>2. CASE a \notin Cells /\ b \in Cells
  BY <1>2, InferFlows DEF isSubtype
<1>3. CASE a \notin Cells /\ b \notin Cells
  BY <1>3 DEF isSubtype, Answer, KeepsFlows, FlowsIn, NowIn, Heap
<1>. QED BY <1>1, <1>2, <1>3

\* Demands flow; they are made by types and by variables that stay declared; and
\* at the exit of the scope each variable of an accepted program has a type.
FlowInv ==
  /\ accepted => \A d \in demands : FlowsIn(Heap, d[1], d[2])
  /\ \A d \in demands : d[1] \in Types \/ \E x \in Names : typeOf[x] = d[1]
  /\ accepted /\ done => \A x \in Names : typeOf[x] \in Cells => value[typeOf[x]] # None

LEMMA RequireFlows ==
  ASSUME TypeOK, LinksAgree, FlowInv, Flat,
         NEW a \in Refs, NEW b \in Refs, Require(a, b)
  PROVE  /\ accepted' => \A d \in demands' : FlowsIn(Heap', d[1], d[2])
         /\ demands' \subseteq demands \union {<<a, b>>}
<1> DEFINE r == isSubtype(a, b)
<1>1. demands' \subseteq demands \union {<<a, b>>}
  <2>1. demands' = demands \union {<<a, b>>} \/ demands' = demands
    BY Zenon DEF Require
  <2>. QED BY <2>1
<1>2. ASSUME accepted', NEW d \in demands'
      PROVE  FlowsIn(Heap', d[1], d[2])
  <2>1. accepted /\ r.ok
    BY <1>2, Zenon DEF Require
  <2>2. Heap'.value = r.value /\ Heap'.links = r.links
    BY DEF Require, Heap
  <2>3. KeepsFlows(r) /\ (a \in Cells \/ b \in Cells => FlowsIn(r, a, b))
    BY <2>1, SubtypeFlows DEF TypeOK, Good
  <2>4. CASE d \in demands
    <3>1. d[1] \in Refs /\ d[2] \in Refs
      BY <2>4 DEF TypeOK
    <3>2. FlowsIn(Heap, d[1], d[2])
      BY <2>1, <2>4 DEF FlowInv
    <3>3. FlowsIn(r, d[1], d[2])
      BY <2>3, <3>1, <3>2 DEF KeepsFlows
    <3>. QED BY <2>2, <3>3 DEF FlowsIn, NowIn
  <2>5. CASE d \notin demands
    <3>1. d = <<a, b>> /\ (a \in Cells \/ b \in Cells)
      <4>1. CASE r.ok /\ (a \in Cells \/ b \in Cells)
        BY <1>1, <2>5, <4>1
      <4>2. CASE ~ (r.ok /\ (a \in Cells \/ b \in Cells))
        <5>1. demands' = demands
          BY <4>2, Zenon DEF Require
        <5>. QED BY <2>5, <5>1
      <4>. QED BY <4>1, <4>2
    <3>2. FlowsIn(r, a, b)
      BY <2>3, <3>1
    <3>. QED BY <2>2, <3>1, <3>2 DEF FlowsIn, NowIn
  <2>. QED BY <2>4, <2>5
<1>. QED BY <1>1, <1>2

LEMMA StepFlows ==
  ASSUME TypeOK, LinksAgree, FlowInv, Flat, [Next]_vars
  PROVE  FlowInv'
<1> USE ExpressionsTyped, NoneAssumption, CellsAssumption
<1>0. \A r \in Expressions : r \in Types \/ \E x \in Names : typeOf[x] = r
  BY DEF Expressions, Declared
<1>1. ASSUME NEW x \in Names, NEW c \in Cells, declareVar(x, c)
      PROVE  FlowInv'
  <2>1. \A y \in Names : typeOf[y] # None => typeOf'[y] = typeOf[y]
    BY <1>1 DEF declareVar, TypeOK
  <2>2. \A d \in demands : d[1] \in Refs /\ d[1] # None
    BY DEF TypeOK, Refs
  <2>. QED BY <1>1, <2>1, <2>2 DEF declareVar, FlowInv, Heap
<1>2. ASSUME NEW x \in Names, NEW c \in Cells, NEW r \in Expressions,
             declareVarAs(x, c, r)
      PROVE  FlowInv'
  <2>1. r \in Refs /\ c \in Refs /\ Require(r, c) /\ ~ done'
    BY <1>2 DEF declareVarAs, Refs
  <2>2. /\ accepted' => \A d \in demands' : FlowsIn(Heap', d[1], d[2])
        /\ demands' \subseteq demands \union {<<r, c>>}
    BY <2>1, RequireFlows
  <2>3. \A y \in Names : typeOf[y] # None => typeOf'[y] = typeOf[y]
    BY <1>2 DEF declareVarAs, TypeOK
  <2>4. typeOf'[x] = r
    BY <1>2 DEF declareVarAs, TypeOK
  <2>5. \A d \in demands : d[1] \in Refs /\ d[1] # None
    BY DEF TypeOK, Refs
  <2>. QED BY <2>1, <2>2, <2>3, <2>4, <2>5 DEF FlowInv
<1>3. ASSUME NEW x \in Names, NEW r \in Expressions, assign(x, r)
      PROVE  FlowInv'
  <2>1. r \in Refs /\ typeOf[x] \in Refs /\ Require(r, typeOf[x])
    BY <1>3 DEF assign, TypeOK
  <2>2. /\ accepted' => \A d \in demands' : FlowsIn(Heap', d[1], d[2])
        /\ demands' \subseteq demands \union {<<r, typeOf[x]>>}
    BY <2>1, RequireFlows
  <2>3. typeOf' = typeOf /\ ~ done'
    BY <1>3 DEF assign
  <2>. QED BY <1>0, <2>2, <2>3 DEF FlowInv
<1>4. ASSUME NEW x \in Names, NEW r \in Expressions, NEW t \in Types,
             declareTyped(x, t, r)
      PROVE  FlowInv'
  <2>1. r \in Refs /\ t \in Refs /\ Require(r, t) /\ ~ done'
    BY <1>4 DEF declareTyped, Refs
  <2>2. /\ accepted' => \A d \in demands' : FlowsIn(Heap', d[1], d[2])
        /\ demands' \subseteq demands \union {<<r, t>>}
    BY <2>1, RequireFlows
  <2>3. \A y \in Names : typeOf[y] # None => typeOf'[y] = typeOf[y]
    BY <1>4 DEF declareTyped, TypeOK
  <2>4. \A d \in demands : d[1] \in Refs /\ d[1] # None
    BY DEF TypeOK, Refs
  <2>5. r \in Types \/ \E y \in Names : typeOf'[y] = r
    <3>1. r # None
      BY <2>1 DEF Refs
    <3>. QED BY <1>0, <2>3, <3>1
  <2>. QED BY <2>1, <2>2, <2>3, <2>4, <2>5 DEF FlowInv
<1>5. ASSUME NEW x \in Names, NEW t \in Types, use(x, t)
      PROVE  FlowInv'
  <2>1. typeOf[x] \in Refs /\ t \in Refs /\ Require(typeOf[x], t)
    BY <1>5 DEF use, TypeOK, Refs
  <2>2. /\ accepted' => \A d \in demands' : FlowsIn(Heap', d[1], d[2])
        /\ demands' \subseteq demands \union {<<typeOf[x], t>>}
    BY <2>1, RequireFlows
  <2>3. typeOf' = typeOf /\ ~ done'
    BY <1>5 DEF use
  <2>. QED BY <2>2, <2>3 DEF FlowInv
<1>6. ASSUME exitScope
      PROVE  FlowInv'
  <2>1. /\ accepted' => accepted
        /\ accepted' => \A x \in Declared : typeOf[x] \in Cells => value[typeOf[x]] # None
    BY <1>6, Zenon DEF exitScope
  <2>2. value' = value /\ links' = links /\ typeOf' = typeOf /\ demands' = demands
    BY <1>6 DEF exitScope
  <2>. QED BY <2>1, <2>2 DEF FlowInv, Heap, Declared
<1>7. ASSUME UNCHANGED vars
      PROVE  FlowInv'
  BY <1>7 DEF vars, FlowInv, Heap
<1>. QED BY <1>1, <1>2, <1>3, <1>4, <1>5, <1>6, <1>7 DEF Next

LEMMA FlowInvImplies ==
  ASSUME TypeOK, LinksAgree, FlowInv
  PROVE  FlowsHold
<1> USE NoneAssumption, CellsAssumption
<1> SUFFICES ASSUME accepted, NEW d \in demands
             PROVE  LET a == Now(d[1])
                        b == Now(d[2])
                    IN  IF a # None /\ b # None THEN <<a, b>> \in Subtype
                                                ELSE a = None /\ b = None /\ ~ done
  BY DEF FlowsHold
<1>1. FlowsIn(Heap, d[1], d[2])
  BY DEF FlowInv
<1>2. CASE /\ NowIn(Heap, d[1]) \in Types /\ NowIn(Heap, d[2]) \in Types
           /\ <<NowIn(Heap, d[1]), NowIn(Heap, d[2])>> \in Subtype
  BY <1>2 DEF NowIn, Heap, Now
<1>3. CASE d[1] \in Cells /\ d[2] \in Cells /\ value[d[1]] = None /\ value[d[2]] = None
  <2>1. Now(d[1]) = None /\ Now(d[2]) = None
    BY <1>3 DEF Now
  <2>2. \E x \in Names : typeOf[x] = d[1]
    BY <1>3 DEF FlowInv
  <2>3. ~ done
    BY <1>3, <2>2 DEF FlowInv
  <2>. QED BY <2>1, <2>3
<1>. QED BY <1>1, <1>2, <1>3 DEF FlowsIn, Heap

\* Over flat types the inference is sound: in an accepted program the type each
\* variable was inferred to have fits everything assigned to it and every use.
THEOREM FlowsCorrect ==
  ASSUME Flat
  PROVE  Spec => []FlowsHold
<1>1. Init => FlowInv
  BY DEF Init, FlowInv
<1>2. TypeOK /\ LinksAgree /\ FlowInv /\ [Next]_vars => FlowInv'
  BY StepFlows
<1>3. TypeOK /\ LinksAgree /\ FlowInv => FlowsHold
  BY FlowInvImplies
<1>. QED BY <1>1, <1>2, <1>3, LinksCorrect, PTL DEF Spec
=============================================================================
