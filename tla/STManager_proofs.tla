--------------------------- MODULE STManager_proofs ---------------------------
(* Proofs about the symbol table, for every set of identifiers, every kinds   *)
(* of symbol and every bound on the number of scopes.                         *)
EXTENDS STManager, SequenceTheorems, TLAPS

\* The inductive invariant: the types, the agreement of the two structures that
\* hold the open scopes, the order of the stops, and what a lookup in progress
\* has established so far.
IInv == /\ TypeOK
        /\ ChainMatchesVector
        /\ StopsAreLive
        /\ FreshScopesAreEmpty
        /\ WalkInStep

\* What Append and the removal of the last element do to a sequence.
LEMMA AppendFacts ==
  ASSUME NEW S, NEW s \in Seq(S), NEW e \in S
  PROVE  /\ Append(s, e) \in Seq(S)
         /\ Len(Append(s, e)) = Len(s) + 1
         /\ \A i \in 1..Len(s) : Append(s, e)[i] = s[i]
         /\ Append(s, e)[Len(s) + 1] = e
         /\ Append(s, e) # <<>>
OBVIOUS

LEMMA FrontFacts ==
  ASSUME NEW S, NEW s \in Seq(S), s # <<>>
  PROVE  /\ SubSeq(s, 1, Len(s) - 1) \in Seq(S)
         /\ Len(s) \in Nat \ {0}
         /\ Len(SubSeq(s, 1, Len(s) - 1)) = Len(s) - 1
         /\ \A i \in 1..(Len(s) - 1) : SubSeq(s, 1, Len(s) - 1)[i] = s[i]
<1>1. Len(s) \in Nat \ {0}
  OBVIOUS
<1>2. \A i \in 1..(Len(s) - 1) : s[i] \in S
  OBVIOUS
<1> DEFINE n == Len(s) - 1
           t == SubSeq(s, 1, n)
<1>3. n \in Nat
  BY <1>1
<1>4. /\ t \in Seq(S)
      /\ Len(t) = IF 1 <= n THEN n - 1 + 1 ELSE 0
      /\ \A i \in 1..(n - 1 + 1) : t[i] = s[1 + i - 1]
  BY <1>2, <1>3, SubSeqProperties
<1> HIDE DEF n, t
<1>5. Len(t) = n /\ \A i \in 1..n : t[i] = s[i]
  BY <1>3, <1>4
<1>. QED BY <1>1, <1>4, <1>5 DEF n, t

\* The current stop is a depth.
LEMMA StopFacts ==
  ASSUME stops \in Seq(Nat)
  PROVE  /\ getCurrentStop \in Nat
         /\ stops # <<>> => /\ Len(stops) \in Nat \ {0}
                            /\ getCurrentStop = stops[Len(stops)]
         /\ stops = <<>> => getCurrentStop = 0
BY DEF getCurrentStop

LEMMA InitTypeOK == Init => TypeOK
BY MaxScopesAssumption, AbsentAssumption DEF Init, TypeOK, Results, Walks, ScopeIds, NoScope, Idle

\* Each step keeps every variable in its type.
LEMMA NextTypeOK == TypeOK /\ ChainMatchesVector /\ [Next]_vars => TypeOK'
<1> SUFFICES ASSUME TypeOK, ChainMatchesVector, [Next]_vars
             PROVE  TypeOK'
    OBVIOUS
<1> USE DEF TypeOK, Results, Walks, ScopeIds, NoScope, Idle, heap
<1>1. ASSUME NEW insertStop \in BOOLEAN, enterScope(insertStop)
      PROVE  TypeOK'
  <2>1. scopeNumber \in ScopeIds /\ scopeNumber + 1 \in 0..MaxScopes
    BY <1>1, MaxScopesAssumption DEF enterScope
  <2>2. scopes' \in Seq(ScopeIds) /\ stops' \in Seq(Nat)
    BY <1>1, <2>1 DEF enterScope
  <2>. QED BY <1>1, <2>1, <2>2 DEF enterScope
<1>2. CASE exitScope
  <2>1. Len(scopes) > 0
    BY <1>2 DEF exitScope, ChainMatchesVector
  <2>2. scopes' \in Seq(ScopeIds)
    <3>1. scopes # <<>>
      BY <2>1
    <3>. QED BY <1>2, <3>1, FrontFacts DEF exitScope
  <2>3. stops' \in Seq(Nat)
    <3>1. CASE stops = <<>>
      BY <1>2, <3>1 DEF exitScope, getCurrentStop
    <3>2. CASE stops # <<>>
      BY <1>2, <3>2, FrontFacts DEF exitScope
    <3>. QED BY <3>1, <3>2
  <2>. QED BY <1>2, <2>2, <2>3 DEF exitScope
<1>3. CASE exitNoScope
  BY <1>3 DEF exitNoScope
<1>4. ASSUME NEW x \in Ids, NEW f \in Flags, addSymbol(x, f)
      PROVE  TypeOK'
  BY <1>4 DEF addSymbol
<1>5. ASSUME NEW x \in Ids, addSymbolRefused(x)
      PROVE  TypeOK'
  BY <1>5 DEF addSymbolRefused
<1>6. ASSUME NEW x \in Ids, lookup(x)
      PROVE  TypeOK'
  <2>1. getCurrentStop \in Nat
    BY DEF getCurrentStop
  <2>. QED BY <1>6, <2>1 DEF lookup
<1>7. CASE lookupStep
  <2>1. walk \in Walks
    BY <1>7 DEF lookupStep
  <2>2. walk' \in {Idle} \union Walks
    <3>1. CASE walk' = Idle
      BY <3>1
    <3>2. CASE /\ walk.opt # NoScope
               /\ walk' = [walk EXCEPT !.depth = @ - 1, !.opt = parent[walk.opt]]
      <4>1. parent[walk.opt] \in ScopeIds \union {NoScope}
        BY <2>1, <3>2
      <4>2. /\ walk.id \in Ids /\ walk.depth - 1 \in Int /\ walk.stop \in Nat
        BY <2>1
      <4>3. walk' = [id |-> walk.id, opt |-> parent[walk.opt],
                     depth |-> walk.depth - 1, stop |-> walk.stop]
        BY <2>1, <3>2
      <4>4. walk' \in Walks
        BY <4>1, <4>2, <4>3
      <4>. QED BY <4>4
    <3>. QED BY <1>7, <3>1, <3>2 DEF lookupStep, Returns
  <2>3. result' \in Results
    BY <1>7, <2>1 DEF lookupStep, Returns
  <2>. QED BY <1>7, <2>2, <2>3 DEF lookupStep
<1>8. CASE UNCHANGED vars
  BY <1>8 DEF vars
<1>. QED BY <1>1, <1>2, <1>3, <1>4, <1>5, <1>6, <1>7, <1>8 DEF Next

-----------------------------------------------------------------------------
LEMMA InitIInv == Init => IInv
BY InitTypeOK
   DEF Init, IInv, ChainMatchesVector, StopsAreLive, FreshScopesAreEmpty,
       WalkInStep, NoScope, Idle, ScopeIds

\* Entering a scope: the new scope is larger than all open ones, and its depth
\* is larger than every stop.
LEMMA EnterIInv ==
  ASSUME IInv, NEW insertStop \in BOOLEAN, enterScope(insertStop), TypeOK'
  PROVE  IInv'
<1>0. /\ scopes \in Seq(ScopeIds) /\ stops \in Seq(Nat)
      /\ scopeNumber \in 0..MaxScopes /\ MaxScopes \in Nat
      /\ parent \in [ScopeIds -> ScopeIds \union {NoScope}]
      /\ scopeNumber \in ScopeIds
      /\ Len(scopes) \in Nat /\ Len(stops) \in Nat
      /\ \A i \in 1..Len(scopes) : scopes[i] \in ScopeIds /\ scopes[i] \in Int
  BY MaxScopesAssumption DEF IInv, TypeOK, enterScope, ScopeIds
<1>1. /\ Len(scopes') = Len(scopes) + 1
      /\ \A i \in 1..Len(scopes) : scopes'[i] = scopes[i]
      /\ scopes'[Len(scopes) + 1] = scopeNumber
      /\ scopes' # <<>>
  <2>1. scopes' = Append(scopes, scopeNumber)
    BY DEF enterScope
  <2>. QED BY <1>0, <2>1, AppendFacts
<1>2. /\ currentScope = IF scopes = <<>> THEN NoScope ELSE scopes[Len(scopes)]
      /\ \A i \in 1..Len(scopes) :
            /\ parent[scopes[i]] = IF i = 1 THEN NoScope ELSE scopes[i - 1]
            /\ scopes[i] < scopeNumber
      /\ \A i, j \in 1..Len(scopes) : i < j => scopes[i] < scopes[j]
  BY DEF IInv, ChainMatchesVector
<1>n. /\ \A i \in 1..Len(scopes) : /\ scopes'[i] = scopes[i]
                                   /\ scopes'[i] \in Int
                                   /\ scopes'[i] < scopeNumber
      /\ \A i \in 1..Len(scopes') : i \in 1..Len(scopes) \/ i = Len(scopes) + 1
      /\ scopeNumber \in Nat
  BY <1>0, <1>1, <1>2
<1>3. /\ currentScope' = scopeNumber
      /\ scopeNumber' = scopeNumber + 1
      /\ parent'[scopeNumber] = currentScope
      /\ \A s \in ScopeIds : s # scopeNumber => parent'[s] = parent[s]
      /\ symbols' = symbols /\ walk' = walk /\ walk = Idle
  BY <1>0 DEF enterScope
<1>4. ChainMatchesVector'
  <2>1. currentScope' = IF scopes' = <<>> THEN NoScope ELSE scopes'[Len(scopes')]
    BY <1>1, <1>3
  <2>2. ASSUME NEW i \in 1..Len(scopes')
        PROVE  scopes'[i] < scopeNumber'
    <3>1. CASE i \in 1..Len(scopes)
      <4>1. scopes'[i] \in Int /\ scopes'[i] < scopeNumber
        BY <1>n, <3>1
      <4>. QED BY <1>n, <1>3, <4>1
    <3>2. CASE i = Len(scopes) + 1
      BY <1>n, <1>1, <1>3, <3>2
    <3>. QED BY <1>n, <3>1, <3>2
  <2>3. ASSUME NEW i \in 1..Len(scopes')
        PROVE  parent'[scopes'[i]] = IF i = 1 THEN NoScope ELSE scopes'[i - 1]
    <3>1. CASE i \in 1..Len(scopes)
      <4>1. scopes'[i] = scopes[i] /\ scopes[i] # scopeNumber
        BY <1>0, <1>1, <1>2, <3>1 DEF ScopeIds
      <4>2. parent'[scopes'[i]] = parent[scopes[i]]
        BY <1>0, <1>3, <3>1, <4>1
      <4>3. i # 1 => scopes'[i - 1] = scopes[i - 1]
        <5>1. i # 1 => i - 1 \in 1..Len(scopes)
          BY <1>0, <3>1
        <5>. QED BY <1>1, <5>1
      <4>. QED BY <1>2, <3>1, <4>2, <4>3
    <3>2. CASE i = Len(scopes) + 1
      <4>1. parent'[scopes'[i]] = currentScope
        BY <1>1, <1>3, <3>2
      <4>2. CASE scopes = <<>>
        BY <1>0, <1>2, <3>2, <4>1, <4>2
      <4>3. CASE scopes # <<>>
        <5>1. Len(scopes) \in 1..Len(scopes)
          BY <1>0, <4>3
        <5>2. scopes'[Len(scopes)] = scopes[Len(scopes)]
          BY <1>1, <5>1
        <5>. QED BY <1>0, <1>2, <3>2, <4>1, <4>3, <5>1, <5>2
      <4>. QED BY <4>2, <4>3
    <3>. QED BY <1>0, <1>1, <3>1, <3>2
  <2>4. ASSUME NEW i \in 1..Len(scopes'), NEW j \in 1..Len(scopes'), i < j
        PROVE  scopes'[i] < scopes'[j]
    <3>1. CASE j \in 1..Len(scopes)
      <4>1. i \in 1..Len(scopes)
        BY <1>0, <2>4, <3>1
      <4>2. scopes[i] < scopes[j] /\ scopes'[i] = scopes[i] /\ scopes'[j] = scopes[j]
        BY <1>1, <1>2, <2>4, <3>1, <4>1
      <4>. QED BY <4>2
    <3>2. CASE j = Len(scopes) + 1
      <4>1. i \in 1..Len(scopes)
        BY <1>0, <2>4, <3>2
      <4>2. scopes'[i] < scopeNumber /\ scopes'[j] = scopeNumber
        BY <1>1, <1>n, <3>2, <4>1
      <4>. QED BY <4>2
    <3>. QED BY <1>n, <3>1, <3>2
  <2>. QED BY <2>1, <2>2, <2>3, <2>4 DEF ChainMatchesVector
<1>5. StopsAreLive'
  <2>1. CASE ~ insertStop
    BY <1>0, <1>1, <2>1 DEF IInv, StopsAreLive, enterScope
  <2>2. CASE insertStop
    <3>1. /\ Len(stops') = Len(stops) + 1
          /\ \A k \in 1..Len(stops) : stops'[k] = stops[k] /\ stops[k] \in Nat
          /\ stops'[Len(stops) + 1] = Len(scopes)
      BY <1>0, <2>2, AppendFacts DEF enterScope
    <3>2. /\ \A k \in 1..Len(stops) : stops[k] < Len(scopes) \/ stops[k] = 0
          /\ \A j, k \in 1..Len(stops) :
                j < k => stops[j] < stops[k] \/ (stops[j] = 0 /\ stops[k] = 0)
      BY DEF IInv, StopsAreLive
    <3>3. ASSUME NEW k \in 1..Len(stops')
          PROVE  stops'[k] < Len(scopes') \/ stops'[k] = 0
      <4>1. k \in 1..Len(stops) \/ k = Len(stops) + 1
        BY <1>0, <3>1
      <4>2. CASE k \in 1..Len(stops)
        <5>1. /\ stops'[k] = stops[k] /\ stops[k] \in Nat
              /\ stops[k] < Len(scopes) \/ stops[k] = 0
          BY <3>1, <3>2, <4>2
        <5>. QED BY <1>0, <1>1, <5>1
      <4>3. CASE k = Len(stops) + 1
        BY <1>0, <1>1, <3>1, <4>3
      <4>. QED BY <4>1, <4>2, <4>3
    <3>4. ASSUME NEW j \in 1..Len(stops'), NEW k \in 1..Len(stops'), j < k
          PROVE  stops'[j] < stops'[k] \/ (stops'[j] = 0 /\ stops'[k] = 0)
      <4>0. j \in 1..Len(stops) /\ (k \in 1..Len(stops) \/ k = Len(stops) + 1)
        BY <1>0, <3>1, <3>4
      <4>1. stops'[j] = stops[j] /\ stops[j] \in Nat
        BY <3>1, <4>0
      <4>2. CASE k \in 1..Len(stops)
        <5>1. stops[j] < stops[k] \/ (stops[j] = 0 /\ stops[k] = 0)
          BY <3>2, <3>4, <4>0, <4>2
        <5>. QED BY <3>1, <4>1, <4>2, <5>1
      <4>3. CASE k = Len(stops) + 1
        <5>1. stops[j] < Len(scopes) \/ stops[j] = 0
          BY <3>2, <4>0
        <5>. QED BY <1>0, <3>1, <4>1, <4>3, <5>1
      <4>. QED BY <4>0, <4>2, <4>3
    <3>. QED BY <3>3, <3>4 DEF StopsAreLive
  <2>. QED BY <2>1, <2>2
<1>6. FreshScopesAreEmpty'
  BY <1>0, <1>3 DEF IInv, FreshScopesAreEmpty, ScopeIds
<1>7. WalkInStep'
  BY <1>3 DEF WalkInStep
<1>. QED BY <1>4, <1>5, <1>6, <1>7 DEF IInv

\* Leaving a scope: a stop at the depth of the scope left goes with it, and no
\* other stop can have that depth.
LEMMA ExitIInv ==
  ASSUME IInv, exitScope, TypeOK'
  PROVE  IInv'
<1>0. /\ scopes \in Seq(ScopeIds) /\ stops \in Seq(Nat)
      /\ scopes # <<>>
      /\ Len(scopes) \in Nat \ {0} /\ Len(stops) \in Nat
      /\ scopes' = SubSeq(scopes, 1, Len(scopes) - 1)
  BY FrontFacts DEF IInv, TypeOK, ChainMatchesVector, exitScope
<1>1. /\ Len(scopes') = Len(scopes) - 1
      /\ \A i \in 1..(Len(scopes) - 1) : scopes'[i] = scopes[i]
  BY <1>0, FrontFacts
<1>2. /\ currentScope = scopes[Len(scopes)]
      /\ \A i \in 1..Len(scopes) :
            /\ parent[scopes[i]] = IF i = 1 THEN NoScope ELSE scopes[i - 1]
            /\ scopes[i] < scopeNumber
      /\ \A i, j \in 1..Len(scopes) : i < j => scopes[i] < scopes[j]
  BY <1>0 DEF IInv, ChainMatchesVector
<1>3. /\ currentScope' = parent[currentScope]
      /\ scopeNumber' = scopeNumber
      /\ parent' = parent /\ symbols' = symbols
      /\ walk' = walk /\ walk = Idle
  BY DEF exitScope, heap
<1>4. ChainMatchesVector'
  <2>1. parent[currentScope] = IF Len(scopes) = 1 THEN NoScope
                                                  ELSE scopes[Len(scopes) - 1]
    <3>1. Len(scopes) \in 1..Len(scopes)
      BY <1>0
    <3>. QED BY <1>2, <3>1
  <2>2. currentScope' = IF scopes' = <<>> THEN NoScope ELSE scopes'[Len(scopes')]
    <3>1. CASE Len(scopes) = 1
      <4>1. scopes' = <<>>
        BY <1>0, <1>1, <3>1
      <4>. QED BY <1>3, <2>1, <3>1, <4>1
    <3>2. CASE Len(scopes) # 1
      <4>1. Len(scopes') # 0 /\ Len(scopes') \in 1..(Len(scopes) - 1)
        BY <1>0, <1>1, <3>2
      <4>2. scopes' # <<>> /\ scopes'[Len(scopes')] = scopes[Len(scopes) - 1]
        BY <1>1, <4>1
      <4>. QED BY <1>3, <2>1, <3>2, <4>2
    <3>. QED BY <3>1, <3>2
  <2>3. /\ \A i \in 1..Len(scopes') :
             /\ parent'[scopes'[i]] = IF i = 1 THEN NoScope ELSE scopes'[i - 1]
             /\ scopes'[i] < scopeNumber'
        /\ \A i, j \in 1..Len(scopes') : i < j => scopes'[i] < scopes'[j]
    <3>1. ASSUME NEW i \in 1..Len(scopes')
          PROVE  /\ i \in 1..Len(scopes)
                 /\ scopes'[i] = scopes[i]
                 /\ i # 1 => scopes'[i - 1] = scopes[i - 1]
      BY <1>0, <1>1
    <3>2. ASSUME NEW i \in 1..Len(scopes'), NEW j \in 1..Len(scopes'), i < j
          PROVE  scopes'[i] < scopes'[j]
      BY <1>2, <3>1, <3>2
    <3>. QED BY <1>2, <1>3, <3>1, <3>2
  <2>. QED BY <2>2, <2>3 DEF ChainMatchesVector
<1>5. StopsAreLive'
  <2>0. /\ \A k \in 1..Len(stops) : stops[k] \in Nat
        /\ \A k \in 1..Len(stops) : stops[k] < Len(scopes) \/ stops[k] = 0
        /\ \A j, k \in 1..Len(stops) :
              j < k => stops[j] < stops[k] \/ (stops[j] = 0 /\ stops[k] = 0)
    BY <1>0 DEF IInv, StopsAreLive
  <2>1. CASE getCurrentStop = Len(scopes) - 1 /\ getCurrentStop # 0
    <3>1. /\ Len(stops) \in Nat \ {0}
          /\ stops # <<>>
          /\ stops[Len(stops)] = Len(scopes) - 1
          /\ Len(scopes) - 1 # 0
      BY <1>0, <2>1, StopFacts
    <3>2. /\ Len(stops') = Len(stops) - 1
          /\ \A k \in 1..(Len(stops) - 1) : stops'[k] = stops[k]
      BY <1>0, <2>1, <3>1, FrontFacts DEF exitScope
    <3>3. \A k \in 1..(Len(stops) - 1) : stops[k] < Len(scopes) - 1
      <4>1. ASSUME NEW k \in 1..(Len(stops) - 1)
            PROVE  stops[k] < Len(scopes) - 1
        <5>1. /\ k \in 1..Len(stops) /\ Len(stops) \in 1..Len(stops)
              /\ k < Len(stops)
          BY <3>1
        <5>2. stops[k] < stops[Len(stops)] \/ stops[Len(stops)] = 0
          BY <2>0, <5>1
        <5>. QED BY <3>1, <5>2
      <4>. QED BY <4>1
    <3>4. \A k \in 1..Len(stops') : /\ k \in 1..Len(stops)
                                   /\ stops'[k] = stops[k]
                                   /\ stops[k] < Len(scopes')
      BY <1>0, <1>1, <3>1, <3>2, <3>3
    <3>. QED BY <2>0, <3>4 DEF StopsAreLive
  <2>2. CASE ~ (getCurrentStop = Len(scopes) - 1 /\ getCurrentStop # 0)
    <3>1. stops' = stops
      BY <2>2 DEF exitScope
    <3>2. \A k \in 1..Len(stops) : stops[k] < Len(scopes) - 1 \/ stops[k] = 0
      <4>1. CASE stops = <<>>
        BY <4>1
      <4>2. CASE stops # <<>>
        <5>1. Len(stops) \in 1..Len(stops) /\ getCurrentStop = stops[Len(stops)]
          BY <1>0, <4>2, StopFacts
        <5>2. stops[Len(stops)] < Len(scopes) - 1 \/ stops[Len(stops)] = 0
          BY <1>0, <2>0, <2>2, <5>1
        <5>. QED BY <1>0, <2>0, <5>1, <5>2
      <4>. QED BY <4>1, <4>2
    <3>. QED BY <1>0, <1>1, <2>0, <3>1, <3>2 DEF StopsAreLive
  <2>. QED BY <2>1, <2>2
<1>6. FreshScopesAreEmpty'
  BY <1>3 DEF IInv, FreshScopesAreEmpty
<1>7. WalkInStep'
  BY <1>3 DEF WalkInStep
<1>. QED BY <1>4, <1>5, <1>6, <1>7 DEF IInv

\* Declaring a symbol fills an empty place of an open scope.
LEMMA AddIInv ==
  ASSUME IInv, NEW x \in Ids, NEW f \in Flags, addSymbol(x, f), TypeOK'
  PROVE  IInv'
<1> USE DEF IInv, TypeOK, NoScope, ScopeIds, addSymbol
<1>1. ChainMatchesVector'
  BY DEF ChainMatchesVector
<1>2. StopsAreLive'
  BY DEF StopsAreLive
<1>3. FreshScopesAreEmpty'
  <2>1. currentScope < scopeNumber
    BY DEF ChainMatchesVector
  <2>. QED BY <2>1 DEF FreshScopesAreEmpty
<1>4. WalkInStep'
  BY DEF WalkInStep
<1>. QED BY <1>1, <1>2, <1>3, <1>4

\* A lookup begins at the innermost scope, where nothing was passed over yet.
LEMMA LookupIInv ==
  ASSUME IInv, NEW x \in Ids, lookup(x), TypeOK'
  PROVE  IInv'
<1> USE DEF IInv, TypeOK, NoScope, lookup, heap
<1>1. ChainMatchesVector'
  BY DEF ChainMatchesVector
<1>2. StopsAreLive'
  BY DEF StopsAreLive
<1>3. FreshScopesAreEmpty'
  BY DEF FreshScopesAreEmpty
<1>4. WalkInStep'
  BY DEF WalkInStep, ChainMatchesVector, getCurrentStop
<1>. QED BY <1>1, <1>2, <1>3, <1>4

\* An iteration passes over one scope, moving both of its counters outwards.
LEMMA StepIInv ==
  ASSUME IInv, lookupStep, TypeOK'
  PROVE  IInv'
<1> USE DEF IInv, TypeOK, NoScope, lookupStep, heap
<1>1. ChainMatchesVector'
  BY DEF ChainMatchesVector
<1>2. StopsAreLive'
  BY DEF StopsAreLive
<1>3. FreshScopesAreEmpty'
  BY DEF FreshScopesAreEmpty
<1>4. WalkInStep'
  <2>1. CASE walk' = Idle
    BY <2>1 DEF WalkInStep
  <2>2. CASE walk' # Idle
    <3>1. walk \in Walks /\ walk' \in Walks
      BY <2>2
    <3>2. /\ walk.opt # NoScope
          /\ symbols[walk.opt][walk.id] = Absent
          /\ walk' = [walk EXCEPT !.depth = @ - 1, !.opt = parent[walk.opt]]
      BY <2>2 DEF Returns
    <3>3. /\ walk'.depth = walk.depth - 1
          /\ walk'.opt = parent[walk.opt]
          /\ walk'.id = walk.id
          /\ walk'.stop = walk.stop
      BY <3>1, <3>2 DEF Walks
    <3>4. /\ walk.depth \in 0..(Len(scopes) - 1)
          /\ walk.opt = scopes[walk.depth + 1]
      BY <3>1, <3>2 DEF WalkInStep, Walks
    <3>5. parent[walk.opt] = IF walk.depth = 0 THEN NoScope ELSE scopes[walk.depth]
      <4>1. /\ walk.depth + 1 \in 1..Len(scopes)
            /\ walk.depth + 1 = 1 <=> walk.depth = 0
            /\ walk.depth + 1 - 1 = walk.depth
        BY <3>4
      <4>. QED BY <3>4, <4>1 DEF ChainMatchesVector
    <3>6. \A i \in (walk.depth + 1)..Len(scopes) :
             symbols[scopes[i]][walk.id] = Absent
      BY <3>2, <3>4 DEF WalkInStep
    <3>7. walk'.depth \in -1..(Len(scopes) - 1)
      BY <3>3, <3>4
    <3>8. walk'.opt = IF walk'.depth = -1 THEN NoScope ELSE scopes[walk'.depth + 1]
      BY <3>3, <3>4, <3>5
    <3>9. walk'.stop = getCurrentStop'
      BY <3>3 DEF WalkInStep, getCurrentStop
    <3>10. \A i \in (walk'.depth + 2)..Len(scopes) :
              symbols[scopes[i]][walk'.id] = Absent
      BY <3>3, <3>4, <3>6
    <3>. QED BY <3>7, <3>8, <3>9, <3>10 DEF WalkInStep
  <2>. QED BY <2>1, <2>2
<1>. QED BY <1>1, <1>2, <1>3, <1>4

LEMMA NextIInv == IInv /\ [Next]_vars => IInv'
<1> SUFFICES ASSUME IInv, [Next]_vars PROVE IInv'
    OBVIOUS
<1>0. TypeOK'
  BY NextTypeOK DEF IInv
<1>1. ASSUME NEW insertStop \in BOOLEAN, enterScope(insertStop) PROVE IInv'
  BY <1>0, <1>1, EnterIInv
<1>2. CASE exitScope
  BY <1>0, <1>2, ExitIInv
<1>3. CASE exitNoScope
  BY <1>0, <1>3 DEF IInv, exitNoScope, heap, ChainMatchesVector, StopsAreLive,
                    FreshScopesAreEmpty, WalkInStep, getCurrentStop
<1>4. ASSUME NEW x \in Ids, NEW f \in Flags, addSymbol(x, f) PROVE IInv'
  BY <1>0, <1>4, AddIInv
<1>5. ASSUME NEW x \in Ids, addSymbolRefused(x) PROVE IInv'
  BY <1>0, <1>5 DEF IInv, addSymbolRefused, heap, ChainMatchesVector, StopsAreLive,
                    FreshScopesAreEmpty, WalkInStep, getCurrentStop
<1>6. ASSUME NEW x \in Ids, lookup(x) PROVE IInv'
  BY <1>0, <1>6, LookupIInv
<1>7. CASE lookupStep
  BY <1>0, <1>7, StepIInv
<1>8. CASE UNCHANGED vars
  BY <1>8, <1>0 DEF vars, IInv, ChainMatchesVector, StopsAreLive,
                    FreshScopesAreEmpty, WalkInStep, getCurrentStop
<1>. QED BY <1>1, <1>2, <1>3, <1>4, <1>5, <1>6, <1>7, <1>8 DEF Next

LEMMA SpecIInv == Spec => []IInv
BY InitIInv, NextIInv, PTL DEF Spec

\* The symbol table never leaves its types, whatever is declared and looked up.
THEOREM TypeCorrect == Spec => []TypeOK
BY SpecIInv, PTL DEF IInv

\* The vector of scopes and the chain of parents agree in every state.
THEOREM ChainCorrect == Spec => []ChainMatchesVector
BY SpecIInv, PTL DEF IInv

\* The stack of stops names open scopes only, in order.
THEOREM StopsCorrect == Spec => []StopsAreLive
BY SpecIInv, PTL DEF IInv

\* A lookup in progress looks at the scope at its depth, and passed over no scope that
\* declares the name: the two counters of the loop of lookup never part.
THEOREM WalkCorrect == Spec => []WalkInStep
BY SpecIInv, PTL DEF IInv

\* A declaration goes to the innermost open scope and is never changed.
THEOREM DeclarationsCorrect == Spec => DeclarationsPersist
<1>1. ASSUME IInv, [Next]_vars, NEW s \in ScopeIds, NEW x \in Ids,
             symbols'[s][x] # symbols[s][x]
      PROVE  symbols[s][x] = Absent /\ s = currentScope /\ s = scopes[Len(scopes)]
  <2>1. PICK y \in Ids, f \in Flags : addSymbol(y, f)
    BY <1>1 DEF Next, vars, heap, enterScope, exitScope, exitNoScope,
                addSymbolRefused, lookup, lookupStep, Returns
  <2>2. symbols \in [ScopeIds -> [Ids -> Flags \union {Absent}]]
    BY <1>1 DEF IInv, TypeOK
  <2>3. s = currentScope /\ x = y
    BY <1>1, <2>1, <2>2 DEF addSymbol
  <2>4. symbols[s][x] = Absent
    BY <2>1, <2>3 DEF addSymbol
  <2>5. currentScope = scopes[Len(scopes)]
    BY <1>1, <2>1 DEF IInv, ChainMatchesVector, addSymbol
  <2>. QED BY <2>3, <2>4, <2>5
<1>2. IInv /\ [Next]_vars =>
        [\A s \in ScopeIds, x \in Ids :
            symbols'[s][x] # symbols[s][x] =>
               /\ symbols[s][x] = Absent
               /\ s = currentScope
               /\ s = scopes[Len(scopes)]]_vars
  BY <1>1
<1>. QED BY <1>2, SpecIInv, PTL DEF Spec, DeclarationsPersist

-----------------------------------------------------------------------------
(* The refinement: every step of the table is a step of LexicalScoping on     *)
(* scopeFrames, or a stutter.                                                *)

FrameSet == [id : ScopeIds, fenced : BOOLEAN, binds : [Ids -> Flags \union {Absent}]]

Fenced(i) == i > 1 /\ \E k \in 1..Len(stops) : stops[k] = i - 1

FramesMirror ==
  /\ scopeFrames \in Seq(FrameSet)
  /\ Len(scopeFrames) = Len(scopes)
  /\ Len(scopes) \in Nat
  /\ \A i \in 1..Len(scopes) :
        /\ scopes[i] \in ScopeIds
        /\ scopeFrames[i] \in FrameSet
        /\ scopeFrames[i].id = scopes[i]
        /\ scopeFrames[i].fenced = Fenced(i)
        /\ scopeFrames[i].binds = symbols[scopes[i]]

\* The frames are a sequence as long as the vector, and each frame shows its
\* scope, whether its depth is a stop, and the symbols of the scope.
LEMMA FrameFacts == TypeOK => FramesMirror
<1> SUFFICES ASSUME TypeOK PROVE FramesMirror
    OBVIOUS
<1>1. /\ Len(scopes) \in Nat
      /\ \A i \in 1..Len(scopes) : scopes[i] \in ScopeIds
      /\ \A s \in ScopeIds : symbols[s] \in [Ids -> Flags \union {Absent}]
  BY DEF TypeOK
<1>2. scopeFrames = [i \in 1..Len(scopes) |->
                       [id |-> scopes[i], fenced |-> Fenced(i),
                        binds |-> symbols[scopes[i]]]]
  BY DEF scopeFrames, Fenced
<1>3. ASSUME NEW i \in 1..Len(scopes)
      PROVE  [id |-> scopes[i], fenced |-> Fenced(i),
              binds |-> symbols[scopes[i]]] \in FrameSet
  <2>1. Fenced(i) \in BOOLEAN
    BY DEF Fenced
  <2>. QED BY <1>1, <2>1 DEF FrameSet
<1>4. scopeFrames \in [1..Len(scopes) -> FrameSet]
  BY <1>2, <1>3
<1>5. scopeFrames \in Seq(FrameSet)
  BY <1>1, <1>4, SeqDef
<1>6. Len(scopeFrames) = Len(scopes)
  BY <1>1, <1>4
<1>. QED BY <1>1, <1>2, <1>3, <1>5, <1>6 DEF FramesMirror

\* Two frames are the same when their three fields are.
LEMMA FrameEqual ==
  ASSUME NEW f \in FrameSet, NEW g \in FrameSet,
         f.id = g.id, f.fenced = g.fenced, f.binds = g.binds
  PROVE  f = g
BY DEF FrameSet


\* Entering a scope opens a frame, fenced when it is the body of a function.
LEMMA EnterOpens ==
  ASSUME IInv, IInv', NEW b \in BOOLEAN, enterScope(b)
  PROVE  Lex!Open(b)
<1> DEFINE new == [id |-> scopeNumber, fenced |-> b /\ scopeFrames # <<>>,
                   binds |-> Lex!Empty]
<1>0. TypeOK /\ TypeOK' /\ scopes \in Seq(ScopeIds) /\ stops \in Seq(Nat)
  BY DEF IInv, TypeOK
<1>1. /\ scopeNumber \in ScopeIds
      /\ scopes' = Append(scopes, scopeNumber)
      /\ symbols' = symbols
      /\ stops' = IF b THEN Append(stops, Len(scopes)) ELSE stops
  BY <1>0, MaxScopesAssumption DEF enterScope, TypeOK, ScopeIds
<1>2. /\ Len(scopes) \in Nat
      /\ Len(scopes') = Len(scopes) + 1
      /\ \A i \in 1..Len(scopes) : scopes'[i] = scopes[i]
      /\ scopes'[Len(scopes) + 1] = scopeNumber
  BY <1>0, <1>1, AppendFacts
<1>3. symbols[scopeNumber] = Lex!Empty
  <2>1. symbols[scopeNumber] \in [Ids -> Flags \union {Absent}]
    BY <1>0, <1>1 DEF TypeOK
  <2>2. \A x \in Ids : symbols[scopeNumber][x] = Absent
    BY <1>0, <1>1 DEF IInv, FreshScopesAreEmpty, TypeOK
  <2>. QED BY <2>1, <2>2 DEF Lex!Empty
<1>4. FramesMirror /\ FramesMirror'
  BY <1>0, FrameFacts, PTL
<1>5. /\ new \in FrameSet
      /\ Append(scopeFrames, new) \in Seq(FrameSet)
      /\ Len(Append(scopeFrames, new)) = Len(scopes) + 1
      /\ \A i \in 1..Len(scopes) : Append(scopeFrames, new)[i] = scopeFrames[i]
      /\ Append(scopeFrames, new)[Len(scopes) + 1] = new
  <2>1. new \in FrameSet
    BY <1>1 DEF FrameSet, Lex!Empty
  <2>. QED BY <1>4, <2>1, AppendFacts DEF FramesMirror
<1>6. ASSUME NEW i \in 1..Len(scopes)
      PROVE  Fenced(i)' = Fenced(i)
  <2>1. CASE ~ b
    BY <1>1, <2>1 DEF Fenced
  <2>2. CASE b
    <3>1. /\ Len(stops) \in Nat
          /\ Len(stops') = Len(stops) + 1
          /\ \A k \in 1..Len(stops) : stops'[k] = stops[k]
          /\ stops'[Len(stops) + 1] = Len(scopes)
      BY <1>0, <1>1, <1>2, <2>2, AppendFacts
    <3>2. i - 1 # Len(scopes)
      BY <1>2
    <3>3. \A k \in 1..Len(stops') : k \in 1..Len(stops) \/ k = Len(stops) + 1
      BY <3>1
    <3>4. \A k \in 1..Len(stops) : k \in 1..Len(stops')
      BY <3>1
    <3>. QED BY <3>1, <3>2, <3>3, <3>4 DEF Fenced
  <2>. QED BY <2>1, <2>2
<1>n. PICK n \in Nat : n = Len(scopes)
  BY <1>2
<1>7. Fenced(n + 1)' = (b /\ scopeFrames # <<>>)
  <2>0. Fenced(n + 1)' = (n # 0 /\ \E k \in 1..Len(stops') : stops'[k] = n)
    <3>1. (n + 1 > 1) = (n # 0) /\ n + 1 - 1 = n
      OBVIOUS
    <3>. QED BY <3>1 DEF Fenced
  <2>1. scopeFrames # <<>> <=> Len(scopes) # 0
    BY <1>4 DEF FramesMirror
  <2>2. CASE ~ b
    <3>1. \A k \in 1..Len(stops) : stops[k] < Len(scopes) \/ stops[k] = 0
      BY DEF IInv, StopsAreLive
    <3>2. ~ (Len(scopes) # 0 /\ \E k \in 1..Len(stops) : stops[k] = Len(scopes))
      BY <1>0, <1>2, <3>1
    <3>. QED BY <1>1, <1>n, <2>0, <2>2, <3>2
  <2>3. CASE b
    <3>1. /\ Len(stops) \in Nat
          /\ Len(stops') = Len(stops) + 1
          /\ stops'[Len(stops) + 1] = Len(scopes)
      BY <1>0, <1>1, <1>2, <2>3, AppendFacts
    <3>2. Len(stops) + 1 \in 1..Len(stops')
      BY <3>1
    <3>. QED BY <1>n, <2>0, <2>1, <2>3, <3>1, <3>2
  <2>. QED BY <2>2, <2>3
<1>f. /\ new.id = scopeNumber
      /\ new.fenced = (b /\ scopeFrames # <<>>)
      /\ new.binds = Lex!Empty
  OBVIOUS
<1> HIDE DEF new
<1>8. ASSUME NEW i \in 1..Len(scopes')
      PROVE  scopeFrames'[i] = Append(scopeFrames, new)[i]
  <2>0. /\ scopeFrames'[i] \in FrameSet
        /\ scopeFrames'[i].id = scopes'[i]
        /\ scopeFrames'[i].fenced = Fenced(i)'
        /\ scopeFrames'[i].binds = symbols[scopes'[i]]
    BY <1>1, <1>4 DEF FramesMirror
  <2>1. CASE i \in 1..Len(scopes)
    <3>1. /\ scopeFrames[i] \in FrameSet
          /\ scopeFrames[i].id = scopes[i]
          /\ scopeFrames[i].fenced = Fenced(i)
          /\ scopeFrames[i].binds = symbols[scopes[i]]
      BY <1>4, <2>1 DEF FramesMirror
    <3>2. scopes'[i] = scopes[i]
      BY <1>2, <2>1
    <3>. QED BY <1>5, <1>6, <2>0, <2>1, <3>1, <3>2, FrameEqual
  <2>2. CASE i = n + 1
    <3>2. /\ scopeFrames'[i].id = new.id
          /\ scopeFrames'[i].fenced = new.fenced
          /\ scopeFrames'[i].binds = new.binds
      <4>1. scopes'[i] = scopeNumber
        BY <1>2, <1>n, <2>2
      <4>2. Fenced(i)' = (b /\ scopeFrames # <<>>)
        BY <1>7, <2>2
      <4>. QED BY <1>f, <1>3, <2>0, <4>1, <4>2
    <3>3. Append(scopeFrames, new)[i] = new
      BY <1>5, <1>n, <2>2
    <3>4. scopeFrames'[i] = new
      BY <1>5, <2>0, <3>2, FrameEqual
    <3>. QED BY <3>3, <3>4
  <2>3. i \in 1..Len(scopes) \/ i = n + 1
    BY <1>2, <1>n
  <2>. QED BY <2>1, <2>2, <2>3
<1>9. scopeFrames' = Append(scopeFrames, new)
  BY <1>2, <1>4, <1>5, <1>8, SeqEqual DEF FramesMirror
<1>. QED BY <1>9 DEF new, enterScope, Lex!Open


\* Leaving a scope closes the innermost frame; the fences of the others stay.
LEMMA ExitCloses ==
  ASSUME IInv, IInv', exitScope
  PROVE  Lex!Close
<1> DEFINE front == SubSeq(scopeFrames, 1, Len(scopeFrames) - 1)
<1>0. /\ TypeOK /\ TypeOK' /\ scopes \in Seq(ScopeIds) /\ stops \in Seq(Nat)
      /\ scopes # <<>> /\ currentScope = scopes[Len(scopes)]
  BY DEF IInv, TypeOK, ChainMatchesVector, exitScope
<1>1. FramesMirror /\ FramesMirror'
  BY <1>0, FrameFacts, PTL
<1>2. /\ Len(scopes) \in Nat \ {0}
      /\ Len(scopes') = Len(scopes) - 1
      /\ \A i \in 1..(Len(scopes) - 1) : scopes'[i] = scopes[i]
  BY <1>0, FrontFacts DEF exitScope
<1>3. /\ scopeFrames # <<>> /\ Len(scopeFrames) = Len(scopes)
      /\ Len(scopes) \in 1..Len(scopes)
      /\ scopeFrames[Len(scopeFrames)].id = currentScope
  BY <1>0, <1>1, <1>2 DEF FramesMirror
<1>4. /\ front \in Seq(FrameSet)
      /\ Len(front) = Len(scopes) - 1
      /\ \A i \in 1..(Len(scopes) - 1) : front[i] = scopeFrames[i]
  BY <1>1, <1>3, FrontFacts DEF FramesMirror
<1> HIDE DEF front
<1>5. ASSUME NEW i \in 1..(Len(scopes) - 1)
      PROVE  Fenced(i)' = Fenced(i)
  <2>1. CASE stops' = stops
    BY <2>1 DEF Fenced
  <2>2. CASE stops' # stops
    <3>1. /\ getCurrentStop = Len(scopes) - 1 /\ getCurrentStop # 0
          /\ stops' = SubSeq(stops, 1, Len(stops) - 1)
      BY <2>2 DEF exitScope
    <3>2. /\ stops # <<>> /\ Len(stops) \in Nat \ {0}
          /\ stops[Len(stops)] = Len(scopes) - 1
      BY <1>0, <3>1, StopFacts
    <3>3. /\ Len(stops') = Len(stops) - 1
          /\ \A k \in 1..(Len(stops) - 1) : stops'[k] = stops[k]
      BY <1>0, <3>1, <3>2, FrontFacts
    <3>4. i - 1 # Len(scopes) - 1
      BY <1>2
    <3>5. \A k \in 1..Len(stops) : k \in 1..Len(stops') \/ k = Len(stops)
      BY <3>2, <3>3
    <3>6. \A k \in 1..Len(stops') : k \in 1..Len(stops) /\ stops'[k] = stops[k]
      BY <3>2, <3>3
    <3>. QED BY <3>2, <3>4, <3>5, <3>6 DEF Fenced
  <2>. QED BY <2>1, <2>2
<1>6. ASSUME NEW i \in 1..(Len(scopes) - 1)
      PROVE  scopeFrames'[i] = front[i]
  <2>1. i \in 1..Len(scopes) /\ i \in 1..Len(scopes')
    BY <1>2
  <2>2. /\ scopeFrames[i] \in FrameSet
        /\ scopeFrames[i].id = scopes[i]
        /\ scopeFrames[i].fenced = Fenced(i)
        /\ scopeFrames[i].binds = symbols[scopes[i]]
    BY <1>1, <2>1 DEF FramesMirror
  <2>3. /\ scopeFrames'[i] \in FrameSet
        /\ scopeFrames'[i].id = scopes'[i]
        /\ scopeFrames'[i].fenced = Fenced(i)'
        /\ scopeFrames'[i].binds = symbols'[scopes'[i]]
    BY <1>1, <2>1 DEF FramesMirror
  <2>4. scopes'[i] = scopes[i] /\ symbols' = symbols
    BY <1>2 DEF exitScope, heap
  <2>5. scopeFrames'[i] = scopeFrames[i]
    BY <1>5, <2>2, <2>3, <2>4, FrameEqual
  <2>. QED BY <1>4, <2>5
<1>7. scopeFrames' \in Seq(FrameSet) /\ Len(scopeFrames') = Len(scopes) - 1
  BY <1>1, <1>2 DEF FramesMirror
<1>8. scopeFrames' = front
  BY <1>4, <1>6, <1>7, SeqEqual
<1>. QED BY <1>3, <1>8 DEF front, exitScope, Lex!Close

\* Declaring a symbol changes the innermost frame: no other frame shows the
\* scope it was added to.
LEMMA AddDeclares ==
  ASSUME IInv, IInv', NEW x \in Ids, NEW f \in Flags, addSymbol(x, f)
  PROVE  Lex!Declare(x, f)
<1>0. /\ TypeOK /\ TypeOK' /\ scopes # <<>> /\ currentScope = scopes[Len(scopes)]
      /\ scopes' = scopes /\ stops' = stops
      /\ symbols' = [symbols EXCEPT ![currentScope][x] = f]
      /\ symbols[currentScope][x] = Absent
      /\ scopes \in Seq(ScopeIds)
      /\ symbols \in [ScopeIds -> [Ids -> Flags \union {Absent}]]
      /\ \A i, j \in 1..Len(scopes) : i < j => scopes[i] < scopes[j]
  BY DEF IInv, TypeOK, ChainMatchesVector, addSymbol
<1>n. PICK n \in Nat : n = Len(scopes)
  BY <1>0
<1>1. FramesMirror /\ FramesMirror'
  BY <1>0, FrameFacts, PTL
<1>2. /\ n \in 1..n
      /\ Len(scopeFrames) = n /\ Len(scopeFrames') = n
      /\ scopeFrames # <<>>
      /\ scopes[n] = currentScope /\ currentScope \in ScopeIds
      /\ \A i \in 1..n : scopes[i] \in ScopeIds
  BY <1>0, <1>1, <1>n DEF FramesMirror
<1>3. ~ Lex!Declares(Len(scopeFrames), x)
  BY <1>0, <1>1, <1>2, <1>n DEF FramesMirror, Lex!Declares
<1> DEFINE after == [scopeFrames EXCEPT ![n].binds[x] = f]
<1>4. scopeFrames \in [1..n -> FrameSet] /\ scopeFrames' \in [1..n -> FrameSet]
  BY <1>1, <1>2, LenProperties DEF FramesMirror
<1>5. ASSUME NEW i \in 1..n
      PROVE  scopeFrames'[i] = after[i]
  <2>1. /\ scopeFrames[i] \in FrameSet /\ scopeFrames'[i] \in FrameSet
        /\ scopeFrames[i].id = scopes[i] /\ scopeFrames'[i].id = scopes[i]
        /\ scopeFrames[i].fenced = Fenced(i) /\ scopeFrames'[i].fenced = Fenced(i)'
        /\ scopeFrames[i].binds = symbols[scopes[i]]
        /\ scopeFrames'[i].binds = symbols'[scopes[i]]
    BY <1>0, <1>1, <1>n DEF FramesMirror
  <2>2. Fenced(i)' = Fenced(i)
    BY <1>0 DEF Fenced
  <2>3. CASE i = n
    <3>1. symbols'[scopes[i]] = [symbols[scopes[i]] EXCEPT ![x] = f]
      BY <1>0, <1>2, <2>3
    <3>2. after[i] = [scopeFrames[i] EXCEPT !.binds = [@ EXCEPT ![x] = f]]
      BY <1>4, <2>3
    <3>3. symbols'[scopes[i]] \in [Ids -> Flags \union {Absent}]
      BY <1>0, <1>2, <3>1
    <3>4. /\ after[i] \in FrameSet
          /\ after[i].id = scopes[i]
          /\ after[i].fenced = Fenced(i)
          /\ after[i].binds = symbols'[scopes[i]]
      BY <2>1, <3>1, <3>2, <3>3 DEF FrameSet
    <3> HIDE DEF after
    <3>. QED BY <2>1, <2>2, <3>4, FrameEqual
  <2>4. CASE i # n
    <3>1. after[i] = scopeFrames[i]
      BY <1>4, <2>4
    <3>2. scopes[i] # scopes[n]
      <4>1. i < n
        BY <2>4
      <4>. QED BY <1>0, <1>2, <1>n, <4>1 DEF ScopeIds
    <3>3. symbols'[scopes[i]] = symbols[scopes[i]]
      BY <1>0, <1>2, <3>2
    <3>. QED BY <2>1, <2>2, <3>1, <3>3, FrameEqual
  <2>. QED BY <2>3, <2>4
<1>6. after \in [1..n -> FrameSet]
  <2>1. DOMAIN after = 1..n
    BY <1>4
  <2>. QED BY <1>4, <1>5, <2>1
<1>7. scopeFrames' = after
  BY <1>4, <1>5, <1>6
<1>. QED BY <1>2, <1>3, <1>7 DEF addSymbol, Lex!Declare


\* The current stop is the largest of the stops.
LEMMA StopIsLargest ==
  ASSUME IInv
  PROVE  /\ stops \in Seq(Nat) /\ getCurrentStop \in Nat
         /\ \A k \in 1..Len(stops) : stops[k] \in Nat /\ stops[k] <= getCurrentStop
         /\ getCurrentStop # 0 =>
               /\ getCurrentStop < Len(scopes)
               /\ \E k \in 1..Len(stops) : stops[k] = getCurrentStop
<1>1. stops \in Seq(Nat) /\ getCurrentStop \in Nat
  BY StopFacts DEF IInv, TypeOK
<1>2. CASE stops = <<>>
  BY <1>1, <1>2, StopFacts
<1>3. CASE stops # <<>>
  <2>1. /\ Len(stops) \in Nat \ {0}
        /\ Len(stops) \in 1..Len(stops)
        /\ getCurrentStop = stops[Len(stops)]
    BY <1>1, <1>3, StopFacts
  <2>2. ASSUME NEW k \in 1..Len(stops)
        PROVE  stops[k] \in Nat /\ stops[k] <= getCurrentStop
    <3>1. stops[k] \in Nat
      BY <1>1
    <3>2. CASE k = Len(stops)
      BY <2>1, <3>1, <3>2
    <3>3. CASE k < Len(stops)
      BY <2>1, <3>1, <3>3, <1>1 DEF IInv, StopsAreLive
    <3>. QED BY <2>1, <3>1, <3>2, <3>3
  <2>3. stops[Len(stops)] < Len(scopes) \/ stops[Len(stops)] = 0
    BY <2>1 DEF IInv, StopsAreLive
  <2>. QED BY <1>1, <2>1, <2>2, <2>3
<1>. QED BY <1>2, <1>3

\* An iteration of the loop stutters, or returns what the name resolves to.
LEMMA StepResolves ==
  ASSUME IInv, IInv', lookupStep
  PROVE  \/ UNCHANGED <<scopeFrames, scopeNumber, result>>
         \/ \E x \in Ids : Lex!Resolve(x)
<1> DEFINE x == walk.id
           d == walk.depth
<1>0. /\ scopes' = scopes /\ stops' = stops /\ symbols' = symbols
      /\ scopeNumber' = scopeNumber
  BY DEF lookupStep, heap
<1>1. scopeFrames' = scopeFrames
  BY <1>0 DEF scopeFrames
<1>2. /\ TypeOK /\ FramesMirror /\ Len(scopes) \in Nat
      /\ \A i \in 1..Len(scopes) : scopes[i] \in ScopeIds
  BY FrameFacts DEF IInv, FramesMirror
<1>3. walk \in Walks /\ x \in Ids /\ d \in Int
  BY <1>2 DEF lookupStep, TypeOK, Walks
<1>4. /\ d \in -1..(Len(scopes) - 1)
      /\ walk.opt = IF d = -1 THEN NoScope ELSE scopes[d + 1]
      /\ walk.stop = getCurrentStop
      /\ \A i \in (d + 2)..Len(scopes) : symbols[scopes[i]][x] = Absent
  BY DEF IInv, WalkInStep, lookupStep
<1>5. \A i \in 1..Len(scopes) :
         /\ Lex!Declares(i, x) <=> symbols[scopes[i]][x] # Absent
         /\ scopeFrames[i].fenced = Fenced(i)
         /\ scopeFrames[i].id = scopes[i]
         /\ scopeFrames[i].binds[x] = symbols[scopes[i]][x]
  BY <1>2 DEF FramesMirror, Lex!Declares
<1>6. Len(scopeFrames) = Len(scopes)
  BY <1>2 DEF FramesMirror
<1> HIDE DEF x, d
<1>7. CASE walk.opt = NoScope
  <2>1. d = -1
    <3>1. d # -1 => d + 1 \in 1..Len(scopes)
      BY <1>2, <1>4
    <3>2. d # -1 => scopes[d + 1] \in ScopeIds
      BY <1>2, <3>1
    <3>. QED BY <1>4, <1>7, <3>2, MaxScopesAssumption DEF NoScope, ScopeIds
  <2>2. \A i \in 1..Len(scopes) : symbols[scopes[i]][x] = Absent
    BY <1>2, <1>4, <2>1
  <2>3. \A i \in 1..Len(scopeFrames) : ~ Lex!Resolves(i, x)
    BY <1>5, <1>6, <2>2 DEF Lex!Resolves, Lex!Innermost
  <2>4. result' = [op |-> "lookup", id |-> x, scope |-> NoScope]
    BY <1>7 DEF lookupStep, Returns, x
  <2>5. Lex!Resolve(x)
    BY <1>0, <1>1, <2>3, <2>4 DEF Lex!Resolve, Lex!NoFrame, NoScope
  <2>. QED BY <1>3, <2>5 DEF x
<1>8. CASE walk.opt # NoScope /\ symbols[walk.opt][walk.id] = Absent
  BY <1>0, <1>1, <1>8 DEF lookupStep
<1>9. CASE walk.opt # NoScope /\ symbols[walk.opt][walk.id] # Absent
  <2> DEFINE s == d + 1
             sym == symbols[walk.opt][x]
  <2>1. /\ d \in 0..(Len(scopes) - 1)
        /\ s \in 1..Len(scopes)
        /\ walk.opt = scopes[s]
    BY <1>2, <1>4, <1>9
  <2>2. sym # Absent /\ Lex!Declares(s, x)
    BY <1>5, <1>9, <2>1 DEF x
  <2>3. \A i \in (s + 1)..Len(scopes) : ~ Lex!Declares(i, x)
    <3>1. \A i \in (s + 1)..Len(scopes) : i \in (d + 2)..Len(scopes) /\ i \in 1..Len(scopes)
      BY <1>2, <2>1
    <3>. QED BY <1>4, <1>5, <3>1
  <2> HIDE DEF s, sym
  <2>4. Lex!Innermost(s, x)
    BY <1>6, <2>1, <2>2, <2>3 DEF Lex!Innermost
  <2>5. \A i \in 1..Len(scopes) : Lex!Innermost(i, x) => i = s
    BY <1>2, <1>6, <2>1, <2>2, <2>3 DEF Lex!Innermost
  <2>6. scopeFrames[s].binds[x] = sym
    BY <1>5, <2>1 DEF sym
  <2>7. CASE d >= walk.stop \/ sym.isDefinition \/ sym.isGlobal
    <3>1. d >= walk.stop => Lex!SameBody(s)
      <4>1. ASSUME d >= walk.stop, NEW j \in (s + 1)..Len(scopeFrames)
            PROVE  ~ scopeFrames[j].fenced
        <5>1. j \in 1..Len(scopes) /\ j - 1 > d /\ j \in Int
          BY <1>2, <1>6, <2>1, <4>1 DEF s
        <5>2. \A k \in 1..Len(stops) : stops[k] \in Nat /\ stops[k] <= walk.stop
          BY <1>4, StopIsLargest
        <5>3. walk.stop \in Nat
          BY <1>4, StopIsLargest
        <5>4. \A k \in 1..Len(stops) : stops[k] # j - 1
          BY <2>1, <4>1, <5>1, <5>2, <5>3
        <5>. QED BY <1>5, <5>1, <5>4 DEF Fenced
      <4>. QED BY <4>1 DEF Lex!SameBody
    <3>2. Lex!Usable(s, x)
      BY <2>6, <2>7, <3>1 DEF Lex!Usable
    <3>3. s \in 1..Len(scopeFrames) /\ Lex!Resolves(s, x)
      BY <1>6, <2>1, <2>4, <3>2 DEF Lex!Resolves
    <3>4. result' = [op |-> "lookup", id |-> x, scope |-> scopeFrames[s].id]
      <4>1. scopeFrames[s].id = walk.opt
        BY <1>5, <2>1
      <4>2. result' = [op |-> "lookup", id |-> walk.id, scope |-> walk.opt]
        BY <1>9, <2>7 DEF lookupStep, Returns, sym, x, d
      <4>. QED BY <4>1, <4>2 DEF x
    <3>5. Lex!Resolve(x)
      BY <1>0, <1>1, <3>3, <3>4 DEF Lex!Resolve
    <3>. QED BY <1>3, <3>5 DEF x
  <2>8. CASE ~ (d >= walk.stop \/ sym.isDefinition \/ sym.isGlobal)
    <3>1. walk.stop \in Nat /\ walk.stop > d /\ walk.stop # 0
      BY <1>4, <2>1, <2>8, StopIsLargest
    <3>2. /\ walk.stop < Len(scopes)
          /\ \E k \in 1..Len(stops) : stops[k] = walk.stop
      BY <1>4, <3>1, StopIsLargest
    <3> DEFINE j == walk.stop + 1
    <3>3. j \in (s + 1)..Len(scopes) /\ j \in 1..Len(scopes) /\ j > 1 /\ j - 1 = walk.stop
      BY <1>2, <2>1, <3>1, <3>2 DEF s
    <3> HIDE DEF j
    <3>4. Fenced(j)
      BY <3>2, <3>3 DEF Fenced
    <3>5. ~ Lex!SameBody(s)
      BY <1>5, <1>6, <3>3, <3>4 DEF Lex!SameBody
    <3>6. ~ Lex!Usable(s, x)
      BY <2>6, <2>8, <3>5 DEF Lex!Usable
    <3>7. \A i \in 1..Len(scopeFrames) : ~ Lex!Resolves(i, x)
      BY <1>6, <2>5, <3>6 DEF Lex!Resolves
    <3>8. result' = [op |-> "lookup", id |-> x, scope |-> NoScope]
      BY <1>9, <2>8 DEF lookupStep, Returns, sym, x, d
    <3>9. Lex!Resolve(x)
      BY <1>0, <1>1, <3>7, <3>8 DEF Lex!Resolve, Lex!NoFrame, NoScope
    <3>. QED BY <1>3, <3>9 DEF x
  <2>. QED BY <2>7, <2>8
<1>. QED BY <1>7, <1>8, <1>9

LEMMA InitLex == Init => Lex!LexInit
<1> SUFFICES ASSUME Init PROVE Lex!LexInit
    OBVIOUS
<1>1. scopes = <<>> /\ Len(scopes) = 0 /\ scopeNumber = 0 /\ result = [op |-> "none"]
  BY DEF Init
<1>2. scopeFrames = <<>>
  BY <1>1 DEF scopeFrames
<1>. QED BY <1>1, <1>2 DEF Lex!LexInit

LEMMA NextLex ==
  IInv /\ IInv' /\ [Next]_vars => [Lex!LexNext]_(Lex!lexVars)
<1> SUFFICES ASSUME IInv, IInv', [Next]_vars
             PROVE  Lex!LexNext \/ UNCHANGED <<scopeFrames, scopeNumber, result>>
    BY DEF Lex!lexVars
<1>1. ASSUME NEW b \in BOOLEAN, enterScope(b) PROVE Lex!LexNext
  BY <1>1, EnterOpens DEF Lex!LexNext
<1>2. ASSUME exitScope PROVE Lex!LexNext
  BY <1>2, ExitCloses DEF Lex!LexNext
<1>3. ASSUME exitNoScope PROVE Lex!LexNext
  <2>1. scopes = <<>>
    <3>1. scopes # <<>> => Len(scopes) \in 1..Len(scopes) /\ scopes[Len(scopes)] \in ScopeIds
      BY DEF IInv, TypeOK
    <3>. QED BY <1>3, <3>1, MaxScopesAssumption
         DEF exitNoScope, IInv, ChainMatchesVector, NoScope, ScopeIds
  <2>2. scopeFrames = <<>> /\ scopeFrames' = scopeFrames
    BY <1>3, <2>1 DEF scopeFrames, exitNoScope, heap
  <2>. QED BY <1>3, <2>2 DEF exitNoScope, Lex!LexNext, Lex!Close, Lex!NoFrame, NoScope
<1>4. ASSUME NEW x \in Ids, NEW f \in Flags, addSymbol(x, f) PROVE Lex!LexNext
  BY <1>4, AddDeclares DEF Lex!LexNext
<1>5. ASSUME NEW x \in Ids, NEW f \in Flags, addSymbolRefused(x) PROVE Lex!LexNext
  <2>1. scopeFrames' = scopeFrames /\ scopeNumber' = scopeNumber
        /\ result' = [op |-> "add", ok |-> FALSE]
    BY <1>5 DEF addSymbolRefused, heap, scopeFrames
  <2>2. ~ (scopeFrames # <<>> /\ ~ Lex!Declares(Len(scopeFrames), x))
    <3>1. FramesMirror
      BY FrameFacts DEF IInv
    <3>2. CASE scopes = <<>>
      BY <3>1, <3>2 DEF FramesMirror
    <3>3. CASE scopes # <<>>
      <4>1. Len(scopes) \in 1..Len(scopes) /\ currentScope = scopes[Len(scopes)]
        BY <3>1, <3>3 DEF FramesMirror, IInv, TypeOK, ChainMatchesVector
      <4>2. currentScope # NoScope
        BY <3>1, <4>1, MaxScopesAssumption DEF FramesMirror, NoScope, ScopeIds
      <4>. QED BY <1>5, <3>1, <4>1, <4>2
           DEF addSymbolRefused, FramesMirror, Lex!Declares
    <3>. QED BY <3>2, <3>3
  <2>. QED BY <2>1, <2>2 DEF Lex!LexNext, Lex!Declare
<1>6. ASSUME NEW x \in Ids, lookup(x)
      PROVE  UNCHANGED <<scopeFrames, scopeNumber, result>>
  BY <1>6 DEF lookup, heap, scopeFrames
<1>7. ASSUME lookupStep
      PROVE  Lex!LexNext \/ UNCHANGED <<scopeFrames, scopeNumber, result>>
  BY <1>7, StepResolves DEF Lex!LexNext
<1>8. CASE UNCHANGED vars
  BY <1>8 DEF vars, scopeFrames
<1>. QED BY <1>1, <1>2, <1>3, <1>4, <1>5, <1>6, <1>7, <1>8 DEF Next

\* The symbol table implements block structured scoping with function bodies as
\* fences, for every program.
THEOREM Refinement == Spec => ImplementsLexicalScoping
BY SpecIInv, InitLex, NextLex, PTL
   DEF Spec, ImplementsLexicalScoping, Lex!LexSpec
=============================================================================
