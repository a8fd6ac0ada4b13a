--------------------------- MODULE LinkedMap_proofs ---------------------------
(* What the operators of LinkedMap promise, for any keys and values: every key    *)
(* has one position, positions are given out in order and never change, and what  *)
(* is read by key, by position or in the order of the elements is the same.       *)
EXTENDS LinkedMap, TLAPS

\* The maps with keys in K and values in V: positions are those of `values`, one
\* key at each.
Maps(K, V) ==
  {m \in [indexes : UNION {[D -> Nat] : D \in SUBSET K}, values : Seq(V)] :
     /\ \A k \in DOMAIN m.indexes : m.indexes[k] < Len(m.values)
     /\ \A j, k \in DOMAIN m.indexes : m.indexes[j] = m.indexes[k] => j = k
     /\ \A i \in 1..Len(m.values) : \E k \in DOMAIN m.indexes : m.indexes[k] = i - 1}

\* A map starts without keys.
THEOREM EmptyIsMap == ASSUME NEW K, NEW V PROVE EmptyMap \in Maps(K, V)
<1>1. /\ EmptyMap.indexes \in [{} -> Nat]
      /\ DOMAIN EmptyMap.indexes = {}
      /\ EmptyMap.values \in Seq(V) /\ Len(EmptyMap.values) = 0
  BY DEF EmptyMap
<1>2. EmptyMap.indexes \in UNION {[D -> Nat] : D \in SUBSET K}
  BY <1>1
<1>. QED  BY <1>1, <1>2 DEF EmptyMap, Maps

\* What a member of Maps is.
LEMMA MapFacts ==
  ASSUME NEW K, NEW V, NEW m \in Maps(K, V)
  PROVE  /\ m = [indexes |-> m.indexes, values |-> m.values]
         /\ DOMAIN m.indexes \subseteq K
         /\ m.indexes \in [DOMAIN m.indexes -> Nat]
         /\ m.values \in Seq(V)
         /\ \A k \in DOMAIN m.indexes : m.indexes[k] < Len(m.values)
         /\ \A j, k \in DOMAIN m.indexes : m.indexes[j] = m.indexes[k] => j = k
         /\ \A i \in 1..Len(m.values) : \E k \in DOMAIN m.indexes : m.indexes[k] = i - 1
<1>1. /\ m = [indexes |-> m.indexes, values |-> m.values]
      /\ m.indexes \in UNION {[D -> Nat] : D \in SUBSET K}
      /\ m.values \in Seq(V)
  BY DEF Maps
<1>2. PICK D \in SUBSET K : m.indexes \in [D -> Nat]
  BY <1>1
<1>3. DOMAIN m.indexes = D
  BY <1>2
<1>. QED  BY <1>1, <1>2, <1>3 DEF Maps

\* An inserted key is at the end if it is new, and stays where it is if not: the
\* result is a map with the keys of the old one and this one.
THEOREM InsertMakesMap ==
  ASSUME NEW K, NEW V, NEW m \in Maps(K, V), NEW k \in K, NEW v \in V
  PROVE  insert(m, k, v) \in Maps(K, V)
<1>. DEFINE r == insert(m, k, v)
<1>m. /\ m = [indexes |-> m.indexes, values |-> m.values]
      /\ DOMAIN m.indexes \subseteq K
      /\ m.indexes \in [DOMAIN m.indexes -> Nat]
      /\ m.values \in Seq(V)
      /\ \A j \in DOMAIN m.indexes : m.indexes[j] < Len(m.values)
      /\ \A i, j \in DOMAIN m.indexes : m.indexes[i] = m.indexes[j] => i = j
      /\ \A i \in 1..Len(m.values) : \E j \in DOMAIN m.indexes : m.indexes[j] = i - 1
  BY MapFacts
<1>1. CASE Has(m, k)
  <2>. DEFINE at == m.indexes[k] + 1
  <2>1. r = [m EXCEPT !.values[at] = v]
    BY <1>1 DEF insert, getIndex
  <2>2. r = [indexes |-> m.indexes, values |-> [m.values EXCEPT ![at] = v]]
    BY <2>1, <1>m
  <2>3. /\ [m.values EXCEPT ![at] = v] \in Seq(V)
        /\ Len([m.values EXCEPT ![at] = v]) = Len(m.values)
    <3>1. at \in 1..Len(m.values)
      BY <1>1, <1>m DEF Has
    <3>. QED  BY <3>1, <1>m
  <2>4. m.indexes \in UNION {[D -> Nat] : D \in SUBSET K}
    BY <1>m
  <2>. HIDE DEF r
  <2>. QED  BY <1>m, <2>2, <2>3, <2>4 DEF Maps, r
<1>2. CASE ~ Has(m, k)
  <2>. DEFINE idx == [j \in DOMAIN m.indexes \union {k} |->
                        IF j = k THEN Len(m.values) ELSE m.indexes[j]]
              vals == Append(m.values, v)
  <2>1. r = [indexes |-> idx, values |-> vals]
    BY <1>2 DEF insert
  <2>2. vals \in Seq(V) /\ Len(vals) = Len(m.values) + 1 /\ Len(m.values) \in Nat
    BY <1>m
  <2>3. DOMAIN idx = DOMAIN m.indexes \union {k} /\ k \notin DOMAIN m.indexes
    BY <1>2 DEF Has
  <2>4. /\ idx[k] = Len(m.values)
        /\ \A j \in DOMAIN m.indexes : idx[j] = m.indexes[j] /\ idx[j] \in Nat
    BY <2>3, <1>m
  <2>5. idx \in [DOMAIN idx -> Nat]
    BY <2>2, <2>3, <2>4
  <2>6. idx \in UNION {[D -> Nat] : D \in SUBSET K}
    <3>1. DOMAIN idx \in SUBSET K
      BY <2>3, <1>m
    <3>. HIDE DEF idx
    <3>. QED  BY <2>5, <3>1
  <2>7. \A j \in DOMAIN idx : idx[j] < Len(vals)
    BY <2>2, <2>3, <2>4, <1>m
  <2>8. \A i, j \in DOMAIN idx : idx[i] = idx[j] => i = j
    <3>. SUFFICES ASSUME NEW i \in DOMAIN idx, NEW j \in DOMAIN idx, idx[i] = idx[j]
                  PROVE  i = j
      OBVIOUS
    <3>. HIDE DEF idx
    <3>1. CASE i \in DOMAIN m.indexes /\ j \in DOMAIN m.indexes
      BY <3>1, <2>4, <1>m
    <3>2. CASE i = k /\ j \in DOMAIN m.indexes
      <4>1. m.indexes[j] = Len(m.values)
        BY <3>2, <2>4
      <4>. QED  BY <4>1, <3>2, <1>m, <2>2
    <3>3. CASE j = k /\ i \in DOMAIN m.indexes
      <4>1. m.indexes[i] = Len(m.values)
        BY <3>3, <2>4
      <4>. QED  BY <4>1, <3>3, <1>m, <2>2
    <3>. QED  BY <3>1, <3>2, <3>3, <2>3
  <2>9. \A i \in 1..Len(vals) : \E j \in DOMAIN idx : idx[j] = i - 1
    <3>. SUFFICES ASSUME NEW i \in 1..Len(vals)
                  PROVE  \E j \in DOMAIN idx : idx[j] = i - 1
      OBVIOUS
    <3>. HIDE DEF idx, vals
    <3>1. CASE i \in 1..Len(m.values)
      BY <3>1, <2>3, <2>4, <1>m
    <3>2. CASE i = Len(m.values) + 1
      <4>1. idx[k] = i - 1
        BY <3>2, <2>2, <2>4
      <4>. QED  BY <4>1, <2>3
    <3>. QED  BY <3>1, <3>2, <2>2
  <2>. HIDE DEF r, idx, vals
  <2>. QED  BY <2>1, <2>2, <2>6, <2>7, <2>8, <2>9 DEF Maps, r
<1>. QED  BY <1>1, <1>2

\* What was inserted under a key is found under it.
THEOREM LookupFindsInserted ==
  ASSUME NEW K, NEW V, NEW m \in Maps(K, V), NEW k \in K, NEW v \in V
  PROVE  Has(insert(m, k, v), k) /\ lookup(insert(m, k, v), k) = v
<1>m. /\ m = [indexes |-> m.indexes, values |-> m.values]
      /\ m.indexes \in [DOMAIN m.indexes -> Nat]
      /\ m.values \in Seq(V)
      /\ \A j \in DOMAIN m.indexes : m.indexes[j] < Len(m.values)
  BY MapFacts
<1>1. CASE Has(m, k)
  <2>1. m.indexes[k] + 1 \in 1..Len(m.values)
    BY <1>1, <1>m DEF Has
  <2>2. insert(m, k, v) = [indexes |-> m.indexes,
                           values  |-> [m.values EXCEPT ![m.indexes[k] + 1] = v]]
    BY <1>1, <1>m DEF insert, getIndex
  <2>3. [m.values EXCEPT ![m.indexes[k] + 1] = v][m.indexes[k] + 1] = v
    BY <2>1, <1>m
  <2>. QED  BY <1>1, <2>2, <2>3 DEF Has, lookup, getIndex
<1>2. CASE ~ Has(m, k)
  <2>. DEFINE idx == [j \in DOMAIN m.indexes \union {k} |->
                        IF j = k THEN Len(m.values) ELSE m.indexes[j]]
  <2>1. insert(m, k, v) = [indexes |-> idx, values |-> Append(m.values, v)]
    BY <1>2 DEF insert
  <2>2. k \in DOMAIN idx /\ idx[k] = Len(m.values)
    OBVIOUS
  <2>3. Append(m.values, v)[Len(m.values) + 1] = v
    BY <1>m
  <2>. HIDE DEF idx
  <2>. QED  BY <2>1, <2>2, <2>3 DEF Has, lookup, getIndex
<1>. QED  BY <1>1, <1>2

\* Inserting under one key moves and changes nothing under another: positions that
\* were read before stay good.
THEOREM OtherKeysStay ==
  ASSUME NEW K, NEW V, NEW m \in Maps(K, V), NEW k \in K, NEW v \in V,
         NEW j, Has(m, j), j # k
  PROVE  LET r == insert(m, k, v)
         IN  Has(r, j) /\ getIndex(r, j) = getIndex(m, j) /\ lookup(r, j) = lookup(m, j)
<1>m. /\ m = [indexes |-> m.indexes, values |-> m.values]
      /\ m.indexes \in [DOMAIN m.indexes -> Nat]
      /\ m.values \in Seq(V)
      /\ \A i \in DOMAIN m.indexes : m.indexes[i] < Len(m.values)
      /\ \A h, i \in DOMAIN m.indexes : m.indexes[h] = m.indexes[i] => h = i
  BY MapFacts
<1>j. j \in DOMAIN m.indexes /\ m.indexes[j] + 1 \in 1..Len(m.values)
  BY <1>m DEF Has
<1>1. CASE Has(m, k)
  <2>1. /\ m.indexes[k] + 1 # m.indexes[j] + 1
        /\ m.indexes[k] + 1 \in 1..Len(m.values)
    BY <1>1, <1>m, <1>j DEF Has
  <2>2. insert(m, k, v) = [indexes |-> m.indexes,
                           values  |-> [m.values EXCEPT ![m.indexes[k] + 1] = v]]
    BY <1>1, <1>m DEF insert, getIndex
  <2>3. [m.values EXCEPT ![m.indexes[k] + 1] = v][m.indexes[j] + 1]
          = m.values[m.indexes[j] + 1]
    BY <2>1, <1>j, <1>m
  <2>. QED  BY <1>j, <2>2, <2>3 DEF Has, lookup, getIndex
<1>2. CASE ~ Has(m, k)
  <2>. DEFINE idx == [i \in DOMAIN m.indexes \union {k} |->
                        IF i = k THEN Len(m.values) ELSE m.indexes[i]]
  <2>1. insert(m, k, v) = [indexes |-> idx, values |-> Append(m.values, v)]
    BY <1>2 DEF insert
  <2>2. j \in DOMAIN idx /\ idx[j] = m.indexes[j]
    BY <1>j
  <2>3. Append(m.values, v)[m.indexes[j] + 1] = m.values[m.indexes[j] + 1]
    BY <1>m, <1>j
  <2>. HIDE DEF idx
  <2>. QED  BY <1>j, <2>1, <2>2, <2>3 DEF Has, lookup, getIndex
<1>. QED  BY <1>1, <1>2

\* The elements list each key at its position with its value: what initProduct
\* gives by position is what a field access reads by name.
THEOREM ElementsAgree ==
  ASSUME NEW K, NEW V, NEW m \in Maps(K, V), NEW k, Has(m, k)
  PROVE  /\ getIndex(m, k) + 1 \in DOMAIN getElements(m)
         /\ getElements(m)[getIndex(m, k) + 1] = <<k, lookup(m, k)>>
<1>m. /\ m.indexes \in [DOMAIN m.indexes -> Nat]
      /\ m.values \in Seq(V)
      /\ \A i \in DOMAIN m.indexes : m.indexes[i] < Len(m.values)
      /\ \A h, i \in DOMAIN m.indexes : m.indexes[h] = m.indexes[i] => h = i
  BY MapFacts
<1>. DEFINE at == m.indexes[k] + 1
<1>1. k \in DOMAIN m.indexes /\ at \in 1..Len(m.values) /\ at - 1 = m.indexes[k]
  BY <1>m DEF Has
<1>2. getIndex(m, k) + 1 = at /\ lookup(m, k) = m.values[at]
  BY DEF getIndex, lookup
<1>3. (CHOOSE j \in DOMAIN m.indexes : m.indexes[j] = at - 1) = k
  <2>1. \A j \in DOMAIN m.indexes : m.indexes[j] = at - 1 <=> j = k
    BY <1>1, <1>m
  <2>. QED  BY <2>1, <1>1
<1>4. getElements(m)[at] = <<CHOOSE j \in DOMAIN m.indexes : m.indexes[j] = at - 1, m.values[at]>>
  BY <1>1 DEF getElements
<1>5. at \in DOMAIN getElements(m)
  BY <1>1 DEF getElements
<1>. QED  BY <1>2, <1>3, <1>4, <1>5
=============================================================================
