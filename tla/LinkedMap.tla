------------------------------ MODULE LinkedMap ------------------------------
(***************************************************************************)
(* A map that remembers the order of insertion (src/src/utility/include/   *)
(* LinkedMap.h): the position of each key, and the values by position,     *)
(* counted from 0.  The fields of a structure are kept in one.             *)
(***************************************************************************)
EXTENDS Integers, Sequences

EmptyMap == [indexes |-> <<>>, values |-> <<>>]

Has(m, k) == k \in DOMAIN m.indexes

\* Without a key there is no index: optional<unsigned int>.
NoIndex == -1
getIndex(m, k) == IF Has(m, k) THEN m.indexes[k] ELSE NoIndex

\* The value of a key the map has.
lookup(m, k) == m.values[getIndex(m, k) + 1]

\* A key keeps its position when it is inserted again.
insert(m, k, v) ==
  IF Has(m, k)
    THEN [m EXCEPT !.values[getIndex(m, k) + 1] = v]
    ELSE [indexes |-> [j \in DOMAIN m.indexes \union {k} |->
                         IF j = k THEN Len(m.values) ELSE m.indexes[j]],
          values  |-> Append(m.values, v)]

\* Mutant: the elements come out latest first.
getElements_LatestFirst(m) ==
  [i \in 1..Len(m.values) |->
     LET at == Len(m.values) - i
     IN  <<CHOOSE k \in DOMAIN m.indexes : m.indexes[k] = at, m.values[at + 1]>>]

\* The elements in the order of insertion, whatever the order of the keys is.
getElements(m) ==
  [i \in 1..Len(m.values) |->
     <<CHOOSE k \in DOMAIN m.indexes : m.indexes[k] = i - 1, m.values[i]>>]
=============================================================================
