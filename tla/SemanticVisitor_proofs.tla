------------------------ MODULE SemanticVisitor_proofs ------------------------
(* Proofs about the semantic pass, for every unit, all names, headings and    *)
(* declarators, every sum and every bound on scopes and nesting.              *)
EXTENDS SemanticVisitor, SequenceFacts

Blocks == {"fn", "block", "case"}
Scopes == [id : Nat, fenced : BOOLEAN, binds : [Ids -> Flags \union {Absent}]]

-----------------------------------------------------------------------------
(* The parts of the inductive invariant.                                      *)

\* The positions of the handlers that entered a scope; that scope is numbered one
\* more than there are such positions up to it.
Positions(st) == {i \in DOMAIN st : st[i].kind \in Blocks}

ScopeFits(s, h) ==
  /\ s.fenced = (h.kind = "fn")
  /\ s.binds[Return] = IF h.kind = "fn" THEN Variable(h.type, FALSE) ELSE Absent

\* ScopesFollowHandlers, and that every scope but the first has a handler.
Follows(tb, st) ==
  /\ Len(tb) = 1 + Count(Positions(st), Len(st))
  /\ tb[1].binds[Return] = Absent
  /\ \A i \in Positions(st) : ScopeFits(tb[1 + Count(Positions(st), i)], st[i])
  /\ \A k \in 2..Len(tb) : \E i \in Positions(st) : k = 1 + Count(Positions(st), i)

\* Alternatives stand in selects and matches, everything else in blocks, and all of
\* it in a function.
Nests(st) ==
  /\ st # <<>> => st[1].kind = "fn"
  /\ \A i \in 2..Len(st) :
        IF st[i].kind = "case" THEN st[i - 1].kind \in {"select", "match"}
                               ELSE st[i - 1].kind \in Blocks

\* No handler has seen dead code.
NoneDead(st) == \A i \in Positions(st) : st[i].last # "dead"

\* The cases that a match has counted are cases of the sum, each once.
MatchCounts(h) == /\ h.named \subseteq SumCases
                  /\ h.again \/ h.found = Cardinality(h.named)
MatchesCount(st) == \A i \in DOMAIN st : st[i].kind = "match" => MatchCounts(st[i])

\* A handler after it was told what its last statement was.
Alike(a, b) == /\ a.kind = b.kind
               /\ a.kind = "fn" => a.type = b.type /\ a.returns = b.returns /\ a.item = b.item
               /\ a.kind = "match" => a = b

-----------------------------------------------------------------------------
(* Handlers.                                                                  *)

LEMMA HandlerFacts ==
  ASSUME NEW h \in Handlers
  PROVE  /\ h.kind \in Blocks \union {"select", "match"}
         /\ h.kind = "fn" => /\ h.type \in Nat \ {0} /\ h.returns \in BOOLEAN
                             /\ h.item \in Nat /\ h.lambda \in BOOLEAN
         /\ h.kind = "block" => h.else \in BOOLEAN
         /\ h.kind \in Blocks => h.last \in Forms
         /\ h.kind = "select" => h.cases \in 0..2 /\ h = [kind |-> "select", cases |-> h.cases]
         /\ h.kind = "match" => /\ h.named \subseteq Denoted /\ h.found \in Nat
                                /\ h.again \in BOOLEAN
BY DEF Handlers, Blocks

LEMMA HandlerFinishes ==
  ASSUME NEW h \in Handlers, h.kind \in Blocks, NEW form \in Forms
  PROVE  /\ [h EXCEPT !.last = form] \in Handlers
         /\ [h EXCEPT !.last = form].last = form
         /\ Alike([h EXCEPT !.last = form], h)
BY DEF Handlers, Blocks, Alike

\* What safeVisitBlock does to the handlers that go on.
LEMMA FinishesFacts ==
  ASSUME NEW st \in Seq(Handlers), st # <<>> => st[Len(st)].kind \in Blocks,
         NEW form \in Forms \ {"dead"}, NEW bad \in BOOLEAN, errors \in BOOLEAN,
         Finishes(form, st, bad)
  PROVE  /\ stack' \in Seq(Handlers) /\ Len(stack') = Len(st)
         /\ \A i \in 1..Len(st) : Alike(stack'[i], st[i])
         /\ NoneDead(st) /\ ~ errors' => NoneDead(stack')
         /\ next' = IF st = <<>> THEN next + 1 ELSE next
         /\ errors' \in BOOLEAN /\ (errors \/ bad => errors')
<1>1. CASE st = <<>>
  BY <1>1 DEF Finishes, NoneDead
<1>2. CASE st # <<>>
  <2> DEFINE n == Len(st)
             dead == st[n].last = "return"
             h == [st[n] EXCEPT !.last = IF dead THEN "dead" ELSE form]
  <2>1. n \in Nat \ {0} /\ st[n] \in Handlers
    BY <1>2
  <2>2. /\ h \in Handlers /\ Alike(h, st[n])
        /\ h.last = IF dead THEN "dead" ELSE form
    <3>1. (IF dead THEN "dead" ELSE form) \in Forms
      BY DEF Forms
    <3>. QED BY <1>2, <2>1, <3>1, HandlerFinishes
  <2>3. stack' = [st EXCEPT ![Len(st)] = h]
    BY <1>2 DEF Finishes
  <2>4. /\ next' = next /\ errors' = (errors \/ bad \/ dead)
    BY <1>2 DEF Finishes
  <2> HIDE DEF h, dead
  <2>5. /\ stack' \in Seq(Handlers) /\ Len(stack') = n
        /\ \A i \in 1..(n - 1) : stack'[i] = st[i]
        /\ stack'[n] = h
    BY <1>2, <2>2, <2>3, LastFacts
  <2>6. \A i \in 1..n : Alike(stack'[i], st[i])
    <3>1. ASSUME NEW i \in 1..n PROVE Alike(stack'[i], st[i])
      <4>1. i = n \/ i \in 1..(n - 1)
        BY <2>1
      <4>. QED BY <2>2, <2>5, <4>1 DEF Alike
    <3>. QED BY <3>1
  <2>7. ASSUME NoneDead(st), ~ errors' PROVE NoneDead(stack')
    <3>1. ASSUME NEW i \in Positions(stack') PROVE stack'[i].last # "dead"
      <4>1. i \in 1..n /\ (i = n \/ i \in 1..(n - 1))
        BY <2>1, <2>5, <3>1 DEF Positions
      <4>2. CASE i = n
        BY <2>2, <2>4, <2>5, <2>7, <4>2
      <4>3. CASE i \in 1..(n - 1)
        BY <2>5, <2>7, <3>1, <4>1, <4>3 DEF NoneDead, Positions
      <4>. QED BY <4>1, <4>2, <4>3
    <3>. QED BY <3>1 DEF NoneDead
  <2>. QED BY <1>2, <2>4, <2>5, <2>6, <2>7
<1>. QED BY <1>1, <1>2

-----------------------------------------------------------------------------
(* Scopes and handlers.                                                       *)

\* The same scopes as far as bodies are concerned, and the same handlers.
SameScopes(tc, tb) == /\ Len(tc) = Len(tb)
                      /\ \A k \in 1..Len(tb) : /\ tc[k].fenced = tb[k].fenced
                                               /\ tc[k].binds[Return] = tb[k].binds[Return]

LEMMA PositionFacts ==
  ASSUME NEW st \in Seq(Handlers), NEW su \in Seq(Handlers), NEW n \in Nat,
         n <= Len(st), n <= Len(su), \A i \in 1..n : su[i].kind = st[i].kind
  PROVE  /\ \A i \in 1..n : i \in Positions(su) <=> i \in Positions(st)
         /\ \A k \in 0..n : Count(Positions(su), k) = Count(Positions(st), k)
<1>1. Len(st) \in Nat /\ Len(su) \in Nat /\ DOMAIN st = 1..Len(st) /\ DOMAIN su = 1..Len(su)
  OBVIOUS
<1>2. ASSUME NEW i \in 1..n PROVE i \in Positions(su) <=> i \in Positions(st)
  <2>1. i \in 1..Len(st) /\ i \in 1..Len(su)
    BY <1>1
  <2>. QED BY <1>1, <2>1 DEF Positions
<1>3. ASSUME NEW k \in 0..n PROVE Count(Positions(su), k) = Count(Positions(st), k)
  <2>1. k \in Nat /\ \A j \in 1..k : j \in 1..n
    OBVIOUS
  <2>2. \A j \in 1..k : j \in Positions(su) <=> j \in Positions(st)
    BY <1>2, <2>1
  <2>. QED BY <2>1, <2>2, CountSame
<1>. QED BY <1>2, <1>3

\* The number of the scope of a handler.
LEMMA CountInTable ==
  ASSUME NEW st \in Seq(Handlers), NEW i \in Positions(st)
  PROVE  /\ i \in 1..Len(st) /\ Len(st) \in Nat
         /\ Count(Positions(st), i) \in 1..Count(Positions(st), Len(st))
         /\ Count(Positions(st), Len(st)) \in Nat
<1>1. i \in 1..Len(st) /\ Len(st) \in Nat
  BY DEF Positions
<1>2. i \in Nat /\ i - 1 \in Nat /\ (i - 1) + 1 = i
  BY <1>1
<1>3. /\ Count(Positions(st), i - 1) \in Nat /\ Count(Positions(st), i) \in Nat
      /\ Count(Positions(st), i) = Count(Positions(st), i - 1) + 1
      /\ Count(Positions(st), Len(st)) \in Nat
  <2>1. Count(Positions(st), i - 1) \in Nat /\ Count(Positions(st), i) \in Nat
         /\ Count(Positions(st), Len(st)) \in Nat
    BY <1>1, <1>2, CountFacts
  <2>2. (i - 1) + 1 \in Positions(st) =>
          Count(Positions(st), (i - 1) + 1) = Count(Positions(st), i - 1) + 1
    BY <1>2, CountFacts
  <2>. QED BY <1>2, <2>1, <2>2
<1>4. Count(Positions(st), i) <= Count(Positions(st), Len(st))
  <2>1. CASE i = Len(st)
    BY <1>3, <2>1
  <2>2. CASE i # Len(st)
    <3>1. i < Len(st)
      BY <1>1, <2>2
    <3>. QED BY <1>1, <1>2, <3>1, CountGrows
  <2>. QED BY <2>1, <2>2
<1>. QED BY <1>1, <1>3, <1>4

LEMMA FollowsAlike ==
  ASSUME NEW tb, NEW tc, NEW st \in Seq(Handlers), NEW su \in Seq(Handlers),
         Follows(tb, st), SameScopes(tc, tb), Len(su) = Len(st),
         \A i \in 1..Len(st) : Alike(su[i], st[i])
  PROVE  Follows(tc, su)
<1> DEFINE n == Len(st)
<1>1. n \in Nat /\ \A i \in 1..n : su[i].kind = st[i].kind
  BY DEF Alike
<1>2. /\ \A i \in 1..n : i \in Positions(su) <=> i \in Positions(st)
      /\ \A k \in 0..n : Count(Positions(su), k) = Count(Positions(st), k)
  BY <1>1, PositionFacts
<1>3. Positions(su) \subseteq 1..n /\ Positions(st) \subseteq 1..n
  BY DEF Positions
<1>4. Positions(su) = Positions(st)
  BY <1>2, <1>3
<1>5. Len(tb) = 1 + Count(Positions(st), n) /\ Len(tc) = Len(tb)
  BY DEF Follows, SameScopes
<1>6. Count(Positions(st), n) \in Nat
  BY <1>1, CountFacts
<1>7. Len(tc) = 1 + Count(Positions(su), Len(su))
  BY <1>4, <1>5
<1>8. tc[1].binds[Return] = Absent
  <2>1. 1 \in 1..Len(tb)
    BY <1>5, <1>6
  <2>. QED BY <2>1 DEF SameScopes, Follows
<1>9. ASSUME NEW i \in Positions(su) PROVE ScopeFits(tc[1 + Count(Positions(su), i)], su[i])
  <2> DEFINE k == 1 + Count(Positions(st), i)
  <2>1. i \in Positions(st) /\ i \in 1..n
    BY <1>3, <1>4
  <2>2. k \in 1..Len(tb)
    BY <1>5, <2>1, CountInTable
  <2>3. ScopeFits(tb[k], st[i]) /\ Alike(su[i], st[i])
    BY <2>1 DEF Follows
  <2>. QED BY <1>4, <2>2, <2>3 DEF ScopeFits, SameScopes, Alike
<1>10. \A k \in 2..Len(tc) : \E i \in Positions(su) : k = 1 + Count(Positions(su), i)
  BY <1>4, <1>5 DEF Follows
<1>. QED BY <1>7, <1>8, <1>9, <1>10 DEF Follows

\* A handler enters a scope.
LEMMA FollowsEnter ==
  ASSUME NEW tb \in Seq(Scopes), NEW st \in Seq(Handlers), Follows(tb, st),
         NEW h \in Handlers, h.kind \in Blocks, NEW s \in Scopes, ScopeFits(s, h)
  PROVE  Follows(Append(tb, s), Append(st, h))
<1> DEFINE su == Append(st, h)
           tc == Append(tb, s)
           n == Len(st)
           m == Len(tb)
<1>1. /\ su \in Seq(Handlers) /\ n \in Nat /\ Len(su) = n + 1
      /\ \A i \in 1..n : su[i] = st[i]
      /\ su[n + 1] = h
  BY AppendFacts
<1>2. /\ m \in Nat /\ Len(tc) = m + 1
      /\ \A i \in 1..m : tc[i] = tb[i]
      /\ tc[m + 1] = s
  BY AppendFacts
<1>3. /\ \A i \in 1..n : i \in Positions(su) <=> i \in Positions(st)
      /\ \A k \in 0..n : Count(Positions(su), k) = Count(Positions(st), k)
  <2> HIDE DEF su
  <2>1. n <= Len(st) /\ n <= Len(su) /\ \A i \in 1..n : su[i].kind = st[i].kind
    BY <1>1
  <2> HIDE DEF n
  <2>. QED BY <1>1, <2>1, PositionFacts
<1>4. Positions(su) \subseteq 1..(n + 1) /\ Positions(st) \subseteq 1..n
  BY <1>1 DEF Positions
<1>5. n + 1 \in Positions(su)
  BY <1>1 DEF Positions
<1> HIDE DEF su, tc
<1>6. /\ m = 1 + Count(Positions(st), n) /\ Count(Positions(st), n) \in Nat
      /\ Count(Positions(su), n) = Count(Positions(st), n)
  BY <1>1, <1>3, CountFacts DEF Follows
<1>7. Count(Positions(su), n + 1) = m
  BY <1>1, <1>5, <1>6, CountFacts
<1>8. Len(tc) = 1 + Count(Positions(su), Len(su))
  BY <1>1, <1>2, <1>7
<1>9. tc[1].binds[Return] = Absent
  BY <1>2, <1>6 DEF Follows
<1>10. ASSUME NEW i \in Positions(su) PROVE ScopeFits(tc[1 + Count(Positions(su), i)], su[i])
  <2>1. i = n + 1 \/ i \in 1..n
    BY <1>1, <1>4
  <2>2. CASE i = n + 1
    BY <1>1, <1>2, <1>7, <2>2
  <2>3. CASE i \in 1..n
    <3> DEFINE k == 1 + Count(Positions(st), i)
    <3>1. i \in Positions(st) /\ Count(Positions(su), i) = Count(Positions(st), i)
      BY <1>3, <2>3
    <3>2. k \in 1..m
      BY <1>6, <3>1, CountInTable
    <3>3. ScopeFits(tb[k], st[i])
      BY <3>1 DEF Follows
    <3>. QED BY <1>1, <1>2, <2>3, <3>1, <3>2, <3>3
  <2>. QED BY <2>1, <2>2, <2>3
<1>11. ASSUME NEW k \in 2..Len(tc)
       PROVE  \E i \in Positions(su) : k = 1 + Count(Positions(su), i)
  <2>1. k = m + 1 \/ k \in 2..m
    BY <1>2
  <2>2. CASE k = m + 1
    BY <1>5, <1>7, <1>2, <2>2
  <2>3. CASE k \in 2..m
    <3>1. PICK i \in Positions(st) : k = 1 + Count(Positions(st), i)
      BY <2>3 DEF Follows
    <3>2. i \in Positions(su) /\ Count(Positions(su), i) = Count(Positions(st), i)
      BY <1>3, <1>4
    <3>. QED BY <3>1, <3>2
  <2>. QED BY <2>1, <2>2, <2>3
<1>. QED BY <1>8, <1>9, <1>10, <1>11 DEF Follows, su, tc

\* A handler begins that enters none.
LEMMA FollowsPush ==
  ASSUME NEW tb, NEW st \in Seq(Handlers), Follows(tb, st),
         NEW h \in Handlers, h.kind \notin Blocks
  PROVE  Follows(tb, Append(st, h))
<1> DEFINE su == Append(st, h)
           n == Len(st)
<1>1. /\ su \in Seq(Handlers) /\ n \in Nat /\ Len(su) = n + 1
      /\ \A i \in 1..n : su[i] = st[i]
      /\ su[n + 1] = h
  BY AppendFacts
<1>2. /\ \A i \in 1..n : i \in Positions(su) <=> i \in Positions(st)
      /\ \A k \in 0..n : Count(Positions(su), k) = Count(Positions(st), k)
  <2> HIDE DEF su
  <2>. QED BY <1>1, PositionFacts
<1>3. Positions(su) \subseteq 1..(n + 1) /\ Positions(st) \subseteq 1..n
  BY <1>1 DEF Positions
<1>4. n + 1 \notin Positions(su)
  BY <1>1 DEF Positions
<1> HIDE DEF su
<1>5. Positions(su) = Positions(st)
  <2>1. ASSUME NEW i PROVE i \in Positions(su) <=> i \in Positions(st)
    <3>1. i \in 1..(n + 1) => i \in 1..n \/ i = n + 1
      BY <1>1
    <3>2. i \in 1..n => i \in 1..(n + 1)
      BY <1>1
    <3>3. n + 1 \notin 1..n
      BY <1>1
    <3>. QED BY <1>2, <1>3, <1>4, <3>1, <3>2, <3>3
  <2>. QED BY <1>3, <2>1
<1>6. Count(Positions(su), n + 1) = Count(Positions(st), n)
  BY <1>1, <1>4, <1>5, CountFacts
<1>7. \A i \in Positions(st) : su[i] = st[i]
  BY <1>1, <1>3
<1>. QED BY <1>1, <1>5, <1>6, <1>7 DEF Follows, su

\* A handler leaves the scope that it entered.
LEMMA FollowsExit ==
  ASSUME NEW tb \in Seq(Scopes), NEW st \in Seq(Handlers), Follows(tb, st),
         st # <<>>, st[Len(st)].kind \in Blocks
  PROVE  /\ Follows(ExitScope(tb), SubSeq(st, 1, Len(st) - 1))
         /\ tb # <<>> /\ Len(tb) \in Nat /\ Len(tb) >= 2
<1> DEFINE su == SubSeq(st, 1, Len(st) - 1)
           tc == SubSeq(tb, 1, Len(tb) - 1)
           n == Len(st) - 1
           m == Len(tb)
<1>1. /\ su \in Seq(Handlers) /\ n \in Nat /\ Len(su) = n /\ Len(st) = n + 1
      /\ \A i \in 1..n : su[i] = st[i]
  BY FrontFacts
<1>2. /\ \A i \in 1..n : i \in Positions(su) <=> i \in Positions(st)
      /\ \A k \in 0..n : Count(Positions(su), k) = Count(Positions(st), k)
  <2> HIDE DEF su, n
  <2>. QED BY <1>1, PositionFacts
<1>3. Positions(st) \subseteq 1..(n + 1) /\ Positions(su) \subseteq 1..n
  BY <1>1 DEF Positions
<1>4. n + 1 \in Positions(st)
  BY <1>1 DEF Positions
<1>5. /\ m = 1 + Count(Positions(st), n + 1)
      /\ Count(Positions(st), n) \in Nat
      /\ Count(Positions(st), n + 1) = Count(Positions(st), n) + 1
      /\ Count(Positions(su), n) = Count(Positions(st), n)
  <2> HIDE DEF su, n
  <2>1. m = 1 + Count(Positions(st), n + 1)
    BY <1>1 DEF Follows
  <2>. QED BY <1>1, <1>2, <1>4, <2>1, CountFacts
<1>6. m \in Nat /\ m >= 2 /\ tb # <<>>
  <2>1. m \in Nat /\ m >= 2
    BY <1>5
  <2>. QED BY <2>1
<1>7. /\ tc \in Seq(Scopes) /\ Len(tc) = m - 1
      /\ \A i \in 1..(m - 1) : tc[i] = tb[i]
  BY <1>6, FrontFacts
<1> HIDE DEF su, tc, n
<1>8. Len(tc) = 1 + Count(Positions(su), Len(su))
  BY <1>1, <1>5, <1>7
<1>9. tc[1].binds[Return] = Absent
  BY <1>6, <1>7 DEF Follows
<1>10. ASSUME NEW i \in Positions(su) PROVE ScopeFits(tc[1 + Count(Positions(su), i)], su[i])
  <2> DEFINE k == 1 + Count(Positions(st), i)
  <2>1. /\ i \in Positions(st) /\ Count(Positions(su), i) = Count(Positions(st), i)
        /\ i \in 1..n
    BY <1>2, <1>3
  <2>2. k \in 1..(m - 1)
    <3>1. Count(Positions(su), i) \in 1..Count(Positions(su), Len(su))
      BY <1>1, CountInTable
    <3>. QED BY <1>1, <1>5, <2>1, <3>1
  <2>3. ScopeFits(tb[k], st[i])
    BY <2>1 DEF Follows
  <2>. QED BY <1>1, <1>7, <2>1, <2>2, <2>3
<1>11. ASSUME NEW k \in 2..Len(tc)
       PROVE  \E i \in Positions(su) : k = 1 + Count(Positions(su), i)
  <2>1. k \in 2..m /\ k < m
    BY <1>6, <1>7
  <2>2. PICK i \in Positions(st) : k = 1 + Count(Positions(st), i)
    BY <2>1 DEF Follows
  <2>3. i # n + 1
    BY <1>5, <2>1, <2>2
  <2>4. i \in 1..n
    BY <1>1, <1>3, <2>3
  <2>. QED BY <1>2, <2>2, <2>4
<1>. QED BY <1>6, <1>8, <1>9, <1>10, <1>11 DEF Follows, ExitScope, su, tc

\* A handler ends that entered none.
LEMMA FollowsPop ==
  ASSUME NEW tb, NEW st \in Seq(Handlers), Follows(tb, st),
         st # <<>>, st[Len(st)].kind \notin Blocks
  PROVE  Follows(tb, SubSeq(st, 1, Len(st) - 1))
<1> DEFINE su == SubSeq(st, 1, Len(st) - 1)
           n == Len(st) - 1
<1>1. /\ su \in Seq(Handlers) /\ n \in Nat /\ Len(su) = n /\ Len(st) = n + 1
      /\ \A i \in 1..n : su[i] = st[i]
  BY FrontFacts
<1>2. /\ \A i \in 1..n : i \in Positions(su) <=> i \in Positions(st)
      /\ \A k \in 0..n : Count(Positions(su), k) = Count(Positions(st), k)
  <2> HIDE DEF su, n
  <2>. QED BY <1>1, PositionFacts
<1>3. Positions(st) \subseteq 1..(n + 1) /\ Positions(su) \subseteq 1..n
  BY <1>1 DEF Positions
<1>4. n + 1 \notin Positions(st)
  BY <1>1 DEF Positions
<1> HIDE DEF su, n
<1>5. Positions(su) = Positions(st)
  <2>1. ASSUME NEW i PROVE i \in Positions(su) <=> i \in Positions(st)
    <3>1. i \in 1..(n + 1) => i \in 1..n \/ i = n + 1
      BY <1>1
    <3>2. i \in 1..n => i \in 1..(n + 1)
      BY <1>1
    <3>3. n + 1 \notin 1..n
      BY <1>1
    <3>. QED BY <1>2, <1>3, <1>4, <3>1, <3>2, <3>3
  <2>. QED BY <1>3, <2>1
<1>6. Count(Positions(st), n + 1) = Count(Positions(su), n)
  BY <1>1, <1>4, <1>5, CountFacts
<1>7. \A i \in Positions(st) : su[i] = st[i]
  BY <1>1, <1>3, <1>5
<1>. QED BY <1>1, <1>5, <1>6, <1>7 DEF Follows, su

LEMMA NestsAlike ==
  ASSUME NEW st \in Seq(Handlers), NEW su \in Seq(Handlers), Nests(st),
         Len(su) = Len(st), \A i \in 1..Len(st) : Alike(su[i], st[i])
  PROVE  Nests(su)
<1>1. \A i \in 1..Len(st) : su[i].kind = st[i].kind
  BY DEF Alike
<1>2. su # <<>> => su[1].kind = "fn"
  BY <1>1 DEF Nests
<1>3. ASSUME NEW i \in 2..Len(su)
      PROVE  i \in 1..Len(st) /\ i - 1 \in 1..Len(st) /\ i \in 2..Len(st)
  OBVIOUS
<1>. QED BY <1>1, <1>2, <1>3 DEF Nests

LEMMA NestsPush ==
  ASSUME NEW st \in Seq(Handlers), Nests(st), NEW h \in Handlers,
         IF st = <<>> THEN h.kind = "fn"
         ELSE IF h.kind = "case" THEN st[Len(st)].kind \in {"select", "match"}
                                 ELSE st[Len(st)].kind \in Blocks
  PROVE  Nests(Append(st, h))
<1> DEFINE su == Append(st, h)
           n == Len(st)
<1>1. /\ su \in Seq(Handlers) /\ n \in Nat /\ Len(su) = n + 1
      /\ \A i \in 1..n : su[i] = st[i]
      /\ su[n + 1] = h
  BY AppendFacts
<1>2. su[1].kind = "fn"
  <2>1. CASE st = <<>>
    BY <1>1, <2>1
  <2>2. CASE st # <<>>
    BY <1>1, <2>2 DEF Nests
  <2>. QED BY <2>1, <2>2
<1> HIDE DEF su
<1>3. ASSUME NEW i \in 2..Len(su)
      PROVE  IF su[i].kind = "case" THEN su[i - 1].kind \in {"select", "match"}
                                    ELSE su[i - 1].kind \in Blocks
  <2>1. CASE i = n + 1
    <3>1. st # <<>> /\ i - 1 = n /\ n \in 1..n
      BY <1>1, <2>1
    <3>. QED BY <1>1, <2>1, <3>1
  <2>2. CASE i # n + 1
    <3>1. i \in 2..n /\ i \in 1..n /\ i - 1 \in 1..n
      BY <1>1, <2>2
    <3>. QED BY <1>1, <3>1 DEF Nests
  <2>. QED BY <2>1, <2>2
<1>. QED BY <1>2, <1>3 DEF Nests, su

LEMMA NestsPop ==
  ASSUME NEW st \in Seq(Handlers), Nests(st), st # <<>>,
         NEW su, su = SubSeq(st, 1, Len(st) - 1)
  PROVE  /\ su \in Seq(Handlers) /\ Nests(su)
         /\ st[Len(st)] \in Handlers
         /\ su = <<>> => st[Len(st)].kind = "fn"
         /\ su # <<>> => IF st[Len(st)].kind = "case"
                           THEN su[Len(su)].kind \in {"select", "match"}
                           ELSE su[Len(su)].kind \in Blocks
<1> DEFINE n == Len(st) - 1
<1>1. /\ su \in Seq(Handlers) /\ n \in Nat /\ Len(su) = n /\ Len(st) = n + 1
      /\ \A i \in 1..n : su[i] = st[i]
  BY FrontFacts
<1>2. st[Len(st)] \in Handlers
  OBVIOUS
<1> HIDE DEF n
<1>3. su # <<>> => su[1].kind = "fn"
  BY <1>1 DEF Nests
<1>4. ASSUME NEW i \in 2..Len(su)
      PROVE  IF su[i].kind = "case" THEN su[i - 1].kind \in {"select", "match"}
                                    ELSE su[i - 1].kind \in Blocks
  <2>1. i \in 2..Len(st) /\ i \in 1..n /\ i - 1 \in 1..n
    BY <1>1
  <2>. QED BY <1>1, <2>1 DEF Nests
<1>5. su = <<>> => st[Len(st)].kind = "fn"
  BY <1>1 DEF Nests
<1>6. su # <<>> => IF st[Len(st)].kind = "case"
                           THEN su[Len(su)].kind \in {"select", "match"}
                           ELSE su[Len(su)].kind \in Blocks
  <2> SUFFICES ASSUME su # <<>> PROVE IF st[Len(st)].kind = "case"
                           THEN su[Len(su)].kind \in {"select", "match"}
                           ELSE su[Len(su)].kind \in Blocks
    OBVIOUS
  <2>1. n # 0
    BY <1>1
  <2>2. n + 1 \in 2..Len(st) /\ (n + 1) - 1 = n /\ su[n] = st[n]
    BY <1>1, <2>1
  <2>. QED BY <1>1, <2>2 DEF Nests
<1>. QED BY <1>1, <1>2, <1>3, <1>4, <1>5, <1>6 DEF Nests

\* No handler has seen what is an error.
Clean(st) == NoneDead(st) /\ MatchesCount(st)

LEMMA CleanPush ==
  ASSUME NEW st \in Seq(Handlers), Clean(st), NEW h \in Handlers,
         h.kind \in Blocks => h.last # "dead", h.kind = "match" => MatchCounts(h)
  PROVE  Clean(Append(st, h))
<1> DEFINE su == Append(st, h)
           n == Len(st)
<1>1. /\ su \in Seq(Handlers) /\ n \in Nat /\ Len(su) = n + 1
      /\ \A i \in 1..n : su[i] = st[i]
      /\ su[n + 1] = h
  BY AppendFacts
<1> HIDE DEF su
<1>2. ASSUME NEW i \in DOMAIN su
      PROVE  /\ su[i].kind \in Blocks => su[i].last # "dead"
             /\ su[i].kind = "match" => MatchCounts(su[i])
  <2>1. i = n + 1 \/ (i \in 1..n /\ i \in DOMAIN st)
    BY <1>1
  <2>. QED BY <1>1, <2>1 DEF Clean, NoneDead, MatchesCount, Positions
<1>. QED BY <1>2 DEF Clean, NoneDead, MatchesCount, Positions, su

LEMMA CleanPop ==
  ASSUME NEW st \in Seq(Handlers), Clean(st), st # <<>>
  PROVE  Clean(SubSeq(st, 1, Len(st) - 1))
<1> DEFINE su == SubSeq(st, 1, Len(st) - 1)
           n == Len(st) - 1
<1>1. /\ su \in Seq(Handlers) /\ n \in Nat /\ Len(su) = n /\ Len(st) = n + 1
      /\ \A i \in 1..n : su[i] = st[i]
  BY FrontFacts
<1> HIDE DEF su, n
<1>2. ASSUME NEW i \in DOMAIN su PROVE su[i] = st[i] /\ i \in DOMAIN st
  BY <1>1
<1>. QED BY <1>2 DEF Clean, NoneDead, MatchesCount, Positions, su

LEMMA CountsAlike ==
  ASSUME NEW st \in Seq(Handlers), NEW su \in Seq(Handlers), MatchesCount(st),
         Len(su) = Len(st), \A i \in 1..Len(st) : Alike(su[i], st[i])
  PROVE  MatchesCount(su)
<1>1. DOMAIN su = DOMAIN st /\ DOMAIN st = 1..Len(st)
  OBVIOUS
<1>. QED BY <1>1 DEF MatchesCount, Alike

-----------------------------------------------------------------------------
(* The symbol table and the handlers together.                                *)

\* Symbols and scopes when o scopes were entered and there are n types.
SymbolsOf(n)   == [type : 0..n, isDefinition : BOOLEAN, isGlobal : BOOLEAN]
ScopesOf(o, n) == [id : 0..(o - 1), fenced : BOOLEAN,
                   binds : [Ids -> SymbolsOf(n) \union {Absent}]]

Frames(tb, o, n, st) ==
  /\ tb \in Seq(ScopesOf(o, n))
  /\ st \in Seq(Handlers)
  /\ \A i \in DOMAIN st : st[i].kind = "fn" => st[i].type \in 1..n
  /\ Nests(st)
  /\ Follows(tb, st)

LEMMA ScopesGrow ==
  ASSUME NEW o \in Nat, NEW q \in Nat, NEW n \in Nat, NEW m \in Nat, o <= q, n <= m
  PROVE  /\ ScopesOf(o, n) \subseteq ScopesOf(q, m)
         /\ ScopesOf(o, n) \subseteq Scopes
         /\ SymbolsOf(n) \subseteq SymbolsOf(m) /\ SymbolsOf(n) \subseteq Flags
         /\ Absent \notin SymbolsOf(n)
<1>1. 0..n \subseteq 0..m /\ 0..n \subseteq Nat /\ 0..(o - 1) \subseteq 0..(q - 1)
      /\ 0..(o - 1) \subseteq Nat
  OBVIOUS
<1>2. SymbolsOf(n) \subseteq SymbolsOf(m) /\ SymbolsOf(n) \subseteq Flags
  BY <1>1 DEF SymbolsOf, Flags
<1>3. [Ids -> SymbolsOf(n) \union {Absent}] \subseteq [Ids -> SymbolsOf(m) \union {Absent}]
  BY <1>2
<1>4. [Ids -> SymbolsOf(n) \union {Absent}] \subseteq [Ids -> Flags \union {Absent}]
  BY <1>2
<1>5. ScopesOf(o, n) \subseteq ScopesOf(q, m)
  BY <1>1, <1>3 DEF ScopesOf
<1>6. ScopesOf(o, n) \subseteq Scopes
  BY <1>1, <1>4 DEF ScopesOf, Scopes
<1>. QED BY <1>2, <1>5, <1>6, AbsentAssumption

LEMMA FramesWider ==
  ASSUME NEW o \in Nat, NEW q \in Nat, NEW n \in Nat, NEW m \in Nat, o <= q, n <= m,
         NEW tb, NEW st, Frames(tb, o, n, st)
  PROVE  Frames(tb, q, m, st)
<1>1. tb \in Seq(ScopesOf(q, m))
  BY ScopesGrow, WiderSeq DEF Frames
<1>2. 1..n \subseteq 1..m
  OBVIOUS
<1>. QED BY <1>1, <1>2 DEF Frames

LEMMA FramesTyped ==
  ASSUME NEW o \in Nat, NEW n \in Nat, NEW tb, NEW st, Frames(tb, o, n, st)
  PROVE  /\ tb \in Seq(Scopes) /\ tb \in Seq(ScopesOf(o, n)) /\ tb # <<>>
         /\ st \in Seq(Handlers)
<1>1. tb \in Seq(Scopes)
  BY ScopesGrow, WiderSeq DEF Frames
<1>2. Len(tb) = 1 + Count(Positions(st), Len(st)) /\ st \in Seq(Handlers)
  BY DEF Frames, Follows
<1>3. Len(tb) # 0
  <2>1. Count(Positions(st), Len(st)) \in Nat
    BY <1>2, CountFacts
  <2>. QED BY <1>2, <2>1
<1>. QED BY <1>1, <1>3 DEF Frames

LEMMA FramesEnter ==
  ASSUME NEW o \in Nat, NEW n \in Nat, NEW tb, NEW st, Frames(tb, o, n, st),
         NEW h \in Handlers, h.kind \in Blocks, h.kind = "fn" => h.type \in 1..n,
         NEW s \in ScopesOf(o + 1, n), ScopeFits(s, h),
         IF st = <<>> THEN h.kind = "fn"
         ELSE IF h.kind = "case" THEN st[Len(st)].kind \in {"select", "match"}
                                 ELSE st[Len(st)].kind \in Blocks
  PROVE  Frames(Append(tb, s), o + 1, n, Append(st, h))
<1>1. Frames(tb, o + 1, n, st)
  BY FramesWider
<1>2. /\ tb \in Seq(Scopes) /\ tb \in Seq(ScopesOf(o + 1, n))
      /\ st \in Seq(Handlers)
  BY <1>1, FramesTyped
<1>3. s \in Scopes
  BY ScopesGrow
<1>4. Follows(Append(tb, s), Append(st, h))
  BY <1>1, <1>2, <1>3, FollowsEnter DEF Frames
<1>5. Nests(Append(st, h))
  BY <1>1, <1>2, NestsPush DEF Frames
<1>6. Append(tb, s) \in Seq(ScopesOf(o + 1, n))
  BY <1>2
<1>7. /\ Append(st, h) \in Seq(Handlers)
      /\ \A i \in DOMAIN Append(st, h) :
            Append(st, h)[i].kind = "fn" => Append(st, h)[i].type \in 1..n
  BY <1>1, <1>2 DEF Frames
<1>. QED BY <1>4, <1>5, <1>6, <1>7 DEF Frames

LEMMA FramesPush ==
  ASSUME NEW o \in Nat, NEW n \in Nat, NEW tb, NEW st, Frames(tb, o, n, st),
         NEW h \in Handlers, h.kind \in {"select", "match"},
         st # <<>>, st[Len(st)].kind \in Blocks
  PROVE  Frames(tb, o, n, Append(st, h))
<1>1. st \in Seq(Handlers)
  BY DEF Frames
<1>2. Follows(tb, Append(st, h)) /\ Nests(Append(st, h))
  <2>1. h.kind \notin Blocks /\ h.kind # "case"
    BY DEF Blocks
  <2>. QED BY <1>1, <2>1, FollowsPush, NestsPush DEF Frames
<1>3. /\ Append(st, h) \in Seq(Handlers)
      /\ \A i \in DOMAIN Append(st, h) :
            Append(st, h)[i].kind = "fn" => Append(st, h)[i].type \in 1..n
  BY <1>1 DEF Frames
<1>. QED BY <1>2, <1>3 DEF Frames

LEMMA FramesExit ==
  ASSUME NEW o \in Nat, NEW n \in Nat, NEW tb, NEW st, Frames(tb, o, n, st),
         st # <<>>, st[Len(st)].kind \in Blocks
  PROVE  Frames(ExitScope(tb), o, n, SubSeq(st, 1, Len(st) - 1)) /\ Len(tb) >= 2
<1> DEFINE su == SubSeq(st, 1, Len(st) - 1)
<1>1. tb \in Seq(Scopes) /\ tb \in Seq(ScopesOf(o, n)) /\ st \in Seq(Handlers) /\ tb # <<>>
  BY FramesTyped
<1>2. Follows(ExitScope(tb), su) /\ Len(tb) >= 2
  BY <1>1, FollowsExit DEF Frames
<1>3. su \in Seq(Handlers) /\ Nests(su)
  BY <1>1, NestsPop DEF Frames
<1>4. ExitScope(tb) \in Seq(ScopesOf(o, n))
  BY <1>1, FrontFacts DEF ExitScope
<1>5. \A i \in DOMAIN su : su[i].kind = "fn" => su[i].type \in 1..n
  <2>1. Len(su) = Len(st) - 1 /\ \A i \in 1..(Len(st) - 1) : su[i] = st[i]
    BY <1>1, FrontFacts
  <2> HIDE DEF su
  <2>2. \A i \in DOMAIN su : su[i] = st[i] /\ i \in DOMAIN st
    BY <1>1, <1>3, <2>1
  <2>. QED BY <2>2 DEF Frames
<1>. QED BY <1>2, <1>3, <1>4, <1>5 DEF Frames

LEMMA FramesPop ==
  ASSUME NEW o \in Nat, NEW n \in Nat, NEW tb, NEW st, Frames(tb, o, n, st),
         st # <<>>, st[Len(st)].kind \in {"select", "match"}
  PROVE  Frames(tb, o, n, SubSeq(st, 1, Len(st) - 1))
<1> DEFINE su == SubSeq(st, 1, Len(st) - 1)
<1>1. st \in Seq(Handlers)
  BY DEF Frames
<1>2. Follows(tb, su)
  <2>1. st[Len(st)].kind \notin Blocks
    BY DEF Blocks
  <2>. QED BY <1>1, <2>1, FollowsPop DEF Frames
<1>3. su \in Seq(Handlers) /\ Nests(su)
  BY <1>1, NestsPop DEF Frames
<1>4. \A i \in DOMAIN su : su[i].kind = "fn" => su[i].type \in 1..n
  <2>1. Len(su) = Len(st) - 1 /\ \A i \in 1..(Len(st) - 1) : su[i] = st[i]
    BY <1>1, FrontFacts
  <2> HIDE DEF su
  <2>2. \A i \in DOMAIN su : su[i] = st[i] /\ i \in DOMAIN st
    BY <1>1, <1>3, <2>1
  <2>. QED BY <2>2 DEF Frames
<1>. QED BY <1>2, <1>3, <1>4 DEF Frames

\* Symbols are added, and the innermost handler is told of a statement.
LEMMA FramesAlike ==
  ASSUME NEW o \in Nat, NEW n \in Nat, NEW tb, NEW st, Frames(tb, o, n, st),
         NEW tc \in Seq(ScopesOf(o, n)), SameScopes(tc, tb),
         NEW su \in Seq(Handlers), Len(su) = Len(st),
         \A i \in 1..Len(st) : Alike(su[i], st[i])
  PROVE  Frames(tc, o, n, su)
<1>1. st \in Seq(Handlers)
  BY DEF Frames
<1>2. Follows(tc, su) /\ Nests(su)
  BY <1>1, FollowsAlike, NestsAlike DEF Frames
<1>3. \A i \in DOMAIN su : su[i].kind = "fn" => su[i].type \in 1..n
  <2>1. DOMAIN su = 1..Len(st) /\ DOMAIN st = 1..Len(st)
    BY <1>1
  <2>. QED BY <2>1 DEF Frames, Alike
<1>. QED BY <1>2, <1>3 DEF Frames

-----------------------------------------------------------------------------
(* Symbols.                                                                   *)

LEMMA ReturnIsNoName ==
  /\ Return \in Ids /\ Names \subseteq Ids /\ Program \in Ids /\ Main \in Ids
  /\ Return \notin Names /\ Return # Program /\ Return # Main
BY NamesAssumption DEF Ids

LEMMA LookupTyped ==
  ASSUME NEW o \in Nat, NEW n \in Nat, NEW tb \in Seq(ScopesOf(o, n)), NEW x \in Ids
  PROVE  Lookup(tb, x) \in SymbolsOf(n) \union {Absent}
<1>1. ASSUME NEW i \in DOMAIN tb PROVE tb[i].binds[x] \in SymbolsOf(n) \union {Absent}
  <2>1. tb[i] \in ScopesOf(o, n)
    OBVIOUS
  <2>. QED BY <2>1 DEF ScopesOf
<1>2. CASE \E i \in DOMAIN tb : Table(tb)!Resolves(i, x)
  BY <1>1, <1>2 DEF Lookup
<1>3. CASE ~ \E i \in DOMAIN tb : Table(tb)!Resolves(i, x)
  BY <1>3 DEF Lookup
<1>. QED BY <1>2, <1>3

LEMMA LookupInCurrentTyped ==
  ASSUME NEW o \in Nat, NEW n \in Nat, NEW tb \in Seq(ScopesOf(o, n)), tb # <<>>,
         NEW x \in Ids
  PROVE  LookupInCurrentScope(tb, x) \in SymbolsOf(n) \union {Absent}
<1>1. tb[Len(tb)] \in ScopesOf(o, n)
  OBVIOUS
<1>. QED BY <1>1 DEF ScopesOf, LookupInCurrentScope

\* With one scope open, lookup is a look into it.
LEMMA LookupAtTop ==
  ASSUME NEW o \in Nat, NEW n \in Nat, NEW tb \in Seq(ScopesOf(o, n)), Len(tb) = 1,
         NEW x \in Ids
  PROVE  Lookup(tb, x) = tb[1].binds[x] /\ LookupInCurrentScope(tb, x) = tb[1].binds[x]
<1>1. DOMAIN tb = {1} /\ 1..Len(tb) = {1}
  OBVIOUS
<1>2. (1 + 1)..Len(tb) = {}
  OBVIOUS
<1>3. Table(tb)!Resolves(1, x) <=> tb[1].binds[x] # Absent
  BY <1>1, <1>2 DEF Table!Resolves, Table!Innermost, Table!Declares, Table!Usable, Table!SameBody
<1>4. CASE tb[1].binds[x] # Absent
  <2>1. (CHOOSE i \in DOMAIN tb : Table(tb)!Resolves(i, x)) = 1
    BY <1>1, <1>3, <1>4
  <2>. QED BY <1>1, <1>3, <1>4, <2>1 DEF Lookup, LookupInCurrentScope
<1>5. CASE tb[1].binds[x] = Absent
  BY <1>1, <1>3, <1>5 DEF Lookup, LookupInCurrentScope
<1>. QED BY <1>4, <1>5

\* The same scopes with symbols added, none of them @RETURN.
Extends(tc, tb) ==
  /\ SameScopes(tc, tb)
  /\ \A k \in 1..Len(tb) : \A x \in Ids :
        tb[k].binds[x] # Absent => tc[k].binds[x] = tb[k].binds[x]

LEMMA ExtendsFacts ==
  ASSUME NEW ta, NEW tb, NEW tc
  PROVE  /\ Extends(ta, ta)
         /\ Extends(tb, ta) /\ Extends(tc, tb) => Extends(tc, ta)
BY DEF Extends, SameScopes

LEMMA AddSymbolFacts ==
  ASSUME NEW o \in Nat, NEW n \in Nat, NEW tb \in Seq(ScopesOf(o, n)), tb # <<>>,
         NEW x \in Ids \ {Return}, NEW s \in SymbolsOf(n)
  PROVE  /\ AddSymbol(tb, x, s) \in Seq(ScopesOf(o, n))
         /\ Extends(AddSymbol(tb, x, s), tb)
         /\ LookupInCurrentScope(tb, x) = Absent =>
              LookupInCurrentScope(AddSymbol(tb, x, s), x) = s
<1> DEFINE l == Len(tb)
           e == [tb[l] EXCEPT !.binds[x] = s]
<1>1. l \in Nat \ {0} /\ tb[l] \in ScopesOf(o, n)
  OBVIOUS
<1>2. CASE LookupInCurrentScope(tb, x) # Absent
  BY <1>2, ExtendsFacts DEF AddSymbol
<1>3. CASE LookupInCurrentScope(tb, x) = Absent
  <2>1. AddSymbol(tb, x, s) = [tb EXCEPT ![Len(tb)] = e]
    BY <1>3 DEF AddSymbol
  <2>2. /\ e \in ScopesOf(o, n) /\ e.fenced = tb[l].fenced
        /\ \A y \in Ids \ {x} : e.binds[y] = tb[l].binds[y]
        /\ e.binds[x] = s
    BY <1>1 DEF ScopesOf
  <2>3. tb[l].binds[x] = Absent
    BY <1>3 DEF LookupInCurrentScope
  <2> HIDE DEF e
  <2>4. /\ AddSymbol(tb, x, s) \in Seq(ScopesOf(o, n))
        /\ Len(AddSymbol(tb, x, s)) = l
        /\ \A i \in 1..(l - 1) : AddSymbol(tb, x, s)[i] = tb[i]
        /\ AddSymbol(tb, x, s)[l] = e
    BY <2>1, <2>2, LastFacts
  <2> HIDE DEF l
  <2>5. ASSUME NEW k \in 1..l
        PROVE  /\ AddSymbol(tb, x, s)[k].fenced = tb[k].fenced
               /\ AddSymbol(tb, x, s)[k].binds[Return] = tb[k].binds[Return]
               /\ \A y \in Ids : tb[k].binds[y] # Absent =>
                     AddSymbol(tb, x, s)[k].binds[y] = tb[k].binds[y]
    <3>1. k = l \/ k \in 1..(l - 1)
      BY <1>1
    <3>2. CASE k = l
      <4>1. Return \in Ids \ {x}
        BY ReturnIsNoName
      <4>2. AddSymbol(tb, x, s)[k] = e
        BY <2>4, <3>2
      <4>. QED BY <2>2, <2>3, <3>2, <4>1, <4>2
    <3>3. CASE k \in 1..(l - 1)
      BY <2>4, <3>3
    <3>. QED BY <3>1, <3>2, <3>3
  <2>6. LookupInCurrentScope(AddSymbol(tb, x, s), x) = s
    BY <2>2, <2>4 DEF LookupInCurrentScope
  <2>7. Len(tb) = l
    BY DEF l
  <2>. QED BY <2>4, <2>5, <2>6, <2>7 DEF Extends, SameScopes
<1>. QED BY <1>2, <1>3

LEMMA NewScopeFacts ==
  ASSUME opened \in Nat, NEW n \in Nat, NEW isBody \in BOOLEAN, NEW tb, tb # <<>>
  PROVE  /\ NewScope(isBody, tb) \in ScopesOf(opened + 1, n)
         /\ NewScope(isBody, tb).fenced = isBody
         /\ NewScope(isBody, tb).binds = [x \in Ids |-> Absent]
BY DEF NewScope, ScopesOf

\* The initializer or type of a declaration has the type of a symbol, or none.
LEMMA TypeOfTyped ==
  ASSUME NEW o \in Nat, NEW n \in Nat, NEW tb \in Seq(ScopesOf(o, n)),
         NEW d \in Declarations
  PROVE  TypeOf(tb, d).type \in 0..n /\ TypeOf(tb, d).bad \in BOOLEAN
<1>1. CASE d.how = "plain"
  BY <1>1 DEF TypeOf
<1>2. CASE d.how # "plain"
  <2>1. d.from \in Ids /\ d.how \in {"var", "as"}
    BY <1>2, ReturnIsNoName DEF Declarations
  <2> DEFINE s == Lookup(tb, d.from)
             unusable == s = Absent \/ (d.how = "as" /\ ~ s.isDefinition)
  <2>2. s \in SymbolsOf(n) \union {Absent}
    BY <2>1, LookupTyped
  <2>3. TypeOf(tb, d) = [type |-> IF unusable THEN 0 ELSE s.type, bad |-> unusable]
    BY <1>2 DEF TypeOf
  <2> HIDE DEF s
  <2>4. unusable \in BOOLEAN /\ (~ unusable => s.type \in 0..n)
    BY <2>2 DEF SymbolsOf
  <2> HIDE DEF unusable
  <2>. QED BY <2>3, <2>4
<1>. QED BY <1>1, <1>2

\* A declaration of several names adds symbols to the scope that is open.
LEMMA DeclareEachFacts ==
  ASSUME NEW o \in Nat, NEW n \in Nat, table \in Seq(ScopesOf(o, n)), table # <<>>,
         NEW names \in Seq(Names), NEW d \in Declarations
  PROVE  /\ DeclareEach(names, d).table \in Seq(ScopesOf(o, n))
         /\ Extends(DeclareEach(names, d).table, table)
         /\ DeclareEach(names, d).bad \in BOOLEAN
<1> DEFINE
      Step(i, r) ==
        LET tb == r.table
            s  == Variable(TypeOf(tb, d).type, isGlobalScope)
        IN  IF LookupInCurrentScope(tb, names[i]) # Absent
              THEN [table |-> tb, bad |-> TRUE]
              ELSE [table |-> AddSymbol(tb, names[i], s),
                    bad   |-> r.bad \/ TypeOf(tb, d).bad]
      first == [table |-> table, bad |-> TypeOf(table, d).bad]
      Results == [table : {tb \in Seq(ScopesOf(o, n)) : Extends(tb, table)}, bad : BOOLEAN]
      each == CHOOSE f : f = [i \in 0..Len(names) |-> IF i = 0 THEN first ELSE Step(i, f[i - 1])]
<1>1. first \in Results
  BY TypeOfTyped, ExtendsFacts
<1>2. ASSUME NEW i \in 1..Len(names), NEW r \in Results PROVE Step(i, r) \in Results
  <2> DEFINE tb == r.table
             s  == Variable(TypeOf(tb, d).type, isGlobalScope)
             x  == names[i]
  <2>1. tb \in Seq(ScopesOf(o, n)) /\ Extends(tb, table) /\ r.bad \in BOOLEAN
    OBVIOUS
  <2>2. tb # <<>>
    BY <2>1 DEF Extends, SameScopes
  <2>3. x \in Ids \ {Return}
    BY ReturnIsNoName
  <2>4. s \in SymbolsOf(n)
    <3>1. TypeOf(tb, d).type \in 0..n
      BY <2>1, TypeOfTyped
    <3>. QED BY <3>1 DEF Variable, SymbolsOf, isGlobalScope
  <2>5. TypeOf(tb, d).bad \in BOOLEAN
    BY <2>1, TypeOfTyped
  <2>6. /\ AddSymbol(tb, x, s) \in Seq(ScopesOf(o, n))
        /\ Extends(AddSymbol(tb, x, s), table)
    <3> HIDE DEF tb, s, x
    <3>. QED BY <2>1, <2>2, <2>3, <2>4, AddSymbolFacts, ExtendsFacts
  <2>7. CASE LookupInCurrentScope(tb, x) # Absent
    BY <2>1, <2>7
  <2>8. CASE LookupInCurrentScope(tb, x) = Absent
    <3> DEFINE added == AddSymbol(tb, x, s)
               bad   == r.bad \/ TypeOf(tb, d).bad
    <3>1. Step(i, r) = [table |-> added, bad |-> bad]
      BY <2>8
    <3>2. bad \in BOOLEAN
      BY <2>1, <2>5
    <3>3. added \in {t \in Seq(ScopesOf(o, n)) : Extends(t, table)}
      BY <2>6
    <3> HIDE DEF added, bad, Step
    <3>. QED BY <3>1, <3>2, <3>3
  <2>. QED BY <2>7, <2>8
<1>3. Len(names) \in Nat
  OBVIOUS
<1> HIDE DEF first, Step, Results
<1>4. \E f : f = [i \in 0..Len(names) |-> IF i = 0 THEN first ELSE Step(i, f[i - 1])]
  <2> DEFINE G == [p \in (1..Len(names)) \X Results |-> Step(p[1], p[2])]
  <2>1. G \in [(1..Len(names)) \X Results -> Results]
    BY <1>2
  <2>2. PICK f \in [0..Len(names) -> Results] :
          f[0] = first /\ \A i \in 1..Len(names) : f[i] = G[<<i, f[i - 1]>>]
    <3>1. G \in Repeatable(Results, Len(names))
      BY <2>1 DEF Repeatable
    <3> HIDE DEF each, G
    <3>2. \E f \in [0..Len(names) -> Results] : Repeated(f, first, Len(names), G)
      BY <1>1, <1>3, <3>1, Iterates
    <3>. QED BY <3>2 DEF Repeated
  <2>3. ASSUME NEW i \in 0..Len(names)
        PROVE  f[i] = IF i = 0 THEN first ELSE Step(i, f[i - 1])
    <3>1. CASE i = 0
      BY <2>2, <3>1
    <3>2. CASE i # 0
      <4>1. i \in 1..Len(names) /\ i - 1 \in 0..Len(names)
        BY <3>2
      <4>2. f[i - 1] \in Results /\ f[i] = G[<<i, f[i - 1]>>]
        BY <2>2, <4>1
      <4>3. <<i, f[i - 1]>> \in (1..Len(names)) \X Results
        BY <4>1, <4>2
      <4>4. G[<<i, f[i - 1]>>] = Step(i, f[i - 1])
        BY <4>3
      <4>. QED BY <3>2, <4>2, <4>4
    <3>. QED BY <3>1, <3>2
  <2>4. f = [i \in 0..Len(names) |-> IF i = 0 THEN first ELSE Step(i, f[i - 1])]
    BY <2>2, <2>3
  <2>. QED BY <2>4
<1>5. each = [i \in 0..Len(names) |-> IF i = 0 THEN first ELSE Step(i, each[i - 1])]
  BY <1>4
<1>6. DeclareEach(names, d) = each[Len(names)]
  BY DEF DeclareEach, first, Step
<1> HIDE DEF each
<1>7. each[0] \in Results
  <2>1. 0 \in 0..Len(names)
    BY <1>3
  <2>. QED BY <1>1, <1>5, <2>1
<1>8. \A i \in 1..Len(names) : each[i - 1] \in Results => each[i] \in Results
  <2>1. ASSUME NEW i \in 1..Len(names), each[i - 1] \in Results
        PROVE  each[i] \in Results
    <3>1. i \in 0..Len(names) /\ i # 0
      BY <1>3
    <3>2. each[i] = Step(i, each[i - 1])
      BY <1>5, <3>1
    <3>. QED BY <1>2, <2>1, <3>2
  <2>. QED BY <2>1
<1>9. each[Len(names)] \in Results
  <2>1. \A i \in 0..Len(names) : each[i] \in Results
    BY <1>3, <1>7, <1>8, Stays
  <2>. QED BY <1>3, <2>1
<1>10. DeclareEach(names, d) \in Results
  BY <1>6, <1>9
<1>. QED BY <1>10 DEF Results

-----------------------------------------------------------------------------
(* Types of functions.                                                        *)

TypeInvokes == [params : Seq(Names), returns : BOOLEAN, defined : BOOLEAN, item : Nat]
AnyHeading  == [name : Names, params : Seq(Names), returns : BOOLEAN]

LEMMA TypeInvokeFacts ==
  ASSUME types \in Seq(TypeInvokes), NEW h \in AnyHeading, NEW defined \in BOOLEAN,
         NEW item \in Nat
  PROVE  /\ TypeInvoke(h, defined, item) \in Seq(TypeInvokes)
         /\ Len(types) \in Nat /\ Len(TypeInvoke(h, defined, item)) = Len(types) + 1
         /\ \A t \in 1..Len(types) : TypeInvoke(h, defined, item)[t] = types[t]
         /\ TypeInvoke(h, defined, item)[Len(types) + 1] =
              [params |-> h.params, returns |-> h.returns, defined |-> defined, item |-> item]
<1> DEFINE new == [params |-> h.params, returns |-> h.returns,
                   defined |-> defined, item |-> item]
<1>1. new \in TypeInvokes
  BY DEF TypeInvokes, AnyHeading
<1>2. TypeInvoke(h, defined, item) = Append(types, new)
  BY DEF TypeInvoke
<1> HIDE DEF new
<1>3. /\ TypeInvoke(h, defined, item) \in Seq(TypeInvokes)
      /\ Len(types) \in Nat /\ Len(TypeInvoke(h, defined, item)) = Len(types) + 1
      /\ \A t \in 1..Len(types) : TypeInvoke(h, defined, item)[t] = types[t]
      /\ TypeInvoke(h, defined, item)[Len(types) + 1] = new
  BY <1>1, <1>2, AppendFacts
<1>. QED BY <1>3 DEF new

LEMMA DefineFacts ==
  ASSUME types \in Seq(TypeInvokes), NEW t \in 1..Len(types)
  PROVE  /\ define(t) \in Seq(TypeInvokes) /\ Len(define(t)) = Len(types)
         /\ \A u \in 1..Len(types) :
              /\ define(t)[u].params = types[u].params
              /\ define(t)[u].returns = types[u].returns
              /\ define(t)[u].item = types[u].item
              /\ define(t)[u].defined = IF u = t THEN TRUE ELSE types[u].defined
<1>1. types[t] \in TypeInvokes
  OBVIOUS
<1>2. [types[t] EXCEPT !.defined = TRUE] \in TypeInvokes
  BY <1>1 DEF TypeInvokes
<1>3. define(t) = [types EXCEPT ![t] = [types[t] EXCEPT !.defined = TRUE]]
  BY DEF define
<1>4. define(t) \in Seq(TypeInvokes) /\ Len(define(t)) = Len(types)
  BY <1>2, <1>3
<1>5. ASSUME NEW u \in 1..Len(types)
      PROVE  /\ define(t)[u].params = types[u].params
             /\ define(t)[u].returns = types[u].returns
             /\ define(t)[u].item = types[u].item
             /\ define(t)[u].defined = IF u = t THEN TRUE ELSE types[u].defined
  <2>1. CASE u = t
    <3> DEFINE e == [types[t] EXCEPT !.defined = TRUE]
    <3>0. define(t) = [types EXCEPT ![t] = e] /\ t \in DOMAIN types
      BY <1>3
    <3> HIDE DEF e
    <3>1. define(t)[u] = e
      BY <2>1, <3>0
    <3> USE DEF e
    <3>. QED BY <1>1, <2>1, <3>1 DEF TypeInvokes
  <2>2. CASE u # t
    <3>1. define(t)[u] = types[u]
      BY <1>3, <2>2
    <3>. QED BY <2>2, <3>1
  <2>. QED BY <2>1, <2>2
<1>. QED BY <1>4, <1>5

LEMMA UnitFacts ==
  ASSUME unit \in Units
  PROVE  /\ unit.defs \in Seq(Names) /\ unit.extens \in Seq(AnyHeading)
         /\ unit.stmts \in Seq([kind : {"var"}] \union [kind : {"func"}, heading : AnyHeading])
         /\ \A i \in DOMAIN unit.stmts : /\ i \in Nat \ {0}
                                         /\ unit.stmts[i].kind \in {"var", "func"}
                                         /\ unit.stmts[i].kind = "func" =>
                                              unit.stmts[i].heading \in AnyHeading
         /\ Headings \subseteq AnyHeading
<1> DEFINE Stmts == [kind : {"var"}] \union [kind : {"func"}, heading : AnyHeading]
<1>1. /\ unit.defs \in Seq(Names) /\ unit.extens \in Seq(AnyHeading)
      /\ unit.stmts \in Seq(Stmts)
  BY UnitsAssumption DEF AnyHeading
<1>2. ASSUME NEW s \in Stmts
      PROVE  s.kind \in {"var", "func"} /\ (s.kind = "func" => s.heading \in AnyHeading)
  OBVIOUS
<1> HIDE DEF Stmts
<1>3. ASSUME NEW i \in DOMAIN unit.stmts PROVE i \in Nat \ {0} /\ unit.stmts[i] \in Stmts
  BY <1>1
<1>4. Headings \subseteq AnyHeading
  BY HeadingsAssumption DEF AnyHeading
<1>. QED BY <1>1, <1>2, <1>3, <1>4 DEF Stmts

-----------------------------------------------------------------------------
(* The walk: what every step does to the scopes and the handlers.             *)

Phases == {"defs", "extens", "forward", "stmts", "done", "aborted"}
Kinds  == {"unfinished", "foreign", "return", "uncovered"}

Scalars ==
  /\ unit \in Units
  /\ phase \in Phases
  /\ next \in Nat \ {0}
  /\ opened \in 1..MaxScopes
  /\ types \in Seq(TypeInvokes)
  /\ errors \in BOOLEAN
  /\ bodies \subseteq Nat
  /\ slips \subseteq Kinds

\* Only statements have handlers; before them there is one scope.  The unit is done
\* when all its statements are visited.
Listed ==
  /\ phase \notin {"stmts", "aborted"} => stack = <<>>
  /\ phase \in {"defs", "extens", "forward"} => Len(table) = 1 /\ slips = {}
  /\ stack # <<>> => next <= Len(unit.stmts)
  /\ phase = "done" => next > Len(unit.stmts)

\* While there is no error, no handler has seen one.
Unsoiled == ~ errors => Clean(stack) /\ slips \intersect {"unfinished", "uncovered"} = {}

Structure == /\ Scalars
             /\ Frames(table, opened, Len(types), stack)
             /\ Listed
             /\ Unsoiled

LEMMA StructureFacts ==
  ASSUME Structure
  PROVE  /\ opened \in Nat /\ opened + 1 \in Nat /\ opened - 1 \in Nat /\ Len(types) \in Nat
         /\ table \in Seq(Scopes) /\ table \in Seq(ScopesOf(opened, Len(types)))
         /\ table # <<>> /\ stack \in Seq(Handlers) /\ errors \in BOOLEAN
         /\ stack # <<>> => Top \in Handlers
<1>1. opened \in Nat /\ opened + 1 \in Nat /\ opened - 1 \in Nat /\ Len(types) \in Nat
      /\ errors \in BOOLEAN
  BY BoundsAssumption DEF Structure, Scalars
<1>2. /\ table \in Seq(Scopes) /\ table \in Seq(ScopesOf(opened, Len(types)))
      /\ table # <<>> /\ stack \in Seq(Handlers)
  BY <1>1, FramesTyped DEF Structure
<1>3. stack # <<>> => Top \in Handlers
  BY <1>2 DEF Top
<1>. QED BY <1>1, <1>2, <1>3

\* A statement was visited where one was expected.
LEMMA FinishHere ==
  ASSUME Structure, phase = "stmts", AtStatement \/ stack = <<>>,
         table' \in Seq(ScopesOf(opened, Len(types))), SameScopes(table', table),
         NEW form \in Forms \ {"dead"}, NEW bad \in BOOLEAN, Finishes(form, stack, bad),
         UNCHANGED <<opened, types>>
  PROVE  /\ Frames(table', opened', Len(types'), stack')
         /\ next' \in Nat \ {0} /\ errors' \in BOOLEAN /\ (errors \/ bad => errors')
         /\ stack' # <<>> => stack # <<>> /\ next' = next
         /\ ~ errors' => Clean(stack')
<1>1. stack # <<>> => stack[Len(stack)].kind \in Blocks
  BY DEF AtStatement, Top, Blocks
<1>2. stack \in Seq(Handlers) /\ errors \in BOOLEAN /\ opened \in Nat /\ Len(types) \in Nat
  BY StructureFacts
<1>3. /\ stack' \in Seq(Handlers) /\ Len(stack') = Len(stack)
      /\ \A i \in 1..Len(stack) : Alike(stack'[i], stack[i])
      /\ NoneDead(stack) /\ ~ errors' => NoneDead(stack')
      /\ next' = IF stack = <<>> THEN next + 1 ELSE next
      /\ errors' \in BOOLEAN /\ (errors \/ bad => errors')
  BY <1>1, <1>2, FinishesFacts
<1>4. Frames(table', opened, Len(types), stack')
  BY <1>2, <1>3, FramesAlike DEF Structure
<1>5. ~ errors' => Clean(stack')
  <2>1. MatchesCount(stack) => MatchesCount(stack')
    BY <1>2, <1>3, CountsAlike
  <2>. QED BY <1>2, <1>3, <2>1 DEF Structure, Unsoiled, Clean
<1>6. stack' # <<>> => stack # <<>> /\ next' = next
  <2>1. stack = <<>> => Len(stack') = 0
    BY <1>3
  <2>. QED BY <1>3, <2>1
<1>. QED BY <1>3, <1>4, <1>5, <1>6 DEF Structure, Scalars

\* Symbols are added.
LEMMA FramesExtended ==
  ASSUME NEW o \in Nat, NEW n \in Nat, NEW tb, NEW st, Frames(tb, o, n, st),
         NEW tc \in Seq(ScopesOf(o, n)), SameScopes(tc, tb)
  PROVE  Frames(tc, o, n, st)
<1>1. st \in Seq(Handlers) /\ \A i \in 1..Len(st) : Alike(st[i], st[i])
  BY DEF Frames, Alike
<1>. QED BY <1>1, FramesAlike

\* The innermost handler ends.
LEMMA FinishBelow ==
  ASSUME Structure, NEW kind, In(kind),
         \/ kind \in Blocks /\ table' = ExitScope(table)
         \/ kind \in {"select", "match"} /\ table' = table,
         kind # "case",
         NEW form \in Forms \ {"dead"}, NEW bad \in BOOLEAN, Finishes(form, Below, bad),
         UNCHANGED <<opened, types>>
  PROVE  /\ Frames(table', opened', Len(types'), stack')
         /\ next' \in Nat \ {0} /\ errors' \in BOOLEAN /\ (errors \/ bad => errors')
         /\ stack' # <<>> => stack # <<>> /\ next' = next
         /\ ~ errors' => Clean(stack')
<1>1. /\ stack # <<>> /\ stack[Len(stack)].kind = kind
      /\ stack \in Seq(Handlers) /\ errors \in BOOLEAN /\ opened \in Nat /\ Len(types) \in Nat
  BY StructureFacts DEF In, Top
<1>2. Frames(table', opened, Len(types), Below)
  BY <1>1, FramesExit, FramesPop DEF Structure, Below
<1>3. /\ Below \in Seq(Handlers)
      /\ Below # <<>> => Below[Len(Below)].kind \in Blocks
  BY <1>1, NestsPop DEF Structure, Frames, Below
<1>4. /\ stack' \in Seq(Handlers) /\ Len(stack') = Len(Below)
      /\ \A i \in 1..Len(Below) : Alike(stack'[i], Below[i])
      /\ NoneDead(Below) /\ ~ errors' => NoneDead(stack')
      /\ next' = IF Below = <<>> THEN next + 1 ELSE next
      /\ errors' \in BOOLEAN /\ (errors \/ bad => errors')
  BY <1>1, <1>3, FinishesFacts
<1>5. Frames(table', opened, Len(types), stack')
  <2>1. table' \in Seq(ScopesOf(opened, Len(types)))
    BY <1>2 DEF Frames
  <2>2. SameScopes(table', table')
    BY DEF SameScopes
  <2>. QED BY <1>1, <1>2, <1>4, <2>1, <2>2, FramesAlike
<1>6. ~ errors' => Clean(stack')
  <2>1. ~ errors' => Clean(Below)
    BY <1>1, <1>4, CleanPop DEF Structure, Unsoiled, Below
  <2>2. MatchesCount(Below) => MatchesCount(stack')
    BY <1>3, <1>4, CountsAlike
  <2>. QED BY <1>4, <2>1, <2>2 DEF Clean
<1>7. stack' # <<>> => stack # <<>> /\ next' = next
  <2>1. Below = <<>> => Len(stack') = 0
    BY <1>4
  <2>. QED BY <1>1, <1>4, <2>1
<1>. QED BY <1>4, <1>5, <1>6, <1>7 DEF Structure, Scalars

LEMMA EndOfListKeeps ==
  ASSUME Structure, endOfList
  PROVE  Structure'
<1>1. /\ phase \in {"defs", "extens", "forward"} /\ phase' \in {"extens", "forward", "stmts"}
      /\ next' = 1
      /\ UNCHANGED <<unit, table, opened, types, stack, errors, bodies, slips>>
  BY DEF endOfList, After, past
<1>2. Scalars'
  BY <1>1 DEF Structure, Scalars, Phases
<1>3. Listed' /\ Unsoiled'
  BY <1>1 DEF Structure, Listed, Unsoiled
<1>. QED BY <1>1, <1>2, <1>3 DEF Structure

LEMMA EndUnitKeeps ==
  ASSUME Structure, endUnit
  PROVE  Structure' /\ stack = <<>>
<1>1. /\ phase = "stmts" /\ phase' = "done" /\ next > Len(unit.stmts)
      /\ errors' = (errors \/ NoEntry)
      /\ UNCHANGED <<unit, next, table, opened, types, stack, bodies, slips>>
  BY DEF endUnit, past
<1>2. NoEntry \in BOOLEAN
  BY FlagAssumption DEF NoEntry
<1>3. stack = <<>>
  <2>1. next \in Nat /\ Len(unit.stmts) \in Nat
    BY UnitFacts DEF Structure, Scalars
  <2>. QED BY <1>1, <2>1 DEF Structure, Listed
<1>4. Scalars' /\ Unsoiled'
  BY <1>1, <1>2 DEF Structure, Scalars, Phases, Unsoiled
<1>. QED BY <1>1, <1>3, <1>4 DEF Structure, Listed

\* What is left to show of a step from one statement to another.
LEMMA StatementKeeps ==
  ASSUME Structure, phase = "stmts", UNCHANGED <<unit, phase>>,
         Frames(table', opened', Len(types'), stack'),
         opened' \in 1..MaxScopes, types' \in Seq(TypeInvokes),
         next' \in Nat \ {0}, stack' # <<>> => next' <= Len(unit.stmts),
         errors' \in BOOLEAN, errors => errors', ~ errors' => Clean(stack'),
         bodies' \subseteq Nat,
         slips' \subseteq Kinds,
         ~ errors' => slips' \intersect {"unfinished", "uncovered"} = {}
  PROVE  Structure'
<1>1. Scalars'
  BY DEF Structure, Scalars
<1>2. Listed' /\ Unsoiled'
  BY DEF Listed, Unsoiled
<1>. QED BY <1>1, <1>2 DEF Structure

\* A step that visits a statement, adds symbols or none, and lets nothing pass.
LEMMA PlainStatementKeeps ==
  ASSUME Structure, phase = "stmts", AtStatement \/ stack = <<>>,
         table' \in Seq(ScopesOf(opened, Len(types))), SameScopes(table', table),
         NEW form \in Forms \ {"dead"}, NEW bad \in BOOLEAN, Finishes(form, stack, bad),
         UNCHANGED <<unit, phase, opened, types, bodies>>,
         slips' \subseteq slips \union {"return"}
  PROVE  Structure'
<1>1. /\ Frames(table', opened', Len(types'), stack')
      /\ next' \in Nat \ {0} /\ errors' \in BOOLEAN /\ (errors \/ bad => errors')
      /\ stack' # <<>> => stack # <<>> /\ next' = next
      /\ ~ errors' => Clean(stack')
  BY FinishHere
<1>2. slips' \subseteq Kinds
  BY DEF Structure, Scalars, Kinds
<1>3. ~ errors' => slips' \intersect {"unfinished", "uncovered"} = {}
  BY <1>1 DEF Structure, Unsoiled
<1>4. stack' # <<>> => next' <= Len(unit.stmts)
  BY <1>1 DEF Structure, Listed
<1>5. opened' \in 1..MaxScopes /\ types' \in Seq(TypeInvokes) /\ bodies' \subseteq Nat
  BY DEF Structure, Scalars
<1>. QED BY <1>1, <1>2, <1>3, <1>4, <1>5, StatementKeeps

LEMMA TableStays ==
  ASSUME Structure
  PROVE  table \in Seq(ScopesOf(opened, Len(types))) /\ SameScopes(table, table)
BY StructureFacts DEF SameScopes

LEMMA DefineTypeKeeps ==
  ASSUME Structure, NEW ok \in BOOLEAN, defineType(ok)
  PROVE  Structure' /\ Extends(table', table)
<1> DEFINE name == unit.defs[next]
           fine == ok /\ Lookup(table, name) = Absent
<1>1. /\ phase = "defs" /\ next <= Len(unit.defs) /\ stack = <<>>
      /\ table' = IF fine THEN AddSymbol(table, name, Definition(0, TRUE)) ELSE table
      /\ errors' = (errors \/ ~ fine) /\ next' = next + 1
      /\ UNCHANGED <<unit, phase, opened, types, stack, bodies, slips>>
  BY DEF defineType, At, List, past
<1>2. /\ opened \in Nat /\ Len(types) \in Nat
      /\ table \in Seq(ScopesOf(opened, Len(types))) /\ table # <<>>
      /\ stack \in Seq(Handlers)
  BY StructureFacts
<1>3. name \in Ids \ {Return}
  <2>1. unit.defs \in Seq(Names) /\ next \in Nat \ {0}
    BY UnitFacts DEF Structure, Scalars
  <2>2. next \in DOMAIN unit.defs
    BY <1>1, <2>1
  <2>. QED BY <2>1, <2>2, ReturnIsNoName
<1>4. Definition(0, TRUE) \in SymbolsOf(Len(types))
  BY <1>2 DEF Definition, SymbolsOf
<1> HIDE DEF name
<1>5. /\ table' \in Seq(ScopesOf(opened, Len(types)))
      /\ Extends(table', table) /\ SameScopes(table', table)
  <2>1. Extends(table, table)
    BY ExtendsFacts
  <2>2. Extends(table', table) => SameScopes(table', table)
    BY DEF Extends
  <2>. QED BY <1>1, <1>2, <1>3, <1>4, <2>1, <2>2, AddSymbolFacts, TableStays
<1> HIDE DEF fine
<1>6. Frames(table', opened', Len(types'), stack')
  BY <1>1, <1>2, <1>5, FramesExtended DEF Structure
<1>7. Scalars'
  <2>1. fine \in BOOLEAN
    BY DEF fine
  <2>. QED BY <1>1, <2>1 DEF Structure, Scalars
<1>8. Listed' /\ Unsoiled'
  BY <1>1, <1>5 DEF Structure, Listed, Unsoiled, SameScopes
<1>. QED BY <1>5, <1>6, <1>7, <1>8 DEF Structure

LEMMA DeclareKeeps ==
  ASSUME Structure, phase \in {"extens", "forward"}, stack = <<>>,
         NEW h \in AnyHeading, NEW defined \in BOOLEAN, NEW item \in Nat,
         Declare(h, defined, item)
  PROVE  Structure' /\ Extends(table', table)
<1> DEFINE n == Len(types)
           s == Definition(n + 1, TRUE)
<1>1. /\ types' = TypeInvoke(h, defined, item)
      /\ table' = AddSymbol(table, h.name, s)
      /\ errors' = (errors \/ Lookup(table, h.name) # Absent \/ Repeats(h.params))
      /\ next' = next + 1
      /\ UNCHANGED <<unit, phase, opened, stack, bodies, slips>>
  BY DEF Declare, past
<1>2. /\ opened \in Nat /\ n \in Nat
      /\ table \in Seq(ScopesOf(opened, n)) /\ table # <<>>
      /\ stack \in Seq(Handlers)
  BY StructureFacts
<1>3. types' \in Seq(TypeInvokes) /\ Len(types') = n + 1
  BY <1>1, TypeInvokeFacts DEF Structure, Scalars
<1>4. Frames(table, opened, n + 1, stack) /\ table \in Seq(ScopesOf(opened, n + 1))
  <2>1. Frames(table, opened, n + 1, stack)
    BY <1>2, FramesWider DEF Structure
  <2>. QED BY <2>1 DEF Frames
<1>5. h.name \in Ids \ {Return} /\ s \in SymbolsOf(n + 1) /\ n + 1 \in Nat
  BY <1>2, ReturnIsNoName DEF AnyHeading, Definition, SymbolsOf
<1> HIDE DEF n, s
<1>6. table' \in Seq(ScopesOf(opened, n + 1)) /\ Extends(table', table)
  BY <1>1, <1>2, <1>4, <1>5, AddSymbolFacts
<1>7. Frames(table', opened', Len(types'), stack')
  BY <1>1, <1>2, <1>3, <1>4, <1>5, <1>6, FramesExtended DEF Extends
<1>8. Scalars'
  <2>1. Repeats(h.params) \in BOOLEAN
    BY DEF Repeats
  <2>. QED BY <1>1, <1>3, <2>1 DEF Structure, Scalars
<1>9. Listed' /\ Unsoiled'
  BY <1>1, <1>6 DEF Structure, Listed, Unsoiled, Extends, SameScopes
<1>. QED BY <1>6, <1>7, <1>8, <1>9 DEF Structure

LEMMA ExternKeeps ==
  ASSUME Structure, externStatement
  PROVE  Structure'
<1>1. /\ phase = "extens" /\ next <= Len(unit.extens) /\ stack = <<>>
      /\ Declare(unit.extens[next], TRUE, 0)
  BY DEF externStatement, At, List
<1>2. unit.extens[next] \in AnyHeading
  <2>1. unit.extens \in Seq(AnyHeading) /\ next \in Nat \ {0}
    BY UnitFacts DEF Structure, Scalars
  <2>2. next \in DOMAIN unit.extens
    BY <1>1, <2>1
  <2>. QED BY <2>1, <2>2
<1>. QED BY <1>1, <1>2, DeclareKeeps

LEMMA NextInStmts ==
  ASSUME Structure, next <= Len(unit.stmts)
  PROVE  /\ next \in DOMAIN unit.stmts /\ next \in Nat \ {0}
         /\ unit.stmts[next].kind \in {"var", "func"}
         /\ unit.stmts[next].kind = "func" => unit.stmts[next].heading \in AnyHeading
<1>1. Len(unit.stmts) \in Nat /\ DOMAIN unit.stmts = 1..Len(unit.stmts) /\ next \in Nat \ {0}
  BY UnitFacts DEF Structure, Scalars
<1>2. next \in DOMAIN unit.stmts
  BY <1>1
<1>. QED BY <1>1, <1>2, UnitFacts DEF Structure, Scalars

LEMMA ForwardKeeps ==
  ASSUME Structure, forwardDeclare
  PROVE  Structure'
<1>1. phase = "forward" /\ next <= Len(unit.stmts) /\ stack = <<>>
  BY DEF forwardDeclare, At, List
<1>2. CASE unit.stmts[next].kind = "func"
  BY <1>1, <1>2, NextInStmts, DeclareKeeps DEF forwardDeclare
<1>3. CASE unit.stmts[next].kind # "func"
  <2>1. /\ next' = next + 1
        /\ UNCHANGED <<unit, phase, table, opened, types, stack, errors, bodies, slips>>
    BY <1>3 DEF forwardDeclare, past
  <2>2. Scalars' /\ Listed' /\ Unsoiled'
    BY <1>1, <2>1 DEF Structure, Scalars, Listed, Unsoiled
  <2>. QED BY <2>1, <2>2 DEF Structure
<1>. QED BY <1>2, <1>3

\* A handler that begins with a scope of its own: what is common to all of them.
LEMMA EnterKeeps ==
  ASSUME Structure, phase = "stmts", UNCHANGED <<unit, phase, next>>,
         next <= Len(unit.stmts),
         types' \in Seq(TypeInvokes), NEW tb,
         NEW below, Frames(tb, opened, Len(types'), below),
         NEW h \in Handlers, h.kind \in Blocks, h.last = "none",
         h.kind = "fn" => h.type \in 1..Len(types'),
         NEW s \in ScopesOf(opened + 1, Len(types')), ScopeFits(s, h),
         IF below = <<>> THEN h.kind = "fn"
         ELSE IF h.kind = "case" THEN below[Len(below)].kind \in {"select", "match"}
                                 ELSE below[Len(below)].kind \in Blocks,
         opened < MaxScopes, opened' = opened + 1,
         table' = Append(tb, s), stack' = Append(below, h),
         errors' \in BOOLEAN, errors => errors', ~ errors' => Clean(below),
         UNCHANGED <<bodies, slips>>
  PROVE  Structure'
<1>1. opened \in Nat /\ Len(types') \in Nat
  BY StructureFacts
<1>2. Frames(table', opened', Len(types'), stack')
  BY <1>1, FramesEnter
<1>3. opened' \in 1..MaxScopes
  BY <1>1, BoundsAssumption
<1>4. ~ errors' => Clean(stack')
  <2>1. below \in Seq(Handlers)
    BY DEF Frames
  <2>2. h.kind # "match"
    BY DEF Blocks
  <2>. QED BY <2>1, <2>2, CleanPush
<1>5. bodies' \subseteq Nat /\ slips' \subseteq Kinds /\ next' \in Nat \ {0}
  BY DEF Structure, Scalars
<1>6. ~ errors' => slips' \intersect {"unfinished", "uncovered"} = {}
  BY DEF Structure, Unsoiled
<1>. QED BY <1>2, <1>3, <1>4, <1>5, <1>6, StatementKeeps

\* The scope of a body.
BodyBinds(t, h) == [x \in Ids |-> IF x = Return THEN Variable(t, FALSE)
                                 ELSE IF \E i \in DOMAIN h.params : h.params[i] = x
                                 THEN Variable(0, FALSE) ELSE Absent]
BodyScope(tb, t, h) == [NewScope(TRUE, tb) EXCEPT !.binds = BodyBinds(t, h)]

LEMMA BodyScopeFacts ==
  ASSUME opened \in Nat, NEW n \in Nat, NEW tb, tb # <<>>, NEW t \in 0..n,
         NEW h \in AnyHeading
  PROVE  /\ BodyScope(tb, t, h) \in ScopesOf(opened + 1, n)
         /\ BodyScope(tb, t, h).fenced = TRUE
         /\ BodyScope(tb, t, h).binds[Return] = Variable(t, FALSE)
<1>1. Variable(t, FALSE) \in SymbolsOf(n) /\ Variable(0, FALSE) \in SymbolsOf(n)
  BY DEF Variable, SymbolsOf
<1>2. BodyBinds(t, h) \in [Ids -> SymbolsOf(n) \union {Absent}]
  BY <1>1 DEF BodyBinds
<1>3. BodyBinds(t, h)[Return] = Variable(t, FALSE)
  BY ReturnIsNoName DEF BodyBinds
<1>4. /\ NewScope(TRUE, tb) \in ScopesOf(opened + 1, n)
      /\ NewScope(TRUE, tb).fenced = TRUE
  BY NewScopeFacts
<1>5. ASSUME NEW scope \in ScopesOf(opened + 1, n),
             NEW binds \in [Ids -> SymbolsOf(n) \union {Absent}]
      PROVE  /\ [scope EXCEPT !.binds = binds] \in ScopesOf(opened + 1, n)
             /\ [scope EXCEPT !.binds = binds].fenced = scope.fenced
             /\ [scope EXCEPT !.binds = binds].binds = binds
  BY DEF ScopesOf
<1>. QED BY <1>2, <1>3, <1>4, <1>5 DEF BodyScope

LEMMA EnterBodyKeeps ==
  ASSUME Structure, phase = "stmts", next <= Len(unit.stmts), AtStatement \/ stack = <<>>,
         types' \in Seq(TypeInvokes), NEW tb, Frames(tb, opened, Len(types'), stack),
         NEW t \in 1..Len(types'), NEW h \in AnyHeading, NEW item \in Nat,
         NEW isLambda \in BOOLEAN, NEW bad \in BOOLEAN,
         EnterBody(tb, t, h, item, isLambda, bad)
  PROVE  Structure'
<1> DEFINE n == Len(types')
           s == BodyScope(tb, t, h)
           f == [kind |-> "fn", type |-> t, returns |-> h.returns,
                 item |-> item, lambda |-> isLambda, last |-> "none"]
<1>1. opened \in Nat /\ n \in Nat /\ errors \in BOOLEAN
  BY StructureFacts
<1>2. tb # <<>>
  BY <1>1, FramesTyped
<1>3. /\ s \in ScopesOf(opened + 1, n)
      /\ s.fenced = TRUE
      /\ s.binds[Return] = Variable(t, FALSE)
  <2>1. t \in 0..n
    BY <1>1
  <2> HIDE DEF n
  <2>. QED BY <1>1, <1>2, <2>1, BodyScopeFacts
<1>4. f \in Handlers /\ f.kind = "fn" /\ f.last = "none" /\ f.type = t
  BY DEF Handlers, Forms, AnyHeading
<1>5. /\ opened < MaxScopes /\ opened' = opened + 1
      /\ table' = Append(tb, s) /\ stack' = Append(stack, f)
      /\ errors' = (errors \/ bad)
      /\ UNCHANGED <<unit, phase, next, bodies, slips>>
  BY DEF EnterBody, BodyScope, BodyBinds, past
<1> HIDE DEF s, f, n
<1>6. ScopeFits(s, f)
  BY <1>3, <1>4 DEF ScopeFits
<1>7. stack # <<>> => stack[Len(stack)].kind \in Blocks
  BY DEF AtStatement, Top, Blocks
<1>8. ~ errors' => Clean(stack)
  BY <1>5 DEF Structure, Unsoiled
<1>9. f.kind \in Blocks /\ f.kind # "case"
  BY <1>4 DEF Blocks
<1>10. t \in 1..n /\ types' \in Seq(TypeInvokes) /\ Frames(tb, opened, n, stack)
  BY DEF n
<1>. QED BY <1>1, <1>3, <1>4, <1>5, <1>6, <1>7, <1>8, <1>9, <1>10, EnterKeeps DEF n

\* Functions in a statement: the one whose turn it is in the unit, or a nested one.
DefinesAt(h, item) ==
  \/ /\ phase = "stmts" /\ stack = <<>> /\ next <= Len(unit.stmts)
     /\ unit.stmts[next].kind = "func" /\ h = unit.stmts[next].heading /\ item = next
  \/ AtStatement /\ h \in Headings /\ item = 0

LEMMA DefinesAtFacts ==
  ASSUME Structure, NEW h, NEW item, DefinesAt(h, item)
  PROVE  /\ phase = "stmts" /\ next <= Len(unit.stmts) /\ (AtStatement \/ stack = <<>>)
         /\ h \in AnyHeading /\ item \in Nat /\ h.name \in Ids \ {Return}
<1>1. /\ phase = "stmts" /\ next <= Len(unit.stmts) /\ (AtStatement \/ stack = <<>>)
  BY DEF DefinesAt, AtStatement, Structure, Listed
<1>2. h \in AnyHeading /\ item \in Nat
  BY <1>1, NextInStmts, UnitFacts DEF DefinesAt, Structure, Scalars
<1>3. h.name \in Ids \ {Return}
  BY <1>2, ReturnIsNoName DEF AnyHeading
<1>. QED BY <1>1, <1>2, <1>3

LEMMA VisitFuncDefFacts ==
  ASSUME visitFuncDef
  PROVE  \E h, item : DefinesAt(h, item) /\ visitInvokeable(h, item)
BY DEF visitFuncDef, DefinesAt, At, List

\* The table when a function is added to the scope that is open.
LEMMA DefinedTable ==
  ASSUME Structure, NEW h \in AnyHeading, NEW item \in Nat, h.name \in Ids \ {Return},
         types' = TypeInvoke(h, TRUE, item), NEW s, s = Definition(Len(types) + 1, FALSE)
  PROVE  /\ types' \in Seq(TypeInvokes) /\ Len(types') = Len(types) + 1
         /\ Len(types') \in 1..Len(types')
         /\ Frames(table, opened, Len(types'), stack)
         /\ Frames(AddSymbol(table, h.name, s), opened, Len(types'), stack)
         /\ Extends(AddSymbol(table, h.name, s), table)
<1> DEFINE n == Len(types)
<1>1. /\ opened \in Nat /\ n \in Nat /\ table # <<>>
  BY StructureFacts
<1>2. types' \in Seq(TypeInvokes) /\ Len(types') = n + 1
  BY TypeInvokeFacts DEF Structure, Scalars
<1>3. Frames(table, opened, n + 1, stack) /\ table \in Seq(ScopesOf(opened, n + 1))
  <2>1. Frames(table, opened, n + 1, stack)
    BY <1>1, FramesWider DEF Structure
  <2>. QED BY <2>1 DEF Frames
<1>4. s \in SymbolsOf(n + 1) /\ n + 1 \in Nat
  BY <1>1 DEF Definition, SymbolsOf
<1> HIDE DEF n
<1>5. /\ AddSymbol(table, h.name, s) \in Seq(ScopesOf(opened, n + 1))
      /\ Extends(AddSymbol(table, h.name, s), table)
  BY <1>1, <1>3, <1>4, AddSymbolFacts
<1>6. Frames(AddSymbol(table, h.name, s), opened, n + 1, stack)
  BY <1>1, <1>3, <1>4, <1>5, FramesExtended DEF Extends
<1>7. Len(types') \in 1..Len(types')
  <2>1. n + 1 \in 1..(n + 1)
    BY <1>1
  <2>. QED BY <1>2, <2>1
<1>. QED BY <1>2, <1>3, <1>5, <1>6, <1>7 DEF n

LEMMA DefineFunctionKeeps ==
  ASSUME Structure, NEW h, NEW item, DefinesAt(h, item), defineFunction(h, item)
  PROVE  Structure'
<1> DEFINE s == Definition(Len(types) + 1, FALSE)
           bad == Repeats(h.params) \/ Misfit(h, h.params, h.returns)
<1>1. /\ phase = "stmts" /\ next <= Len(unit.stmts) /\ (AtStatement \/ stack = <<>>)
      /\ h \in AnyHeading /\ item \in Nat /\ h.name \in Ids \ {Return}
  BY DefinesAtFacts
<1>2. /\ types' = TypeInvoke(h, TRUE, item)
      /\ EnterBody(AddSymbol(table, h.name, s), Len(types) + 1, h, item, FALSE, bad)
  BY DEF defineFunction
<1>3. bad \in BOOLEAN
  BY <1>1 DEF Repeats, Misfit, AnyHeading
<1> HIDE DEF s, bad
<1>4. /\ types' \in Seq(TypeInvokes) /\ Len(types') = Len(types) + 1
      /\ Len(types') \in 1..Len(types')
      /\ Frames(AddSymbol(table, h.name, s), opened, Len(types'), stack)
  BY <1>1, <1>2, DefinedTable DEF s
<1>. QED BY <1>1, <1>2, <1>3, <1>4, EnterBodyKeeps

LEMMA VisitLambdaKeeps ==
  ASSUME Structure, NEW h \in Headings, visitLambda(h)
  PROVE  Structure'
<1> DEFINE bad == Repeats(h.params)
<1>1. h \in AnyHeading /\ 0 \in Nat /\ TRUE \in BOOLEAN
  BY UnitFacts DEF Structure, Scalars
<1>2. h.name \in Ids \ {Return}
  BY <1>1, ReturnIsNoName DEF AnyHeading
<1>3. /\ AtStatement /\ phase = "stmts" /\ next <= Len(unit.stmts)
      /\ types' = TypeInvoke(h, TRUE, 0)
      /\ EnterBody(table, Len(types) + 1, h, 0, TRUE, bad)
  BY DEF visitLambda, AtStatement, Structure, Listed
<1>4. bad \in BOOLEAN
  BY DEF Repeats
<1> HIDE DEF bad
<1>5. /\ types' \in Seq(TypeInvokes) /\ Len(types') = Len(types) + 1
      /\ Len(types') \in 1..Len(types')
      /\ Frames(table, opened, Len(types'), stack)
  BY <1>1, <1>2, <1>3, DefinedTable
<1>. QED BY <1>1, <1>3, <1>4, <1>5, EnterBodyKeeps

LEMMA DefineDeclaredKeeps ==
  ASSUME Structure, NEW h, NEW item, DefinesAt(h, item), defineDeclared(h, item)
  PROVE  Structure'
<1> DEFINE s == LookupInCurrentScope(table, h.name)
           t == s.type
           bad == Misfit(h, types[t].params, types[t].returns)
<1>1. /\ phase = "stmts" /\ next <= Len(unit.stmts) /\ (AtStatement \/ stack = <<>>)
      /\ h \in AnyHeading /\ item \in Nat /\ h.name \in Ids \ {Return}
  BY DefinesAtFacts
<1>2. /\ opened \in Nat /\ Len(types) \in Nat /\ types \in Seq(TypeInvokes)
      /\ table \in Seq(ScopesOf(opened, Len(types))) /\ table # <<>>
  BY StructureFacts DEF Structure, Scalars
<1>3. IsDeclared(s) /\ types' = define(t)
  BY DEF defineDeclared
<1>4. t \in 1..Len(types)
  <2>1. s \in SymbolsOf(Len(types)) \union {Absent}
    BY <1>1, <1>2, LookupInCurrentTyped
  <2> HIDE DEF s
  <2>2. s # Absent /\ s.type # 0
    BY <1>3 DEF IsDeclared
  <2>3. s.type \in 0..Len(types)
    BY <2>1, <2>2 DEF SymbolsOf
  <2>. QED BY <1>2, <2>2, <2>3
<1> HIDE DEF t
<1>5. types' \in Seq(TypeInvokes) /\ Len(types') = Len(types)
  BY <1>2, <1>3, <1>4, DefineFacts
<1>6. Frames(table, opened, Len(types'), stack)
  BY <1>5 DEF Structure
<1>7. CASE Len(h.params) <= Len(types[t].params)
  <2>1. EnterBody(table, t, h, item, FALSE, bad)
    BY <1>7 DEF defineDeclared, t
  <2>2. bad \in BOOLEAN
    <3>1. types[t] \in TypeInvokes
      BY <1>2, <1>4
    <3>. QED BY <3>1 DEF Misfit, TypeInvokes
  <2> HIDE DEF bad
  <2>3. t \in 1..Len(types') /\ FALSE \in BOOLEAN
    BY <1>4, <1>5
  <2>. QED BY <1>1, <1>5, <1>6, <2>1, <2>2, <2>3, EnterBodyKeeps
<1>8. CASE ~ (Len(h.params) <= Len(types[t].params))
  <2>1. /\ phase' = "aborted"
        /\ UNCHANGED <<unit, next, table, opened, stack, errors, bodies, slips>>
    BY <1>8 DEF defineDeclared, t, past
  <2>2. Scalars'
    BY <1>5, <2>1 DEF Structure, Scalars, Phases
  <2>3. Listed' /\ Unsoiled'
    BY <2>1 DEF Structure, Listed, Unsoiled
  <2>4. Frames(table', opened', Len(types'), stack')
    BY <1>6, <2>1
  <2>. QED BY <2>2, <2>3, <2>4 DEF Structure
<1>. QED BY <1>7, <1>8

LEMMA RedeclaredKeeps ==
  ASSUME Structure, NEW h, NEW item, DefinesAt(h, item), redeclared(h, item)
  PROVE  Structure'
<1>1. /\ phase = "stmts" /\ (AtStatement \/ stack = <<>>)
  BY DefinesAtFacts
<1>2. /\ Finishes("definition", stack, TRUE)
      /\ UNCHANGED <<unit, phase, table, opened, types, bodies, slips>>
  BY DEF redeclared, past
<1>3. "definition" \in Forms \ {"dead"} /\ TRUE \in BOOLEAN
  BY DEF Forms
<1>. QED BY <1>1, <1>2, <1>3, TableStays, PlainStatementKeeps

LEMMA VisitFuncDefKeeps ==
  ASSUME Structure, visitFuncDef
  PROVE  Structure'
<1>1. PICK h, item : DefinesAt(h, item) /\ visitInvokeable(h, item)
  BY VisitFuncDefFacts
<1>. QED BY <1>1, DefineFunctionKeeps, DefineDeclaredKeeps, RedeclaredKeeps DEF visitInvokeable

LEMMA StatementForms ==
  {"statement", "definition", "return"} \subseteq Forms \ {"dead"}
BY DEF Forms

LEMMA EndBodyKeeps ==
  ASSUME Structure, endBody
  PROVE  Structure'
<1> DEFINE form == IF Top.lambda THEN "statement" ELSE "definition"
<1>1. /\ In("fn") /\ phase = "stmts" /\ table' = ExitScope(table)
      /\ bodies' = bodies \union {Top.item}
      /\ Finishes(form, Below, Unfinished)
      /\ IF Unfinished THEN LetsPass("unfinished", TRUE)
                   ELSE LetsPass("foreign", types[Top.type].item # Top.item)
      /\ UNCHANGED <<unit, phase, opened, types>>
  BY DEF endBody, EndsBody, In
<1>2. Top \in Handlers /\ Top.kind = "fn"
  BY <1>1, StructureFacts DEF In
<1>3. Top.item \in Nat /\ Unfinished \in BOOLEAN /\ form \in Forms \ {"dead"}
  BY <1>2, HandlerFacts, StatementForms DEF Unfinished
<1> HIDE DEF form
<1>4. /\ Frames(table', opened', Len(types'), stack')
      /\ next' \in Nat \ {0} /\ errors' \in BOOLEAN /\ (errors \/ Unfinished => errors')
      /\ stack' # <<>> => stack # <<>> /\ next' = next
      /\ ~ errors' => Clean(stack')
  <2>1. "fn" \in Blocks /\ "fn" # "case"
    BY DEF Blocks
  <2>. QED BY <1>1, <1>3, <2>1, FinishBelow
<1>5. bodies' \subseteq Nat
  BY <1>1, <1>3 DEF Structure, Scalars
<1>6. slips' \subseteq Kinds /\ (~ errors' => slips' \subseteq slips \union {"foreign"})
  BY <1>1, <1>4 DEF LetsPass, Structure, Scalars, Kinds
<1>7. ~ errors' => slips' \intersect {"unfinished", "uncovered"} = {}
  BY <1>4, <1>6 DEF Structure, Unsoiled
<1>8. /\ opened' \in 1..MaxScopes /\ types' \in Seq(TypeInvokes)
      /\ stack' # <<>> => next' <= Len(unit.stmts)
  BY <1>1, <1>4 DEF Structure, Scalars, Listed
<1>. QED BY <1>1, <1>4, <1>5, <1>6, <1>7, <1>8, StatementKeeps

LEMMA AssignKeeps ==
  ASSUME Structure, NEW x, NEW ok \in BOOLEAN, assignStatement(x, ok)
  PROVE  Structure'
<1> DEFINE bad == ~ ok \/ Lookup(table, x) = Absent
<1>1. /\ phase = "stmts" /\ AtStatement /\ Finishes("statement", stack, bad)
      /\ UNCHANGED <<unit, phase, table, opened, types, bodies, slips>>
  BY DEF assignStatement, AtStatement, past
<1>2. bad \in BOOLEAN
  OBVIOUS
<1> HIDE DEF bad
<1>. QED BY <1>1, <1>2, StatementForms, TableStays, PlainStatementKeeps

LEMMA InvocationKeeps ==
  ASSUME Structure, NEW x, NEW ok \in BOOLEAN, invocation(x, ok)
  PROVE  Structure'
<1> DEFINE s == Lookup(table, x)
           bad == s = Absent \/ s.type = 0 \/ ~ ok
<1>1. /\ phase = "stmts" /\ AtStatement /\ Finishes("statement", stack, bad)
      /\ UNCHANGED <<unit, phase, table, opened, types, bodies, slips>>
  BY DEF invocation, AtStatement, past
<1>2. bad \in BOOLEAN
  OBVIOUS
<1> HIDE DEF bad
<1>. QED BY <1>1, <1>2, StatementForms, TableStays, PlainStatementKeeps

LEMMA ReturnKeeps ==
  ASSUME Structure, NEW value \in BOOLEAN, returnStatement(value)
  PROVE  Structure'
<1> DEFINE s == Lookup(table, Return)
           bad == s = Absent \/ types[s.type].returns # value
<1>1. /\ phase = "stmts" /\ AtStatement /\ Finishes("return", stack, bad)
      /\ LetsPass("return", stack[Innermost].returns # value)
      /\ UNCHANGED <<unit, phase, table, opened, types, bodies>>
  BY DEF returnStatement, AtStatement
<1>2. bad \in BOOLEAN
  OBVIOUS
<1>3. slips' \subseteq slips \union {"return"}
  BY <1>1 DEF LetsPass
<1> HIDE DEF bad
<1>. QED BY <1>1, <1>2, <1>3, StatementForms, TableStays, PlainStatementKeeps

LEMMA VarDeclKeeps ==
  ASSUME Structure, NEW names \in Declarators, NEW d \in Declarations, NEW ok \in BOOLEAN,
         varDecl(names, d, ok)
  PROVE  Structure' /\ Extends(table', table)
<1> DEFINE declared == DeclareEach(names, d)
           bad == declared.bad \/ ~ ok \/ (isGlobalScope /\ d.how = "var")
<1>1. /\ phase = "stmts" /\ (AtStatement \/ stack = <<>>)
      /\ table' = declared.table
      /\ Finishes("definition", stack, bad)
      /\ UNCHANGED <<unit, phase, opened, types, bodies, slips>>
  BY DEF varDecl, AtStatement, At, past
<1>2. /\ declared.table \in Seq(ScopesOf(opened, Len(types)))
      /\ Extends(declared.table, table)
      /\ declared.bad \in BOOLEAN
  <2>1. names \in Seq(Names)
    BY DeclaratorsAssumption
  <2>. QED BY <2>1, StructureFacts, DeclareEachFacts
<1> HIDE DEF declared
<1>3. bad \in BOOLEAN
  BY <1>2 DEF isGlobalScope
<1> HIDE DEF bad
<1>. QED BY <1>1, <1>2, <1>3, StatementForms, PlainStatementKeeps DEF Extends

LEMMA VisitBlockKeeps ==
  ASSUME Structure, NEW hasElse \in BOOLEAN, NEW ok \in BOOLEAN, visitBlock(hasElse, ok)
  PROVE  Structure'
<1> DEFINE h == [kind |-> "block", else |-> hasElse, last |-> "none"]
           s == NewScope(FALSE, table)
<1>1. /\ phase = "stmts" /\ AtStatement /\ next <= Len(unit.stmts)
      /\ opened < MaxScopes /\ opened' = opened + 1
      /\ table' = Append(table, s) /\ stack' = Append(stack, h)
      /\ errors' = (errors \/ ~ ok)
      /\ UNCHANGED <<unit, phase, next, types, bodies, slips>>
  BY DEF visitBlock, Visits, AtStatement, past, Structure, Listed
<1>2. h \in Handlers /\ h.kind = "block" /\ h.last = "none"
  BY DEF Handlers, Forms
<1>3. /\ s \in ScopesOf(opened + 1, Len(types)) /\ s.fenced = FALSE
      /\ s.binds = [x \in Ids |-> Absent]
  BY StructureFacts, NewScopeFacts
<1> HIDE DEF h, s
<1>4. ScopeFits(s, h)
  BY <1>2, <1>3, ReturnIsNoName DEF ScopeFits
<1>5. stack # <<>> /\ stack[Len(stack)].kind \in Blocks /\ h.kind \in Blocks
  BY <1>1, <1>2 DEF AtStatement, Top, Blocks
<1>6. types' \in Seq(TypeInvokes) /\ Frames(table, opened, Len(types'), stack)
  BY <1>1 DEF Structure, Scalars
<1>7. errors' \in BOOLEAN /\ (errors => errors') /\ (~ errors' => Clean(stack))
  BY <1>1 DEF Structure, Scalars, Unsoiled
<1>. QED BY <1>1, <1>2, <1>3, <1>4, <1>5, <1>6, <1>7, EnterKeeps

LEMMA EndBlockKeeps ==
  ASSUME Structure, endBlock
  PROVE  Structure'
<1>1. /\ In("block") /\ phase = "stmts" /\ stack # <<>> /\ stack[Len(stack)].kind = "block"
      /\ UNCHANGED <<unit, phase, types, bodies, slips>>
  BY DEF endBlock, In, Top, past
<1>2. opened \in Nat /\ Len(types) \in Nat /\ "block" \in Blocks /\ stack \in Seq(Handlers)
  BY StructureFacts DEF Blocks
<1>3. CASE Top.else
  <2> DEFINE h == [kind |-> "block", else |-> FALSE, last |-> "none"]
             tb == ExitScope(table)
             s == NewScope(FALSE, tb)
  <2>1. /\ opened < MaxScopes /\ opened' = opened + 1
        /\ table' = Append(tb, s) /\ stack' = Append(Below, h)
        /\ UNCHANGED <<next, errors>>
    BY <1>3 DEF endBlock
  <2>2. h \in Handlers /\ h.kind = "block" /\ h.last = "none"
    BY DEF Handlers, Forms
  <2>3. Frames(tb, opened, Len(types), Below)
    BY <1>1, <1>2, FramesExit DEF Structure, Below
  <2>4. tb # <<>>
    BY <1>2, <2>3, FramesTyped
  <2> HIDE DEF tb
  <2>5. /\ s \in ScopesOf(opened + 1, Len(types)) /\ s.fenced = FALSE
        /\ s.binds = [x \in Ids |-> Absent]
    BY <1>2, <2>4, NewScopeFacts
  <2> HIDE DEF h, s
  <2>6. ScopeFits(s, h)
    BY <2>2, <2>5, ReturnIsNoName DEF ScopeFits
  <2>7. /\ Below = <<>> => h.kind = "fn"
        /\ Below # <<>> => Below[Len(Below)].kind \in Blocks
    BY <1>1, <1>2, NestsPop DEF Structure, Frames, Below
  <2>8. h.kind \in Blocks /\ h.kind # "case" /\ h.kind # "fn"
    BY <2>2 DEF Blocks
  <2>9. errors' \in BOOLEAN /\ (errors => errors') /\ (~ errors' => Clean(Below))
    BY <1>1, <1>2, <2>1, CleanPop DEF Structure, Scalars, Unsoiled, Below
  <2>10. types' \in Seq(TypeInvokes) /\ Len(types') = Len(types) /\ next <= Len(unit.stmts)
    BY <1>1 DEF Structure, Scalars, Listed
  <2>. QED BY <1>1, <2>1, <2>2, <2>3, <2>5, <2>6, <2>7, <2>8, <2>9, <2>10, EnterKeeps
<1>4. CASE ~ Top.else
  <2>1. /\ table' = ExitScope(table) /\ Finishes("statement", Below, FALSE)
        /\ opened' = opened
    BY <1>4 DEF endBlock
  <2>2. /\ Frames(table', opened', Len(types'), stack')
        /\ next' \in Nat \ {0} /\ errors' \in BOOLEAN /\ (errors => errors')
        /\ stack' # <<>> => stack # <<>> /\ next' = next
        /\ ~ errors' => Clean(stack')
    <3>1. "block" # "case" /\ FALSE \in BOOLEAN
      OBVIOUS
    <3>. QED BY <1>1, <1>2, <2>1, <3>1, StatementForms, FinishBelow
  <2>3. /\ opened' \in 1..MaxScopes /\ types' \in Seq(TypeInvokes)
        /\ stack' # <<>> => next' <= Len(unit.stmts)
        /\ bodies' \subseteq Nat /\ slips' \subseteq Kinds
        /\ ~ errors' => slips' \intersect {"unfinished", "uncovered"} = {}
    BY <1>1, <2>1, <2>2 DEF Structure, Scalars, Listed, Unsoiled
  <2>. QED BY <1>1, <2>2, <2>3, StatementKeeps
<1>. QED BY <1>3, <1>4

LEMMA PushKeeps ==
  ASSUME Structure, AtStatement, NEW h \in Handlers, h.kind \in {"select", "match"},
         h.kind = "match" => MatchCounts(h), stack' = Append(stack, h),
         UNCHANGED <<unit, phase, next, table, opened, types, errors, bodies, slips>>
  PROVE  Structure'
<1>1. /\ phase = "stmts" /\ stack # <<>> /\ stack[Len(stack)].kind \in Blocks
      /\ next <= Len(unit.stmts)
  BY DEF AtStatement, Top, Blocks, Structure, Listed
<1>2. opened \in Nat /\ Len(types) \in Nat /\ stack \in Seq(Handlers) /\ h.kind \notin Blocks
  BY StructureFacts DEF Blocks
<1>3. Frames(table', opened', Len(types'), stack')
  BY <1>1, <1>2, FramesPush DEF Structure
<1>4. ~ errors' => Clean(stack')
  BY <1>2, CleanPush DEF Structure, Unsoiled
<1>5. /\ opened' \in 1..MaxScopes /\ types' \in Seq(TypeInvokes)
      /\ next' \in Nat \ {0} /\ errors' \in BOOLEAN
      /\ bodies' \subseteq Nat /\ slips' \subseteq Kinds
      /\ ~ errors' => slips' \intersect {"unfinished", "uncovered"} = {}
  BY DEF Structure, Scalars, Unsoiled
<1>. QED BY <1>1, <1>3, <1>4, <1>5, StatementKeeps

LEMMA SelectKeeps ==
  ASSUME Structure, select
  PROVE  Structure'
<1> DEFINE h == [kind |-> "select", cases |-> 0]
<1>1. /\ AtStatement /\ stack' = Append(stack, h)
      /\ UNCHANGED <<unit, phase, next, table, opened, types, errors, bodies, slips>>
  BY DEF select, past
<1>2. h \in Handlers /\ h.kind = "select"
  BY DEF Handlers
<1> HIDE DEF h
<1>. QED BY <1>1, <1>2, PushKeeps

LEMMA MatchKeeps ==
  ASSUME Structure, NEW ok \in BOOLEAN, match(ok)
  PROVE  Structure'
<1> DEFINE h == [kind |-> "match", named |-> {}, found |-> 0, again |-> FALSE]
<1>1. /\ AtStatement /\ phase = "stmts"
      /\ UNCHANGED <<unit, phase, table, opened, types, bodies, slips>>
  BY DEF match, AtStatement, past
<1>2. CASE ok
  <2>1. stack' = Append(stack, h) /\ UNCHANGED <<next, errors>>
    BY <1>2 DEF match
  <2>2. h \in Handlers /\ h.kind = "match" /\ MatchCounts(h)
    BY FS_EmptySet DEF Handlers, MatchCounts
  <2> HIDE DEF h
  <2>. QED BY <1>1, <2>1, <2>2, PushKeeps
<1>3. CASE ~ ok
  <2>1. Finishes("statement", stack, TRUE) /\ TRUE \in BOOLEAN
    BY <1>3 DEF match
  <2>. QED BY <1>1, <2>1, StatementForms, TableStays, PlainStatementKeeps
<1>. QED BY <1>2, <1>3

\* A select or a match goes on to an alternative.
LEMMA AlternativeKeeps ==
  ASSUME Structure, NEW kind \in {"select", "match"}, In(kind),
         opened < MaxScopes, opened' = opened + 1,
         NEW m \in Handlers, m.kind = kind, NEW bad \in BOOLEAN, errors' = (errors \/ bad),
         kind = "match" /\ ~ errors' => MatchCounts(m),
         NEW s \in ScopesOf(opened + 1, Len(types)), s.fenced = FALSE,
         s.binds[Return] = Absent,
         table' = Append(table, s),
         stack' = Append(Append(Below, m), [kind |-> "case", last |-> "none"]),
         UNCHANGED <<unit, phase, next, types, bodies, slips>>
  PROVE  Structure'
<1> DEFINE c == [kind |-> "case", last |-> "none"]
           below == Append(Below, m)
<1>1. /\ phase = "stmts" /\ stack # <<>> /\ stack[Len(stack)].kind = kind
      /\ next <= Len(unit.stmts)
  BY DEF In, Top, Structure, Listed
<1>2. opened \in Nat /\ Len(types) \in Nat /\ stack \in Seq(Handlers) /\ errors \in BOOLEAN
  BY StructureFacts
<1>3. Frames(table, opened, Len(types), Below)
  BY <1>1, <1>2, FramesPop DEF Structure, Below
<1>4. Below # <<>> /\ Below[Len(Below)].kind \in Blocks /\ Below \in Seq(Handlers)
  BY <1>1, <1>2, NestsPop DEF Structure, Frames, Below
<1>5. Frames(table, opened, Len(types), below)
  BY <1>2, <1>3, <1>4, FramesPush
<1>6. below # <<>> /\ below[Len(below)] = m
  BY <1>4, AppendFacts
<1>7. c \in Handlers /\ c.kind = "case" /\ c.last = "none" /\ c.kind \in Blocks
  BY DEF Handlers, Forms, Blocks
<1>8. ScopeFits(s, c)
  BY <1>7 DEF ScopeFits
<1>9. ~ errors' => Clean(below)
  <2>1. ~ errors' => Clean(Below)
    BY <1>1, <1>2, CleanPop DEF Structure, Unsoiled, Below
  <2>2. m.kind \notin Blocks
    BY DEF Blocks
  <2>. QED BY <1>4, <2>1, <2>2, CleanPush
<1>10. types' \in Seq(TypeInvokes) /\ Len(types') = Len(types)
  BY DEF Structure, Scalars
<1>11. stack' = Append(below, c) /\ table' = Append(table, s)
  OBVIOUS
<1> HIDE DEF c, below
<1>. QED BY <1>1, <1>2, <1>5, <1>6, <1>7, <1>8, <1>9, <1>10, <1>11, EnterKeeps

LEMMA SelectAlternativeKeeps ==
  ASSUME Structure, selectAlternative
  PROVE  Structure'
<1> DEFINE m == [Top EXCEPT !.cases = @ + 1]
           s == NewScope(FALSE, table)
<1>1. /\ In("select") /\ Top.cases < 2
      /\ opened < MaxScopes /\ opened' = opened + 1
      /\ table' = Append(table, s)
      /\ stack' = Append(Append(Below, m), [kind |-> "case", last |-> "none"])
      /\ errors' = (errors \/ FALSE)
      /\ UNCHANGED <<unit, phase, next, types, bodies, slips>>
  BY StructureFacts DEF selectAlternative, past
<1>2. Top \in Handlers /\ Top.kind = "select"
  BY <1>1, StructureFacts DEF In
<1>3. m \in Handlers /\ m.kind = "select"
  <2>1. Top.cases \in 0..2 /\ Top = [kind |-> "select", cases |-> Top.cases]
    BY <1>2, HandlerFacts
  <2>2. Top.cases + 1 \in 0..2
    BY <1>1, <2>1
  <2>3. m = [kind |-> "select", cases |-> Top.cases + 1]
    BY <2>1
  <2>. QED BY <2>2, <2>3 DEF Handlers
<1>4. /\ s \in ScopesOf(opened + 1, Len(types)) /\ s.fenced = FALSE
      /\ s.binds[Return] = Absent
  <2>1. /\ s \in ScopesOf(opened + 1, Len(types)) /\ s.fenced = FALSE
        /\ s.binds = [x \in Ids |-> Absent]
    BY StructureFacts, NewScopeFacts
  <2> HIDE DEF s
  <2>. QED BY <2>1, ReturnIsNoName
<1> HIDE DEF m, s
<1>. QED BY <1>1, <1>3, <1>4, AlternativeKeeps

\* Counting another case, and whether it was counted before.
LEMMA MatchCountsOn ==
  ASSUME NEW h \in Handlers, h.kind = "match", NEW c \in SumCases,
         MatchCounts(h), ~ Found(h, c).duplicate
  PROVE  MatchCounts([kind |-> "match", named |-> h.named \union {c},
                      found |-> Found(h, c).found,
                      again |-> h.again \/ (c \in h.named \ Shared)])
<1> DEFINE m == [kind |-> "match", named |-> h.named \union {c},
                 found |-> Found(h, c).found,
                 again |-> h.again \/ (c \in h.named \ Shared)]
<1>1. ~ (c \in Shared /\ c \in h.named) /\ Found(h, c).found = h.found + 1
  BY DEF Found
<1>2. h.named \subseteq SumCases /\ (h.again \/ h.found = Cardinality(h.named))
  BY DEF MatchCounts
<1>3. m.again \/ m.found = Cardinality(m.named)
  <2>1. CASE h.again \/ c \in h.named
    BY <1>1, <2>1
  <2>2. CASE ~ h.again /\ c \notin h.named
    <3>1. IsFiniteSet(h.named)
      BY <1>2, CasesAssumption, FS_Subset
    <3>2. Cardinality(h.named \union {c}) = Cardinality(h.named) + 1
      BY <2>2, <3>1, FS_AddElement
    <3>. QED BY <1>1, <1>2, <2>2, <3>2
  <2>. QED BY <2>1, <2>2
<1>. QED BY <1>2, <1>3 DEF MatchCounts

LEMMA MatchAlternativeKeeps ==
  ASSUME Structure, NEW c \in Denoted, NEW y \in Names, matchAlternative(c, y)
  PROVE  Structure'
<1> DEFINE scope == NewScope(FALSE, table)
           s == [scope EXCEPT !.binds[y] = Variable(0, FALSE)]
           entry == Found(Top, c)
           again == Top.again \/ (c \in Top.named \ Shared)
           m == [kind |-> "match", named |-> Top.named \union {c},
                 found |-> entry.found, again |-> again]
           bad == entry.duplicate \/ c \notin SumCases
<1>1. /\ In("match")
      /\ opened < MaxScopes /\ opened' = opened + 1
      /\ table' = Append(table, s)
      /\ stack' = Append(Append(Below, m), [kind |-> "case", last |-> "none"])
      /\ errors' = (errors \/ bad)
      /\ UNCHANGED <<unit, phase, next, types, bodies, slips>>
  BY DEF matchAlternative, past
<1>2. /\ Top \in Handlers /\ Top.kind = "match" /\ stack # <<>>
      /\ opened \in Nat /\ Len(types) \in Nat /\ table # <<>> /\ errors \in BOOLEAN
      /\ stack \in Seq(Handlers)
  BY <1>1, StructureFacts DEF In
<1>3. m \in Handlers /\ m.kind = "match"
  <2>1. Top.named \subseteq Denoted /\ Top.found \in Nat /\ Top.again \in BOOLEAN
    BY <1>2, HandlerFacts
  <2>2. entry.found \in Nat
    BY <2>1 DEF Found
  <2>3. Top.named \union {c} \subseteq Denoted /\ again \in BOOLEAN
    BY <2>1
  <2> HIDE DEF entry, again
  <2>. QED BY <2>2, <2>3 DEF Handlers
<1>4. bad \in BOOLEAN
  BY DEF Found
<1>5. s \in ScopesOf(opened + 1, Len(types)) /\ s.fenced = FALSE /\ s.binds[Return] = Absent
  <2>1. /\ scope \in ScopesOf(opened + 1, Len(types)) /\ scope.fenced = FALSE
        /\ scope.binds[Return] = Absent
    <3>1. /\ scope \in ScopesOf(opened + 1, Len(types)) /\ scope.fenced = FALSE
          /\ scope.binds = [x \in Ids |-> Absent]
      BY <1>2, NewScopeFacts
    <3> HIDE DEF scope
    <3>. QED BY <3>1, ReturnIsNoName
  <2>2. Variable(0, FALSE) \in SymbolsOf(Len(types)) /\ y \in Ids /\ y # Return
    BY <1>2, ReturnIsNoName DEF Variable, SymbolsOf
  <2> HIDE DEF scope
  <2>. QED BY <2>1, <2>2, ReturnIsNoName DEF ScopesOf
<1>6. ~ errors' => MatchCounts(m)
  <2> SUFFICES ASSUME ~ errors' PROVE MatchCounts(m)
    OBVIOUS
  <2>1. ~ errors /\ ~ entry.duplicate /\ c \in SumCases
    BY <1>1
  <2>2. MatchCounts(Top)
    <3>1. Len(stack) \in DOMAIN stack
      BY <1>2
    <3>. QED BY <1>2, <2>1, <3>1 DEF Structure, Unsoiled, Clean, MatchesCount, Top
  <2>. QED BY <1>2, <2>1, <2>2, MatchCountsOn
<1> HIDE DEF s, m, bad
<1>. QED BY <1>1, <1>3, <1>4, <1>5, <1>6, AlternativeKeeps

LEMMA EndAlternativeKeeps ==
  ASSUME Structure, NEW ok \in BOOLEAN, endAlternative(ok)
  PROVE  Structure'
<1> DEFINE bad == Top.last = "definition" \/ (Below[Len(Below)].kind = "select" /\ ~ ok)
<1>1. /\ In("case") /\ phase = "stmts" /\ stack # <<>> /\ stack[Len(stack)].kind = "case"
      /\ table' = ExitScope(table) /\ stack' = Below /\ errors' = (errors \/ bad)
      /\ UNCHANGED <<unit, phase, next, opened, types, bodies, slips>>
  BY DEF endAlternative, In, Top, past
<1>2. opened \in Nat /\ Len(types) \in Nat /\ stack \in Seq(Handlers) /\ "case" \in Blocks
  BY StructureFacts DEF Blocks
<1>3. Frames(table', opened', Len(types'), stack')
  BY <1>1, <1>2, FramesExit DEF Structure, Below
<1>4. ~ errors' => Clean(stack')
  BY <1>1, <1>2, CleanPop DEF Structure, Unsoiled, Below
<1>5. bad \in BOOLEAN
  OBVIOUS
<1> HIDE DEF bad
<1>6. /\ opened' \in 1..MaxScopes /\ types' \in Seq(TypeInvokes)
      /\ next' \in Nat \ {0} /\ errors' \in BOOLEAN /\ (errors => errors')
      /\ bodies' \subseteq Nat /\ slips' \subseteq Kinds
      /\ ~ errors' => slips' \intersect {"unfinished", "uncovered"} = {}
      /\ next' <= Len(unit.stmts)
  BY <1>1, <1>5 DEF Structure, Scalars, Unsoiled, Listed
<1>. QED BY <1>1, <1>3, <1>4, <1>6, StatementKeeps

LEMMA EndSelectKeeps ==
  ASSUME Structure, endSelect
  PROVE  Structure'
<1> DEFINE bad == Top.cases = 0
<1>1. /\ In("select") /\ phase = "stmts" /\ Finishes("statement", Below, bad)
      /\ UNCHANGED <<unit, phase, table, opened, types, bodies, slips>>
  BY DEF endSelect, In, past
<1>2. bad \in BOOLEAN
  OBVIOUS
<1> HIDE DEF bad
<1>3. /\ Frames(table', opened', Len(types'), stack')
      /\ next' \in Nat \ {0} /\ errors' \in BOOLEAN /\ (errors => errors')
      /\ stack' # <<>> => stack # <<>> /\ next' = next
      /\ ~ errors' => Clean(stack')
  <2>1. "select" # "case" /\ "select" \in {"select", "match"}
    OBVIOUS
  <2>. QED BY <1>1, <1>2, <2>1, StatementForms, FinishBelow
<1>4. /\ opened' \in 1..MaxScopes /\ types' \in Seq(TypeInvokes)
      /\ stack' # <<>> => next' <= Len(unit.stmts)
      /\ bodies' \subseteq Nat /\ slips' \subseteq Kinds
      /\ ~ errors' => slips' \intersect {"unfinished", "uncovered"} = {}
  BY <1>1, <1>3 DEF Structure, Scalars, Listed, Unsoiled
<1>. QED BY <1>1, <1>3, <1>4, StatementKeeps

LEMMA EndMatchKeeps ==
  ASSUME Structure, endMatch
  PROVE  Structure'
<1> DEFINE bad  == Top.found # Cardinality(SumCases)
           slip == Top.named # SumCases /\ ~ Top.again
<1>1. /\ In("match") /\ phase = "stmts" /\ Finishes("statement", Below, bad)
      /\ LetsPass("uncovered", slip)
      /\ UNCHANGED <<unit, phase, table, opened, types, bodies>>
  BY DEF endMatch, In
<1>2. /\ Top \in Handlers /\ Top.kind = "match" /\ stack # <<>> /\ stack \in Seq(Handlers)
      /\ bad \in BOOLEAN
  BY <1>1, StructureFacts DEF In
<1>3. /\ Frames(table', opened', Len(types'), stack')
      /\ next' \in Nat \ {0} /\ errors' \in BOOLEAN /\ (errors \/ bad => errors')
      /\ stack' # <<>> => stack # <<>> /\ next' = next
      /\ ~ errors' => Clean(stack')
  <2>1. "match" # "case" /\ "match" \in {"select", "match"}
    OBVIOUS
  <2> HIDE DEF bad
  <2>. QED BY <1>1, <1>2, <2>1, StatementForms, FinishBelow
<1>4. ~ errors' => ~ slip
  <2> SUFFICES ASSUME ~ errors', ~ Top.again PROVE Top.named = SumCases
    OBVIOUS
  <2>1. ~ errors /\ Top.found = Cardinality(SumCases)
    BY <1>3
  <2>2. MatchCounts(Top)
    <3>1. Len(stack) \in DOMAIN stack
      BY <1>2
    <3>. QED BY <1>2, <2>1, <3>1 DEF Structure, Unsoiled, Clean, MatchesCount, Top
  <2>3. Top.named \subseteq SumCases /\ Cardinality(Top.named) = Cardinality(SumCases)
    BY <2>1, <2>2 DEF MatchCounts
  <2>. QED BY <2>3, CasesAssumption, FS_Subset
<1>5. slips' \subseteq Kinds /\ (~ errors' => slips' = slips)
  BY <1>1, <1>4 DEF LetsPass, Structure, Scalars, Kinds
<1>6. /\ opened' \in 1..MaxScopes /\ types' \in Seq(TypeInvokes)
      /\ stack' # <<>> => next' <= Len(unit.stmts)
      /\ bodies' \subseteq Nat
      /\ ~ errors' => slips' \intersect {"unfinished", "uncovered"} = {}
  BY <1>1, <1>3, <1>5 DEF Structure, Scalars, Listed, Unsoiled
<1>. QED BY <1>1, <1>3, <1>5, <1>6, StatementKeeps

LEMMA InitStructure ==
  ASSUME Init
  PROVE  Structure
<1> DEFINE s == [id |-> 0, fenced |-> FALSE, binds |-> [x \in Ids |-> Absent]]
<1>1. /\ unit \in Units /\ phase = "defs" /\ next = 1 /\ table = <<s>> /\ opened = 1
      /\ types = <<>> /\ stack = <<>> /\ errors = FALSE /\ bodies = {} /\ slips = {}
  BY DEF Init
<1>2. s \in ScopesOf(1, 0) /\ s.binds[Return] = Absent
  BY ReturnIsNoName DEF ScopesOf
<1> HIDE DEF s
<1>3. table \in Seq(ScopesOf(1, 0)) /\ Len(table) = 1 /\ table[1] = s /\ Len(types) = 0
  BY <1>1, <1>2
<1>4. Positions(stack) = {} /\ Len(stack) = 0 /\ stack \in Seq(Handlers)
  BY <1>1 DEF Positions
<1>5. Follows(table, stack)
  <2>1. Count(Positions(stack), 0) = 0
    BY CountFacts
  <2>2. 2..Len(table) = {}
    BY <1>3
  <2>. QED BY <1>2, <1>3, <1>4, <2>1, <2>2 DEF Follows
<1>6. Nests(stack) /\ Clean(stack)
  BY <1>1, <1>4 DEF Nests, Clean, NoneDead, MatchesCount
<1>7. Frames(table, opened, Len(types), stack)
  BY <1>1, <1>3, <1>4, <1>5, <1>6 DEF Frames
<1>8. Scalars
  <2>1. 1 \in 1..MaxScopes
    BY BoundsAssumption
  <2>2. types \in Seq(TypeInvokes) /\ next \in Nat \ {0}
    BY <1>1
  <2>3. phase \in Phases /\ bodies \subseteq Nat /\ slips \subseteq Kinds /\ errors \in BOOLEAN
    BY <1>1 DEF Phases
  <2>. QED BY <1>1, <2>1, <2>2, <2>3 DEF Scalars
<1>9. Listed /\ Unsoiled
  BY <1>1, <1>3, <1>6 DEF Listed, Unsoiled
<1>. QED BY <1>7, <1>8, <1>9 DEF Structure

LEMMA NextStructure ==
  ASSUME Structure, Next
  PROVE  Structure'
<1>1. CASE endOfList
  BY <1>1, EndOfListKeeps
<1>2. CASE externStatement
  BY <1>2, ExternKeeps
<1>3. CASE forwardDeclare
  BY <1>3, ForwardKeeps
<1>4. CASE endUnit
  BY <1>4, EndUnitKeeps
<1>5. CASE visitFuncDef
  BY <1>5, VisitFuncDefKeeps
<1>6. CASE endBody
  BY <1>6, EndBodyKeeps
<1>7. CASE endBlock
  BY <1>7, EndBlockKeeps
<1>8. CASE select
  BY <1>8, SelectKeeps
<1>9. CASE selectAlternative
  BY <1>9, SelectAlternativeKeeps
<1>10. CASE endSelect
  BY <1>10, EndSelectKeeps
<1>11. CASE endMatch
  BY <1>11, EndMatchKeeps
<1>12. ASSUME NEW ok \in BOOLEAN,
              \/ defineType(ok) \/ match(ok) \/ endAlternative(ok) \/ returnStatement(ok)
       PROVE  Structure'
  BY <1>12, DefineTypeKeeps, MatchKeeps, EndAlternativeKeeps, ReturnKeeps
<1>13. ASSUME NEW ok \in BOOLEAN, NEW hasElse \in BOOLEAN, visitBlock(hasElse, ok)
       PROVE  Structure'
  BY <1>13, VisitBlockKeeps
<1>14. ASSUME NEW ok \in BOOLEAN, NEW x \in Names, assignStatement(x, ok) \/ invocation(x, ok)
       PROVE  Structure'
  BY <1>14, AssignKeeps, InvocationKeeps
<1>15. ASSUME NEW ok \in BOOLEAN, NEW names \in Declarators, NEW d \in Declarations,
              varDecl(names, d, ok)
       PROVE  Structure'
  BY <1>15, VarDeclKeeps
<1>16. ASSUME NEW h \in Headings, visitLambda(h) PROVE Structure'
  BY <1>16, VisitLambdaKeeps
<1>17. ASSUME NEW c \in Denoted, NEW y \in Names, matchAlternative(c, y) PROVE Structure'
  BY <1>17, MatchAlternativeKeeps
<1>. QED BY <1>1, <1>2, <1>3, <1>4, <1>5, <1>6, <1>7, <1>8, <1>9, <1>10, <1>11, <1>12,
            <1>13, <1>14, <1>15, <1>16, <1>17 DEF Next

LEMMA StutterStructure ==
  ASSUME Structure, UNCHANGED vars
  PROVE  Structure'
<1>1. UNCHANGED <<unit, phase, next, table, opened, types, stack, errors, bodies, slips>>
  BY DEF vars
<1>2. Scalars' /\ Listed' /\ Unsoiled'
  BY <1>1 DEF Structure, Scalars, Listed, Unsoiled
<1>. QED BY <1>1, <1>2 DEF Structure

LEMMA StructureHolds == Spec => []Structure
<1>1. Init => Structure
  BY InitStructure
<1>2. Structure /\ [Next]_vars => Structure'
  BY NextStructure, StutterStructure
<1>. QED BY <1>1, <1>2, PTL DEF Spec

-----------------------------------------------------------------------------
(* What follows from the structure.                                           *)

LEMMA StructureTyped ==
  ASSUME Structure
  PROVE  TypeOK
<1>1. /\ opened \in Nat /\ Len(types) \in Nat /\ stack \in Seq(Handlers)
      /\ table \in Seq(ScopesOf(opened, Len(types)))
  BY StructureFacts
<1>2. table \in Seq([id : 0..(opened - 1), fenced : BOOLEAN,
                     binds : [Ids -> Flags \union {Absent}]])
  <2> DEFINE Wide == [id : 0..(opened - 1), fenced : BOOLEAN,
                      binds : [Ids -> Flags \union {Absent}]]
  <2>1. SymbolsOf(Len(types)) \subseteq Flags
    BY <1>1, ScopesGrow
  <2>2. [Ids -> SymbolsOf(Len(types)) \union {Absent}] \subseteq [Ids -> Flags \union {Absent}]
    BY <2>1
  <2>3. ScopesOf(opened, Len(types)) \subseteq Wide
    BY <2>2 DEF ScopesOf
  <2> HIDE DEF Wide
  <2>4. table \in Seq(Wide)
    BY <1>1, <2>3, WiderSeq
  <2>. QED BY <2>4 DEF Wide
<1>3. Scalars
  BY DEF Structure
<1>. QED BY <1>1, <1>2, <1>3 DEF TypeOK, Scalars, Phases, Kinds, TypeInvokes

\* Every variable keeps its type: in particular no more scopes are ever open than
\* were entered, and every handler is one of the five kinds.
THEOREM TypeCorrect == Spec => []TypeOK
BY StructureTyped, StructureHolds, PTL

\* The open scopes are that of the unit and one for each handler that entered one,
\* in the same order, with a fence and an @RETURN for bodies and only for them: no
\* early return, no error and no declaration gets the two out of step.
THEOREM ScopesInStep == Spec => []ScopesFollowHandlers
<1>1. ASSUME Structure PROVE ScopesFollowHandlers
  <2>1. Follows(table, stack) /\ stack \in Seq(Handlers)
    BY <1>1 DEF Structure, Frames
  <2>2. Scoped = Positions(stack) /\ Len(stack) \in Nat /\ Positions(stack) \subseteq 1..Len(stack)
    BY <2>1 DEF Scoped, Positions, Blocks
  <2>3. Cardinality(Scoped) = Count(Positions(stack), Len(stack))
    <3>1. {j \in 1..Len(stack) : j \in Positions(stack)} = Positions(stack)
      BY <2>2
    <3>. QED BY <2>2, <3>1 DEF Count
  <2>4. ASSUME NEW i \in Scoped
        PROVE  ScopeOf(i) = table[1 + Count(Positions(stack), i)]
    <3>1. {j \in Scoped : j <= i} = {j \in 1..i : j \in Positions(stack)}
      BY <2>2
    <3>. QED BY <3>1 DEF ScopeOf, Count
  <2>. QED BY <2>1, <2>2, <2>3, <2>4 DEF Follows, ScopeFits, ScopesFollowHandlers
<1>. QED BY <1>1, StructureHolds, PTL

\* While the program has no error, no handler has gone on after a return, and every
\* FUNC and lambda that was visited ends in one.
THEOREM BodiesAreFinished == Spec => []BodiesEnd
<1>1. ASSUME Structure PROVE BodiesEnd
  <2>1. ~ errors => Clean(stack) /\ "unfinished" \notin slips
    BY <1>1 DEF Structure, Unsoiled
  <2>2. Scoped = Positions(stack)
    BY DEF Scoped, Positions, Blocks
  <2>. QED BY <2>1, <2>2 DEF BodiesEnd, Clean, NoneDead
<1>. QED BY <1>1, StructureHolds, PTL

\* A match that is accepted has an alternative for each case of the sum, unless a
\* type that is made anew was named twice: counting the cases that are new is enough.
THEOREM MatchesCover == Spec => []MatchCovers
<1>1. Structure => MatchCovers
  BY DEF Structure, Unsoiled, MatchCovers, Accepted
<1>. QED BY <1>1, StructureHolds, PTL

-----------------------------------------------------------------------------
(* Whose type it is that a body is visited with.                              *)

\* From within a body, @RETURN is that of the innermost function.
LEMMA LookupReturn ==
  ASSUME Structure, stack # <<>>
  PROVE  /\ Innermost \in DOMAIN stack /\ stack[Innermost].kind = "fn"
         /\ Lookup(table, Return) = Variable(stack[Innermost].type, FALSE)
<1> DEFINE P == Positions(stack)
           I == Innermost
           K == 1 + Count(P, I)
<1>1. /\ stack \in Seq(Handlers) /\ Len(stack) \in Nat /\ Len(types) \in Nat
      /\ opened \in Nat /\ Follows(table, stack) /\ Nests(stack)
      /\ DOMAIN stack = 1..Len(stack) /\ table \in Seq(Scopes)
  BY StructureFacts DEF Structure, Frames
<1>2. I \in Bodies /\ \A j \in Bodies : j <= I
  <2>1. Bodies \in SUBSET (1..Len(stack))
    BY <1>1 DEF Bodies
  <2>2. 1 \in Bodies
    BY <1>1 DEF Bodies, Nests
  <2>3. \E m \in Bodies : \A k \in Bodies : k <= m
    <3>1. Bodies # {}
      BY <2>2
    <3> HIDE DEF I, P, K
    <3>. QED BY <1>1, <2>1, <3>1, GreatestExists
  <2>. QED BY <2>3 DEF Innermost
<1>3. I \in 1..Len(stack) /\ stack[I].kind = "fn" /\ I \in P
  BY <1>1, <1>2 DEF Bodies, Positions, Blocks
<1>4. K \in 2..Len(table) /\ Len(table) \in Nat
  <2>1. Len(table) = 1 + Count(P, Len(stack))
    BY <1>1 DEF Follows
  <2>2. /\ Count(P, I) \in 1..Count(P, Len(stack))
        /\ Count(P, Len(stack)) \in Nat
    BY <1>1, <1>3, CountInTable
  <2> HIDE DEF P, I
  <2>. QED BY <2>1, <2>2
<1>5. table[K].fenced = TRUE /\ table[K].binds[Return] = Variable(stack[I].type, FALSE)
  BY <1>1, <1>3 DEF Follows, ScopeFits
<1>6. Variable(stack[I].type, FALSE) # Absent
  <2>1. stack[I].type \in 1..Len(types)
    BY <1>1, <1>3 DEF Structure, Frames
  <2>2. Variable(stack[I].type, FALSE) \in Flags
    BY <1>1, <2>1 DEF Variable, Flags
  <2>. QED BY <2>2, AbsentAssumption
<1>7. ASSUME NEW j \in (K + 1)..Len(table)
      PROVE  table[j].binds[Return] = Absent /\ table[j].fenced = FALSE
  <2>1. j \in 2..Len(table) /\ j > K
    BY <1>4
  <2>2. PICK i \in P : j = 1 + Count(P, i)
    BY <1>1, <2>1 DEF Follows
  <2>3. i \in 1..Len(stack)
    BY <1>1 DEF Positions
  <2>4. i > I
    <3>1. CASE i = I
      BY <2>1, <2>2, <3>1
    <3>2. CASE i < I
      <4>1. i \in Nat /\ I \in Nat
        BY <1>3, <2>3
      <4>2. Count(P, i) < Count(P, I) /\ Count(P, i) \in Nat /\ Count(P, I) \in Nat
        <5> HIDE DEF P, I
        <5>. QED BY <1>3, <3>2, <4>1, CountGrows
      <4>. QED BY <2>1, <2>2, <4>2
    <3>. QED BY <1>3, <2>3, <3>1, <3>2
  <2>5. stack[i].kind # "fn"
    <3>1. stack[i].kind = "fn" => i \in Bodies
      BY <1>1, <2>3 DEF Bodies
    <3>2. ~ (i <= I)
      BY <1>3, <2>3, <2>4
    <3>. QED BY <1>2, <3>1, <3>2
  <2>6. ScopeFits(table[j], stack[i])
    BY <1>1, <2>2 DEF Follows
  <2>7. table[j] \in Scopes
    BY <1>1, <2>1
  <2>. QED BY <2>5, <2>6, <2>7 DEF ScopeFits, Scopes
<1> HIDE DEF K, I, P
<1>8. Table(table)!Resolves(K, Return)
  <2>1. K \in 1..Len(table)
    BY <1>4
  <2>. QED BY <1>5, <1>6, <1>7, <2>1
       DEF Table!Resolves, Table!Innermost, Table!Declares, Table!Usable, Table!SameBody
<1>9. ASSUME NEW k \in DOMAIN table, Table(table)!Resolves(k, Return) PROVE k = K
  <2>1. /\ k \in 1..Len(table) /\ table[k].binds[Return] # Absent
        /\ \A j \in (k + 1)..Len(table) : ~ (table[j].binds[Return] # Absent)
    BY <1>9 DEF Table!Resolves, Table!Innermost, Table!Declares
  <2>2. ~ (k > K)
    <3>1. k > K => k \in (K + 1)..Len(table)
      BY <1>4, <2>1
    <3>. QED BY <1>7, <2>1, <3>1
  <2>3. ~ (k < K)
    <3>1. k < K => K \in (k + 1)..Len(table)
      BY <1>4, <2>1
    <3>. QED BY <1>5, <1>6, <2>1, <3>1
  <2>. QED BY <1>4, <2>1, <2>2, <2>3
<1>10. K \in DOMAIN table
  BY <1>1, <1>4
<1>11. Lookup(table, Return) = table[K].binds[Return]
  BY <1>8, <1>9, <1>10 DEF Lookup
<1>. QED BY <1>1, <1>3, <1>5, <1>11 DEF I

\* The functions of the unit, and those of them that were declared so far.
Functions == {i \in DOMAIN unit.stmts : unit.stmts[i].kind = "func"}
Ahead     == {i \in Functions : \/ phase = "forward" /\ i < next
                                \/ phase \in {"stmts", "done"}}

\* t is the type that was made for function i, and its name still says so.
Made(ty, tb, u, i, t) ==
  /\ t \in DOMAIN ty
  /\ ty[t].item = i /\ ty[t].returns = u.stmts[i].heading.returns
  /\ tb[1].binds[u.stmts[i].heading.name] = Definition(t, TRUE)
OwnType(i, t) == Made(types, table, unit, i, t)

\* A type without a definition is that of a function declared ahead, and each of them
\* has one.
DeclaredAhead ==
  /\ \A i \in Ahead : \E t \in DOMAIN types : OwnType(i, t)
  /\ \A t \in DOMAIN types :
        ~ types[t].defined => types[t].item \in Ahead /\ OwnType(types[t].item, t)

\* The functions before this one have a body and their types are defined; so is that
\* of the function whose body is visited, and only functions in it are nested.
VisitedDefined ==
  /\ \A i \in Functions : i < next =>
        i \in bodies /\ \E t \in DOMAIN types : OwnType(i, t) /\ types[t].defined
  /\ stack # <<>> => /\ next \in Functions /\ stack[1].item = next
                     /\ OwnType(next, stack[1].type) /\ types[stack[1].type].defined
  /\ \A i \in DOMAIN stack : stack[i].kind = "fn" /\ i > 1 => stack[i].item = 0

\* A function that is still to be visited has a type that is defined already, which
\* is an error when its turn comes.
Owns(h) == types[h.type].item = h.item /\ types[h.type].returns = h.returns
TakenAhead ==
  \E i \in Functions :
     /\ i > next \/ (i = next /\ stack = <<>>)
     /\ \E t \in DOMAIN types : OwnType(i, t) /\ types[t].defined
AllOwn == \A i \in DOMAIN stack : stack[i].kind = "fn" => Owns(stack[i])

\* Either a type was taken ahead, or each body is visited with its own type and
\* nothing was let pass.
ForeignIsFound == TakenAhead \/ (AllOwn /\ slips \intersect {"foreign", "return"} = {})

Definitions ==
  /\ ~ errors /\ phase # "aborted" => DeclaredAhead
  /\ ~ errors /\ phase \in {"stmts", "done"} => VisitedDefined /\ ForeignIsFound

\* Nothing is taken back of what the unit declares: types stay what they are, or are
\* defined; symbols are only added.
Grows == /\ unit' = unit
         /\ types \in Seq(TypeInvokes) /\ types' \in Seq(TypeInvokes)
         /\ Len(types) <= Len(types')
         /\ \A t \in 1..Len(types) : /\ types'[t].item = types[t].item
                                     /\ types'[t].returns = types[t].returns
                                     /\ types[t].defined => types'[t].defined
         /\ \A x \in Ids : table[1].binds[x] # Absent =>
                              table'[1].binds[x] = table[1].binds[x]

LEMMA FunctionFacts ==
  ASSUME Structure, NEW i \in Functions
  PROVE  /\ i \in 1..Len(unit.stmts) /\ i \in Nat /\ Len(unit.stmts) \in Nat
         /\ unit.stmts[i].heading \in AnyHeading
         /\ unit.stmts[i].heading.name \in Ids \ {Return}
<1>1. unit \in Units
  BY DEF Structure, Scalars
<1>2. i \in DOMAIN unit.stmts /\ unit.stmts[i].kind = "func"
  BY DEF Functions
<1>3. unit.stmts[i].heading \in AnyHeading
  BY <1>1, <1>2, UnitFacts
<1>4. i \in 1..Len(unit.stmts) /\ Len(unit.stmts) \in Nat
  BY <1>1, <1>2, UnitFacts
<1>5. unit.stmts[i].heading.name \in Ids \ {Return}
  BY <1>3, ReturnIsNoName DEF AnyHeading
<1>. QED BY <1>3, <1>4, <1>5

LEMMA DefinitionIsSymbol ==
  ASSUME NEW t \in Nat, NEW g \in BOOLEAN
  PROVE  Definition(t, g) # Absent /\ Definition(t, g).type = t
<1>1. Definition(t, g) \in Flags /\ Definition(t, g).type = t
  BY DEF Definition, Flags
<1>. QED BY <1>1, AbsentAssumption

LEMMA OwnTypeKept ==
  ASSUME Structure, Grows, NEW i \in Functions, NEW t, OwnType(i, t)
  PROVE  /\ Made(types', table', unit', i, t) /\ t \in DOMAIN types /\ t \in DOMAIN types'
         /\ types[t].defined => types'[t].defined
<1>1. t \in 1..Len(types) /\ Len(types) \in Nat /\ t \in 1..Len(types') /\ t \in Nat
  BY DEF OwnType, Made, Grows
<1>2. t \in DOMAIN types /\ t \in DOMAIN types'
  BY <1>1 DEF Grows
<1>3. unit.stmts[i].heading.name \in Ids
  BY FunctionFacts
<1>4. Definition(t, TRUE) # Absent
  BY <1>1, DefinitionIsSymbol
<1>5. table'[1].binds[unit.stmts[i].heading.name] = Definition(t, TRUE)
  BY <1>3, <1>4 DEF OwnType, Made, Grows
<1>. QED BY <1>1, <1>2, <1>5 DEF OwnType, Made, Grows

\* The name of a function has one type.
LEMMA OwnTypeUnique ==
  ASSUME Structure, NEW i \in Functions, NEW t, NEW u, OwnType(i, t), OwnType(i, u)
  PROVE  t = u
<1>1. t \in Nat /\ u \in Nat
  BY DEF OwnType, Made, Structure, Scalars
<1>2. Definition(t, TRUE) = Definition(u, TRUE)
  BY DEF OwnType, Made
<1>3. Definition(t, TRUE).type = t /\ Definition(u, TRUE).type = u
  BY <1>1, DefinitionIsSymbol
<1>. QED BY <1>2, <1>3

\* The same types and at least the same symbols.
LEMMA GrowsExtended ==
  ASSUME Structure, UNCHANGED <<unit, types>>, Extends(table', table)
  PROVE  Grows
<1>1. types \in Seq(TypeInvokes) /\ Len(types) \in Nat
  BY StructureFacts DEF Structure, Scalars
<1>2. table # <<>> /\ table \in Seq(Scopes)
  BY StructureFacts
<1>3. 1 \in 1..Len(table)
  BY <1>2
<1>. QED BY <1>1, <1>3 DEF Grows, Extends

\* A scope is entered or left.
LEMMA GrowsScoped ==
  ASSUME Structure, UNCHANGED <<unit, types>>,
         \/ table' = table
         \/ table' = ExitScope(table) /\ Len(table) >= 2
         \/ \E s \in ScopesOf(opened + 1, Len(types)) :
              \/ table' = Append(table, s)
              \/ table' = Append(ExitScope(table), s) /\ Len(table) >= 2
  PROVE  Grows
<1>1. types \in Seq(TypeInvokes) /\ Len(types) \in Nat
  BY StructureFacts DEF Structure, Scalars
<1>2. /\ table # <<>> /\ table \in Seq(ScopesOf(opened + 1, Len(types))) /\ Len(table) \in Nat
  <2>1. opened \in Nat /\ opened + 1 \in Nat /\ table # <<>> /\ table \in Seq(Scopes)
    BY StructureFacts
  <2>2. Frames(table, opened + 1, Len(types), stack)
    BY <1>1, <2>1, FramesWider DEF Structure
  <2>. QED BY <2>1, <2>2 DEF Frames
<1>3. Len(table) >= 2 => /\ ExitScope(table) \in Seq(ScopesOf(opened + 1, Len(types)))
                         /\ Len(ExitScope(table)) \in Nat \ {0}
                         /\ ExitScope(table)[1] = table[1]
  <2>1. /\ SubSeq(table, 1, Len(table) - 1) \in Seq(ScopesOf(opened + 1, Len(types)))
        /\ Len(SubSeq(table, 1, Len(table) - 1)) = Len(table) - 1
        /\ \A i \in 1..(Len(table) - 1) : SubSeq(table, 1, Len(table) - 1)[i] = table[i]
    BY <1>2, FrontFacts
  <2>. QED BY <1>2, <2>1 DEF ExitScope
<1>4. table'[1] = table[1]
  <2>1. ASSUME NEW s \in ScopesOf(opened + 1, Len(types)), NEW tb \in Seq(ScopesOf(opened + 1, Len(types))),
               Len(tb) \in Nat \ {0}
        PROVE  Append(tb, s)[1] = tb[1]
    <3>1. 1 \in 1..Len(tb)
      BY <2>1
    <3>. QED BY <3>1, AppendFacts
  <2>2. Len(table) \in Nat \ {0}
    BY <1>2
  <2>. QED BY <1>2, <1>3, <2>1, <2>2
<1>. QED BY <1>1, <1>4 DEF Grows

\* A step from statement to statement that begins no body: what each of them does.
\* The function bodies in progress were so before.
Quiet ==
  /\ phase = "stmts" /\ phase' = "stmts" /\ Grows
  /\ types' = types /\ bodies \subseteq bodies'
  /\ \A i \in DOMAIN stack' : stack'[i].kind = "fn" =>
        i \in DOMAIN stack /\ Alike(stack'[i], stack[i])
  /\ stack' # <<>> => stack # <<>> /\ next' = next
  /\ stack' = <<>> => next' = next + 1 /\ IF stack = <<>> THEN next \notin Functions
                                                          ELSE next \in bodies'
  /\ AllOwn => slips' \intersect {"foreign", "return"} \subseteq slips

LEMMA QuietDeclared ==
  ASSUME Structure, Structure', Quiet, DeclaredAhead
  PROVE  DeclaredAhead'
<1>1. Ahead = Functions /\ Ahead' = Functions
  BY DEF Ahead, Functions, Quiet, Grows
<1>2. Grows /\ types' = types
  BY DEF Quiet
<1>3. ASSUME NEW i \in Functions
      PROVE  \E t \in DOMAIN types' : Made(types', table', unit', i, t)
  <2>1. PICK t \in DOMAIN types : OwnType(i, t)
    BY <1>1 DEF DeclaredAhead
  <2>. QED BY <1>2, <2>1, OwnTypeKept
<1>4. ASSUME NEW t \in DOMAIN types', ~ types'[t].defined
      PROVE  /\ types'[t].item \in Functions
             /\ Made(types', table', unit', types'[t].item, t)
  <2>1. types[t].item \in Functions /\ OwnType(types[t].item, t)
    BY <1>1, <1>2, <1>4 DEF DeclaredAhead
  <2>. QED BY <1>2, <2>1, OwnTypeKept
<1>. QED BY <1>1, <1>3, <1>4 DEF DeclaredAhead, OwnType

LEMMA QuietVisited ==
  ASSUME Structure, Structure', Quiet, VisitedDefined
  PROVE  VisitedDefined'
<1>1. Functions' = Functions /\ Grows /\ types' = types
  BY DEF Functions, Quiet, Grows
<1>2. next \in Nat /\ (stack # <<>> => next \in Functions)
  BY DEF Structure, Scalars, VisitedDefined
<1>3. ASSUME NEW i \in Functions, i < next'
      PROVE  /\ i \in bodies'
             /\ \E t \in DOMAIN types' : Made(types', table', unit', i, t) /\ types'[t].defined
  <2>1. i \in Nat
    BY FunctionFacts
  <2>2. CASE i < next
    <3>1. i \in bodies'
      BY <2>2 DEF VisitedDefined, Quiet
    <3>2. PICK t \in DOMAIN types : OwnType(i, t) /\ types[t].defined
      BY <2>2 DEF VisitedDefined
    <3>. QED BY <1>1, <3>1, <3>2, OwnTypeKept
  <2>3. CASE ~ (i < next)
    <3>1. stack' = <<>> /\ i = next
      BY <1>2, <1>3, <2>1, <2>3 DEF Quiet
    <3>2. stack # <<>> /\ next \in bodies'
      BY <3>1 DEF Quiet
    <3>3. OwnType(i, stack[1].type) /\ types[stack[1].type].defined
      BY <3>1, <3>2 DEF VisitedDefined
    <3>. QED BY <1>1, <3>1, <3>2, <3>3, OwnTypeKept
  <2>. QED BY <2>2, <2>3
<1>4. ASSUME stack' # <<>>
      PROVE  /\ next' \in Functions /\ stack'[1].item = next'
             /\ Made(types', table', unit', next', stack'[1].type)
             /\ types'[stack'[1].type].defined
  <2>1. stack'[1].kind = "fn" /\ 1 \in DOMAIN stack'
    BY <1>4 DEF Structure, Frames, Nests
  <2>2. /\ stack # <<>> /\ next' = next /\ stack'[1].item = stack[1].item
        /\ stack'[1].type = stack[1].type
    BY <1>4, <2>1 DEF Quiet, Alike
  <2>3. /\ next \in Functions /\ stack[1].item = next
        /\ OwnType(next, stack[1].type) /\ types[stack[1].type].defined
    BY <2>2 DEF VisitedDefined
  <2>4. Made(types', table', unit', next, stack[1].type)
    BY <1>1, <2>3, OwnTypeKept
  <2>. QED BY <1>1, <2>2, <2>3, <2>4
<1>5. ASSUME NEW i \in DOMAIN stack', stack'[i].kind = "fn", i > 1
      PROVE  stack'[i].item = 0
  BY <1>5 DEF Quiet, VisitedDefined, Alike
<1>. QED BY <1>1, <1>3, <1>4, <1>5 DEF VisitedDefined, OwnType

\* A type that was taken ahead stays taken.
LEMMA QuietTaken ==
  ASSUME Structure, Quiet, TakenAhead
  PROVE  TakenAhead'
<1>1. Functions' = Functions /\ Grows /\ types' = types
  BY DEF Functions, Quiet, Grows
<1>2. next \in Nat
  BY DEF Structure, Scalars
<1>3. PICK i \in Functions :
         /\ i > next \/ (i = next /\ stack = <<>>)
         /\ \E t \in DOMAIN types : OwnType(i, t) /\ types[t].defined
  BY DEF TakenAhead
<1>4. i \in Nat
  BY FunctionFacts
<1>5. \E t \in DOMAIN types' : Made(types', table', unit', i, t) /\ types'[t].defined
  BY <1>1, <1>3, OwnTypeKept
<1>6. i > next' \/ (i = next' /\ stack' = <<>>)
  <2>1. CASE stack' # <<>>
    BY <1>3, <2>1 DEF Quiet
  <2>2. CASE stack' = <<>>
    <3>1. next' = next + 1 /\ (stack = <<>> => next \notin Functions)
      BY <2>2 DEF Quiet
    <3>2. i > next
      BY <1>3, <3>1
    <3>. QED BY <1>2, <1>4, <2>2, <3>1, <3>2
  <2>. QED BY <2>1, <2>2
<1>. QED BY <1>1, <1>5, <1>6 DEF TakenAhead, OwnType

LEMMA QuietFound ==
  ASSUME Structure, Structure', Quiet, ForeignIsFound
  PROVE  ForeignIsFound'
<1>1. Functions' = Functions /\ Grows /\ types' = types
  BY DEF Functions, Quiet, Grows
<1>2. next \in Nat
  BY DEF Structure, Scalars
<1>3. CASE TakenAhead
  BY <1>3, QuietTaken DEF ForeignIsFound
<1>4. CASE AllOwn /\ slips \intersect {"foreign", "return"} = {}
  <2>1. slips' \intersect {"foreign", "return"} = {}
    BY <1>4 DEF Quiet
  <2>2. ASSUME NEW i \in DOMAIN stack', stack'[i].kind = "fn"
        PROVE  /\ types'[stack'[i].type].item = stack'[i].item
               /\ types'[stack'[i].type].returns = stack'[i].returns
    <3>1. i \in DOMAIN stack /\ Alike(stack'[i], stack[i])
      BY <2>2 DEF Quiet
    <3>2. Owns(stack[i])
      BY <1>4, <2>2, <3>1 DEF AllOwn, Alike
    <3>. QED BY <1>1, <2>2, <3>1, <3>2 DEF Owns, Alike
  <2>. QED BY <2>1, <2>2 DEF ForeignIsFound, AllOwn, Owns
<1>. QED BY <1>3, <1>4 DEF ForeignIsFound

LEMMA QuietKeeps ==
  ASSUME Structure, Structure', Definitions, ~ errors, Quiet
  PROVE  Definitions'
<1>1. phase = "stmts" /\ phase' = "stmts"
  BY DEF Quiet
<1>2. DeclaredAhead /\ VisitedDefined /\ ForeignIsFound
  BY <1>1 DEF Definitions
<1>3. DeclaredAhead' /\ VisitedDefined' /\ ForeignIsFound'
  BY <1>2, QuietDeclared, QuietVisited, QuietFound
<1>. QED BY <1>3 DEF Definitions

\* A step that begins a body of function type t.  Other functions are not declared
\* by it; at the top level the type is that of the function; in a body it is, or it
\* was taken ahead.
Opens(f, t) ==
  /\ phase = "stmts" /\ phase' = "stmts" /\ Grows
  /\ UNCHANGED <<next, bodies, slips>>
  /\ stack' = Append(stack, f) /\ f \in Handlers /\ f.kind = "fn" /\ f.type = t
  /\ \A u \in DOMAIN types' : ~ types'[u].defined => u \in DOMAIN types /\ ~ types[u].defined
  /\ t \in DOMAIN types' /\ types'[t].defined
  /\ IF stack = <<>> THEN /\ next \in Functions /\ f.item = next
                          /\ Made(types', table', unit', next, t)
                          /\ \A u \in DOMAIN types : OwnType(next, u) => ~ types[u].defined
                     ELSE f.item = 0
  /\ \/ types'[t].item = f.item /\ types'[t].returns = f.returns
     \/ \E i \in Functions : i > next /\ Made(types', table', unit', i, t)

LEMMA OpensTaken ==
  ASSUME Structure, NEW f, NEW t, Opens(f, t), TakenAhead
  PROVE  TakenAhead'
<1>1. Functions' = Functions /\ Grows /\ next' = next
  BY DEF Functions, Opens, Grows
<1>2. PICK i \in Functions :
         /\ i > next \/ (i = next /\ stack = <<>>)
         /\ \E u \in DOMAIN types : OwnType(i, u) /\ types[u].defined
  BY DEF TakenAhead
<1>3. i > next
  BY <1>2 DEF Opens
<1>4. \E u \in DOMAIN types' : Made(types', table', unit', i, u) /\ types'[u].defined
  BY <1>1, <1>2, OwnTypeKept
<1>. QED BY <1>1, <1>3, <1>4 DEF TakenAhead, OwnType

LEMMA OpensKeeps ==
  ASSUME Structure, Structure', Definitions, ~ errors, NEW f, NEW t, Opens(f, t)
  PROVE  Definitions'
<1>1. /\ phase = "stmts" /\ phase' = "stmts" /\ Grows /\ Functions' = Functions
      /\ UNCHANGED <<next, bodies, slips>>
  BY DEF Opens, Functions, Grows
<1>2. DeclaredAhead /\ VisitedDefined /\ ForeignIsFound
  BY <1>1 DEF Definitions
<1>3. stack \in Seq(Handlers) /\ stack' \in Seq(Handlers) /\ Len(stack) \in Nat
  BY StructureFacts DEF Structure, Frames
<1>4. /\ Len(stack') = Len(stack) + 1 /\ stack' # <<>>
      /\ \A i \in 1..Len(stack) : stack'[i] = stack[i]
      /\ stack'[Len(stack) + 1] = f
  BY <1>3, AppendFacts DEF Opens
<1>5. DeclaredAhead'
  <2>1. Ahead = Functions /\ Ahead' = Functions
    BY <1>1 DEF Ahead
  <2>2. ASSUME NEW i \in Functions
        PROVE  \E u \in DOMAIN types' : Made(types', table', unit', i, u)
    <3>1. PICK u \in DOMAIN types : OwnType(i, u)
      BY <1>2, <2>1 DEF DeclaredAhead
    <3>. QED BY <1>1, <3>1, OwnTypeKept
  <2>3. ASSUME NEW u \in DOMAIN types', ~ types'[u].defined
        PROVE  /\ types'[u].item \in Functions
               /\ Made(types', table', unit', types'[u].item, u)
    <3>1. u \in DOMAIN types /\ ~ types[u].defined
      BY <2>3 DEF Opens
    <3>2. types[u].item \in Functions /\ OwnType(types[u].item, u)
      BY <1>2, <2>1, <3>1 DEF DeclaredAhead
    <3>3. Made(types', table', unit', types[u].item, u)
      BY <1>1, <3>2, OwnTypeKept
    <3>4. types'[u].item = types[u].item
      BY <3>3 DEF Made
    <3>. QED BY <3>2, <3>3, <3>4
  <2>. QED BY <2>1, <2>2, <2>3 DEF DeclaredAhead, OwnType
<1>6. VisitedDefined'
  <2>1. ASSUME NEW i \in Functions, i < next'
        PROVE  /\ i \in bodies'
               /\ \E u \in DOMAIN types' : Made(types', table', unit', i, u) /\ types'[u].defined
    <3>1. i \in bodies'
      BY <1>1, <1>2, <2>1 DEF VisitedDefined
    <3>2. PICK u \in DOMAIN types : OwnType(i, u) /\ types[u].defined
      BY <1>1, <1>2, <2>1 DEF VisitedDefined
    <3>. QED BY <1>1, <3>1, <3>2, OwnTypeKept
  <2>2. /\ next' \in Functions /\ stack'[1].item = next'
        /\ Made(types', table', unit', next', stack'[1].type)
        /\ types'[stack'[1].type].defined
    <3>1. CASE stack = <<>>
      <4>1. stack'[1] = f
        BY <1>4, <3>1
      <4>. QED BY <1>1, <3>1, <4>1 DEF Opens
    <3>2. CASE stack # <<>>
      <4>1. stack'[1] = stack[1]
        BY <1>3, <1>4, <3>2
      <4>2. /\ next \in Functions /\ stack[1].item = next
            /\ OwnType(next, stack[1].type) /\ types[stack[1].type].defined
        BY <1>2, <3>2 DEF VisitedDefined
      <4>. QED BY <1>1, <4>1, <4>2, OwnTypeKept
    <3>. QED BY <3>1, <3>2
  <2>3. ASSUME NEW i \in DOMAIN stack', stack'[i].kind = "fn", i > 1
        PROVE  stack'[i].item = 0
    <3>1. i \in 1..Len(stack) \/ i = Len(stack) + 1
      BY <1>3, <1>4
    <3>2. CASE i \in 1..Len(stack)
      <4>1. i \in DOMAIN stack /\ stack'[i] = stack[i]
        BY <1>3, <1>4, <3>2
      <4>. QED BY <1>2, <2>3, <4>1 DEF VisitedDefined
    <3>3. CASE i = Len(stack) + 1
      <4>1. stack # <<>> /\ stack'[i] = f
        BY <1>3, <1>4, <2>3, <3>3
      <4>. QED BY <4>1 DEF Opens
    <3>. QED BY <3>1, <3>2, <3>3
  <2>. QED BY <1>1, <2>1, <2>2, <2>3 DEF VisitedDefined, OwnType
<1>7. ForeignIsFound'
  <2>1. CASE TakenAhead
    BY <2>1, OpensTaken DEF ForeignIsFound
  <2>2. CASE \E i \in Functions : i > next /\ Made(types', table', unit', i, t)
    <3>1. TakenAhead'
      BY <1>1, <2>2 DEF TakenAhead, OwnType, Opens
    <3>. QED BY <3>1 DEF ForeignIsFound
  <2>3. CASE /\ AllOwn /\ slips \intersect {"foreign", "return"} = {}
             /\ types'[t].item = f.item /\ types'[t].returns = f.returns
    <3>1. ASSUME NEW i \in DOMAIN stack', stack'[i].kind = "fn"
          PROVE  /\ types'[stack'[i].type].item = stack'[i].item
                 /\ types'[stack'[i].type].returns = stack'[i].returns
      <4>1. i \in 1..Len(stack) \/ i = Len(stack) + 1
        BY <1>3, <1>4
      <4>2. CASE i \in 1..Len(stack)
        <5>1. i \in DOMAIN stack /\ stack'[i] = stack[i]
          BY <1>3, <1>4, <4>2
        <5>2. Owns(stack[i]) /\ stack[i].type \in 1..Len(types)
          BY <2>3, <3>1, <5>1 DEF AllOwn, Structure, Frames
        <5>. QED BY <1>1, <5>1, <5>2 DEF Owns, Grows
      <4>3. CASE i = Len(stack) + 1
        BY <1>4, <2>3, <4>3 DEF Opens
      <4>. QED BY <4>1, <4>2, <4>3
    <3>2. slips' \intersect {"foreign", "return"} = {}
      BY <1>1, <2>3
    <3>. QED BY <3>1, <3>2 DEF ForeignIsFound, AllOwn, Owns
  <2>. QED BY <1>2, <2>1, <2>2, <2>3 DEF ForeignIsFound, Opens
<1>. QED BY <1>5, <1>6, <1>7 DEF Definitions

LEMMA PlainStatementQuiet ==
  ASSUME Structure, phase = "stmts",
         AtStatement \/ (stack = <<>> /\ next \notin Functions),
         Extends(table', table),
         NEW form \in Forms \ {"dead"}, NEW bad \in BOOLEAN, Finishes(form, stack, bad),
         UNCHANGED <<unit, phase, types, bodies>>,
         AllOwn => slips' \intersect {"foreign", "return"} \subseteq slips
  PROVE  Quiet
<1>1. stack # <<>> => stack[Len(stack)].kind \in Blocks
  BY DEF AtStatement, Top, Blocks
<1>2. stack \in Seq(Handlers) /\ errors \in BOOLEAN
  BY StructureFacts
<1>3. /\ stack' \in Seq(Handlers) /\ Len(stack') = Len(stack)
      /\ \A i \in 1..Len(stack) : Alike(stack'[i], stack[i])
      /\ next' = IF stack = <<>> THEN next + 1 ELSE next
  BY <1>1, <1>2, FinishesFacts
<1>4. Grows
  BY GrowsExtended
<1>5. /\ stack' = <<>> <=> stack = <<>>
      /\ \A i \in DOMAIN stack' : i \in DOMAIN stack /\ Alike(stack'[i], stack[i])
  <2>1. DOMAIN stack' = 1..Len(stack) /\ DOMAIN stack = 1..Len(stack)
    BY <1>2, <1>3
  <2>2. stack' = <<>> <=> stack = <<>>
    BY <1>2, <1>3
  <2>. QED BY <1>3, <2>1, <2>2
<1>6. stack = <<>> => next \notin Functions
  BY DEF AtStatement
<1>. QED BY <1>3, <1>4, <1>5, <1>6 DEF Quiet

LEMMA BelowFacts ==
  ASSUME Structure, stack # <<>>
  PROVE  /\ Below \in Seq(Handlers) /\ Len(Below) = Len(stack) - 1 /\ Len(stack) \in Nat \ {0}
         /\ DOMAIN Below \subseteq DOMAIN stack
         /\ \A i \in DOMAIN Below : Below[i] = stack[i]
         /\ Below = <<>> => Len(stack) = 1 /\ Top.kind = "fn"
         /\ Below # <<>> => IF Top.kind = "case" THEN Below[Len(Below)].kind \in {"select", "match"}
                                                 ELSE Below[Len(Below)].kind \in Blocks
<1>1. stack \in Seq(Handlers) /\ Nests(stack)
  BY DEF Structure, Frames
<1>2. /\ Below \in Seq(Handlers) /\ Len(stack) \in Nat \ {0}
      /\ Len(Below) = Len(stack) - 1
      /\ \A i \in 1..(Len(stack) - 1) : Below[i] = stack[i]
  BY <1>1, FrontFacts DEF Below
<1>3. DOMAIN Below = 1..(Len(stack) - 1) /\ DOMAIN stack = 1..Len(stack)
  BY <1>1, <1>2
<1>4. /\ Below = <<>> => Top.kind = "fn"
      /\ Below # <<>> => IF Top.kind = "case" THEN Below[Len(Below)].kind \in {"select", "match"}
                                              ELSE Below[Len(Below)].kind \in Blocks
  BY <1>1, NestsPop DEF Below, Top
<1>5. Below = <<>> => Len(stack) = 1
  BY <1>2
<1>6. DOMAIN Below \subseteq DOMAIN stack
  BY <1>2, <1>3
<1>. QED BY <1>2, <1>3, <1>4, <1>5, <1>6

LEMMA BelowQuiet ==
  ASSUME Structure, NEW kind, In(kind), kind # "case",
         \/ kind \in Blocks /\ table' = ExitScope(table)
         \/ kind \in {"select", "match"} /\ table' = table,
         NEW form \in Forms \ {"dead"}, NEW bad \in BOOLEAN, Finishes(form, Below, bad),
         UNCHANGED <<unit, phase, types>>, bodies \subseteq bodies',
         Below = <<>> => next \in bodies',
         AllOwn => slips' \intersect {"foreign", "return"} \subseteq slips
  PROVE  Quiet
<1>1. /\ stack # <<>> /\ Top.kind = kind /\ phase = "stmts" /\ errors \in BOOLEAN
      /\ opened \in Nat /\ Len(types) \in Nat
  BY StructureFacts DEF In
<1>2. /\ Below \in Seq(Handlers) /\ DOMAIN Below \subseteq DOMAIN stack
      /\ \A i \in DOMAIN Below : Below[i] = stack[i]
      /\ Below # <<>> => Below[Len(Below)].kind \in Blocks
  BY <1>1, BelowFacts
<1>3. /\ stack' \in Seq(Handlers) /\ Len(stack') = Len(Below)
      /\ \A i \in 1..Len(Below) : Alike(stack'[i], Below[i])
      /\ next' = IF Below = <<>> THEN next + 1 ELSE next
  BY <1>1, <1>2, FinishesFacts
<1>4. Grows
  <2>1. kind \in Blocks => Len(table) >= 2
    BY <1>1, FramesExit DEF Structure, Top
  <2>. QED BY <2>1, GrowsScoped
<1>5. /\ stack' = <<>> <=> Below = <<>>
      /\ \A i \in DOMAIN stack' : i \in DOMAIN stack /\ Alike(stack'[i], stack[i])
  <2>1. DOMAIN stack' = 1..Len(Below) /\ DOMAIN Below = 1..Len(Below)
    BY <1>2, <1>3
  <2>2. stack' = <<>> <=> Below = <<>>
    BY <1>2, <1>3
  <2>. QED BY <1>2, <1>3, <2>1, <2>2
<1>. QED BY <1>1, <1>3, <1>4, <1>5 DEF Quiet

\* A handler begins that is no body, in place of `Below` or on top of all.
LEMMA BeginQuiet ==
  ASSUME Structure, phase = "stmts", stack # <<>>, NEW h \in Handlers, h.kind # "fn",
         NEW below \in Seq(Handlers),
         \A i \in DOMAIN below : below[i].kind = "fn" => i \in DOMAIN stack /\ below[i] = stack[i],
         stack' = Append(below, h), Grows,
         UNCHANGED <<unit, phase, next, types, bodies, slips>>
  PROVE  Quiet
<1>1. /\ Len(stack') = Len(below) + 1 /\ stack' # <<>> /\ stack' \in Seq(Handlers)
      /\ \A i \in 1..Len(below) : stack'[i] = below[i]
      /\ stack'[Len(below) + 1] = h /\ Len(below) \in Nat
  BY AppendFacts
<1>2. ASSUME NEW i \in DOMAIN stack', stack'[i].kind = "fn"
      PROVE  i \in DOMAIN stack /\ Alike(stack'[i], stack[i])
  <2>1. i \in 1..Len(below) \/ i = Len(below) + 1
    BY <1>1
  <2>2. i \in DOMAIN below /\ stack'[i] = below[i]
    BY <1>1, <1>2, <2>1
  <2>. QED BY <1>2, <2>2 DEF Alike
<1>. QED BY <1>1, <1>2 DEF Quiet

LEMMA AssignQuiet ==
  ASSUME Structure, NEW x, NEW ok \in BOOLEAN, assignStatement(x, ok) \/ invocation(x, ok)
  PROVE  Quiet
<1> DEFINE s == Lookup(table, x)
           bad1 == ~ ok \/ Lookup(table, x) = Absent
           bad2 == s = Absent \/ s.type = 0 \/ ~ ok
<1>1. PICK bad \in BOOLEAN :
        /\ phase = "stmts" /\ AtStatement /\ Finishes("statement", stack, bad)
        /\ UNCHANGED <<unit, phase, table, opened, types, bodies, slips>>
  <2>1. bad1 \in BOOLEAN /\ bad2 \in BOOLEAN
    OBVIOUS
  <2>2. /\ Finishes("statement", stack, bad1) \/ Finishes("statement", stack, bad2)
        /\ phase = "stmts" /\ AtStatement
        /\ UNCHANGED <<unit, phase, table, opened, types, bodies, slips>>
    BY DEF assignStatement, invocation, AtStatement, past
  <2> HIDE DEF bad1, bad2
  <2>. QED BY <2>1, <2>2
<1>2. Extends(table', table)
  BY <1>1, ExtendsFacts
<1>. QED BY <1>1, <1>2, StatementForms, PlainStatementQuiet

LEMMA ReturnQuiet ==
  ASSUME Structure, NEW value \in BOOLEAN, returnStatement(value), ~ errors'
  PROVE  Quiet
<1> DEFINE s == Lookup(table, Return)
           bad == s = Absent \/ types[s.type].returns # value
           f == stack[Innermost]
<1>1. /\ phase = "stmts" /\ AtStatement /\ stack # <<>> /\ Finishes("return", stack, bad)
      /\ LetsPass("return", f.returns # value)
      /\ UNCHANGED <<unit, phase, table, opened, types, bodies>>
  BY DEF returnStatement, AtStatement
<1>2. bad \in BOOLEAN
  OBVIOUS
<1>3. AllOwn => slips' \intersect {"foreign", "return"} \subseteq slips
  <2> SUFFICES ASSUME AllOwn PROVE slips' = slips
    OBVIOUS
  <2>1. ~ bad
    BY <1>1 DEF Finishes
  <2>2. Innermost \in DOMAIN stack /\ f.kind = "fn" /\ s = Variable(f.type, FALSE)
    BY <1>1, LookupReturn
  <2>3. types[f.type].returns = f.returns
    BY <2>2 DEF AllOwn, Owns
  <2>4. s.type = f.type
    BY <2>2 DEF Variable
  <2>5. types[s.type].returns = value
    BY <2>1
  <2>6. f.returns = value
    BY <2>3, <2>4, <2>5
  <2>. QED BY <1>1, <2>6 DEF LetsPass
<1>4. Extends(table', table)
  BY <1>1, ExtendsFacts
<1> HIDE DEF bad
<1>. QED BY <1>1, <1>2, <1>3, <1>4, StatementForms, PlainStatementQuiet

LEMMA VarDeclQuiet ==
  ASSUME Structure, NEW names \in Declarators, NEW d \in Declarations, NEW ok \in BOOLEAN,
         varDecl(names, d, ok)
  PROVE  Quiet
<1> DEFINE declared == DeclareEach(names, d)
           bad == declared.bad \/ ~ ok \/ (isGlobalScope /\ d.how = "var")
<1>1. /\ phase = "stmts" /\ (AtStatement \/ (stack = <<>> /\ unit.stmts[next].kind = "var"))
      /\ Finishes("definition", stack, bad)
      /\ UNCHANGED <<unit, phase, opened, types, bodies, slips>>
  BY DEF varDecl, AtStatement, At, past
<1>2. Extends(table', table)
  BY VarDeclKeeps
<1>3. bad \in BOOLEAN
  <2>1. names \in Seq(Names)
    BY DeclaratorsAssumption
  <2>2. declared.bad \in BOOLEAN
    BY <2>1, StructureFacts, DeclareEachFacts
  <2> HIDE DEF declared
  <2>. QED BY <2>2 DEF isGlobalScope
<1>4. AtStatement \/ (stack = <<>> /\ next \notin Functions)
  BY <1>1 DEF Functions
<1> HIDE DEF bad
<1>. QED BY <1>1, <1>2, <1>3, <1>4, StatementForms, PlainStatementQuiet

LEMMA EndBodyQuiet ==
  ASSUME Structure, VisitedDefined, endBody
  PROVE  Quiet
<1> DEFINE form == IF Top.lambda THEN "statement" ELSE "definition"
<1>1. /\ In("fn") /\ phase = "stmts" /\ stack # <<>> /\ table' = ExitScope(table)
      /\ bodies' = bodies \union {Top.item}
      /\ Finishes(form, Below, Unfinished)
      /\ IF Unfinished THEN LetsPass("unfinished", TRUE)
                   ELSE LetsPass("foreign", types[Top.type].item # Top.item)
      /\ UNCHANGED <<unit, phase, opened, types>>
  BY DEF endBody, EndsBody, In
<1>2. Top \in Handlers /\ Top.kind = "fn" /\ Len(stack) \in DOMAIN stack
  BY <1>1, StructureFacts DEF In
<1>3. Unfinished \in BOOLEAN /\ form \in Forms \ {"dead"}
  BY <1>2, HandlerFacts, StatementForms DEF Unfinished
<1> HIDE DEF form
<1>4. Below = <<>> => next \in bodies'
  <2>1. Below = <<>> => Top = stack[1]
    BY <1>1, BelowFacts DEF Top
  <2>2. stack[1].item = next
    BY <1>1 DEF VisitedDefined
  <2>. QED BY <1>1, <2>1, <2>2
<1>5. AllOwn => slips' \intersect {"foreign", "return"} \subseteq slips
  <2>1. AllOwn => types[Top.type].item = Top.item
    BY <1>2 DEF AllOwn, Owns, Top
  <2>. QED BY <1>1, <2>1 DEF LetsPass
<1>6. "fn" \in Blocks /\ "fn" # "case"
  BY DEF Blocks
<1>. QED BY <1>1, <1>3, <1>4, <1>5, <1>6, BelowQuiet

LEMMA VisitBlockQuiet ==
  ASSUME Structure, NEW hasElse \in BOOLEAN, NEW ok \in BOOLEAN, visitBlock(hasElse, ok)
  PROVE  Quiet
<1> DEFINE h == [kind |-> "block", else |-> hasElse, last |-> "none"]
           s == NewScope(FALSE, table)
<1>1. /\ phase = "stmts" /\ stack # <<>>
      /\ table' = Append(table, s) /\ stack' = Append(stack, h)
      /\ UNCHANGED <<unit, phase, next, types, bodies, slips>>
  BY DEF visitBlock, Visits, AtStatement, past
<1>2. h \in Handlers /\ h.kind # "fn"
  BY DEF Handlers, Forms
<1>3. s \in ScopesOf(opened + 1, Len(types)) /\ stack \in Seq(Handlers)
  BY StructureFacts, NewScopeFacts
<1> HIDE DEF h, s
<1>4. Grows
  BY <1>1, <1>3, GrowsScoped
<1>. QED BY <1>1, <1>2, <1>3, <1>4, BeginQuiet

LEMMA EndBlockQuiet ==
  ASSUME Structure, endBlock
  PROVE  Quiet
<1>1. /\ In("block") /\ phase = "stmts" /\ stack # <<>> /\ Top.kind = "block"
      /\ UNCHANGED <<unit, phase, types, bodies, slips>>
  BY DEF endBlock, In, past
<1>2. opened \in Nat /\ Len(types) \in Nat /\ "block" \in Blocks /\ stack \in Seq(Handlers)
  BY StructureFacts DEF Blocks
<1>3. CASE Top.else
  <2> DEFINE h == [kind |-> "block", else |-> FALSE, last |-> "none"]
             tb == ExitScope(table)
             s == NewScope(FALSE, tb)
  <2>1. table' = Append(tb, s) /\ stack' = Append(Below, h) /\ next' = next
    BY <1>3 DEF endBlock
  <2>2. h \in Handlers /\ h.kind # "fn"
    BY DEF Handlers, Forms
  <2>3. Frames(tb, opened, Len(types), Below) /\ Len(table) >= 2
    BY <1>1, <1>2, FramesExit DEF Structure, Below, Top
  <2>4. tb # <<>>
    BY <1>2, <2>3, FramesTyped
  <2>5. s \in ScopesOf(opened + 1, Len(types))
    <3> HIDE DEF tb
    <3>. QED BY <1>2, <2>4, NewScopeFacts
  <2> HIDE DEF h, s
  <2>6. Grows
    BY <1>1, <2>1, <2>3, <2>5, GrowsScoped
  <2>7. /\ Below \in Seq(Handlers)
        /\ \A i \in DOMAIN Below : i \in DOMAIN stack /\ Below[i] = stack[i]
    BY <1>1, BelowFacts
  <2>. QED BY <1>1, <2>1, <2>2, <2>6, <2>7, BeginQuiet
<1>4. CASE ~ Top.else
  <2>1. table' = ExitScope(table) /\ Finishes("statement", Below, FALSE)
    BY <1>4 DEF endBlock
  <2>2. Below # <<>>
    BY <1>1, BelowFacts
  <2>3. "block" # "case" /\ FALSE \in BOOLEAN
    OBVIOUS
  <2>. QED BY <1>1, <1>2, <2>1, <2>2, <2>3, StatementForms, BelowQuiet
<1>. QED BY <1>3, <1>4

LEMMA SelectQuiet ==
  ASSUME Structure, select
  PROVE  Quiet
<1> DEFINE h == [kind |-> "select", cases |-> 0]
<1>1. /\ phase = "stmts" /\ stack # <<>> /\ stack' = Append(stack, h)
      /\ UNCHANGED <<unit, phase, next, table, types, bodies, slips>>
  BY DEF select, AtStatement, past
<1>2. h \in Handlers /\ h.kind # "fn" /\ stack \in Seq(Handlers)
  BY StructureFacts DEF Handlers
<1> HIDE DEF h
<1>3. Grows
  BY <1>1, GrowsScoped
<1>. QED BY <1>1, <1>2, <1>3, BeginQuiet

LEMMA MatchQuiet ==
  ASSUME Structure, NEW ok \in BOOLEAN, match(ok)
  PROVE  Quiet
<1> DEFINE h == [kind |-> "match", named |-> {}, found |-> 0, again |-> FALSE]
<1>1. /\ AtStatement /\ phase = "stmts" /\ stack # <<>>
      /\ UNCHANGED <<unit, phase, table, opened, types, bodies, slips>>
  BY DEF match, AtStatement, past
<1>2. CASE ok
  <2>1. stack' = Append(stack, h) /\ next' = next
    BY <1>2 DEF match
  <2>2. h \in Handlers /\ h.kind # "fn" /\ stack \in Seq(Handlers)
    BY StructureFacts DEF Handlers
  <2> HIDE DEF h
  <2>3. Grows
    BY <1>1, GrowsScoped
  <2>. QED BY <1>1, <2>1, <2>2, <2>3, BeginQuiet
<1>3. CASE ~ ok
  <2>1. Finishes("statement", stack, TRUE) /\ TRUE \in BOOLEAN
    BY <1>3 DEF match
  <2>2. Extends(table', table)
    BY <1>1, ExtendsFacts
  <2>. QED BY <1>1, <2>1, <2>2, StatementForms, PlainStatementQuiet
<1>. QED BY <1>2, <1>3

LEMMA AlternativeQuiet ==
  ASSUME Structure, phase = "stmts", stack # <<>>, NEW m \in Handlers, m.kind # "fn",
         NEW s \in ScopesOf(opened + 1, Len(types)),
         table' = Append(table, s),
         stack' = Append(Append(Below, m), [kind |-> "case", last |-> "none"]),
         UNCHANGED <<unit, phase, next, types, bodies, slips>>
  PROVE  Quiet
<1> DEFINE c == [kind |-> "case", last |-> "none"]
           below == Append(Below, m)
<1>1. /\ Below \in Seq(Handlers)
      /\ \A i \in DOMAIN Below : i \in DOMAIN stack /\ Below[i] = stack[i]
  BY BelowFacts
<1>2. /\ below \in Seq(Handlers) /\ Len(below) = Len(Below) + 1 /\ Len(Below) \in Nat
      /\ \A i \in 1..Len(Below) : below[i] = Below[i]
      /\ below[Len(Below) + 1] = m
  BY <1>1, AppendFacts
<1>3. c \in Handlers /\ c.kind # "fn"
  BY DEF Handlers, Forms
<1>4. stack' = Append(below, c)
  OBVIOUS
<1>5. Grows
  BY GrowsScoped
<1> HIDE DEF c, below
<1>6. ASSUME NEW i \in DOMAIN below, below[i].kind = "fn"
      PROVE  i \in DOMAIN stack /\ below[i] = stack[i]
  <2>1. i \in 1..Len(Below) \/ i = Len(Below) + 1
    BY <1>2
  <2>2. i \in DOMAIN Below
    BY <1>1, <1>2, <1>6, <2>1
  <2>3. i \in 1..Len(Below)
    BY <1>1, <2>2
  <2>. QED BY <1>1, <1>2, <2>2, <2>3
<1>. QED BY <1>2, <1>3, <1>4, <1>5, <1>6, BeginQuiet

LEMMA SelectAlternativeQuiet ==
  ASSUME Structure, Structure', selectAlternative
  PROVE  Quiet
<1> DEFINE m == [Top EXCEPT !.cases = @ + 1]
           s == NewScope(FALSE, table)
<1>1. /\ phase = "stmts" /\ stack # <<>> /\ Top.kind = "select" /\ Top.cases < 2
      /\ table' = Append(table, s)
      /\ stack' = Append(Append(Below, m), [kind |-> "case", last |-> "none"])
      /\ UNCHANGED <<unit, phase, next, types, bodies, slips>>
  BY DEF selectAlternative, In, past
<1>2. Top \in Handlers
  BY <1>1, StructureFacts
<1>3. m \in Handlers /\ m.kind # "fn"
  <2>1. Top.cases \in 0..2 /\ Top = [kind |-> "select", cases |-> Top.cases]
    BY <1>1, <1>2, HandlerFacts
  <2>2. Top.cases + 1 \in 0..2
    BY <1>1, <2>1
  <2>3. m = [kind |-> "select", cases |-> Top.cases + 1]
    BY <2>1
  <2>. QED BY <2>2, <2>3 DEF Handlers
<1>4. s \in ScopesOf(opened + 1, Len(types))
  BY StructureFacts, NewScopeFacts
<1> HIDE DEF m, s
<1>. QED BY <1>1, <1>3, <1>4, AlternativeQuiet

LEMMA MatchAlternativeQuiet ==
  ASSUME Structure, NEW c \in Denoted, NEW y \in Names, matchAlternative(c, y)
  PROVE  Quiet
<1> DEFINE scope == NewScope(FALSE, table)
           s == [scope EXCEPT !.binds[y] = Variable(0, FALSE)]
           entry == Found(Top, c)
           again == Top.again \/ (c \in Top.named \ Shared)
           m == [kind |-> "match", named |-> Top.named \union {c},
                 found |-> entry.found, again |-> again]
<1>1. /\ phase = "stmts" /\ stack # <<>> /\ Top.kind = "match"
      /\ table' = Append(table, s)
      /\ stack' = Append(Append(Below, m), [kind |-> "case", last |-> "none"])
      /\ UNCHANGED <<unit, phase, next, types, bodies, slips>>
  BY DEF matchAlternative, In, past
<1>2. Top \in Handlers
  BY <1>1, StructureFacts
<1>3. m \in Handlers /\ m.kind # "fn"
  <2>1. Top.named \subseteq Denoted /\ Top.found \in Nat /\ Top.again \in BOOLEAN
    BY <1>1, <1>2, HandlerFacts
  <2>2. entry.found \in Nat
    BY <2>1 DEF Found
  <2>3. Top.named \union {c} \subseteq Denoted /\ again \in BOOLEAN
    BY <2>1
  <2> HIDE DEF entry, again
  <2>. QED BY <2>2, <2>3 DEF Handlers
<1>4. s \in ScopesOf(opened + 1, Len(types))
  <2>1. scope \in ScopesOf(opened + 1, Len(types))
    BY StructureFacts, NewScopeFacts
  <2>2. Variable(0, FALSE) \in SymbolsOf(Len(types)) /\ y \in Ids
    BY StructureFacts, ReturnIsNoName DEF Variable, SymbolsOf
  <2> HIDE DEF scope
  <2>. QED BY <2>1, <2>2 DEF ScopesOf
<1> HIDE DEF s, m
<1>. QED BY <1>1, <1>3, <1>4, AlternativeQuiet

LEMMA EndAlternativeQuiet ==
  ASSUME Structure, NEW ok \in BOOLEAN, endAlternative(ok)
  PROVE  Quiet
<1>1. /\ phase = "stmts" /\ stack # <<>> /\ Top.kind = "case"
      /\ table' = ExitScope(table) /\ stack' = Below
      /\ UNCHANGED <<unit, phase, next, types, bodies, slips>>
  BY DEF endAlternative, In, past
<1>2. /\ Below # <<>>
      /\ \A i \in DOMAIN Below : i \in DOMAIN stack /\ Below[i] = stack[i]
  BY <1>1, BelowFacts
<1>3. Len(table) >= 2
  BY <1>1, StructureFacts, FramesExit DEF Structure, Top, Blocks
<1>4. Grows
  BY <1>1, <1>3, GrowsScoped
<1>. QED BY <1>1, <1>2, <1>4 DEF Quiet, Alike

LEMMA EndSelectQuiet ==
  ASSUME Structure, endSelect
  PROVE  Quiet
<1> DEFINE bad == Top.cases = 0
<1>1. /\ In("select") /\ Top.kind = "select" /\ stack # <<>> /\ Finishes("statement", Below, bad)
      /\ UNCHANGED <<unit, phase, table, opened, types, bodies, slips>>
  BY DEF endSelect, In, past
<1>2. bad \in BOOLEAN /\ "select" # "case"
  OBVIOUS
<1> HIDE DEF bad
<1>3. Below # <<>>
  BY <1>1, BelowFacts
<1>. QED BY <1>1, <1>2, <1>3, StatementForms, BelowQuiet

LEMMA EndMatchQuiet ==
  ASSUME Structure, endMatch
  PROVE  Quiet
<1> DEFINE bad  == Top.found # Cardinality(SumCases)
           slip == Top.named # SumCases /\ ~ Top.again
<1>1. /\ In("match") /\ Top.kind = "match" /\ stack # <<>> /\ Finishes("statement", Below, bad)
      /\ LetsPass("uncovered", slip)
      /\ UNCHANGED <<unit, phase, table, opened, types, bodies>>
  BY DEF endMatch, In
<1>2. bad \in BOOLEAN /\ "match" # "case"
  OBVIOUS
<1>3. slips' \intersect {"foreign", "return"} \subseteq slips
  BY <1>1 DEF LetsPass
<1> HIDE DEF bad
<1>4. Below # <<>>
  BY <1>1, BelowFacts
<1>. QED BY <1>1, <1>2, <1>3, <1>4, StatementForms, BelowQuiet

\* The frame of a body.
Body(t, h, item, isLambda) == [kind |-> "fn", type |-> t, returns |-> h.returns,
                               item |-> item, lambda |-> isLambda, last |-> "none"]

LEMMA BodyFacts ==
  ASSUME NEW t \in Nat \ {0}, NEW h \in AnyHeading, NEW item \in Nat, NEW isLambda \in BOOLEAN
  PROVE  /\ Body(t, h, item, isLambda) \in Handlers
         /\ Body(t, h, item, isLambda).kind = "fn"
         /\ Body(t, h, item, isLambda).type = t
         /\ Body(t, h, item, isLambda).item = item
         /\ Body(t, h, item, isLambda).returns = h.returns
BY DEF Body, Handlers, Forms, AnyHeading

LEMMA EnterBodyGrows ==
  ASSUME Structure, unit' = unit, types' \in Seq(TypeInvokes), Len(types) <= Len(types'),
         \A u \in 1..Len(types) : /\ types'[u].item = types[u].item
                                  /\ types'[u].returns = types[u].returns
                                  /\ types[u].defined => types'[u].defined,
         NEW tb, Frames(tb, opened, Len(types'), stack), Extends(tb, table),
         NEW t \in 1..Len(types'), NEW h \in AnyHeading, NEW item, NEW isLambda, NEW bad,
         EnterBody(tb, t, h, item, isLambda, bad)
  PROVE  /\ Grows /\ stack' = Append(stack, Body(t, h, item, isLambda))
         /\ UNCHANGED <<unit, phase, next, bodies, slips>>
<1> DEFINE n == Len(types')
<1>1. opened \in Nat /\ opened + 1 \in Nat /\ n \in Nat /\ types \in Seq(TypeInvokes)
      /\ table # <<>> /\ table \in Seq(Scopes)
  BY StructureFacts DEF Structure, Scalars
<1>2. /\ table' = Append(tb, BodyScope(tb, t, h))
      /\ stack' = Append(stack, Body(t, h, item, isLambda))
      /\ UNCHANGED <<unit, phase, next, bodies, slips>>
  BY DEF EnterBody, BodyScope, BodyBinds, Body, past
<1>3. tb # <<>> /\ tb \in Seq(ScopesOf(opened + 1, n))
  <2>1. tb # <<>>
    BY <1>1, FramesTyped
  <2>2. Frames(tb, opened + 1, n, stack)
    BY <1>1, FramesWider
  <2>. QED BY <2>1, <2>2 DEF Frames
<1>4. BodyScope(tb, t, h) \in ScopesOf(opened + 1, n)
  <2>1. t \in 0..n
    BY <1>1
  <2> HIDE DEF n
  <2>. QED BY <1>1, <1>3, <2>1, BodyScopeFacts
<1> HIDE DEF n
<1>5. table'[1] = tb[1]
  <2>1. 1 \in 1..Len(tb)
    BY <1>3
  <2>. QED BY <1>2, <1>3, <1>4, <2>1, AppendFacts
<1>6. \A x \in Ids : table[1].binds[x] # Absent => table'[1].binds[x] = table[1].binds[x]
  <2>1. 1 \in 1..Len(table)
    BY <1>1
  <2>. QED BY <1>5, <2>1 DEF Extends
<1>. QED BY <1>1, <1>2, <1>6 DEF Grows

\* When no handler is in progress, only the scope of the unit is open.
LEMMA OneScopeAtTop ==
  ASSUME Structure, stack = <<>>
  PROVE  Len(table) = 1
<1>1. Len(table) = 1 + Count(Positions(stack), Len(stack)) /\ Len(stack) = 0
  BY DEF Structure, Frames, Follows
<1>2. Count(Positions(stack), 0) = 0
  BY CountFacts
<1>. QED BY <1>1, <1>2

\* A new type of function has a definition from the start.
LEMMA NewTypeGrows ==
  ASSUME Structure, NEW h \in AnyHeading, NEW item \in Nat,
         types' = TypeInvoke(h, TRUE, item)
  PROVE  /\ types' \in Seq(TypeInvokes) /\ Len(types) <= Len(types')
         /\ Len(types) + 1 \in 1..Len(types') /\ Len(types) + 1 \in DOMAIN types'
         /\ Len(types) + 1 \in Nat \ {0}
         /\ \A u \in 1..Len(types) : types'[u] = types[u]
         /\ types'[Len(types) + 1].item = item
         /\ types'[Len(types) + 1].returns = h.returns
         /\ types'[Len(types) + 1].defined
         /\ \A u \in DOMAIN types' : ~ types'[u].defined => u \in DOMAIN types /\ ~ types[u].defined
<1> DEFINE n == Len(types)
<1>1. types \in Seq(TypeInvokes)
  BY DEF Structure, Scalars
<1>2. /\ types' \in Seq(TypeInvokes)
      /\ n \in Nat /\ Len(types') = n + 1
      /\ \A t \in 1..n : types'[t] = types[t]
      /\ types'[n + 1] = [params |-> h.params, returns |-> h.returns, defined |-> TRUE,
                          item |-> item]
  BY <1>1, TypeInvokeFacts
<1>3. DOMAIN types' = 1..(n + 1) /\ DOMAIN types = 1..n
  <2>1. \A S, s : s \in Seq(S) => DOMAIN s = 1..Len(s)
    OBVIOUS
  <2>2. DOMAIN types = 1..Len(types) /\ DOMAIN types' = 1..Len(types')
    BY <1>1, <1>2, <2>1
  <2>. QED BY <1>2, <2>2
<1>4. /\ types'[n + 1].item = item /\ types'[n + 1].returns = h.returns
      /\ types'[n + 1].defined = TRUE
  <2> DEFINE r == [params |-> h.params, returns |-> h.returns, defined |-> TRUE,
                   item |-> item]
  <2>1. r.item = item /\ r.returns = h.returns /\ r.defined = TRUE
    OBVIOUS
  <2>2. types'[n + 1] = r
    BY <1>2
  <2> HIDE DEF r, n
  <2>. QED BY <2>1, <2>2
<1> HIDE DEF n
<1>5. ASSUME NEW u \in DOMAIN types', ~ types'[u].defined
      PROVE  u \in DOMAIN types /\ ~ types[u].defined
  <2>1. u \in 1..n \/ u = n + 1
    <3>1. u \in 1..(n + 1) /\ n \in Nat
      BY <1>2, <1>3
    <3>. QED BY <3>1
  <2>2. u \in 1..n
    BY <1>4, <1>5, <2>1
  <2>. QED BY <1>2, <1>3, <1>5, <2>2
<1>6. n + 1 \in 1..(n + 1) /\ n <= n + 1 /\ n + 1 \in Nat \ {0}
  BY <1>2
<1>. QED BY <1>2, <1>3, <1>4, <1>5, <1>6 DEF n

\* A body that is nested, whose type is its own.
LEMMA OpensNested ==
  ASSUME phase = "stmts", Grows, UNCHANGED <<phase, next, bodies, slips>>, stack # <<>>,
         NEW f \in Handlers, NEW t, stack' = Append(stack, f), f.kind = "fn", f.type = t,
         f.item = 0, t \in DOMAIN types', types'[t].defined,
         types'[t].item = f.item, types'[t].returns = f.returns,
         \A u \in DOMAIN types' : ~ types'[u].defined => u \in DOMAIN types /\ ~ types[u].defined
  PROVE  Opens(f, t)
BY DEF Opens

LEMMA DefineFunctionOpens ==
  ASSUME Structure, DeclaredAhead, NEW h, NEW item, DefinesAt(h, item), defineFunction(h, item)
  PROVE  Opens(Body(Len(types) + 1, h, item, FALSE), Len(types) + 1)
<1> DEFINE s == Definition(Len(types) + 1, FALSE)
           tb == AddSymbol(table, h.name, s)
           t  == Len(types) + 1
           bad == Repeats(h.params) \/ Misfit(h, h.params, h.returns)
<1>1. /\ phase = "stmts" /\ (AtStatement \/ stack = <<>>)
      /\ h \in AnyHeading /\ item \in Nat /\ h.name \in Ids \ {Return}
  BY DefinesAtFacts
<1>2. /\ types' = TypeInvoke(h, TRUE, item) /\ LookupInCurrentScope(table, h.name) = Absent
      /\ EnterBody(tb, t, h, item, FALSE, bad)
  BY DEF defineFunction
<1>3. unit' = unit /\ phase' = phase
  BY <1>2 DEF EnterBody
<1>4. stack # <<>> /\ item = 0
  <2> SUFFICES ASSUME stack = <<>> PROVE FALSE
    BY DEF DefinesAt
  <2>1. next \in Functions /\ h.name = unit.stmts[next].heading.name
    BY NextInStmts DEF DefinesAt, Functions, AtStatement
  <2>2. PICK u \in DOMAIN types : OwnType(next, u)
    BY <1>1, <2>1 DEF DeclaredAhead, Ahead
  <2>3. table[1].binds[h.name] = Definition(u, TRUE) /\ u \in Nat
    BY <2>1, <2>2 DEF OwnType, Made, Structure, Scalars
  <2>4. LookupInCurrentScope(table, h.name) = table[1].binds[h.name]
    BY OneScopeAtTop DEF LookupInCurrentScope
  <2>. QED BY <1>2, <2>3, <2>4, DefinitionIsSymbol
<1>5. /\ Frames(tb, opened, Len(types'), stack) /\ Extends(tb, table)
  BY <1>1, <1>2, DefinedTable
<1>6. /\ types' \in Seq(TypeInvokes) /\ Len(types) <= Len(types')
      /\ t \in 1..Len(types') /\ t \in DOMAIN types' /\ t \in Nat \ {0}
      /\ \A u \in 1..Len(types) : types'[u] = types[u]
      /\ types'[t].item = item /\ types'[t].returns = h.returns /\ types'[t].defined
      /\ \A u \in DOMAIN types' : ~ types'[u].defined => u \in DOMAIN types /\ ~ types[u].defined
  BY <1>1, <1>2, NewTypeGrows
<1> HIDE DEF tb, t, bad
<1>7. /\ Grows /\ stack' = Append(stack, Body(t, h, item, FALSE))
      /\ UNCHANGED <<unit, phase, next, bodies, slips>>
  BY <1>1, <1>2, <1>3, <1>5, <1>6, EnterBodyGrows
<1>8. /\ Body(t, h, item, FALSE) \in Handlers /\ Body(t, h, item, FALSE).kind = "fn"
      /\ Body(t, h, item, FALSE).type = t /\ Body(t, h, item, FALSE).item = item
      /\ Body(t, h, item, FALSE).returns = h.returns
  <2>1. t \in Nat \ {0} /\ h \in AnyHeading /\ item \in Nat /\ FALSE \in BOOLEAN
    BY <1>1, <1>6
  <2>. QED BY <2>1 DEF Body, Handlers, Forms, AnyHeading
<1> DEFINE f == Body(t, h, item, FALSE)
<1> HIDE DEF f
<1>9. Opens(f, t)
  <2>1. f \in Handlers /\ f.kind = "fn" /\ f.type = t /\ f.item = item /\ f.returns = h.returns
    BY <1>8 DEF f
  <2>2. stack' = Append(stack, f)
    BY <1>7 DEF f
  <2>3. f.item = 0 /\ types'[t].item = f.item /\ types'[t].returns = f.returns
    BY <1>4, <1>6, <2>1
  <2>. QED BY <1>1, <1>4, <1>6, <1>7, <2>1, <2>2, <2>3, OpensNested
<1>. QED BY <1>9 DEF f, t

LEMMA VisitLambdaOpens ==
  ASSUME Structure, NEW h \in Headings, visitLambda(h)
  PROVE  Opens(Body(Len(types) + 1, h, 0, TRUE), Len(types) + 1)
<1> DEFINE t == Len(types) + 1
           bad == Repeats(h.params)
<1>1. h \in AnyHeading /\ 0 \in Nat /\ TRUE \in BOOLEAN
  BY UnitFacts DEF Structure, Scalars
<1>2. h.name \in Ids \ {Return}
  BY <1>1, ReturnIsNoName DEF AnyHeading
<1>3. /\ phase = "stmts" /\ stack # <<>> /\ types' = TypeInvoke(h, TRUE, 0)
      /\ EnterBody(table, t, h, 0, TRUE, bad)
  BY DEF visitLambda, AtStatement
<1>4. unit' = unit /\ phase' = phase
  BY <1>3 DEF EnterBody
<1>5. Frames(table, opened, Len(types'), stack) /\ Extends(table, table)
  BY <1>1, <1>2, <1>3, DefinedTable, ExtendsFacts
<1>6. /\ types' \in Seq(TypeInvokes) /\ Len(types) <= Len(types')
      /\ t \in 1..Len(types') /\ t \in DOMAIN types' /\ t \in Nat \ {0}
      /\ \A u \in 1..Len(types) : types'[u] = types[u]
      /\ types'[t].item = 0 /\ types'[t].returns = h.returns /\ types'[t].defined
      /\ \A u \in DOMAIN types' : ~ types'[u].defined => u \in DOMAIN types /\ ~ types[u].defined
  BY <1>1, <1>3, NewTypeGrows
<1> HIDE DEF t, bad
<1>7. /\ Grows /\ stack' = Append(stack, Body(t, h, 0, TRUE))
      /\ UNCHANGED <<unit, phase, next, bodies, slips>>
  BY <1>1, <1>3, <1>4, <1>5, <1>6, EnterBodyGrows
<1>8. /\ Body(t, h, 0, TRUE) \in Handlers /\ Body(t, h, 0, TRUE).kind = "fn"
      /\ Body(t, h, 0, TRUE).type = t /\ Body(t, h, 0, TRUE).item = 0
      /\ Body(t, h, 0, TRUE).returns = h.returns
  <2>1. t \in Nat \ {0} /\ h \in AnyHeading /\ 0 \in Nat /\ TRUE \in BOOLEAN
    BY <1>1, <1>6
  <2>. QED BY <2>1 DEF Body, Handlers, Forms, AnyHeading
<1> DEFINE f == Body(t, h, 0, TRUE)
<1> HIDE DEF f
<1>9. Opens(f, t)
  <2>1. f \in Handlers /\ f.kind = "fn" /\ f.type = t /\ f.item = 0 /\ f.returns = h.returns
    BY <1>8 DEF f
  <2>2. stack' = Append(stack, f)
    BY <1>7 DEF f
  <2>3. f.item = 0 /\ types'[t].item = f.item /\ types'[t].returns = f.returns
    BY <1>6, <2>1
  <2>. QED BY <1>3, <1>6, <1>7, <2>1, <2>2, <2>3, OpensNested
<1>. QED BY <1>9 DEF f, t

\* A heading whose name has a type without a definition takes that type: at the top
\* level it is that of the function; in a body, that of a function still to come.
LEMMA DeclaredTaken ==
  ASSUME Structure, DeclaredAhead, VisitedDefined,
         NEW h, NEW item, DefinesAt(h, item), NEW s, s = LookupInCurrentScope(table, h.name),
         IsDeclared(s)
  PROVE  /\ s.type \in 1..Len(types) /\ ~ types[s.type].defined
         /\ types[s.type].item \in Functions /\ OwnType(types[s.type].item, s.type)
         /\ stack = <<>> => /\ next \in Functions /\ item = next /\ h = unit.stmts[next].heading
                            /\ OwnType(next, s.type)
         /\ stack # <<>> => item = 0 /\ types[s.type].item > next
<1> DEFINE t == s.type
           own == types[t].item
<1>1. /\ phase = "stmts" /\ (AtStatement \/ stack = <<>>)
      /\ h \in AnyHeading /\ item \in Nat /\ h.name \in Ids \ {Return}
  BY DefinesAtFacts
<1>2. /\ Len(types) \in Nat /\ types \in Seq(TypeInvokes)
      /\ next \in Nat /\ DOMAIN types = 1..Len(types)
  BY StructureFacts DEF Structure, Scalars
<1>3. t \in 1..Len(types) /\ ~ types[t].defined
  <2>1. s \in SymbolsOf(Len(types)) \union {Absent}
    BY <1>1, StructureFacts, LookupInCurrentTyped
  <2>2. s # Absent /\ s.type # 0 /\ ~ types[s.type].defined
    BY DEF IsDeclared
  <2>3. s.type \in 0..Len(types)
    BY <2>1, <2>2 DEF SymbolsOf
  <2>. QED BY <1>2, <2>2, <2>3
<1>4. own \in Functions /\ OwnType(own, t)
  BY <1>1, <1>2, <1>3 DEF DeclaredAhead, Ahead
<1>5. stack = <<>> => /\ next \in Functions /\ item = next /\ h = unit.stmts[next].heading
                      /\ OwnType(next, t)
  <2> SUFFICES ASSUME stack = <<>>
               PROVE  /\ next \in Functions /\ item = next /\ h = unit.stmts[next].heading
                      /\ OwnType(next, t)
    OBVIOUS
  <2>1. next \in Functions /\ item = next /\ h = unit.stmts[next].heading
    BY NextInStmts DEF DefinesAt, Functions, AtStatement
  <2>2. PICK u \in DOMAIN types : OwnType(next, u)
    BY <1>1, <2>1 DEF DeclaredAhead, Ahead
  <2>3. table[1].binds[h.name] = Definition(u, TRUE) /\ u \in Nat
    BY <2>1, <2>2 DEF OwnType, Made, Structure, Scalars
  <2>4. LookupInCurrentScope(table, h.name) = table[1].binds[h.name]
    BY OneScopeAtTop DEF LookupInCurrentScope
  <2>5. t = u
    BY <2>3, <2>4, DefinitionIsSymbol
  <2>. QED BY <2>1, <2>2, <2>5
<1>6. stack # <<>> => item = 0 /\ own > next
  <2> SUFFICES ASSUME stack # <<>> PROVE item = 0 /\ own > next
    OBVIOUS
  <2>1. item = 0
    BY DEF DefinesAt
  <2>2. own \in Nat
    BY <1>4, FunctionFacts
  <2>3. ~ (own < next)
    <3> SUFFICES ASSUME own < next PROVE FALSE
      OBVIOUS
    <3>1. PICK u \in DOMAIN types : OwnType(own, u) /\ types[u].defined
      BY <1>4 DEF VisitedDefined
    <3>2. u = t
      BY <1>4, <3>1, OwnTypeUnique
    <3>. QED BY <1>3, <3>1, <3>2
  <2>4. own # next
    <3> SUFFICES ASSUME own = next PROVE FALSE
      OBVIOUS
    <3>1. OwnType(own, stack[1].type) /\ types[stack[1].type].defined
      BY DEF VisitedDefined
    <3>2. stack[1].type = t
      BY <1>4, <3>1, OwnTypeUnique
    <3>. QED BY <1>3, <3>1, <3>2
  <2> HIDE DEF own
  <2>. QED BY <1>2, <2>1, <2>2, <2>3, <2>4
<1>. QED BY <1>3, <1>4, <1>5, <1>6

LEMMA DefineDeclaredOpens ==
  ASSUME Structure, DeclaredAhead, VisitedDefined,
         NEW h, NEW item, DefinesAt(h, item), defineDeclared(h, item), phase' # "aborted"
  PROVE  \E f, t : Opens(f, t)
<1> DEFINE s == LookupInCurrentScope(table, h.name)
           t == s.type
           bad == Misfit(h, types[t].params, types[t].returns)
           own == types[t].item
           f == Body(t, h, item, FALSE)
<1>1. /\ phase = "stmts" /\ (AtStatement \/ stack = <<>>)
      /\ h \in AnyHeading /\ item \in Nat /\ h.name \in Ids \ {Return}
  BY DefinesAtFacts
<1>2. /\ Len(types) \in Nat /\ types \in Seq(TypeInvokes)
      /\ next \in Nat /\ DOMAIN types = 1..Len(types)
  BY StructureFacts DEF Structure, Scalars
<1>3. IsDeclared(s) /\ types' = define(t)
  BY DEF defineDeclared
<1>4. /\ t \in 1..Len(types) /\ ~ types[t].defined
      /\ own \in Functions /\ OwnType(own, t)
      /\ stack = <<>> => /\ next \in Functions /\ item = next /\ h = unit.stmts[next].heading
                         /\ OwnType(next, t)
      /\ stack # <<>> => item = 0 /\ own > next
  <2> HIDE DEF s
  <2>1. s = LookupInCurrentScope(table, h.name)
    BY DEF s
  <2>. QED BY <1>3, <2>1, DeclaredTaken
<1>5. EnterBody(table, t, h, item, FALSE, bad)
  BY DEF defineDeclared
<1>6. unit' = unit /\ phase' = phase
  BY <1>5 DEF EnterBody
<1>7. /\ types' \in Seq(TypeInvokes) /\ Len(types') = Len(types) /\ DOMAIN types' = DOMAIN types
       /\ \A u \in 1..Len(types) : /\ types'[u].item = types[u].item
                                   /\ types'[u].returns = types[u].returns
                                   /\ types[u].defined => types'[u].defined
                                   /\ ~ types'[u].defined => ~ types[u].defined
       /\ types'[t].defined
  <2> HIDE DEF t
  <2>1. /\ types' \in Seq(TypeInvokes) /\ Len(types') = Len(types)
        /\ \A u \in 1..Len(types) :
              /\ types'[u].item = types[u].item /\ types'[u].returns = types[u].returns
              /\ types'[u].defined = IF u = t THEN TRUE ELSE types[u].defined
    BY <1>2, <1>3, <1>4, DefineFacts
  <2>2. DOMAIN types' = DOMAIN types
    BY <1>2, <2>1
  <2>. QED BY <1>4, <2>1, <2>2
<1> HIDE DEF t, bad, own
<1>8. /\ Grows /\ stack' = Append(stack, f)
       /\ UNCHANGED <<unit, phase, next, bodies, slips>>
  <2>1. Frames(table, opened, Len(types'), stack) /\ Extends(table, table)
    <3>1. Frames(table, opened, Len(types'), stack)
      BY <1>7 DEF Structure
    <3>. QED BY <3>1, StructureFacts, ExtendsFacts
  <2>2. Len(types) <= Len(types') /\ t \in 1..Len(types')
    BY <1>2, <1>4, <1>7
  <2>. QED BY <1>1, <1>5, <1>6, <1>7, <2>1, <2>2, EnterBodyGrows
<1>9. f \in Handlers /\ f.kind = "fn" /\ f.type = t /\ f.item = item /\ f.returns = h.returns
  <2>1. t \in Nat \ {0} /\ h \in AnyHeading /\ item \in Nat
    BY <1>1, <1>2, <1>4
  <2>. QED BY <2>1 DEF Body, Handlers, Forms, AnyHeading
<1> HIDE DEF f
<1>10. t \in DOMAIN types /\ t \in DOMAIN types' /\ types'[t].defined
       /\ types'[t].item = own /\ types'[t].returns = types[t].returns
  BY <1>2, <1>4, <1>7 DEF own
<1>11. CASE stack = <<>>
  <2>1. next \in Functions /\ f.item = next /\ OwnType(next, t) /\ f.returns = types[t].returns
    BY <1>4, <1>9, <1>11 DEF OwnType, Made
  <2>2. Made(types', table', unit', next, t)
    BY <1>8, <2>1, OwnTypeKept
  <2>3. \A u \in DOMAIN types : OwnType(next, u) => ~ types[u].defined
    BY <1>4, <2>1, OwnTypeUnique
  <2>4. types'[t].item = f.item /\ types'[t].returns = f.returns
    BY <1>10, <2>1, <2>2 DEF Made
  <2>5. Opens(f, t)
    BY <1>1, <1>2, <1>7, <1>8, <1>9, <1>10, <1>11, <2>1, <2>2, <2>3, <2>4 DEF Opens
  <2>. QED BY <2>5
<1>12. CASE stack # <<>>
  <2>1. f.item = 0 /\ own > next /\ own \in Functions
    BY <1>4, <1>9, <1>12 DEF own
  <2>2. Made(types', table', unit', own, t)
    BY <1>4, <1>8, OwnTypeKept DEF own
  <2>3. Opens(f, t)
    BY <1>1, <1>2, <1>7, <1>8, <1>9, <1>10, <1>12, <2>1, <2>2 DEF Opens
  <2>. QED BY <2>3
<1>. QED BY <1>11, <1>12

LEMMA FinishesSoils ==
  ASSUME NEW form, NEW st, NEW bad, Finishes(form, st, bad), errors
  PROVE  errors'
BY DEF Finishes

\* Errors are never taken back.
LEMMA ErrorsStay ==
  ASSUME Structure, Next, errors
  PROVE  errors'
<1>1. ASSUME endOfList \/ externStatement \/ forwardDeclare \/ endUnit PROVE errors'
  BY <1>1 DEF endOfList, externStatement, forwardDeclare, endUnit, Declare
<1>2. ASSUME NEW h, NEW item, visitInvokeable(h, item) PROVE errors'
  <2>1. defineFunction(h, item) => errors'
    BY DEF defineFunction, EnterBody
  <2>2. defineDeclared(h, item) => errors'
    BY DEF defineDeclared, EnterBody
  <2>3. redeclared(h, item) => errors'
    BY FinishesSoils DEF redeclared
  <2>. QED BY <1>2, <2>1, <2>2, <2>3 DEF visitInvokeable
<1>3. ASSUME visitFuncDef PROVE errors'
  BY <1>2, <1>3, VisitFuncDefFacts
<1>4. ASSUME endBody \/ endSelect \/ endMatch PROVE errors'
  BY <1>4, FinishesSoils DEF endBody, EndsBody, endSelect, endMatch
<1>5. ASSUME endBlock PROVE errors'
  BY <1>5, FinishesSoils DEF endBlock
<1>6. ASSUME select \/ selectAlternative PROVE errors'
  BY <1>6 DEF select, selectAlternative
<1>7. ASSUME NEW ok \in BOOLEAN, defineType(ok) \/ match(ok) \/ endAlternative(ok)
                                 \/ returnStatement(ok)
      PROVE  errors'
  <2>1. defineType(ok) => errors'
    BY DEF defineType
  <2>2. match(ok) => errors'
    BY FinishesSoils DEF match
  <2>3. endAlternative(ok) => errors'
    BY DEF endAlternative
  <2>4. returnStatement(ok) => errors'
    BY FinishesSoils DEF returnStatement
  <2>. QED BY <1>7, <2>1, <2>2, <2>3, <2>4
<1>8. ASSUME NEW ok \in BOOLEAN, NEW hasElse \in BOOLEAN, visitBlock(hasElse, ok)
      PROVE  errors'
  BY <1>8 DEF visitBlock, Visits
<1>9. ASSUME NEW ok \in BOOLEAN, NEW x \in Names, assignStatement(x, ok) \/ invocation(x, ok)
      PROVE  errors'
  BY <1>9, FinishesSoils DEF assignStatement, invocation
<1>10. ASSUME NEW ok \in BOOLEAN, NEW names \in Declarators, NEW d \in Declarations,
              varDecl(names, d, ok)
       PROVE  errors'
  BY <1>10, FinishesSoils DEF varDecl
<1>11. ASSUME NEW h \in Headings, visitLambda(h) PROVE errors'
  BY <1>11 DEF visitLambda, EnterBody
<1>12. ASSUME NEW c \in Denoted, NEW y \in Names, matchAlternative(c, y) PROVE errors'
  BY <1>12 DEF matchAlternative
<1>. QED BY <1>1, <1>3, <1>4, <1>5, <1>6, <1>7, <1>8, <1>9, <1>10, <1>11, <1>12 DEF Next

\* A step in the lists of the unit: those declared so far keep their types, and a
\* type without a definition that is new is that of a function that is newly ahead.
LEMMA DeclaredKept ==
  ASSUME Structure, Grows, DeclaredAhead, Ahead \subseteq Ahead',
         \A i \in Ahead' : \/ i \in Ahead
                           \/ \E t \in DOMAIN types' : Made(types', table', unit', i, t),
         \A t \in DOMAIN types' : ~ types'[t].defined =>
            \/ t \in DOMAIN types /\ ~ types[t].defined
            \/ types'[t].item \in Ahead' /\ Made(types', table', unit', types'[t].item, t)
  PROVE  DeclaredAhead'
<1>1. ASSUME NEW i \in Ahead'
      PROVE  \E t \in DOMAIN types' : Made(types', table', unit', i, t)
  <2>1. CASE i \in Ahead
    <3>1. PICK t \in DOMAIN types : OwnType(i, t)
      BY <2>1 DEF DeclaredAhead
    <3>2. i \in Functions
      BY <2>1 DEF Ahead
    <3>. QED BY <3>1, <3>2, OwnTypeKept
  <2>. QED BY <1>1, <2>1
<1>2. ASSUME NEW t \in DOMAIN types', ~ types'[t].defined
      PROVE  types'[t].item \in Ahead' /\ Made(types', table', unit', types'[t].item, t)
  <2>1. CASE t \in DOMAIN types /\ ~ types[t].defined
    <3>1. types[t].item \in Ahead /\ OwnType(types[t].item, t)
      BY <2>1 DEF DeclaredAhead
    <3>2. types[t].item \in Functions
      BY <3>1 DEF Ahead
    <3>3. Made(types', table', unit', types[t].item, t)
      BY <3>1, <3>2, OwnTypeKept
    <3>4. types'[t].item = types[t].item
      BY <3>3 DEF Made
    <3>. QED BY <3>1, <3>3, <3>4
  <2>. QED BY <1>2, <2>1
<1>. QED BY <1>1, <1>2 DEF DeclaredAhead, OwnType

LEMMA EndOfListDefines ==
  ASSUME Structure, Definitions, ~ errors, endOfList
  PROVE  Definitions'
<1>1. /\ phase \in {"defs", "extens", "forward"}
      /\ phase' \in {"extens", "forward", "stmts"}
      /\ phase' = "forward" <=> phase = "extens"
      /\ phase' = "stmts" <=> phase = "forward"
      /\ next > Len(List) /\ next' = 1
      /\ UNCHANGED <<unit, table, opened, types, stack, errors, bodies, slips>>
  BY DEF endOfList, After, past
<1>2. stack = <<>> /\ slips = {} /\ DeclaredAhead
  BY <1>1 DEF Structure, Listed, Definitions
<1>3. Functions' = Functions /\ \A i \in Functions : i \in Nat \ {0} /\ i <= Len(unit.stmts)
  <2>1. Functions' = Functions
    BY <1>1 DEF Functions
  <2>2. ASSUME NEW i \in Functions PROVE i \in Nat \ {0} /\ i <= Len(unit.stmts)
    BY FunctionFacts
  <2>. QED BY <2>1, <2>2
<1>4. Grows
  <2>1. Extends(table', table)
    BY <1>1, ExtendsFacts
  <2>. QED BY <1>1, <2>1, GrowsExtended
<1>5. Ahead' = Ahead
  <2>1. CASE phase # "forward"
    <3>1. ~ \E i \in Functions : i < 1
      BY <1>3
    <3>. QED BY <1>1, <1>3, <2>1, <3>1 DEF Ahead
  <2>2. CASE phase = "forward"
    <3>1. next \in Nat /\ next > Len(unit.stmts) /\ Len(unit.stmts) \in Nat
      BY <1>1, <2>2, UnitFacts DEF List, Structure, Scalars
    <3>2. \A i \in Functions : i < next
      BY <1>3, <3>1
    <3>. QED BY <1>1, <1>3, <2>2, <3>2 DEF Ahead
  <2>. QED BY <2>1, <2>2
<1>6. DeclaredAhead'
  BY <1>1, <1>2, <1>5 DEF DeclaredAhead, OwnType
<1>7. VisitedDefined'
  <2>1. ~ \E i \in Functions' : i < next'
    BY <1>1, <1>3
  <2>. QED BY <1>1, <1>2, <2>1 DEF VisitedDefined
<1>8. ForeignIsFound'
  BY <1>1, <1>2 DEF ForeignIsFound, AllOwn
<1>. QED BY <1>6, <1>7, <1>8 DEF Definitions

LEMMA DefineTypeDefines ==
  ASSUME Structure, Definitions, ~ errors, NEW ok \in BOOLEAN, defineType(ok)
  PROVE  Definitions'
<1>1. phase = "defs" /\ UNCHANGED <<unit, phase, types>>
  BY DEF defineType, At
<1>2. Grows
  BY <1>1, DefineTypeKeeps, GrowsExtended
<1>3. DeclaredAhead /\ Ahead = {} /\ Ahead' = {}
  BY <1>1 DEF Definitions, Ahead
<1>4. DeclaredAhead'
  BY <1>1, <1>2, <1>3, DeclaredKept
<1>. QED BY <1>1, <1>4 DEF Definitions

\* The types and the table after a heading at the top level was declared.
LEMMA DeclareGrows ==
  ASSUME Structure, phase \in {"extens", "forward"}, stack = <<>>,
         NEW h \in AnyHeading, NEW defined \in BOOLEAN, NEW item \in Nat,
         Declare(h, defined, item)
  PROVE  /\ Grows /\ UNCHANGED <<unit, phase>> /\ next' = next + 1
         /\ Len(types) \in Nat /\ DOMAIN types = 1..Len(types)
         /\ DOMAIN types' = 1..(Len(types) + 1)
         /\ \A t \in 1..Len(types) : types'[t] = types[t]
         /\ types'[Len(types) + 1].item = item
         /\ types'[Len(types) + 1].returns = h.returns
         /\ types'[Len(types) + 1].defined = defined
<1> DEFINE n == Len(types)
           r == [params |-> h.params, returns |-> h.returns, defined |-> defined, item |-> item]
<1>1. /\ types' = TypeInvoke(h, defined, item) /\ UNCHANGED <<unit, phase>> /\ next' = next + 1
  BY DEF Declare
<1>2. types \in Seq(TypeInvokes)
  BY DEF Structure, Scalars
<1>3. /\ types' \in Seq(TypeInvokes)
      /\ n \in Nat /\ Len(types') = n + 1
      /\ \A t \in 1..n : types'[t] = types[t]
      /\ types'[n + 1] = r
  BY <1>1, <1>2, TypeInvokeFacts
<1>4. r.item = item /\ r.returns = h.returns /\ r.defined = defined
  OBVIOUS
<1> HIDE DEF r
<1>5. /\ types'[n + 1].item = item /\ types'[n + 1].returns = h.returns
      /\ types'[n + 1].defined = defined
  BY <1>3, <1>4
<1>6. DOMAIN types = 1..n /\ DOMAIN types' = 1..(n + 1)
  <2>1. \A S, s : s \in Seq(S) => DOMAIN s = 1..Len(s)
    OBVIOUS
  <2>2. DOMAIN types = 1..Len(types) /\ DOMAIN types' = 1..Len(types')
    BY <1>2, <1>3, <2>1
  <2>. QED BY <1>3, <2>2
<1>7. Extends(table', table)
  BY DeclareKeeps
<1>8. 1 \in 1..Len(table)
  BY StructureFacts
<1>9. \A x \in Ids : table[1].binds[x] # Absent => table'[1].binds[x] = table[1].binds[x]
  BY <1>7, <1>8 DEF Extends
<1>10. Grows
  <2>1. n <= n + 1
    BY <1>3
  <2>. QED BY <1>1, <1>2, <1>3, <1>9, <2>1 DEF Grows
<1>. QED BY <1>1, <1>3, <1>5, <1>6, <1>10

LEMMA ExternDefines ==
  ASSUME Structure, Definitions, ~ errors, externStatement
  PROVE  Definitions'
<1>1. /\ phase = "extens" /\ next <= Len(unit.extens) /\ stack = <<>>
      /\ Declare(unit.extens[next], TRUE, 0)
  BY DEF externStatement, At, List
<1>2. unit.extens[next] \in AnyHeading
  <2>1. unit.extens \in Seq(AnyHeading) /\ next \in Nat \ {0}
    BY UnitFacts DEF Structure, Scalars
  <2>. QED BY <1>1, <2>1
<1>3. /\ Grows /\ UNCHANGED <<unit, phase>>
      /\ Len(types) \in Nat /\ DOMAIN types = 1..Len(types)
      /\ DOMAIN types' = 1..(Len(types) + 1)
      /\ \A t \in 1..Len(types) : types'[t] = types[t]
      /\ types'[Len(types) + 1].defined = TRUE
  <2>1. TRUE \in BOOLEAN /\ 0 \in Nat
    OBVIOUS
  <2>. QED BY <1>1, <1>2, <2>1, DeclareGrows
<1>4. DeclaredAhead /\ Ahead = {} /\ Ahead' = {}
  BY <1>1, <1>3 DEF Definitions, Ahead
<1>5. ASSUME NEW t \in DOMAIN types', ~ types'[t].defined
      PROVE  t \in DOMAIN types /\ ~ types[t].defined
  <2> DEFINE n == Len(types)
  <2>1. t \in 1..n \/ t = n + 1
    <3>1. t \in 1..(n + 1) /\ n \in Nat
      BY <1>3
    <3>. QED BY <3>1
  <2>2. t \in 1..n
    BY <1>3, <1>5, <2>1
  <2>. QED BY <1>3, <1>5, <2>2
<1>6. DeclaredAhead'
  BY <1>3, <1>4, <1>5, DeclaredKept
<1>. QED BY <1>1, <1>3, <1>6 DEF Definitions

LEMMA ForwardDefines ==
  ASSUME Structure, Definitions, ~ errors, ~ errors', forwardDeclare
  PROVE  Definitions'
<1>1. phase = "forward" /\ next <= Len(unit.stmts) /\ stack = <<>>
  BY DEF forwardDeclare, At, List
<1>2. next \in DOMAIN unit.stmts /\ next \in Nat \ {0}
  BY <1>1, NextInStmts
<1>3. DeclaredAhead
  BY <1>1 DEF Definitions
<1>4. \A i \in Functions : i \in Nat
  BY FunctionFacts
<1>5. CASE unit.stmts[next].kind # "func"
  <2>1. next' = next + 1 /\ UNCHANGED <<unit, phase, table, types, stack>>
    BY <1>5 DEF forwardDeclare
  <2>2. Functions' = Functions /\ next \notin Functions
    BY <1>5, <2>1 DEF Functions
  <2>3. Ahead' = Ahead
    <3>1. \A i \in Functions : i < next + 1 <=> i < next
      BY <1>2, <1>4, <2>2
    <3>. QED BY <1>1, <2>1, <2>2, <3>1 DEF Ahead
  <2>4. DeclaredAhead'
    BY <1>3, <2>1, <2>3 DEF DeclaredAhead, OwnType
  <2>. QED BY <1>1, <2>1, <2>4 DEF Definitions
<1>6. CASE unit.stmts[next].kind = "func"
  <2> DEFINE h == unit.stmts[next].heading
             n == Len(types)
             t == n + 1
  <2>1. Declare(h, FALSE, next) /\ h \in AnyHeading /\ next \in Functions
    BY <1>1, <1>2, <1>6, NextInStmts DEF forwardDeclare, Functions
  <2>2. /\ Grows /\ UNCHANGED <<unit, phase>> /\ next' = next + 1
        /\ n \in Nat /\ DOMAIN types = 1..n
        /\ DOMAIN types' = 1..t
        /\ \A u \in 1..n : types'[u] = types[u]
        /\ types'[t].item = next
        /\ types'[t].returns = h.returns
    <3>1. FALSE \in BOOLEAN /\ next \in Nat
      BY <1>2
    <3>. QED BY <1>1, <2>1, <3>1, DeclareGrows
  <2>3. Functions' = Functions
    BY <2>2 DEF Functions
  <2>4. Ahead' = Ahead \union {next}
    <3>1. \A i \in Functions : i < next + 1 <=> (i < next \/ i = next)
      BY <1>2, <1>4
    <3>. QED BY <1>1, <2>1, <2>2, <2>3, <3>1 DEF Ahead
  <2>5. table'[1].binds[h.name] = Definition(t, TRUE)
    <3> DEFINE s == Definition(t, TRUE)
    <3>1. table' = AddSymbol(table, h.name, s) /\ Lookup(table, h.name) = Absent
      BY <2>1 DEF Declare
    <3>2. /\ opened \in Nat /\ t \in Nat /\ table # <<>> /\ table \in Seq(ScopesOf(opened, t))
          /\ Len(table) = 1
      <4>1. opened \in Nat /\ t \in Nat /\ table # <<>> /\ n <= t
        BY <2>2, StructureFacts
      <4>2. Frames(table, opened, t, stack)
        BY <2>2, <4>1, FramesWider DEF Structure
      <4>3. Len(table) = 1
        BY <1>1, OneScopeAtTop
      <4>. QED BY <4>1, <4>2, <4>3 DEF Frames
    <3>3. h.name \in Ids \ {Return} /\ s \in SymbolsOf(t)
      BY <2>1, <3>2, ReturnIsNoName DEF AnyHeading, Definition, SymbolsOf
    <3> HIDE DEF t, h, s
    <3>4. LookupInCurrentScope(table, h.name) = Absent
      BY <3>1, <3>2, <3>3, LookupAtTop
    <3>5. LookupInCurrentScope(table', h.name) = s /\ Extends(table', table)
      BY <3>1, <3>2, <3>3, <3>4, AddSymbolFacts
    <3>6. Len(table') = 1
      BY <3>2, <3>5 DEF Extends, SameScopes
    <3>. QED BY <3>5, <3>6 DEF LookupInCurrentScope, s
  <2>6. Made(types', table', unit', next, t)
    <3>1. t \in DOMAIN types'
      BY <2>2
    <3>. QED BY <2>2, <2>5, <3>1 DEF Made
  <2>7. ASSUME NEW u \in DOMAIN types', ~ types'[u].defined
        PROVE  \/ u \in DOMAIN types /\ ~ types[u].defined
               \/ types'[u].item \in Ahead' /\ Made(types', table', unit', types'[u].item, u)
    <3>1. u \in 1..n \/ u = t
      <4>1. u \in 1..t /\ n \in Nat
        BY <2>2
      <4>. QED BY <4>1
    <3>2. CASE u \in 1..n
      BY <2>2, <2>7, <3>2
    <3>3. CASE u = t
      <4>1. types'[u].item = next /\ next \in Ahead'
        BY <2>2, <2>4, <3>3
      <4>. QED BY <2>6, <3>3, <4>1
    <3>. QED BY <3>1, <3>2, <3>3
  <2> HIDE DEF t, h, n
  <2>8. DeclaredAhead'
    BY <1>3, <2>2, <2>4, <2>6, <2>7, DeclaredKept DEF Made
  <2>. QED BY <1>1, <2>2, <2>8 DEF Definitions
<1>. QED BY <1>5, <1>6

LEMMA EndUnitDefines ==
  ASSUME Structure, Definitions, ~ errors, endUnit
  PROVE  Definitions'
<1>1. /\ phase = "stmts" /\ phase' = "done"
      /\ UNCHANGED <<unit, next, table, opened, types, stack, bodies, slips>>
  BY DEF endUnit, past
<1>2. DeclaredAhead /\ VisitedDefined /\ ForeignIsFound
  BY <1>1 DEF Definitions
<1>3. Functions' = Functions /\ Ahead' = Ahead
  BY <1>1 DEF Functions, Ahead
<1>4. DeclaredAhead'
  BY <1>1, <1>2, <1>3 DEF DeclaredAhead, OwnType
<1>5. VisitedDefined'
  BY <1>1, <1>2, <1>3 DEF VisitedDefined, OwnType
<1>6. ForeignIsFound'
  BY <1>1, <1>2, <1>3 DEF ForeignIsFound, TakenAhead, AllOwn, Owns, OwnType
<1>. QED BY <1>4, <1>5, <1>6 DEF Definitions

LEMMA VisitFuncDefDefines ==
  ASSUME Structure, Structure', Definitions, ~ errors, ~ errors', visitFuncDef
  PROVE  Definitions'
<1>1. PICK h, item : DefinesAt(h, item) /\ visitInvokeable(h, item)
  BY VisitFuncDefFacts
<1>2. phase = "stmts"
  BY <1>1, DefinesAtFacts
<1>3. DeclaredAhead /\ VisitedDefined
  BY <1>2 DEF Definitions
<1>4. CASE defineFunction(h, item)
  <2>1. \E f, t : Opens(f, t)
    BY <1>1, <1>3, <1>4, DefineFunctionOpens
  <2>. QED BY <2>1, OpensKeeps
<1>5. CASE defineDeclared(h, item)
  <2>1. CASE phase' = "aborted"
    BY <2>1 DEF Definitions
  <2>2. CASE phase' # "aborted"
    <3>1. \E f, t : Opens(f, t)
      BY <1>1, <1>3, <1>5, <2>2, DefineDeclaredOpens
    <3>. QED BY <3>1, OpensKeeps
  <2>. QED BY <2>1, <2>2
<1>6. ~ redeclared(h, item)
  BY DEF redeclared, Finishes
<1>. QED BY <1>1, <1>4, <1>5, <1>6 DEF visitInvokeable

LEMMA InitDefinitions ==
  ASSUME Init
  PROVE  Definitions
<1>1. phase = "defs" /\ types = <<>>
  BY DEF Init
<1>2. Ahead = {} /\ DOMAIN types = {}
  BY <1>1 DEF Ahead
<1>3. DeclaredAhead
  BY <1>2 DEF DeclaredAhead
<1>. QED BY <1>1, <1>3 DEF Definitions

\* While there is no error yet, a body begins, or the unit goes on to its next list,
\* or what is declared stays what it is.
LEMMA NextDefinitions ==
  ASSUME Structure, Structure', Definitions, Next
  PROVE  Definitions'
<1> SUFFICES ASSUME ~ errors' PROVE Definitions'
  BY DEF Definitions
<1>1. ~ errors
  BY ErrorsStay
<1>2. CASE endOfList \/ externStatement \/ forwardDeclare \/ endUnit
  BY <1>1, <1>2, EndOfListDefines, ExternDefines, ForwardDefines, EndUnitDefines
<1>3. CASE visitFuncDef
  BY <1>1, <1>3, VisitFuncDefDefines
<1>4. CASE endBody
  <2>1. phase = "stmts"
    BY <1>4 DEF endBody, EndsBody, In
  <2>2. VisitedDefined
    BY <1>1, <2>1 DEF Definitions
  <2>. QED BY <1>1, <1>4, <2>2, EndBodyQuiet, QuietKeeps
<1>5. CASE endBlock \/ select \/ selectAlternative \/ endSelect \/ endMatch
  BY <1>1, <1>5, EndBlockQuiet, SelectQuiet, SelectAlternativeQuiet, EndSelectQuiet,
     EndMatchQuiet, QuietKeeps
<1>6. ASSUME NEW ok \in BOOLEAN, defineType(ok)
      PROVE  Definitions'
  BY <1>1, <1>6, DefineTypeDefines
<1>7. ASSUME NEW ok \in BOOLEAN, match(ok) \/ endAlternative(ok) \/ returnStatement(ok)
      PROVE  Definitions'
  BY <1>1, <1>7, MatchQuiet, EndAlternativeQuiet, ReturnQuiet, QuietKeeps
<1>8. ASSUME NEW ok \in BOOLEAN, NEW hasElse \in BOOLEAN, visitBlock(hasElse, ok)
      PROVE  Definitions'
  BY <1>1, <1>8, VisitBlockQuiet, QuietKeeps
<1>9. ASSUME NEW ok \in BOOLEAN, NEW x \in Names, assignStatement(x, ok) \/ invocation(x, ok)
      PROVE  Definitions'
  BY <1>1, <1>9, AssignQuiet, QuietKeeps
<1>10. ASSUME NEW ok \in BOOLEAN, NEW names \in Declarators, NEW d \in Declarations,
              varDecl(names, d, ok)
       PROVE  Definitions'
  BY <1>1, <1>10, VarDeclQuiet, QuietKeeps
<1>11. ASSUME NEW h \in Headings, visitLambda(h) PROVE Definitions'
  <2>1. \E f, t : Opens(f, t)
    BY <1>11, VisitLambdaOpens
  <2>. QED BY <1>1, <2>1, OpensKeeps
<1>12. ASSUME NEW c \in Denoted, NEW y \in Names, matchAlternative(c, y) PROVE Definitions'
  BY <1>1, <1>12, MatchAlternativeQuiet, QuietKeeps
<1>. QED BY <1>2, <1>3, <1>4, <1>5, <1>6, <1>7, <1>8, <1>9, <1>10, <1>11, <1>12 DEF Next

LEMMA StutterDefinitions ==
  ASSUME Definitions, UNCHANGED vars
  PROVE  Definitions'
<1>1. UNCHANGED <<unit, phase, next, table, opened, types, stack, errors, bodies, slips>>
  BY DEF vars
<1>2. Functions' = Functions /\ Ahead' = Ahead
  BY <1>1 DEF Functions, Ahead
<1>3. DeclaredAhead => DeclaredAhead'
  BY <1>1, <1>2 DEF DeclaredAhead, OwnType
<1>4. VisitedDefined => VisitedDefined'
  BY <1>1, <1>2 DEF VisitedDefined, OwnType
<1>5. ForeignIsFound => ForeignIsFound'
  BY <1>1, <1>2 DEF ForeignIsFound, TakenAhead, AllOwn, Owns, OwnType
<1>. QED BY <1>1, <1>3, <1>4, <1>5 DEF Definitions

LEMMA DefinitionsHold == Spec => [](Structure /\ Definitions)
<1>1. Init => Definitions
  BY InitDefinitions
<1>2. Structure /\ Structure' /\ Definitions /\ [Next]_vars => Definitions'
  BY NextDefinitions, StutterDefinitions
<1>3. Spec => []Structure
  BY StructureHolds
<1>. QED BY <1>1, <1>2, <1>3, PTL DEF Spec

\* When the unit is done no function is still to be visited.
LEMMA NothingAhead ==
  ASSUME Structure, Definitions, Accepted
  PROVE  /\ \A i \in Functions : i \in bodies
         /\ slips \intersect {"foreign", "return"} = {}
<1>1. phase = "done" /\ VisitedDefined /\ ForeignIsFound
  BY DEF Accepted, Definitions
<1>2. next > Len(unit.stmts) /\ next \in Nat
  BY <1>1 DEF Structure, Scalars, Listed
<1>3. ASSUME NEW i \in Functions PROVE i < next /\ i # next /\ ~ (i > next)
  <2>1. i \in 1..Len(unit.stmts) /\ Len(unit.stmts) \in Nat
    BY FunctionFacts
  <2>. QED BY <1>2, <2>1
<1>4. ~ TakenAhead
  BY <1>3 DEF TakenAhead
<1>. QED BY <1>1, <1>3, <1>4 DEF VisitedDefined, ForeignIsFound

\* In a program that is accepted every function that was declared ahead got a body,
\* and each body was visited with the type of its own heading, whatever nested
\* functions and variables took the names of others meanwhile.
THEOREM DefinitionsOwned == Spec => []DefinitionsAreOwn
<1>1. ASSUME Structure, Definitions PROVE DefinitionsAreOwn
  <2>1. Accepted => /\ \A i \in Functions : i \in bodies
                    /\ slips \intersect {"foreign", "return"} = {}
    BY <1>1, NothingAhead
  <2>. QED BY <2>1 DEF DefinitionsAreOwn, Functions
<1>2. Structure /\ Definitions => DefinitionsAreOwn
  BY <1>1
<1>. QED BY <1>2, DefinitionsHold, PTL

\* In a program that is accepted a return has a value exactly when the function it
\* returns from is a FUNC, however deep it is nested and whosever type the body was
\* visited with.
THEOREM ReturnsFit == Spec => []ReturnsAgree
<1>1. ASSUME Structure, Definitions PROVE ReturnsAgree
  <2>1. Accepted => slips \intersect {"foreign", "return"} = {}
    BY <1>1, NothingAhead
  <2>. QED BY <2>1 DEF ReturnsAgree
<1>2. Structure /\ Definitions => ReturnsAgree
  BY <1>1
<1>. QED BY <1>2, DefinitionsHold, PTL
=============================================================================
