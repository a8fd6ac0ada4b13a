---------------------------- MODULE Codegen_proofs ----------------------------
(* Proofs about Codegen: where code is inserted, that the blocks of finished   *)
(* functions end and go to blocks of the same function, that they end once,    *)
(* that the blocks that can be executed are those the source says, and that    *)
(* the phi of a logical expression has the values of its operands.             *)
EXTENDS Codegen, SequenceFacts

\* Constructs that hold a list of statements, and remember the last one.
Statements == {"fn", "then", "else", "loop", "block", "case"}

\* k is the position of the innermost function around frame i.
FnPos(st, i, k) == /\ k \in 1..i /\ st[k].kind = "fn"
                   /\ \A j \in (k + 1)..i : st[j].kind # "fn"
FnAt(st, i) == LET k == CHOOSE j \in 1..i : FnPos(st, i, j) IN st[k].entry

\* The blocks that were made for a construct and that it has still to attach; those
\* of an alternative of a select are found in the frame below.
AwaitsOf(below, fr) ==
  IF fr.kind = "then" THEN {fr.else, fr.rest}
  ELSE IF fr.kind \in {"else", "loop"} THEN {fr.rest}
  ELSE IF fr.kind \in {"select", "match", "logic"} THEN {fr.merge}
  ELSE IF fr.kind = "case" /\ below.kind = "select" /\ below.more THEN {below.else}
  ELSE {}
Awaits(st, i) == AwaitsOf(st[i - 1], st[i])

\* The code of the construct so far ends where nothing may follow it.
Ended(fr) == \/ fr.kind \in Statements \ {"loop"} /\ fr.last = "return"
             \/ fr.kind = "select" /\ ~ fr.more
             \/ fr.kind = "match"

\* What may stand around what.
IsExpression(fr) == fr.kind = "logic" \/ (fr.kind = "fn" /\ fr.lambda)
Fits(below, fr) ==
  IF fr.kind = "case" THEN below.kind \in {"select", "match"}
  ELSE IF IsExpression(fr)
  THEN below.kind \in Statements \union {"select", "logic"} /\ ~ Ended(below)
  ELSE below.kind \in Statements /\ below.last # "return"
Nests(st) ==
  st # <<>> => /\ st[1].kind = "fn" /\ ~ st[1].lambda /\ st[1].saved = NoBlock
               /\ \A i \in 2..Len(st) : Fits(st[i - 1], st[i])

\* The blocks a construct has attached, or goes back to, are of its function, and no
\* function is visited twice.
Known(st, fn, i) ==
  /\ st[i].kind = "fn" =>
        /\ fn[st[i].entry] = st[i].entry
        /\ \A j \in 1..(i - 1) : st[j].kind = "fn" => st[j].entry # st[i].entry
  /\ st[i].kind = "fn" /\ i > 1 => st[i].saved # NoBlock /\ fn[st[i].saved] = FnAt(st, i - 1)
  /\ st[i].kind = "loop" => fn[st[i].body] = FnAt(st, i)
  /\ st[i].kind = "match" => fn[st[i].switch] = FnAt(st, i)

\* The blocks that constructs have still to attach are attached to nothing, and each
\* is awaited by one construct.
Placed(st, fn, m) ==
  /\ st \in Seq(FramesOf(m)) /\ Nests(st)
  /\ \A i \in DOMAIN st : Known(st, fn, i)
  /\ \A i \in DOMAIN st : \A t \in Awaits(st, i) : t \in 1..m /\ fn[t] = NoBlock
  /\ \A i, j \in DOMAIN st : i # j => Awaits(st, i) \intersect Awaits(st, j) = {}

Inserting(st, fn, b) ==
  IF st = <<>> THEN b = NoBlock ELSE b # NoBlock /\ fn[b] = FnAt(st, Len(st))

-----------------------------------------------------------------------------
(* Blocks.                                                                    *)

Terms(code)   == {k \in DOMAIN code : code[k] # Code}
Targets(code) == UNION {code[k].to : k \in DOMAIN code}

\* Where nested functions go back to; which blocks are still attached to function f;
\* in which function a loop waits whose body ended in a return.
Saved(st)        == {st[i].saved : i \in {j \in DOMAIN st : j > 1 /\ st[j].kind = "fn"}}
Waits(st, t, f)  == \E i \in DOMAIN st : t \in Awaits(st, i) /\ f = FnAt(st, i)
Soiled(st, f)    == \E i \in DOMAIN st : /\ st[i].kind = "loop" /\ st[i].last = "return"
                                         /\ f = FnAt(st, i)

\* Block b: empty until it is attached; it ends, unless code is or will be inserted
\* in it; it goes to blocks that are or will be attached to its function.
Goes(st, fn, code, b) == \A t \in Targets(code) : fn[t] = fn[b] \/ Waits(st, t, fn[b])
Finishes(st, code, i, b) == Terms(code) # {} \/ b = i \/ b \in Saved(st)

\* In a function without a buried return it ends once, and what code may still be
\* inserted in has no end.
EndsOnce(st, code, i, b) ==
  /\ Terms(code) \subseteq {Len(code)}
  /\ b \in Saved(st) => Terms(code) = {}
  /\ b = i /\ st # <<>> /\ ~ Ended(st[Len(st)]) => Terms(code) = {}

Filled(st, fn, ct, i, bur) ==
  /\ \A b \in Blocks :
        IF fn[b] = NoBlock THEN ct[b] = <<>>
        ELSE /\ Goes(st, fn, ct[b], b)
             /\ Finishes(st, ct[b], i, b)
             /\ fn[b] \notin bur /\ ~ Soiled(st, fn[b]) => EndsOnce(st, ct[b], i, b)
  /\ st # <<>> /\ Ended(st[Len(st)]) => Terms(ct[i]) # {}

BlocksInv == /\ TypeOK
             /\ Placed(stack, fnOf, made)
             /\ Inserting(stack, fnOf, ins)
             /\ Filled(stack, fnOf, content, ins, buried)

-----------------------------------------------------------------------------
(* Frames.                                                                    *)

LEMMA FrameFacts ==
  ASSUME NEW m \in Nat, NEW fr \in FramesOf(m)
  PROVE  /\ fr.kind \in Statements \union {"select", "match", "logic"}
         /\ fr.kind \in Statements => fr.last \in Lasts
         /\ fr.kind = "fn" => /\ fr.entry \in 1..m /\ fr.proc \in BOOLEAN
                              /\ fr.lambda \in BOOLEAN /\ fr.saved \in 0..m /\ fr.was \in BOOLEAN
         /\ fr.kind = "then" => fr.else \in 1..m /\ fr.rest \in 1..m /\ fr.was \in BOOLEAN
         /\ fr.kind = "else" => fr.rest \in 1..m /\ fr.out \in BOOLEAN
         /\ fr.kind = "loop" => fr.body \in 1..m /\ fr.rest \in 1..m /\ fr.was \in BOOLEAN
         /\ fr.kind = "select" => /\ fr.merge \in 1..m /\ fr.else \in 0..m
                                  /\ fr.more \in BOOLEAN /\ fr.was \in BOOLEAN
         /\ fr.kind = "match" => /\ fr.merge \in 1..m /\ fr.switch \in 1..m
                                 /\ fr.cases \in Nat /\ fr.was \in BOOLEAN
         /\ fr.kind = "logic" => /\ fr.merge \in 1..m /\ fr.current \in 1..m
                                 /\ fr.count \in Nat /\ fr.ready \in BOOLEAN
BY DEF FramesOf, Statements

LEMMA FramesWider ==
  ASSUME NEW m \in Nat, NEW n \in Nat, m <= n
  PROVE  FramesOf(m) \subseteq FramesOf(n)
<1>1. 1..m \subseteq 1..n /\ 0..m \subseteq 0..n
  OBVIOUS
<1>2. ASSUME NEW fr \in FramesOf(m) PROVE fr \in FramesOf(n)
  <2> DEFINE S == 1..m
             Z == 0..m
             S2 == 1..n
             Z2 == 0..n
  <2> HIDE DEF S, Z, S2, Z2
  <2>1. S \subseteq S2 /\ Z \subseteq Z2
    BY <1>1 DEF S, Z, S2, Z2
  <2>. QED BY <2>1 DEF FramesOf, S, Z, S2, Z2
<1>. QED BY <1>2

\* A frame that was told what its last statement was.
LEMMA FrameAfter ==
  ASSUME NEW m \in Nat, NEW fr \in FramesOf(m), fr.kind \in Statements, NEW form \in Lasts
  PROVE  /\ [fr EXCEPT !.last = form] \in FramesOf(m)
         /\ [fr EXCEPT !.last = form].last = form
         /\ [fr EXCEPT !.last = form].kind = fr.kind
         /\ fr.kind = "fn" => /\ [fr EXCEPT !.last = form].entry = fr.entry
                              /\ [fr EXCEPT !.last = form].saved = fr.saved
                              /\ [fr EXCEPT !.last = form].lambda = fr.lambda
         /\ fr.kind = "then" => /\ [fr EXCEPT !.last = form].else = fr.else
                                /\ [fr EXCEPT !.last = form].rest = fr.rest
         /\ fr.kind = "else" => [fr EXCEPT !.last = form].rest = fr.rest
         /\ fr.kind = "loop" => /\ [fr EXCEPT !.last = form].body = fr.body
                                /\ [fr EXCEPT !.last = form].rest = fr.rest
BY DEF FramesOf, Statements

-----------------------------------------------------------------------------
(* The function around a frame.                                               *)

LEMMA FnAtIs ==
  ASSUME NEW st, NEW i \in Nat, NEW k \in 1..i, FnPos(st, i, k)
  PROVE  FnAt(st, i) = st[k].entry
<1> DEFINE c == CHOOSE j \in 1..i : FnPos(st, i, j)
<1>1. c \in 1..i /\ FnPos(st, i, c)
  OBVIOUS
<1> HIDE DEF c
<1>2. c = k
  <2>1. ~ (c < k)
    <3>1. c < k => k \in (c + 1)..i
      BY <1>1
    <3>. QED BY <1>1, <3>1 DEF FnPos
  <2>2. ~ (k < c)
    <3>1. k < c => c \in (k + 1)..i
      BY <1>1
    <3>. QED BY <1>1, <3>1 DEF FnPos
  <2>. QED BY <1>1, <2>1, <2>2
<1>3. FnAt(st, i) = st[c].entry
  BY DEF FnAt, c
<1>. QED BY <1>2, <1>3

LEMMA FnPosExists ==
  ASSUME NEW st, NEW i \in Nat \ {0}, st[1].kind = "fn"
  PROVE  \E k \in 1..i : FnPos(st, i, k)
<1> DEFINE S == {k \in 1..i : st[k].kind = "fn"}
<1>1. 1 \in S /\ S \in SUBSET (1..i)
  OBVIOUS
<1>2. PICK k \in S : \A j \in S : j <= k
  <2> HIDE DEF S
  <2>. QED BY <1>1, GreatestExists
<1>3. ASSUME NEW j \in (k + 1)..i PROVE st[j].kind # "fn"
  <2>1. j \in 1..i /\ ~ (j <= k)
    OBVIOUS
  <2>. QED BY <1>2, <2>1
<1>. QED BY <1>3 DEF FnPos

\* It is the frame itself, or that around the frame below.
LEMMA FnAtStep ==
  ASSUME NEW st, NEW i \in Nat \ {0}, st[1].kind = "fn"
  PROVE  /\ st[i].kind = "fn" => FnAt(st, i) = st[i].entry
         /\ st[i].kind # "fn" => i > 1 /\ FnAt(st, i) = FnAt(st, i - 1)
<1>1. ASSUME st[i].kind = "fn" PROVE FnAt(st, i) = st[i].entry
  <2>1. FnPos(st, i, i) /\ i \in 1..i
    BY <1>1 DEF FnPos
  <2>. QED BY <2>1, FnAtIs
<1>2. ASSUME st[i].kind # "fn" PROVE i > 1 /\ FnAt(st, i) = FnAt(st, i - 1)
  <2>1. i > 1 /\ i - 1 \in Nat \ {0}
    BY <1>2
  <2>2. PICK k \in 1..(i - 1) : FnPos(st, i - 1, k)
    BY <2>1, FnPosExists
  <2>3. FnPos(st, i, k) /\ k \in 1..i
    <3>1. \A j \in (k + 1)..i : j \in (k + 1)..(i - 1) \/ j = i
      OBVIOUS
    <3>. QED BY <1>2, <2>2, <3>1 DEF FnPos
  <2>4. FnAt(st, i) = st[k].entry
    BY <2>3, FnAtIs
  <2>5. FnAt(st, i - 1) = st[k].entry
    BY <2>1, <2>2, FnAtIs
  <2>. QED BY <2>1, <2>4, <2>5
<1>. QED BY <1>1, <1>2

\* It is the entry of a function that is being visited.
LEMMA FnAtVisited ==
  ASSUME NEW st, NEW i \in Nat \ {0}, st[1].kind = "fn"
  PROVE  \E k \in 1..i : st[k].kind = "fn" /\ FnAt(st, i) = st[k].entry
<1>1. PICK k \in 1..i : FnPos(st, i, k)
  BY FnPosExists
<1>. QED BY <1>1, FnAtIs DEF FnPos

\* What stands further in does not matter.
LEMMA FnAtSame ==
  ASSUME NEW st, NEW su, NEW i \in Nat \ {0}, st[1].kind = "fn",
         \A j \in 1..i : st[j].kind = su[j].kind /\ (st[j].kind = "fn" => st[j].entry = su[j].entry)
  PROVE  FnAt(st, i) = FnAt(su, i)
<1>1. PICK k \in 1..i : FnPos(st, i, k)
  BY FnPosExists
<1>2. FnPos(su, i, k)
  <2>1. \A j \in (k + 1)..i : j \in 1..i
    OBVIOUS
  <2>. QED BY <1>1, <2>1 DEF FnPos
<1>3. FnAt(st, i) = st[k].entry /\ FnAt(su, i) = su[k].entry
  BY <1>1, <1>2, FnAtIs
<1>. QED BY <1>1, <1>3 DEF FnPos

LEMMA CurrentFnIs == CurrentFn = FnAt(stack, Len(stack))
BY DEF CurrentFn, FnAt, FnPos

-----------------------------------------------------------------------------
(* The stack of frames.                                                       *)

\* Frames that differ in nothing but what was visited of them.
Alike(a, b) ==
  /\ a.kind = b.kind
  /\ a.kind = "fn"     => a.entry = b.entry /\ a.saved = b.saved /\ a.lambda = b.lambda
  /\ a.kind = "then"   => a.else = b.else /\ a.rest = b.rest
  /\ a.kind = "else"   => a.rest = b.rest
  /\ a.kind = "loop"   => a.body = b.body /\ a.rest = b.rest
  /\ a.kind = "select" => a.merge = b.merge /\ a.more = b.more /\ a.else = b.else
  /\ a.kind = "match"  => a.merge = b.merge /\ a.switch = b.switch
  /\ a.kind = "logic"  => a.merge = b.merge

LEMMA AlikeItself ==
  ASSUME NEW a PROVE Alike(a, a)
BY DEF Alike

\* What is said of a frame depends on those up to it only.
LEMMA SameUpTo ==
  ASSUME NEW st, NEW su, NEW i \in Nat \ {0}, st[1].kind = "fn",
         \A j \in 1..i : Alike(st[j], su[j])
  PROVE  FnAt(su, i) = FnAt(st, i) /\ Awaits(su, i) = Awaits(st, i)
<1>1. FnAt(su, i) = FnAt(st, i)
  <2>1. \A j \in 1..i : st[j].kind = su[j].kind /\ (st[j].kind = "fn" => st[j].entry = su[j].entry)
    BY DEF Alike
  <2>. QED BY <2>1, FnAtSame
<1>2. i > 1 => i - 1 \in 1..i
  OBVIOUS
<1>3. Alike(st[i], su[i]) /\ (i > 1 => Alike(st[i - 1], su[i - 1]))
      /\ (i = 1 => st[i].kind = "fn") /\ (i # 1 => i > 1)
  BY <1>2
<1>4. Awaits(su, i) = Awaits(st, i)
  BY <1>3 DEF Awaits, AwaitsOf, Alike
<1>. QED BY <1>1, <1>4

LEMMA SameKnown ==
  ASSUME NEW st, NEW su, NEW i \in Nat \ {0}, st[1].kind = "fn",
         \A j \in 1..i : Alike(st[j], su[j]), NEW fn
  PROVE  Known(su, fn, i) <=> Known(st, fn, i)
<1>1. FnAt(su, i) = FnAt(st, i)
  BY SameUpTo
<1>2. i > 1 => FnAt(su, i - 1) = FnAt(st, i - 1)
  <2> SUFFICES ASSUME i > 1 PROVE FnAt(su, i - 1) = FnAt(st, i - 1)
    OBVIOUS
  <2>1. i - 1 \in Nat \ {0} /\ \A j \in 1..(i - 1) : j \in 1..i
    OBVIOUS
  <2>. QED BY <2>1, SameUpTo
<1>3. Alike(st[i], su[i]) /\ \A j \in 1..(i - 1) : Alike(st[j], su[j])
  OBVIOUS
<1>. QED BY <1>1, <1>2, <1>3 DEF Known, Alike

Awaited(st, t) == \E i \in DOMAIN st : t \in Awaits(st, i)

\* The first frame is that of a function at the top level.
StandsOn(st, fr) ==
  IF st = <<>> THEN fr.kind = "fn" /\ ~ fr.lambda /\ fr.saved = NoBlock
               ELSE Fits(st[Len(st)], fr)

\* The stack with one frame more.
LEMMA PushFacts ==
  ASSUME NEW m \in Nat, NEW st \in Seq(FramesOf(m)), NEW fr \in FramesOf(m),
         NEW su, su = Append(st, fr)
  PROVE  /\ su \in Seq(FramesOf(m)) /\ su # <<>> /\ Len(st) \in Nat
         /\ DOMAIN st = 1..Len(st)
         /\ Len(su) = Len(st) + 1 /\ DOMAIN su = 1..(Len(st) + 1)
         /\ \A i \in 1..Len(st) : su[i] = st[i] /\ i \in 1..(Len(st) + 1)
         /\ su[Len(st) + 1] = fr /\ su[Len(su)] = fr
         /\ Len(st) + 1 \in 1..(Len(st) + 1)
         /\ \A i \in 1..(Len(st) + 1) : i \in 1..Len(st) \/ i = Len(st) + 1
<1>1. /\ su \in Seq(FramesOf(m)) /\ su # <<>>
      /\ Len(st) \in Nat /\ Len(su) = Len(st) + 1
      /\ \A i \in 1..Len(st) : su[i] = st[i]
      /\ su[Len(st) + 1] = fr
  BY AppendFacts
<1>2. DOMAIN st = 1..Len(st) /\ DOMAIN su = 1..Len(su)
  <2>1. \A S, s : s \in Seq(S) => DOMAIN s = 1..Len(s)
    OBVIOUS
  <2>. QED BY <1>1, <2>1
<1>3. \A n \in Nat : /\ \A i \in 1..n : i \in 1..(n + 1)
                     /\ n + 1 \in 1..(n + 1)
                     /\ \A i \in 1..(n + 1) : i \in 1..n \/ i = n + 1
  OBVIOUS
<1>. QED BY <1>1, <1>2, <1>3

LEMMA NestsPush ==
  ASSUME NEW m \in Nat, NEW st \in Seq(FramesOf(m)), NEW fr \in FramesOf(m),
         NEW su, su = Append(st, fr)
  PROVE  Nests(su) <=> Nests(st) /\ StandsOn(st, fr)
<1> DEFINE n == Len(st)
<1>1. /\ su # <<>> /\ n \in Nat /\ Len(su) = n + 1
      /\ \A i \in 1..n : su[i] = st[i]
      /\ su[n + 1] = fr
  BY PushFacts
<1> HIDE DEF n
<1>2. CASE st = <<>>
  <2>1. n = 0
    BY <1>2 DEF n
  <2>2. 2..(n + 1) = {} /\ su[1] = fr
    BY <1>1, <2>1
  <2>. QED BY <1>1, <1>2, <2>2 DEF Nests, StandsOn
<1>3. CASE st # <<>>
  <2>1. n \in Nat \ {0}
    BY <1>1, <1>3 DEF n
  <2>2. su[1] = st[1] /\ su[n] = st[n] /\ su[n + 1] = fr
    BY <1>1, <2>1
  <2>3. (\A i \in 2..(n + 1) : Fits(su[i - 1], su[i])) <=>
           (\A i \in 2..n : Fits(st[i - 1], st[i])) /\ Fits(st[n], fr)
    <3>1. ASSUME NEW i \in 2..n PROVE su[i - 1] = st[i - 1] /\ su[i] = st[i] /\ i \in 2..(n + 1)
      <4>1. i - 1 \in 1..n /\ i \in 1..n /\ i \in 2..(n + 1)
        BY <2>1
      <4>. QED BY <1>1, <4>1
    <3>2. n + 1 \in 2..(n + 1) /\ (n + 1) - 1 = n
      BY <2>1
    <3>3. \A i \in 2..(n + 1) : i \in 2..n \/ i = n + 1
      BY <2>1
    <3>. QED BY <2>2, <3>1, <3>2, <3>3
  <2>. QED BY <1>1, <1>3, <2>2, <2>3 DEF Nests, StandsOn, n
<1>. QED BY <1>2, <1>3

LEMMA PushSame ==
  ASSUME NEW m \in Nat, NEW st \in Seq(FramesOf(m)), NEW fr \in FramesOf(m), Nests(st),
         NEW su, su = Append(st, fr)
  PROVE  \A i \in 1..Len(st) : FnAt(su, i) = FnAt(st, i) /\ Awaits(su, i) = Awaits(st, i)
<1> SUFFICES ASSUME NEW i \in 1..Len(st)
             PROVE  FnAt(su, i) = FnAt(st, i) /\ Awaits(su, i) = Awaits(st, i)
  OBVIOUS
<1>1. Len(st) \in Nat /\ i \in Nat \ {0} /\ st # <<>> /\ \A j \in 1..i : j \in 1..Len(st)
  OBVIOUS
<1>2. \A j \in 1..Len(st) : su[j] = st[j]
  BY PushFacts
<1>3. \A j \in 1..i : Alike(st[j], su[j])
  BY <1>1, <1>2, AlikeItself
<1>4. st[1].kind = "fn"
  BY <1>1 DEF Nests
<1>. QED BY <1>1, <1>3, <1>4, SameUpTo

\* The function around the frame that is pushed.
FnOn(st, fr) == IF fr.kind = "fn" THEN fr.entry ELSE FnAt(st, Len(st))

LEMMA PushFn ==
  ASSUME NEW m \in Nat, NEW st \in Seq(FramesOf(m)), NEW fr \in FramesOf(m), Nests(st),
         StandsOn(st, fr), NEW su, su = Append(st, fr)
  PROVE  FnAt(su, Len(st) + 1) = FnOn(st, fr)
<1> DEFINE n == Len(st)
<1>1. /\ su # <<>> /\ n \in Nat /\ Len(su) = n + 1
      /\ su[n + 1] = fr /\ (st = <<>> <=> n = 0)
  BY PushFacts
<1>2. su[1].kind = "fn"
  BY <1>1, NestsPush DEF Nests
<1>0. \A i \in 1..n : FnAt(su, i) = FnAt(st, i)
  BY PushSame
<1> HIDE DEF n
<1>3. n + 1 \in Nat \ {0} /\ (n + 1) - 1 = n
  BY <1>1
<1>4. fr.kind = "fn" => FnAt(su, n + 1) = fr.entry
  <2>1. su[n + 1].kind = "fn" => FnAt(su, n + 1) = su[n + 1].entry
    BY <1>2, <1>3, FnAtStep
  <2>. QED BY <1>1, <2>1
<1>5. fr.kind # "fn" => n + 1 > 1 /\ FnAt(su, n + 1) = FnAt(su, n)
  <2>1. su[n + 1].kind # "fn" => n + 1 > 1 /\ FnAt(su, n + 1) = FnAt(su, (n + 1) - 1)
    BY <1>2, <1>3, FnAtStep
  <2>. QED BY <1>1, <1>3, <2>1
<1>6. fr.kind # "fn" => FnAt(su, n) = FnAt(st, n)
  <2>1. fr.kind # "fn" => n \in 1..n
    BY <1>1, <1>5
  <2>. QED BY <1>0, <2>1
<1>. QED BY <1>4, <1>5, <1>6 DEF FnOn, n

\* The blocks that it waits for.
Brings(st, fr) == IF st = <<>> THEN {} ELSE AwaitsOf(st[Len(st)], fr)

LEMMA PushAwaits ==
  ASSUME NEW m \in Nat, NEW st \in Seq(FramesOf(m)), NEW fr \in FramesOf(m),
         StandsOn(st, fr), NEW su, su = Append(st, fr)
  PROVE  Awaits(su, Len(st) + 1) = Brings(st, fr)
<1> DEFINE n == Len(st)
<1>1. /\ n \in Nat /\ (\A i \in 1..n : su[i] = st[i])
      /\ su[n + 1] = fr /\ (st = <<>> <=> n = 0)
  BY PushFacts
<1>2. st = <<>> => fr.kind = "fn"
  BY DEF StandsOn
<1> HIDE DEF n
<1>3. n # 0 => su[n] = st[n]
  <2>1. n # 0 => n \in 1..n
    BY <1>1
  <2>. QED BY <1>1, <2>1
<1>4. (n + 1) - 1 = n
  BY <1>1
<1>5. Awaits(su, n + 1) = AwaitsOf(su[n], fr)
  BY <1>1, <1>4 DEF Awaits
<1>6. fr.kind = "fn" => AwaitsOf(su[n], fr) = {}
  BY DEF AwaitsOf
<1>7. CASE st = <<>>
  BY <1>2, <1>5, <1>6, <1>7 DEF Brings, n
<1>8. CASE st # <<>>
  BY <1>1, <1>3, <1>5, <1>8 DEF Brings, n
<1>. QED BY <1>7, <1>8

LEMMA PushKnown ==
  ASSUME NEW m \in Nat, NEW st \in Seq(FramesOf(m)), NEW fr \in FramesOf(m), Nests(st),
         NEW su, su = Append(st, fr), NEW fn, NEW i \in 1..Len(st)
  PROVE  Known(su, fn, i) <=> Known(st, fn, i)
<1>1. Len(st) \in Nat /\ i \in Nat \ {0} /\ st # <<>> /\ \A j \in 1..i : j \in 1..Len(st)
  OBVIOUS
<1>2. \A j \in 1..Len(st) : su[j] = st[j]
  BY PushFacts
<1>3. \A j \in 1..i : Alike(st[j], su[j])
  BY <1>1, <1>2, AlikeItself
<1>4. st[1].kind = "fn"
  BY <1>1 DEF Nests
<1>. QED BY <1>1, <1>3, <1>4, SameKnown

\* A stack is what is below the innermost frame, and that frame.
LEMMA Split ==
  ASSUME NEW m \in Nat, NEW st \in Seq(FramesOf(m)), st # <<>>
  PROVE  /\ SubSeq(st, 1, Len(st) - 1) \in Seq(FramesOf(m)) /\ st[Len(st)] \in FramesOf(m)
         /\ st = Append(SubSeq(st, 1, Len(st) - 1), st[Len(st)])
<1> DEFINE b == SubSeq(st, 1, Len(st) - 1)
<1>1. /\ b \in Seq(FramesOf(m)) /\ Len(st) \in Nat \ {0} /\ Len(b) = Len(st) - 1
      /\ \A i \in 1..(Len(st) - 1) : b[i] = st[i]
  BY FrontFacts
<1> HIDE DEF b
<1>2. st[Len(st)] \in FramesOf(m)
  BY <1>1
<1>3. st = Append(b, st[Len(st)])
  BY <1>1, <1>2
<1>. QED BY <1>1, <1>2, <1>3 DEF b

\* A frame that is pushed is what is known of its own blocks.
KnownOf(st, fr, fn) ==
  /\ fr.kind = "fn" =>
        /\ fn[fr.entry] = fr.entry
        /\ \A j \in 1..Len(st) : st[j].kind = "fn" => st[j].entry # fr.entry
  /\ fr.kind = "fn" /\ st # <<>> => fr.saved # NoBlock /\ fn[fr.saved] = FnAt(st, Len(st))
  /\ fr.kind = "loop" => fn[fr.body] = FnAt(st, Len(st))
  /\ fr.kind = "match" => fn[fr.switch] = FnAt(st, Len(st))

LEMMA KnownPush ==
  ASSUME NEW m \in Nat, NEW st \in Seq(FramesOf(m)), NEW fr \in FramesOf(m), Nests(st),
         StandsOn(st, fr), NEW su, su = Append(st, fr), NEW fn
  PROVE  Known(su, fn, Len(st) + 1) <=> KnownOf(st, fr, fn)
<1> DEFINE n == Len(st)
<1>1. n \in Nat /\ su[n + 1] = fr /\ (st = <<>> <=> n = 0)
  BY PushFacts
<1>2. FnAt(su, n + 1) = FnOn(st, fr)
  BY PushFn
<1>3. \A i \in 1..n : FnAt(su, i) = FnAt(st, i)
  BY PushSame
<1>4. n # 0 => FnAt(su, n) = FnAt(st, n)
  BY <1>1, <1>3
<1> HIDE DEF n
<1>5. (n + 1) - 1 = n /\ (n + 1 > 1 <=> n # 0)
  BY <1>1
<1>6. Known(su, fn, n + 1) <=>
        /\ fr.kind = "fn" =>
              /\ fn[fr.entry] = fr.entry
              /\ \A j \in 1..n : su[j].kind = "fn" => su[j].entry # fr.entry
        /\ fr.kind = "fn" /\ n # 0 => fr.saved # NoBlock /\ fn[fr.saved] = FnAt(su, n)
        /\ fr.kind = "loop" => fn[fr.body] = FnAt(su, n + 1)
        /\ fr.kind = "match" => fn[fr.switch] = FnAt(su, n + 1)
  BY <1>1, <1>5 DEF Known
<1>7. /\ fr.kind = "loop" => FnAt(su, n + 1) = FnAt(st, n)
      /\ fr.kind = "match" => FnAt(su, n + 1) = FnAt(st, n)
  BY <1>2 DEF FnOn, n
<1>8. \A j \in 1..n : su[j] = st[j]
  BY PushFacts DEF n
<1>. QED BY <1>1, <1>4, <1>6, <1>7, <1>8 DEF KnownOf, n

Joins(st, fr, fn, m) ==
  /\ StandsOn(st, fr) /\ KnownOf(st, fr, fn)
  /\ \A t \in Brings(st, fr) : t \in 1..m /\ fn[t] = NoBlock /\ ~ Awaited(st, t)

\* A stack is well placed if what is below the innermost frame is, and that frame on it.
LEMMA PlacedPush ==
  ASSUME NEW m \in Nat, NEW st \in Seq(FramesOf(m)), NEW fr \in FramesOf(m),
         NEW su, su = Append(st, fr), NEW fn
  PROVE  Placed(su, fn, m) <=> Placed(st, fn, m) /\ Joins(st, fr, fn, m)
<1> DEFINE n == Len(st)
           new == Brings(st, fr)
<1>1. /\ su \in Seq(FramesOf(m)) /\ n \in Nat /\ DOMAIN st = 1..n /\ DOMAIN su = 1..(n + 1)
      /\ \A i \in 1..n : i \in 1..(n + 1)
      /\ n + 1 \in 1..(n + 1)
      /\ \A i \in 1..(n + 1) : i \in 1..n \/ i = n + 1
      /\ \A i \in 1..n : i # n + 1
  BY PushFacts
<1>2. Nests(su) <=> Nests(st) /\ StandsOn(st, fr)
  BY NestsPush
<1> SUFFICES ASSUME Nests(st), StandsOn(st, fr)
             PROVE  Placed(su, fn, m) <=>
                      /\ Placed(st, fn, m) /\ KnownOf(st, fr, fn)
                      /\ \A t \in new : t \in 1..m /\ fn[t] = NoBlock /\ ~ Awaited(st, t)
  BY <1>2 DEF Placed, Joins
<1>3. /\ \A i \in 1..n : Awaits(su, i) = Awaits(st, i) /\ (Known(su, fn, i) <=> Known(st, fn, i))
      /\ Awaits(su, n + 1) = new
      /\ Known(su, fn, n + 1) <=> KnownOf(st, fr, fn)
  <2>1. \A i \in 1..n : Awaits(su, i) = Awaits(st, i)
    BY PushSame
  <2>2. \A i \in 1..n : Known(su, fn, i) <=> Known(st, fn, i)
    BY PushKnown
  <2>3. Awaits(su, n + 1) = new
    BY PushAwaits
  <2>4. Known(su, fn, n + 1) <=> KnownOf(st, fr, fn)
    BY KnownPush
  <2>. QED BY <2>1, <2>2, <2>3, <2>4
<1> HIDE DEF n, new
<1>4. (\A i \in DOMAIN su : Known(su, fn, i)) <=>
        (\A i \in DOMAIN st : Known(st, fn, i)) /\ KnownOf(st, fr, fn)
  BY <1>1, <1>3
<1>5. (\A i \in DOMAIN su : \A t \in Awaits(su, i) : t \in 1..m /\ fn[t] = NoBlock) <=>
        /\ \A i \in DOMAIN st : \A t \in Awaits(st, i) : t \in 1..m /\ fn[t] = NoBlock
        /\ \A t \in new : t \in 1..m /\ fn[t] = NoBlock
  BY <1>1, <1>3
<1>6. (\A i, j \in DOMAIN su : i # j => Awaits(su, i) \intersect Awaits(su, j) = {}) <=>
        /\ \A i, j \in DOMAIN st : i # j => Awaits(st, i) \intersect Awaits(st, j) = {}
        /\ \A t \in new : ~ Awaited(st, t)
  <2>1. (\A t \in new : ~ Awaited(st, t)) <=>
           \A i \in 1..n : Awaits(st, i) \intersect new = {}
    BY <1>1 DEF Awaited
  <2>2. ASSUME \A i, j \in 1..(n + 1) : i # j => Awaits(su, i) \intersect Awaits(su, j) = {}
        PROVE  /\ \A i, j \in 1..n : i # j => Awaits(st, i) \intersect Awaits(st, j) = {}
               /\ \A i \in 1..n : Awaits(st, i) \intersect new = {}
    <3>1. ASSUME NEW i \in 1..n, NEW j \in 1..n, i # j
          PROVE  Awaits(st, i) \intersect Awaits(st, j) = {}
      <4>1. Awaits(su, i) \intersect Awaits(su, j) = {}
        BY <1>1, <2>2, <3>1
      <4>. QED BY <1>3, <4>1
    <3>2. ASSUME NEW i \in 1..n
          PROVE  Awaits(st, i) \intersect new = {}
      <4>1. Awaits(su, i) \intersect Awaits(su, n + 1) = {}
        BY <1>1, <2>2
      <4>. QED BY <1>3, <4>1
    <3>. QED BY <3>1, <3>2
  <2>3. ASSUME \A i, j \in 1..n : i # j => Awaits(st, i) \intersect Awaits(st, j) = {},
               \A i \in 1..n : Awaits(st, i) \intersect new = {},
               NEW i \in 1..(n + 1), NEW j \in 1..(n + 1), i # j
        PROVE  Awaits(su, i) \intersect Awaits(su, j) = {}
    <3>1. CASE i \in 1..n /\ j \in 1..n
      BY <1>3, <2>3, <3>1
    <3>2. CASE i \in 1..n /\ j = n + 1
      BY <1>3, <2>3, <3>2
    <3>3. CASE j \in 1..n /\ i = n + 1
      BY <1>3, <2>3, <3>3
    <3>. QED BY <1>1, <2>3, <3>1, <3>2, <3>3
  <2>. QED BY <1>1, <2>1, <2>2, <2>3
<1>. QED BY <1>1, <1>2, <1>4, <1>5, <1>6 DEF Placed

-----------------------------------------------------------------------------
(* What blocks are told of the stack.                                         *)

LEMMA FnAtIn ==
  ASSUME NEW m \in Nat, NEW st, NEW fn, Placed(st, fn, m), NEW i \in 1..Len(st)
  PROVE  FnAt(st, i) \in 1..m /\ fn[FnAt(st, i)] = FnAt(st, i)
<1>1. st \in Seq(FramesOf(m)) /\ st # <<>> /\ i \in Nat \ {0} /\ DOMAIN st = 1..Len(st)
  BY DEF Placed
<1>2. st[1].kind = "fn"
  BY <1>1 DEF Placed, Nests
<1>3. PICK k \in 1..i : st[k].kind = "fn" /\ FnAt(st, i) = st[k].entry
  BY <1>1, <1>2, FnAtVisited
<1>4. k \in 1..Len(st)
  BY <1>1
<1>5. st[k] \in FramesOf(m)
  BY <1>1, <1>4
<1>6. Known(st, fn, k)
  BY <1>1, <1>4 DEF Placed
<1>. QED BY <1>3, <1>5, <1>6, FrameFacts DEF Known

\* Where a nested function goes back to is in a function further out.
LEMMA SavedElsewhere ==
  ASSUME NEW m \in Nat, NEW st, NEW fn, Placed(st, fn, m), NEW b \in Saved(st)
  PROVE  b \in 1..m /\ fn[b] \in 1..m /\ fn[b] # FnAt(st, Len(st))
<1> DEFINE n == Len(st)
<1>1. st \in Seq(FramesOf(m)) /\ n \in Nat /\ DOMAIN st = 1..n
  BY DEF Placed
<1>2. PICK k \in 1..n : k > 1 /\ st[k].kind = "fn" /\ b = st[k].saved
  BY <1>1 DEF Saved
<1>3. st[k] \in FramesOf(m) /\ st # <<>> /\ n \in Nat \ {0}
  BY <1>1, <1>2
<1>4. st[1].kind = "fn"
  BY <1>3 DEF Placed, Nests
<1>5. k - 1 \in Nat \ {0} /\ k - 1 \in 1..n /\ k \in Nat
  BY <1>1, <1>2
<1>6. b # NoBlock /\ b \in 0..m /\ fn[b] = FnAt(st, k - 1)
  <2>1. Known(st, fn, k)
    BY <1>1, <1>2 DEF Placed
  <2>2. b \in 0..m
    BY <1>2, <1>3, FrameFacts
  <2>. QED BY <1>2, <2>1, <2>2 DEF Known
<1>7. FnAt(st, k - 1) \in 1..m
  BY <1>5, FnAtIn
<1>8. PICK q \in 1..(k - 1) : st[q].kind = "fn" /\ FnAt(st, k - 1) = st[q].entry
  BY <1>4, <1>5, FnAtVisited
<1>9. PICK p \in 1..n : FnPos(st, n, p)
  BY <1>3, <1>4, FnPosExists
<1>10. FnAt(st, n) = st[p].entry
  BY <1>1, <1>9, FnAtIs
<1>11. ~ (p < k)
  <2>1. p < k => k \in (p + 1)..n
    BY <1>1, <1>2, <1>9
  <2>. QED BY <1>2, <1>9, <2>1 DEF FnPos
<1>12. q \in 1..(p - 1)
  BY <1>5, <1>8, <1>9, <1>11
<1>13. st[q].entry # st[p].entry
  <2>1. Known(st, fn, p)
    BY <1>1, <1>9 DEF Placed
  <2>2. st[p].kind = "fn"
    BY <1>9 DEF FnPos
  <2>. QED BY <1>8, <1>12, <2>1, <2>2 DEF Known
<1>14. b \in 1..m
  BY <1>6 DEF NoBlock
<1>. QED BY <1>6, <1>7, <1>8, <1>10, <1>13, <1>14

LEMMA AwaitedPush ==
  ASSUME NEW m \in Nat, NEW st \in Seq(FramesOf(m)), NEW fr \in FramesOf(m), Nests(st),
         StandsOn(st, fr), NEW su, su = Append(st, fr), NEW t
  PROVE  Awaited(su, t) <=> Awaited(st, t) \/ t \in Brings(st, fr)
<1> DEFINE n == Len(st)
<1>1. /\ n \in Nat /\ DOMAIN st = 1..n /\ DOMAIN su = 1..(n + 1)
      /\ \A i \in 1..n : i \in 1..(n + 1)
      /\ n + 1 \in 1..(n + 1)
      /\ \A i \in 1..(n + 1) : i \in 1..n \/ i = n + 1
  BY PushFacts
<1>2. \A i \in 1..n : Awaits(su, i) = Awaits(st, i)
  BY PushSame
<1>3. Awaits(su, n + 1) = Brings(st, fr)
  BY PushAwaits
<1> HIDE DEF n
<1>. QED BY <1>1, <1>2, <1>3 DEF Awaited

LEMMA WaitsPush ==
  ASSUME NEW m \in Nat, NEW st \in Seq(FramesOf(m)), NEW fr \in FramesOf(m), Nests(st),
         StandsOn(st, fr), NEW su, su = Append(st, fr), NEW t, NEW f
  PROVE  Waits(su, t, f) <=> Waits(st, t, f) \/ (t \in Brings(st, fr) /\ f = FnOn(st, fr))
<1> DEFINE n == Len(st)
<1>1. /\ n \in Nat /\ DOMAIN st = 1..n /\ DOMAIN su = 1..(n + 1)
      /\ \A i \in 1..n : i \in 1..(n + 1)
      /\ n + 1 \in 1..(n + 1)
      /\ \A i \in 1..(n + 1) : i \in 1..n \/ i = n + 1
  BY PushFacts
<1>2. \A i \in 1..n : FnAt(su, i) = FnAt(st, i) /\ Awaits(su, i) = Awaits(st, i)
  BY PushSame
<1>3. Awaits(su, n + 1) = Brings(st, fr)
  BY PushAwaits
<1>4. FnAt(su, n + 1) = FnOn(st, fr)
  BY PushFn
<1> HIDE DEF n
<1>. QED BY <1>1, <1>2, <1>3, <1>4 DEF Waits

LEMMA SoiledPush ==
  ASSUME NEW m \in Nat, NEW st \in Seq(FramesOf(m)), NEW fr \in FramesOf(m), Nests(st),
         StandsOn(st, fr), NEW su, su = Append(st, fr), NEW f
  PROVE  Soiled(su, f) <=>
           \/ Soiled(st, f)
           \/ fr.kind = "loop" /\ fr.last = "return" /\ f = FnOn(st, fr)
<1> DEFINE n == Len(st)
<1>1. /\ n \in Nat /\ DOMAIN st = 1..n /\ DOMAIN su = 1..(n + 1)
      /\ \A i \in 1..n : su[i] = st[i] /\ i \in 1..(n + 1)
      /\ su[n + 1] = fr /\ n + 1 \in 1..(n + 1)
      /\ \A i \in 1..(n + 1) : i \in 1..n \/ i = n + 1
  BY PushFacts
<1>2. \A i \in 1..n : FnAt(su, i) = FnAt(st, i)
  BY PushSame
<1>4. FnAt(su, n + 1) = FnOn(st, fr)
  BY PushFn
<1> HIDE DEF n
<1>. QED BY <1>1, <1>2, <1>4 DEF Soiled

LEMMA SavedPush ==
  ASSUME NEW m \in Nat, NEW st \in Seq(FramesOf(m)), NEW fr \in FramesOf(m),
         NEW su, su = Append(st, fr), NEW b
  PROVE  b \in Saved(su) <=> b \in Saved(st) \/ (st # <<>> /\ fr.kind = "fn" /\ b = fr.saved)
<1> DEFINE n == Len(st)
<1>1. /\ n \in Nat /\ DOMAIN st = 1..n /\ DOMAIN su = 1..(n + 1)
      /\ \A i \in 1..n : su[i] = st[i] /\ i \in 1..(n + 1)
      /\ su[n + 1] = fr /\ n + 1 \in 1..(n + 1)
      /\ \A i \in 1..(n + 1) : i \in 1..n \/ i = n + 1
  BY PushFacts
<1>2. st = <<>> <=> n = 0
  OBVIOUS
<1> HIDE DEF n
<1>3. n + 1 > 1 <=> n # 0
  BY <1>1
<1>4. b \in Saved(su) <=> \E i \in 1..(n + 1) : i > 1 /\ su[i].kind = "fn" /\ b = su[i].saved
  BY <1>1 DEF Saved
<1>5. b \in Saved(st) <=> \E i \in 1..n : i > 1 /\ st[i].kind = "fn" /\ b = st[i].saved
  BY <1>1 DEF Saved
<1>. QED BY <1>1, <1>2, <1>3, <1>4, <1>5

-----------------------------------------------------------------------------
(* Steps of the stack.                                                        *)

LEMMA AwaitedIn ==
  ASSUME NEW m, NEW st, NEW fn, Placed(st, fn, m), NEW t, Awaited(st, t)
  PROVE  t \in 1..m /\ fn[t] = NoBlock
BY DEF Awaited, Placed

\* Blocks may be made, and one be attached that no construct waits for.
LEMMA PlacedAttach ==
  ASSUME NEW m \in Nat, NEW m2 \in Nat, m <= m2, NEW st, NEW fn, Placed(st, fn, m),
         NEW fn2, NEW x, \A b \in 1..m : b # x => fn2[b] = fn[b],
         x \in 1..m => fn[x] = NoBlock, ~ Awaited(st, x)
  PROVE  Placed(st, fn2, m2)
<1>1. st \in Seq(FramesOf(m)) /\ Nests(st)
  BY DEF Placed
<1>2. st \in Seq(FramesOf(m2))
  BY <1>1, FramesWider, WiderSeq
<1>3. DOMAIN st = 1..Len(st) /\ Len(st) \in Nat
  BY <1>1
<1>4. ASSUME NEW b \in 1..m, fn[b] # NoBlock PROVE fn2[b] = fn[b]
  BY <1>4
<1>5. ASSUME NEW i \in DOMAIN st
      PROVE  Known(st, fn2, i)
  <2>1. st[i] \in FramesOf(m) /\ Known(st, fn, i)
    BY <1>1, <1>5 DEF Placed
  <2>2. FnAt(st, i) \in 1..m
    BY <1>3, FnAtIn
  <2>3. i > 1 => FnAt(st, i - 1) \in 1..m
    <3>1. i > 1 => i - 1 \in 1..Len(st)
      BY <1>3
    <3>. QED BY <3>1, FnAtIn
  <2>4. NoBlock \notin 1..m
    BY DEF NoBlock
  <2>5. /\ st[i].kind = "fn" => st[i].entry \in 1..m /\ st[i].saved \in 0..m
        /\ st[i].kind = "loop" => st[i].body \in 1..m
        /\ st[i].kind = "match" => st[i].switch \in 1..m
    BY <2>1, FrameFacts
  <2>6. st[i].kind = "fn" => fn2[st[i].entry] = st[i].entry
    BY <1>4, <2>1, <2>4, <2>5 DEF Known
  <2>7. st[i].kind = "fn" /\ i > 1 => st[i].saved # NoBlock /\ fn2[st[i].saved] = FnAt(st, i - 1)
    <3>1. \A k \in 0..m : k # NoBlock => k \in 1..m
      BY DEF NoBlock
    <3>. QED BY <1>4, <2>1, <2>3, <2>4, <2>5, <3>1 DEF Known
  <2>8. st[i].kind = "loop" => fn2[st[i].body] = FnAt(st, i)
    BY <1>4, <2>1, <2>2, <2>4, <2>5 DEF Known
  <2>9. st[i].kind = "match" => fn2[st[i].switch] = FnAt(st, i)
    BY <1>4, <2>1, <2>2, <2>4, <2>5 DEF Known
  <2>10. st[i].kind = "fn" => \A j \in 1..(i - 1) : st[j].kind = "fn" => st[j].entry # st[i].entry
    BY <2>1 DEF Known
  <2>. QED BY <2>6, <2>7, <2>8, <2>9, <2>10 DEF Known
<1>6. ASSUME NEW i \in DOMAIN st, NEW t \in Awaits(st, i)
      PROVE  t \in 1..m2 /\ fn2[t] = NoBlock
  <2>1. t \in 1..m /\ fn[t] = NoBlock
    BY DEF Placed
  <2>2. t # x
    BY DEF Awaited
  <2>. QED BY <2>1, <2>2
<1>7. \A i, j \in DOMAIN st : i # j => Awaits(st, i) \intersect Awaits(st, j) = {}
  BY DEF Placed
<1>. QED BY <1>1, <1>2, <1>5, <1>6, <1>7 DEF Placed

\* What is below the innermost frame, and that frame.
Under(st)  == SubSeq(st, 1, Len(st) - 1)
TopOf(st) == st[Len(st)]

LEMMA PlacedPop ==
  ASSUME NEW m \in Nat, NEW st, NEW fn, Placed(st, fn, m), st # <<>>
  PROVE  /\ Placed(Under(st), fn, m) /\ Under(st) \in Seq(FramesOf(m))
         /\ Nests(Under(st)) /\ Nests(st)
         /\ TopOf(st) \in FramesOf(m) /\ st = Append(Under(st), TopOf(st))
         /\ StandsOn(Under(st), TopOf(st)) /\ Joins(Under(st), TopOf(st), fn, m)
         /\ Len(Under(st)) \in Nat /\ Len(st) = Len(Under(st)) + 1
         /\ FnAt(st, Len(st)) = FnOn(Under(st), TopOf(st))
<1> DEFINE b == Under(st)
           o == TopOf(st)
<1>1. st \in Seq(FramesOf(m)) /\ Nests(st)
  BY DEF Placed
<1>2. b \in Seq(FramesOf(m)) /\ o \in FramesOf(m) /\ st = Append(b, o)
  BY <1>1, Split DEF Under, TopOf
<1> HIDE DEF b, o
<1>3. Placed(b, fn, m) /\ Joins(b, o, fn, m)
  BY <1>2, PlacedPush
<1>4. Nests(b)
  BY <1>3 DEF Placed
<1>5. Len(b) \in Nat /\ Len(st) = Len(b) + 1
  BY <1>2
<1>6. StandsOn(b, o)
  BY <1>3 DEF Joins
<1>7. FnAt(st, Len(b) + 1) = FnOn(b, o)
  BY <1>2, <1>4, <1>6, PushFn
<1>. QED BY <1>1, <1>2, <1>3, <1>4, <1>5, <1>6, <1>7 DEF b, o

LEMMA AlikeTop ==
  ASSUME NEW b, NEW o, NEW y, Alike(o, y)
  PROVE  /\ StandsOn(b, o) <=> StandsOn(b, y)
         /\ FnOn(b, o) = FnOn(b, y) /\ Brings(b, o) = Brings(b, y)
<1>1. StandsOn(b, o) <=> StandsOn(b, y)
  <2>1. \A below : Fits(below, o) <=> Fits(below, y)
    BY DEF Alike, Fits, IsExpression
  <2>. QED BY <2>1 DEF Alike, StandsOn
<1>2. FnOn(b, o) = FnOn(b, y)
  BY DEF Alike, FnOn
<1>3. Brings(b, o) = Brings(b, y)
  <2>1. \A below : AwaitsOf(below, o) = AwaitsOf(below, y)
    BY DEF Alike, AwaitsOf
  <2>. QED BY <2>1 DEF Brings
<1>. QED BY <1>1, <1>2, <1>3

LEMMA AlikeJoins ==
  ASSUME NEW b, NEW o, NEW y, Alike(o, y), NEW fn, NEW m
  PROVE  Joins(b, o, fn, m) <=> Joins(b, y, fn, m)
<1>1. KnownOf(b, o, fn) <=> KnownOf(b, y, fn)
  BY DEF Alike, KnownOf
<1>. QED BY <1>1, AlikeTop DEF Joins

\* Another frame, alike, in the place of the innermost one.
LEMMA Swap ==
  ASSUME NEW m \in Nat, NEW fn, NEW b \in Seq(FramesOf(m)), NEW o \in FramesOf(m),
         NEW y \in FramesOf(m), Alike(o, y), Placed(Append(b, o), fn, m)
  PROVE  /\ Placed(Append(b, y), fn, m) /\ Append(b, y) # <<>> /\ TopOf(Append(b, y)) = y
         /\ Len(Append(b, y)) = Len(Append(b, o))
         /\ FnAt(Append(b, y), Len(Append(b, y))) = FnAt(Append(b, o), Len(Append(b, o)))
         /\ Saved(Append(b, y)) = Saved(Append(b, o))
<1> DEFINE st == Append(b, o)
           su == Append(b, y)
<1>1. Placed(b, fn, m) /\ Joins(b, o, fn, m)
  BY PlacedPush
<1>2. StandsOn(b, o) /\ StandsOn(b, y) /\ Joins(b, y, fn, m)
  BY <1>1, AlikeTop, AlikeJoins DEF Joins
<1>3. FnOn(b, o) = FnOn(b, y) /\ Brings(b, o) = Brings(b, y)
  BY AlikeTop
<1>4. Placed(su, fn, m)
  BY <1>1, <1>2, PlacedPush
<1>5. Nests(b)
  BY <1>1 DEF Placed
<1>6. su # <<>> /\ su[Len(su)] = y /\ Len(b) \in Nat /\ Len(su) = Len(b) + 1 /\ Len(st) = Len(b) + 1
  BY AppendFacts
<1>7. FnAt(su, Len(su)) = FnAt(st, Len(st))
  <2>1. FnAt(su, Len(b) + 1) = FnOn(b, y)
    BY <1>2, <1>5, PushFn
  <2>2. FnAt(st, Len(b) + 1) = FnOn(b, o)
    BY <1>2, <1>5, PushFn
  <2>. QED BY <1>3, <1>6, <2>1, <2>2
<1>8. Saved(su) = Saved(st)
  <2>1. \A c : c \in Saved(su) <=> c \in Saved(b) \/ (b # <<>> /\ y.kind = "fn" /\ c = y.saved)
    BY SavedPush
  <2>2. \A c : c \in Saved(st) <=> c \in Saved(b) \/ (b # <<>> /\ o.kind = "fn" /\ c = o.saved)
    BY SavedPush
  <2>3. o.kind = y.kind /\ (o.kind = "fn" => o.saved = y.saved)
    BY DEF Alike
  <2>. QED BY <2>1, <2>2, <2>3
<1>. QED BY <1>4, <1>6, <1>7, <1>8 DEF TopOf

LEMMA SwapWaits ==
  ASSUME NEW m \in Nat, NEW b \in Seq(FramesOf(m)), NEW o \in FramesOf(m),
         NEW y \in FramesOf(m), Alike(o, y), Nests(b), StandsOn(b, o), NEW t, NEW f
  PROVE  Waits(Append(b, y), t, f) <=> Waits(Append(b, o), t, f)
<1>1. StandsOn(b, y) /\ Brings(b, o) = Brings(b, y) /\ FnOn(b, o) = FnOn(b, y)
  BY AlikeTop
<1>2. Waits(Append(b, y), t, f) <=> Waits(b, t, f) \/ (t \in Brings(b, y) /\ f = FnOn(b, y))
  BY <1>1, WaitsPush
<1>3. Waits(Append(b, o), t, f) <=> Waits(b, t, f) \/ (t \in Brings(b, o) /\ f = FnOn(b, o))
  BY WaitsPush
<1>. QED BY <1>1, <1>2, <1>3

LEMMA ReplacedLast ==
  ASSUME NEW S, NEW s \in Seq(S), NEW e \in S, NEW f \in S
  PROVE  [Append(s, e) EXCEPT ![Len(s) + 1] = f] = Append(s, f)
<1> DEFINE t == Append(s, e)
           u == [t EXCEPT ![Len(t)] = f]
           v == Append(s, f)
<1>1. /\ t \in Seq(S) /\ t # <<>> /\ Len(s) \in Nat /\ Len(t) = Len(s) + 1
      /\ \A i \in 1..Len(s) : t[i] = s[i]
  BY AppendFacts
<1>2. v \in Seq(S) /\ Len(v) = Len(s) + 1 /\ v[Len(s) + 1] = f /\ \A i \in 1..Len(s) : v[i] = s[i]
  BY AppendFacts
<1> HIDE DEF t, v
<1>3. /\ u \in Seq(S) /\ Len(u) = Len(t) /\ u[Len(t)] = f
      /\ \A i \in 1..(Len(t) - 1) : u[i] = t[i]
  BY <1>1, LastFacts
<1> HIDE DEF u
<1>4. ASSUME NEW i \in 1..(Len(s) + 1) PROVE u[i] = v[i]
  BY <1>1, <1>2, <1>3
<1>5. u = v
  BY <1>1, <1>2, <1>3, <1>4
<1>. QED BY <1>1, <1>5 DEF u, t, v

\* The stack whose innermost construct was told of a statement.
Told(o, form) == [o EXCEPT !.last = form]

LEMMA AfterIs ==
  ASSUME NEW m \in Nat, NEW fn, NEW st, Placed(st, fn, m), st # <<>>,
         TopOf(st).kind \in Statements, NEW form \in Lasts
  PROVE  /\ After(form, st) = Append(Under(st), Told(TopOf(st), form))
         /\ Told(TopOf(st), form) \in FramesOf(m) /\ Alike(TopOf(st), Told(TopOf(st), form))
         /\ Told(TopOf(st), form).last = form /\ Told(TopOf(st), form).kind = TopOf(st).kind
<1> DEFINE b == Under(st)
           o == TopOf(st)
           y == Told(o, form)
<1>1. /\ b \in Seq(FramesOf(m)) /\ o \in FramesOf(m) /\ st = Append(b, o)
      /\ Len(b) \in Nat /\ Len(st) = Len(b) + 1
  BY PlacedPop
<1>2. o.kind \in Statements
  OBVIOUS
<1>3. After(form, st) = [st EXCEPT ![Len(st)] = y]
  BY DEF After, Told, TopOf
<1> HIDE DEF b, o
<1>4. y \in FramesOf(m) /\ Alike(o, y) /\ y.last = form /\ y.kind = o.kind
  BY <1>1, <1>2, FrameAfter DEF Alike, Statements, Told
<1> HIDE DEF y
<1>5. [Append(b, o) EXCEPT ![Len(b) + 1] = y] = Append(b, y)
  BY <1>1, <1>4, ReplacedLast
<1>6. After(form, st) = Append(b, y)
  BY <1>1, <1>3, <1>5
<1>. QED BY <1>4, <1>6 DEF b, o, y

LEMMA AfterFacts ==
  ASSUME NEW m \in Nat, NEW fn, NEW st, Placed(st, fn, m), st # <<>>,
         TopOf(st).kind \in Statements, NEW form \in Lasts, NEW su, su = After(form, st)
  PROVE  /\ Placed(su, fn, m) /\ su # <<>> /\ TopOf(su) = Told(TopOf(st), form)
         /\ Len(su) = Len(st) /\ FnAt(su, Len(su)) = FnAt(st, Len(st))
         /\ Saved(su) = Saved(st)
<1>1. /\ Under(st) \in Seq(FramesOf(m)) /\ TopOf(st) \in FramesOf(m)
      /\ st = Append(Under(st), TopOf(st))
  BY PlacedPop
<1>2. /\ su = Append(Under(st), Told(TopOf(st), form)) /\ Told(TopOf(st), form) \in FramesOf(m)
      /\ Alike(TopOf(st), Told(TopOf(st), form))
  BY AfterIs
<1> DEFINE b == Under(st)
           o == TopOf(st)
           y == Told(o, form)
<1>3. /\ b \in Seq(FramesOf(m)) /\ o \in FramesOf(m) /\ y \in FramesOf(m) /\ Alike(o, y)
      /\ Placed(Append(b, o), fn, m)
  BY <1>1, <1>2
<1> HIDE DEF b, o, y
<1>4. /\ Placed(Append(b, y), fn, m) /\ Append(b, y) # <<>> /\ TopOf(Append(b, y)) = y
      /\ Len(Append(b, y)) = Len(Append(b, o))
      /\ FnAt(Append(b, y), Len(Append(b, y))) = FnAt(Append(b, o), Len(Append(b, o)))
      /\ Saved(Append(b, y)) = Saved(Append(b, o))
  BY <1>3, Swap
<1>5. su = Append(b, y) /\ st = Append(b, o)
  BY <1>1, <1>2 DEF b, o, y
<1>6. y = Told(TopOf(st), form)
  BY DEF y, o
<1>. QED BY <1>4, <1>5, <1>6

LEMMA AfterWaits ==
  ASSUME NEW m \in Nat, NEW fn, NEW st, Placed(st, fn, m), st # <<>>,
         TopOf(st).kind \in Statements, NEW form \in Lasts, NEW t, NEW f
  PROVE  Waits(After(form, st), t, f) <=> Waits(st, t, f)
<1>1. /\ Under(st) \in Seq(FramesOf(m)) /\ TopOf(st) \in FramesOf(m)
      /\ st = Append(Under(st), TopOf(st)) /\ Nests(Under(st)) /\ StandsOn(Under(st), TopOf(st))
  BY PlacedPop
<1>2. /\ After(form, st) = Append(Under(st), Told(TopOf(st), form))
      /\ Told(TopOf(st), form) \in FramesOf(m)
      /\ Alike(TopOf(st), Told(TopOf(st), form))
  BY AfterIs
<1>3. Waits(Append(Under(st), Told(TopOf(st), form)), t, f) <=>
        Waits(Append(Under(st), TopOf(st)), t, f)
  BY <1>1, <1>2, SwapWaits
<1>. QED BY <1>1, <1>2, <1>3

\* A return that ended the body of a loop is still known of.
LEMMA AfterSoiled ==
  ASSUME NEW m \in Nat, NEW fn, NEW st, Placed(st, fn, m), st # <<>>,
         TopOf(st).kind \in Statements, NEW form \in Lasts, NEW f
  PROVE  /\ Soiled(st, f) /\ (TopOf(st).last # "return" \/ form = "return") =>
              Soiled(After(form, st), f)
         /\ TopOf(st).kind = "loop" /\ form = "return" /\ f = FnAt(st, Len(st)) =>
              Soiled(After(form, st), f)
<1> DEFINE b == Under(st)
           o == TopOf(st)
           y == Told(o, form)
<1>1. /\ b \in Seq(FramesOf(m)) /\ o \in FramesOf(m) /\ st = Append(b, o)
      /\ Nests(b) /\ StandsOn(b, o) /\ FnAt(st, Len(st)) = FnOn(b, o)
  BY PlacedPop
<1>2. /\ After(form, st) = Append(b, y) /\ y \in FramesOf(m) /\ Alike(o, y)
      /\ y.last = form /\ y.kind = o.kind
  BY AfterIs
<1> HIDE DEF b, y, o
<1>3. StandsOn(b, y) /\ FnOn(b, o) = FnOn(b, y)
  BY <1>1, <1>2, AlikeTop
<1>4. Soiled(Append(b, y), f) <=>
        Soiled(b, f) \/ (y.kind = "loop" /\ y.last = "return" /\ f = FnOn(b, y))
  BY <1>1, <1>2, <1>3, SoiledPush
<1>5. Soiled(st, f) <=>
        Soiled(b, f) \/ (o.kind = "loop" /\ o.last = "return" /\ f = FnOn(b, o))
  <2>1. b \in Seq(FramesOf(m)) /\ o \in FramesOf(m) /\ Nests(b) /\ StandsOn(b, o)
    BY <1>1
  <2>2. Soiled(Append(b, o), f) <=>
          Soiled(b, f) \/ (o.kind = "loop" /\ o.last = "return" /\ f = FnOn(b, o))
    BY <2>1, SoiledPush
  <2>. QED BY <1>1, <2>2
<1>6. Soiled(st, f) /\ (o.last # "return" \/ form = "return") => Soiled(After(form, st), f)
  BY <1>1, <1>2, <1>3, <1>4, <1>5
<1>7. o.kind = "loop" /\ form = "return" /\ f = FnAt(st, Len(st)) => Soiled(After(form, st), f)
  BY <1>1, <1>2, <1>3, <1>4
<1>. QED BY <1>6, <1>7 DEF o

LEMMA PopWaits ==
  ASSUME NEW m \in Nat, NEW st, NEW fn, Placed(st, fn, m), st # <<>>, NEW t, NEW f
  PROVE  Waits(st, t, f) <=> \/ Waits(Under(st), t, f)
                             \/ t \in Brings(Under(st), TopOf(st)) /\ f = FnAt(st, Len(st))
<1> DEFINE b == Under(st)
           o == TopOf(st)
<1>1. /\ b \in Seq(FramesOf(m)) /\ o \in FramesOf(m)
      /\ Nests(b) /\ StandsOn(b, o)
  BY PlacedPop
<1>2. st = Append(b, o) /\ FnAt(st, Len(st)) = FnOn(b, o)
  BY PlacedPop
<1> HIDE DEF b, o
<1>3. Waits(Append(b, o), t, f) <=> Waits(b, t, f) \/ (t \in Brings(b, o) /\ f = FnOn(b, o))
  BY <1>1, WaitsPush
<1>. QED BY <1>2, <1>3 DEF b, o

LEMMA PopAwaited ==
  ASSUME NEW m \in Nat, NEW st, NEW fn, Placed(st, fn, m), st # <<>>, NEW t
  PROVE  Awaited(st, t) <=> Awaited(Under(st), t) \/ t \in Brings(Under(st), TopOf(st))
<1> DEFINE b == Under(st)
           o == TopOf(st)
<1>1. /\ b \in Seq(FramesOf(m)) /\ o \in FramesOf(m)
      /\ Nests(b) /\ StandsOn(b, o)
  BY PlacedPop
<1>2. st = Append(b, o)
  BY PlacedPop
<1> HIDE DEF b, o
<1>3. Awaited(Append(b, o), t) <=> Awaited(b, t) \/ t \in Brings(b, o)
  BY <1>1, AwaitedPush
<1>. QED BY <1>2, <1>3 DEF b, o

LEMMA PopSoiled ==
  ASSUME NEW m \in Nat, NEW st, NEW fn, Placed(st, fn, m), st # <<>>, NEW f
  PROVE  Soiled(st, f) <=>
           \/ Soiled(Under(st), f)
           \/ TopOf(st).kind = "loop" /\ TopOf(st).last = "return" /\ f = FnAt(st, Len(st))
<1> DEFINE b == Under(st)
           o == TopOf(st)
<1>1. /\ b \in Seq(FramesOf(m)) /\ o \in FramesOf(m)
      /\ Nests(b) /\ StandsOn(b, o)
  BY PlacedPop
<1>2. st = Append(b, o) /\ FnAt(st, Len(st)) = FnOn(b, o)
  BY PlacedPop
<1> HIDE DEF b, o
<1>3. Soiled(Append(b, o), f) <=>
        Soiled(b, f) \/ (o.kind = "loop" /\ o.last = "return" /\ f = FnOn(b, o))
  BY <1>1, SoiledPush
<1>. QED BY <1>2, <1>3 DEF b, o

LEMMA PopSaved ==
  ASSUME NEW m \in Nat, NEW st, NEW fn, Placed(st, fn, m), st # <<>>, NEW c
  PROVE  c \in Saved(st) <=>
           \/ c \in Saved(Under(st))
           \/ Under(st) # <<>> /\ TopOf(st).kind = "fn" /\ c = TopOf(st).saved
<1> DEFINE b == Under(st)
           o == TopOf(st)
<1>1. b \in Seq(FramesOf(m)) /\ o \in FramesOf(m)
  BY PlacedPop
<1>2. st = Append(b, o)
  BY PlacedPop
<1> HIDE DEF b, o
<1>3. c \in Saved(Append(b, o)) <=> c \in Saved(b) \/ (b # <<>> /\ o.kind = "fn" /\ c = o.saved)
  BY <1>1, SavedPush
<1>. QED BY <1>2, <1>3 DEF b, o

-----------------------------------------------------------------------------
(* Steps of the blocks.                                                       *)

LEMMA NothingYet == Terms(<<>>) = {} /\ Targets(<<>>) = {}
BY DEF Terms, Targets

\* Blocks stay attached, and only the one that code is inserted in next is attached.
Attaches(fn, fn2, i2) ==
  /\ \A b \in Blocks : fn[b] # NoBlock => fn2[b] = fn[b]
  /\ \A b \in Blocks : fn[b] = NoBlock /\ fn2[b] # NoBlock => b = i2

\* A block that was waited for still is, or was attached to the function it was for.
KeepsWaiting(st, st2, fn2) ==
  \A t, f : Waits(st, t, f) => Waits(st2, t, f) \/ fn2[t] = f

\* A function goes back, or one is entered and i is where it goes back to.
Returning(st, st2, i, i2) ==
  /\ \A b \in Saved(st) : b \in Saved(st2) \/ b = i2
  /\ \A b \in Saved(st2) : b \in Saved(st) \/ b = i

\* Code is inserted in the same block, in a new one or in one that was gone back to.
Moves(st, fn, i, i2) == i2 \in Blocks /\ i2 # i => fn[i2] = NoBlock \/ i2 \in Saved(st)

Remembers(st, bur, st2, bur2) ==
  \A f : f \in bur \/ Soiled(st, f) => f \in bur2 \/ Soiled(st2, f)

IsSoiled(st, bur, f) == f \in bur \/ Soiled(st, f)
Closed(st)           == st # <<>> /\ Ended(TopOf(st))

\* What other blocks hold goes where it did, or where it may.
KeepsCode(fn, ct, i, st2, fn2, ct2) ==
  /\ \A b \in Blocks : fn[b] = NoBlock =>
        IF fn2[b] = NoBlock THEN ct2[b] = ct[b] ELSE Terms(ct2[b]) = {} /\ Targets(ct2[b]) = {}
  /\ \A b \in Blocks : fn[b] # NoBlock /\ b # i =>
        Terms(ct2[b]) = Terms(ct[b]) /\ Len(ct2[b]) = Len(ct[b])
  /\ \A b \in Blocks : fn[b] # NoBlock => \A t \in Targets(ct2[b]) :
        t \in Targets(ct[b]) \/ fn2[t] = fn[b] \/ Waits(st2, t, fn[b])

GoInside(ct) == \A b \in Blocks : Targets(ct[b]) \subseteq Blocks

LEMMA FilledStep ==
  ASSUME NEW st, NEW fn, NEW ct, NEW i, NEW bur, Filled(st, fn, ct, i, bur), GoInside(ct),
         NEW st2, NEW fn2, NEW ct2, NEW i2, NEW bur2,
         Attaches(fn, fn2, i2), KeepsWaiting(st, st2, fn2), Returning(st, st2, i, i2),
         Moves(st, fn, i, i2), Remembers(st, bur, st2, bur2),
         KeepsCode(fn, ct, i, st2, fn2, ct2),
         i \in Blocks => Finishes(st2, ct2[i], i2, i),
         i \in Blocks /\ ~ IsSoiled(st2, bur2, fn[i]) => EndsOnce(st2, ct2[i], i2, i),
         Closed(st2) => Terms(ct2[i2]) # {}
  PROVE  Filled(st2, fn2, ct2, i2, bur2)
<1>. USE DEF Attaches, KeepsWaiting, Returning, Moves, Remembers, KeepsCode, GoInside, IsSoiled, Closed
<1>1. ASSUME NEW b \in Blocks, fn[b] = NoBlock, fn2[b] = NoBlock
      PROVE  ct2[b] = <<>>
  BY <1>1 DEF Filled
<1>2. ASSUME NEW b \in Blocks, fn[b] = NoBlock, fn2[b] # NoBlock
      PROVE  Goes(st2, fn2, ct2[b], b) /\ Finishes(st2, ct2[b], i2, b) /\ EndsOnce(st2, ct2[b], i2, b)
  <2>1. b = i2 /\ Terms(ct2[b]) = {} /\ Targets(ct2[b]) = {}
    BY <1>2
  <2>. QED BY <2>1 DEF Goes, Finishes, EndsOnce
<1>3. ASSUME NEW b \in Blocks, fn[b] # NoBlock
      PROVE  /\ Goes(st2, fn2, ct2[b], b) /\ Finishes(st2, ct2[b], i2, b)
             /\ fn2[b] \notin bur2 /\ ~ Soiled(st2, fn2[b]) => EndsOnce(st2, ct2[b], i2, b)
  <2>1. /\ Goes(st, fn, ct[b], b) /\ Finishes(st, ct[b], i, b)
        /\ fn[b] \notin bur /\ ~ Soiled(st, fn[b]) => EndsOnce(st, ct[b], i, b)
        /\ fn2[b] = fn[b]
    BY <1>3 DEF Filled
  <2>2. Goes(st2, fn2, ct2[b], b)
    <3>1. ASSUME NEW t \in Targets(ct2[b])
          PROVE  fn2[t] = fn[b] \/ Waits(st2, t, fn[b])
      <4>1. t \in Targets(ct[b]) => fn[t] = fn[b] \/ Waits(st, t, fn[b])
        BY <2>1 DEF Goes
      <4>2. t \in Targets(ct[b]) /\ fn[t] = fn[b] => fn2[t] = fn[b]
        BY <1>3
      <4>. QED BY <1>3, <4>1, <4>2
    <3>. QED BY <2>1, <3>1 DEF Goes
  <2>3. Finishes(st2, ct2[b], i2, b)
    <3>1. CASE b = i
      BY <3>1
    <3>2. CASE b # i
      <4>1. Terms(ct2[b]) = Terms(ct[b])
        BY <1>3, <3>2
      <4>2. Terms(ct[b]) # {} \/ b \in Saved(st)
        BY <2>1, <3>2 DEF Finishes
      <4>. QED BY <4>1, <4>2 DEF Finishes
    <3>. QED BY <3>1, <3>2
  <2>4. ASSUME fn2[b] \notin bur2, ~ Soiled(st2, fn2[b])
        PROVE  EndsOnce(st2, ct2[b], i2, b)
    <3>1. CASE b = i
      BY <2>1, <2>4, <3>1
    <3>2. CASE b # i
      <4>1. Terms(ct2[b]) = Terms(ct[b]) /\ Len(ct2[b]) = Len(ct[b])
        BY <1>3, <3>2
      <4>2. EndsOnce(st, ct[b], i, b)
        BY <2>1, <2>4
      <4>3. b \in Saved(st2) => b \in Saved(st)
        BY <3>2
      <4>4. b = i2 => b \in Saved(st)
        BY <1>3, <3>2
      <4>. QED BY <4>1, <4>2, <4>3, <4>4 DEF EndsOnce
    <3>. QED BY <3>1, <3>2
  <2>. QED BY <2>2, <2>3, <2>4
<1>. QED BY <1>1, <1>2, <1>3 DEF Filled, TopOf

\* The instructions of Codegen's type invariant when m blocks were made.
InstrOf(m) == [op : {"code", "ret", "br", "switch"}, to : SUBSET (1..m), on : Nat]

LEMMA InstrWider ==
  ASSUME NEW m \in Nat, NEW n \in Nat, m <= n
  PROVE  InstrOf(m) \subseteq InstrOf(n)
<1>1. SUBSET (1..m) \subseteq SUBSET (1..n)
  OBVIOUS
<1> DEFINE S == SUBSET (1..m)
           T == SUBSET (1..n)
<1>2. S \subseteq T
  BY <1>1
<1> HIDE DEF S, T
<1>3. [op : {"code", "ret", "br", "switch"}, to : S, on : Nat] \subseteq
        [op : {"code", "ret", "br", "switch"}, to : T, on : Nat]
  BY <1>2
<1>. QED BY <1>3 DEF InstrOf, S, T

LEMMA AppendCode ==
  ASSUME NEW S, NEW code \in Seq(S), NEW e \in S
  PROVE  /\ e # Code => Terms(Append(code, e)) = Terms(code) \union {Len(code) + 1}
         /\ e = Code => Terms(Append(code, e)) = Terms(code)
         /\ Targets(Append(code, e)) = Targets(code) \union e.to
<1> DEFINE new == Append(code, e)
           n == Len(code)
<1>1. /\ new \in Seq(S) /\ n \in Nat /\ Len(new) = n + 1
      /\ \A k \in 1..n : new[k] = code[k]
      /\ new[n + 1] = e
  BY AppendFacts
<1>2. DOMAIN code = 1..n /\ DOMAIN new = 1..(n + 1)
  <2>1. \A s : s \in Seq(S) => DOMAIN s = 1..Len(s)
    OBVIOUS
  <2> HIDE DEF n, new
  <2>. QED BY <1>1, <2>1 DEF n
<1> HIDE DEF new, n
<1>3. /\ \A k \in 1..n : k \in 1..(n + 1)
      /\ n + 1 \in 1..(n + 1) /\ n + 1 \notin 1..n
      /\ \A k \in 1..(n + 1) : k \in 1..n \/ k = n + 1
  BY <1>1
<1>4. e # Code => Terms(new) = Terms(code) \union {n + 1}
  BY <1>1, <1>2, <1>3 DEF Terms
<1>5. e = Code => Terms(new) = Terms(code)
  BY <1>1, <1>2, <1>3 DEF Terms
<1>6. Targets(new) = Targets(code) \union e.to
  <2>1. \A t : t \in Targets(new) <=> \E k \in 1..(n + 1) : t \in new[k].to
    BY <1>2 DEF Targets
  <2>2. \A t : t \in Targets(code) <=> \E k \in 1..n : t \in code[k].to
    BY <1>2 DEF Targets
  <2>. QED BY <1>1, <1>3, <2>1, <2>2
<1>. QED BY <1>4, <1>5, <1>6 DEF new, n

LEMMA InsertOther ==
  ASSUME NEW S, content \in [Blocks -> Seq(S)], NEW b \in Blocks, NEW e \in S
  PROVE  /\ Insert(b, e) \in [Blocks -> Seq(S)]
         /\ e # Code => Insert(b, e)[b] = Append(content[b], e)
         /\ e = Code => Insert(b, e)[b] = content[b] \/ Insert(b, e)[b] = Append(content[b], e)
<1>1. Append(content[b], e) \in Seq(S) /\ content[b] \in Seq(S)
  BY AppendFacts
<1> DEFINE v == IF e = Code /\ content[b] # <<>> /\ content[b][Len(content[b])] = Code
                  THEN content[b] ELSE Append(content[b], e)
<1>2. /\ v \in Seq(S)
      /\ e # Code => v = Append(content[b], e)
      /\ v = content[b] \/ v = Append(content[b], e)
  BY <1>1
<1>3. Insert(b, e) = [content EXCEPT ![b] = v]
  BY DEF Insert
<1> HIDE DEF v
<1>4. [content EXCEPT ![b] = v] \in [Blocks -> Seq(S)] /\ [content EXCEPT ![b] = v][b] = v
  BY <1>2
<1>. QED BY <1>2, <1>3, <1>4

LEMMA InsertElsewhere ==
  ASSUME NEW S, content \in [Blocks -> Seq(S)], NEW b \in Blocks, NEW e \in S,
         NEW c \in Blocks, c # b
  PROVE  Insert(b, e)[c] = content[c]
BY DEF Insert

LEMMA InsertTerminator ==
  ASSUME NEW S, content \in [Blocks -> Seq(S)], NEW b \in Blocks, NEW e \in S, e # Code
  PROVE  /\ Terms(Insert(b, e)[b]) # {}
         /\ Terms(content[b]) = {} => Terms(Insert(b, e)[b]) = {Len(Insert(b, e)[b])}
         /\ Targets(Insert(b, e)[b]) = Targets(content[b]) \union e.to
<1>1. content[b] \in Seq(S)
  OBVIOUS
<1>2. Insert(b, e)[b] = Append(content[b], e)
  BY InsertOther
<1>3. Len(Append(content[b], e)) = Len(content[b]) + 1
  BY <1>1, AppendFacts
<1>4. /\ Terms(Append(content[b], e)) = Terms(content[b]) \union {Len(content[b]) + 1}
      /\ Targets(Append(content[b], e)) = Targets(content[b]) \union e.to
  BY <1>1, AppendCode
<1>. QED BY <1>2, <1>3, <1>4

LEMMA InsertCode ==
  ASSUME NEW S, content \in [Blocks -> Seq(S)], NEW b \in Blocks, NEW e \in S, e = Code
  PROVE  /\ Terms(Insert(b, e)[b]) = Terms(content[b])
         /\ Targets(Insert(b, e)[b]) = Targets(content[b])
<1>1. content[b] \in Seq(S) /\ e.to = {}
  BY DEF Code
<1>2. Insert(b, e)[b] = content[b] \/ Insert(b, e)[b] = Append(content[b], e)
  BY InsertOther
<1>3. ASSUME NEW d \in S
      PROVE  /\ d = Code => Terms(Append(content[b], d)) = Terms(content[b])
             /\ Targets(Append(content[b], d)) = Targets(content[b]) \union d.to
  BY <1>1, AppendCode
<1>. QED BY <1>1, <1>2, <1>3

-----------------------------------------------------------------------------
(* Types after a step.                                                        *)

LEMMA Bounds == MaxBlocks \in Nat /\ (TypeOK => made \in Nat /\ made <= MaxBlocks)
BY BoundsAssumption DEF TypeOK

\* What is in the blocks, when m were made.
CodeTyped(ct, m) == /\ ct \in [Blocks -> Seq(InstrOf(m))]
                    /\ \A b \in Blocks : b > m => ct[b] = <<>>
FnTyped(fn, m)   == /\ fn \in [Blocks -> Blocks \union {NoBlock}]
                    /\ \A b \in Blocks : b > m => fn[b] = NoBlock
PhisTyped(p)     == p \in [Blocks -> SUBSET (Blocks \X (Nat \ {0}))]

LEMMA TypesAre ==
  TypeOK <=> /\ made \in 0..MaxBlocks /\ FnTyped(fnOf, made) /\ CodeTyped(content, made)
             /\ PhisTyped(phis) /\ ins \in 0..made /\ stack \in Seq(FramesOf(made))
             /\ live \in BOOLEAN /\ buried \subseteq 1..made
BY DEF TypeOK, FnTyped, CodeTyped, PhisTyped, Instructions, InstrOf

LEMMA CodeWider ==
  ASSUME NEW ct, NEW m \in Nat, NEW m2 \in Nat, m <= m2, CodeTyped(ct, m)
  PROVE  CodeTyped(ct, m2)
<1>1. \A b \in Blocks : ct[b] \in Seq(InstrOf(m2))
  BY InstrWider, WiderSeq DEF CodeTyped
<1>2. ct \in [Blocks -> Seq(InstrOf(m2))]
  BY <1>1 DEF CodeTyped
<1>3. ASSUME NEW b \in Blocks, b > m2 PROVE ct[b] = <<>>
  BY <1>3 DEF CodeTyped, Blocks
<1>. QED BY <1>2, <1>3 DEF CodeTyped

LEMMA FnWider ==
  ASSUME NEW fn, NEW m \in Nat, NEW m2 \in Nat, m <= m2, FnTyped(fn, m)
  PROVE  FnTyped(fn, m2)
BY DEF FnTyped, Blocks

LEMMA CodeInserted ==
  ASSUME BlocksInv, ins \in Blocks, NEW m2 \in Nat, made <= m2, NEW e \in InstrOf(m2)
  PROVE  CodeTyped(Insert(ins, e), m2)
<1>1. made \in Nat /\ ins \in 0..made /\ CodeTyped(content, made)
  BY TypesAre, Bounds DEF BlocksInv
<1>2. CodeTyped(content, m2)
  BY <1>1, CodeWider
<1>3. Insert(ins, e) \in [Blocks -> Seq(InstrOf(m2))]
  BY <1>2, InsertOther DEF CodeTyped
<1>4. ASSUME NEW b \in Blocks, b > m2 PROVE Insert(ins, e)[b] = <<>>
  <2>1. b # ins
    BY <1>1, <1>4 DEF Blocks
  <2>2. Insert(ins, e)[b] = content[b]
    BY <1>2, <2>1, InsertElsewhere DEF CodeTyped
  <2>. QED BY <1>2, <1>4, <2>2 DEF CodeTyped
<1>. QED BY <1>3, <1>4 DEF CodeTyped

LEMMA FnAttached ==
  ASSUME NEW fn, NEW m \in Nat, m <= MaxBlocks, FnTyped(fn, m), NEW x \in 1..m, NEW f \in 1..m
  PROVE  FnTyped([fn EXCEPT ![x] = f], m)
<1>1. x \in Blocks /\ f \in Blocks
  BY Bounds DEF Blocks
<1>2. [fn EXCEPT ![x] = f] \in [Blocks -> Blocks \union {NoBlock}]
  BY <1>1 DEF FnTyped
<1>3. ASSUME NEW b \in Blocks, b > m PROVE [fn EXCEPT ![x] = f][b] = NoBlock
  BY <1>1, <1>3 DEF FnTyped, Blocks
<1>. QED BY <1>2, <1>3 DEF FnTyped

\* The parts of the invariant after a step.
LEMMA Stepped ==
  ASSUME made' \in 0..MaxBlocks, FnTyped(fnOf', made'), CodeTyped(content', made'),
         PhisTyped(phis'), ins' \in 1..made', live' \in BOOLEAN, buried' \subseteq 1..made',
         Placed(stack', fnOf', made'), stack' # <<>>, fnOf'[ins'] = FnAt(stack', Len(stack')),
         Filled(stack', fnOf', content', ins', buried')
  PROVE  BlocksInv'
<1>1. stack' \in Seq(FramesOf(made'))
  BY DEF Placed
<1>2. ins' # NoBlock /\ ins' \in 0..made'
  BY DEF NoBlock
<1>3. TypeOK'
  BY <1>1, <1>2 DEF TypeOK, FnTyped, CodeTyped, PhisTyped, Instructions, InstrOf
<1>4. Inserting(stack', fnOf', ins')
  BY <1>2 DEF Inserting
<1>. QED BY <1>3, <1>4 DEF BlocksInv

-----------------------------------------------------------------------------
\* What is known of the block that code is inserted in.
LEMMA HereFacts ==
  ASSUME BlocksInv, stack # <<>>
  PROVE  /\ made \in Nat /\ stack \in Seq(FramesOf(made))
         /\ ins \in 1..made /\ ins \in Blocks /\ fnOf[ins] = CurrentFn /\ ins \notin Saved(stack)
         /\ CurrentFn \in 1..made /\ CurrentFn \in Blocks /\ CurrentFn # NoBlock
         /\ fnOf[CurrentFn] = CurrentFn /\ CurrentFn = FnAt(stack, Len(stack))
         /\ Top = TopOf(stack) /\ Below = Under(stack)
<1>1. /\ made \in Nat /\ stack \in Seq(FramesOf(made)) /\ ins \in 0..made /\ MaxBlocks \in Nat
      /\ made <= MaxBlocks
  BY Bounds DEF BlocksInv, TypeOK
<1>2. ins # NoBlock /\ fnOf[ins] = FnAt(stack, Len(stack))
  BY DEF BlocksInv, Inserting
<1>3. Len(stack) \in 1..Len(stack)
  BY <1>1
<1>4. /\ FnAt(stack, Len(stack)) \in 1..made
      /\ fnOf[FnAt(stack, Len(stack))] = FnAt(stack, Len(stack))
  BY <1>1, <1>3, FnAtIn DEF BlocksInv
<1>5. ins \notin Saved(stack)
  BY <1>1, <1>2, SavedElsewhere DEF BlocksInv
<1>6. ins \in 1..made /\ \A b \in 1..made : b \in Blocks /\ b # NoBlock
  BY <1>1, <1>2 DEF NoBlock, Blocks
<1>. QED BY <1>1, <1>2, <1>4, <1>5, <1>6, CurrentFnIs DEF Top, Below, TopOf, Under

LEMMA HereContent ==
  ASSUME BlocksInv, stack # <<>>
  PROVE  /\ CurrentFn \notin buried /\ ~ Soiled(stack, CurrentFn) =>
              /\ Terms(content[ins]) \subseteq {Len(content[ins])}
              /\ ~ Ended(Top) => Terms(content[ins]) = {}
         /\ Ended(Top) => Terms(content[ins]) # {}
<1>1. ins \in Blocks /\ fnOf[ins] = CurrentFn /\ CurrentFn # NoBlock
  BY HereFacts
<1>. QED BY <1>1 DEF BlocksInv, Filled, EndsOnce, Top

LEMMA TargetsMade ==
  ASSUME NEW m \in Nat, NEW code \in Seq(InstrOf(m))
  PROVE  Targets(code) \subseteq 1..m
<1>1. \A k \in DOMAIN code : code[k].to \subseteq 1..m
  <2>1. ASSUME NEW k \in DOMAIN code PROVE code[k] \in InstrOf(m)
    OBVIOUS
  <2>. QED BY <2>1 DEF InstrOf
<1>. QED BY <1>1 DEF Targets

LEMMA TargetsIn ==
  ASSUME TypeOK
  PROVE  /\ content \in [Blocks -> Seq(InstrOf(made))]
         /\ \A b \in Blocks : Targets(content[b]) \subseteq 1..made /\ Targets(content[b]) \subseteq Blocks
<1>1. content \in [Blocks -> Seq(InstrOf(made))] /\ made \in Nat
  BY Bounds DEF TypeOK, Instructions, InstrOf
<1>2. 1..made \subseteq Blocks
  BY Bounds DEF Blocks
<1>3. ASSUME NEW b \in Blocks PROVE Targets(content[b]) \subseteq 1..made
  BY <1>1, TargetsMade
<1>. QED BY <1>1, <1>2, <1>3

\* A terminator is inserted: then code is inserted elsewhere, or the construct has
\* ended.
LEMMA Terminate ==
  ASSUME BlocksInv, stack # <<>>, ~ Ended(Top),
         NEW m2 \in Nat, made <= m2, NEW e \in InstrOf(m2), e # Code,
         NEW st2, NEW fn2, NEW i2, NEW bur2,
         Attaches(fnOf, fn2, i2),
         \A t \in e.to : fn2[t] = CurrentFn \/ Waits(st2, t, CurrentFn),
         KeepsWaiting(stack, st2, fn2), Returning(stack, st2, ins, i2), Moves(stack, fnOf, ins, i2),
         ins \notin Saved(st2),
         Remembers(stack, buried, st2, bur2),
         i2 = ins => IsSoiled(st2, bur2, CurrentFn) \/ Closed(st2),
         Closed(st2) => i2 = ins
  PROVE  Filled(st2, fn2, Insert(ins, e), i2, bur2)
<1> DEFINE ct2 == Insert(ins, e)
<1>1. ins \in Blocks /\ fnOf[ins] = CurrentFn /\ ins \notin Saved(stack) /\ CurrentFn # NoBlock
  BY HereFacts
<1>2. content \in [Blocks -> Seq(InstrOf(m2))] /\ TypeOK /\ Filled(stack, fnOf, content, ins, buried)
  <2>1. CodeTyped(content, made) /\ made \in Nat
    BY TypesAre, Bounds DEF BlocksInv
  <2>. QED BY <2>1, CodeWider DEF BlocksInv, CodeTyped
<1>3. /\ Terms(ct2[ins]) # {}
      /\ Terms(content[ins]) = {} => Terms(ct2[ins]) = {Len(ct2[ins])}
      /\ Targets(ct2[ins]) = Targets(content[ins]) \union e.to
  BY <1>1, <1>2, InsertTerminator
<1>4. \A b \in Blocks : b # ins => ct2[b] = content[b]
  BY <1>1, <1>2, InsertElsewhere
<1>5. GoInside(content)
  BY <1>2, TargetsIn DEF GoInside
<1> HIDE DEF ct2
<1>6. \A b \in Blocks : fnOf[b] = NoBlock =>
         IF fn2[b] = NoBlock THEN ct2[b] = content[b]
                             ELSE Terms(ct2[b]) = {} /\ Targets(ct2[b]) = {}
  <2>1. \A b \in Blocks : fnOf[b] = NoBlock => b # ins /\ ct2[b] = content[b] /\ content[b] = <<>>
    BY <1>1, <1>2, <1>4 DEF Filled
  <2>. QED BY <2>1, NothingYet
<1>7. \A b \in Blocks : fnOf[b] # NoBlock /\ b # ins =>
         Terms(ct2[b]) = Terms(content[b]) /\ Len(ct2[b]) = Len(content[b])
  BY <1>4
<1>8. \A b \in Blocks : fnOf[b] # NoBlock => \A t \in Targets(ct2[b]) :
         t \in Targets(content[b]) \/ fn2[t] = fnOf[b] \/ Waits(st2, t, fnOf[b])
  BY <1>1, <1>3, <1>4
<1>9. Finishes(st2, ct2[ins], i2, ins)
  BY <1>3 DEF Finishes
<1>10. ~ IsSoiled(st2, bur2, fnOf[ins]) => EndsOnce(st2, ct2[ins], i2, ins)
  <2>1. ~ IsSoiled(st2, bur2, CurrentFn) => Terms(content[ins]) = {}
    BY HereContent DEF IsSoiled, Remembers
  <2>. QED BY <1>1, <1>3, <2>1 DEF EndsOnce, TopOf, Closed
<1>11. Closed(st2) => Terms(ct2[i2]) # {}
  BY <1>3
<1>12. KeepsCode(fnOf, content, ins, st2, fn2, ct2)
  BY <1>6, <1>7, <1>8 DEF KeepsCode
<1>13. Filled(st2, fn2, ct2, i2, bur2)
  BY <1>2, <1>5, <1>9, <1>10, <1>11, <1>12, FilledStep
<1>. QED BY <1>13 DEF ct2

\* Nothing ends a block.
LEMMA GoOn ==
  ASSUME BlocksInv, stack # <<>>, NEW st2, NEW fn2, NEW ct2, NEW i2, NEW bur2,
         ct2 = content \/ (~ Ended(Top) /\ ct2 = Insert(ins, Code)),
         Attaches(fnOf, fn2, i2),
         KeepsWaiting(stack, st2, fn2), Returning(stack, st2, ins, i2), Moves(stack, fnOf, ins, i2),
         Ended(Top) => ins \notin Saved(st2),
         i2 # ins => ins \in Saved(st2) \/ Ended(Top),
         Remembers(stack, buried, st2, bur2),
         Ended(Top) /\ i2 = ins => IsSoiled(st2, bur2, CurrentFn) \/ Closed(st2),
         Closed(st2) => i2 = ins /\ Ended(Top)
  PROVE  Filled(st2, fn2, ct2, i2, bur2)
<1>1. ins \in Blocks /\ fnOf[ins] = CurrentFn /\ ins \notin Saved(stack) /\ CurrentFn # NoBlock
  BY HereFacts
<1>2. content \in [Blocks -> Seq(Instructions)] /\ TypeOK /\ Filled(stack, fnOf, content, ins, buried)
  BY DEF BlocksInv, TypeOK
<1>3. Terms(ct2[ins]) = Terms(content[ins]) /\ Targets(ct2[ins]) = Targets(content[ins])
  <2>1. Code \in Instructions
    BY DEF Code, Instructions
  <2>2. /\ Terms(Insert(ins, Code)[ins]) = Terms(content[ins])
        /\ Targets(Insert(ins, Code)[ins]) = Targets(content[ins])
    BY <1>1, <1>2, <2>1, InsertCode
  <2>. QED BY <2>2
<1>4. \A b \in Blocks : b # ins => ct2[b] = content[b]
  <2>1. Code \in Instructions
    BY DEF Code, Instructions
  <2>. QED BY <1>1, <1>2, <2>1, InsertElsewhere
<1>5. GoInside(content)
  BY <1>2, TargetsIn DEF GoInside
<1>6. \A b \in Blocks : fnOf[b] = NoBlock =>
         IF fn2[b] = NoBlock THEN ct2[b] = content[b]
                             ELSE Terms(ct2[b]) = {} /\ Targets(ct2[b]) = {}
  <2>1. \A b \in Blocks : fnOf[b] = NoBlock => b # ins /\ ct2[b] = content[b] /\ content[b] = <<>>
    BY <1>1, <1>2, <1>4 DEF Filled
  <2>. QED BY <2>1, NothingYet
<1>7. \A b \in Blocks : fnOf[b] # NoBlock /\ b # ins =>
         Terms(ct2[b]) = Terms(content[b]) /\ Len(ct2[b]) = Len(content[b])
  BY <1>4
<1>8. \A b \in Blocks : fnOf[b] # NoBlock => \A t \in Targets(ct2[b]) :
         t \in Targets(content[b]) \/ fn2[t] = fnOf[b] \/ Waits(st2, t, fnOf[b])
  BY <1>1, <1>3, <1>4
<1>9. Finishes(st2, ct2[ins], i2, ins)
  BY <1>3, HereContent DEF Finishes
<1>10. ~ IsSoiled(st2, bur2, fnOf[ins]) => EndsOnce(st2, ct2[ins], i2, ins)
  <2> SUFFICES ASSUME ~ IsSoiled(st2, bur2, CurrentFn)
               PROVE  EndsOnce(st2, ct2[ins], i2, ins)
    BY <1>1
  <2>1. CurrentFn \notin buried /\ ~ Soiled(stack, CurrentFn)
    BY DEF IsSoiled, Remembers
  <2>2. CASE ~ Ended(Top)
    <3>1. Terms(ct2[ins]) = {}
      BY <1>3, <2>1, <2>2, HereContent
    <3>. QED BY <3>1 DEF EndsOnce
  <2>3. CASE Ended(Top)
    <3>1. ct2 = content /\ Terms(content[ins]) \subseteq {Len(content[ins])}
      BY <2>1, <2>3, HereContent
    <3>2. ins \notin Saved(st2)
      BY <2>3
    <3>3. ins = i2 => st2 # <<>> /\ Ended(TopOf(st2))
      BY <2>3 DEF Closed
    <3>. QED BY <3>1, <3>2, <3>3 DEF EndsOnce, TopOf
  <2>. QED BY <2>2, <2>3
<1>11. Closed(st2) => Terms(ct2[i2]) # {}
  BY <1>3, HereContent
<1>12. KeepsCode(fnOf, content, ins, st2, fn2, ct2)
  BY <1>6, <1>7, <1>8 DEF KeepsCode
<1>. QED BY <1>2, <1>5, <1>9, <1>10, <1>11, <1>12, FilledStep

-----------------------------------------------------------------------------
(* A construct is opened, or the innermost one is left.                       *)

LEMMA Opened ==
  ASSUME BlocksInv, stack # <<>>, NEW m2 \in Nat, made <= m2,
         NEW fn2, \A b \in 1..made : fn2[b] = fnOf[b],
         NEW fr \in FramesOf(m2), fr.kind # "fn", StandsOn(stack, fr), KnownOf(stack, fr, fn2),
         \A t \in Brings(stack, fr) : t \in (made + 1)..m2 /\ fn2[t] = NoBlock,
         NEW su, su = Append(stack, fr)
  PROVE  /\ Placed(su, fn2, m2) /\ su # <<>> /\ TopOf(su) = fr
         /\ FnAt(su, Len(su)) = CurrentFn /\ Saved(su) = Saved(stack)
         /\ KeepsWaiting(stack, su, fn2) /\ Remembers(stack, buried, su, buried)
         /\ \A t \in Brings(stack, fr) : Waits(su, t, CurrentFn)
<1>1. /\ made \in Nat /\ stack \in Seq(FramesOf(made)) /\ CurrentFn = FnAt(stack, Len(stack))
      /\ Placed(stack, fnOf, made)
  BY HereFacts DEF BlocksInv
<1>2. \A t : t \in (made + 1)..m2 => t \notin 1..made /\ t \in 1..m2
  BY <1>1
<1>3. \A t : t \in (made + 1)..m2 => ~ Awaited(stack, t)
  BY <1>1, <1>2, AwaitedIn
<1>4. Placed(stack, fn2, m2)
  <2>1. made + 1 \notin 1..made
    BY <1>1
  <2>2. ~ Awaited(stack, made + 1)
    BY <1>1, <2>1, AwaitedIn
  <2>. QED BY <1>1, <2>1, <2>2, PlacedAttach
<1>5. stack \in Seq(FramesOf(m2)) /\ Nests(stack)
  BY <1>4 DEF Placed
<1>6. Joins(stack, fr, fn2, m2)
  BY <1>2, <1>3 DEF Joins
<1>7. Placed(su, fn2, m2)
  BY <1>4, <1>5, <1>6, PlacedPush
<1>8. su # <<>> /\ su[Len(su)] = fr /\ Len(su) = Len(stack) + 1
  BY <1>5, AppendFacts
<1>9. FnOn(stack, fr) = CurrentFn
  BY <1>1 DEF FnOn
<1>10. FnAt(su, Len(su)) = CurrentFn
  <2>1. FnAt(su, Len(stack) + 1) = FnOn(stack, fr)
    BY <1>5, PushFn
  <2>. QED BY <1>8, <1>9, <2>1
<1>11. \A c : c \in Saved(su) <=> c \in Saved(stack)
  <2>1. ASSUME NEW c
        PROVE c \in Saved(su) <=> c \in Saved(stack) \/ (stack # <<>> /\ fr.kind = "fn" /\ c = fr.saved)
    BY <1>5, SavedPush
  <2>. QED BY <2>1
<1>12. ASSUME NEW t, NEW f
       PROVE  Waits(su, t, f) <=> Waits(stack, t, f) \/ (t \in Brings(stack, fr) /\ f = CurrentFn)
  <2>1. Waits(su, t, f) <=> Waits(stack, t, f) \/ (t \in Brings(stack, fr) /\ f = FnOn(stack, fr))
    BY <1>5, WaitsPush
  <2>. QED BY <1>9, <2>1
<1>13. ASSUME NEW f, Soiled(stack, f) PROVE Soiled(su, f)
  <2>1. Soiled(su, f) <=>
          \/ Soiled(stack, f)
          \/ fr.kind = "loop" /\ fr.last = "return" /\ f = FnOn(stack, fr)
    BY <1>5, SoiledPush
  <2>. QED BY <1>13, <2>1
<1>14. KeepsWaiting(stack, su, fn2)
  BY <1>12 DEF KeepsWaiting
<1>15. Remembers(stack, buried, su, buried)
  BY <1>13 DEF Remembers
<1>16. \A t \in Brings(stack, fr) : Waits(su, t, CurrentFn)
  BY <1>12
<1>17. Saved(su) = Saved(stack)
  BY <1>11
<1>. QED BY <1>7, <1>8, <1>10, <1>14, <1>15, <1>16, <1>17 DEF TopOf

\* What is below a construct that is no function.
LEMMA BelowFacts ==
  ASSUME BlocksInv, stack # <<>>, Top.kind # "fn"
  PROVE  /\ Below # <<>> /\ Placed(Below, fnOf, made) /\ FnAt(Below, Len(Below)) = CurrentFn
         /\ Saved(Below) = Saved(stack) /\ Fits(TopOf(Below), Top)
         /\ Joins(Below, Top, fnOf, made) /\ Top \in FramesOf(made)
         /\ Brings(Below, Top) = AwaitsOf(TopOf(Below), Top)
<1>1. /\ made \in Nat /\ CurrentFn = FnAt(stack, Len(stack)) /\ Placed(stack, fnOf, made)
      /\ Top = TopOf(stack) /\ Below = Under(stack)
  BY HereFacts DEF BlocksInv
<1>2. /\ Placed(Below, fnOf, made) /\ StandsOn(Below, Top) /\ Joins(Below, Top, fnOf, made)
      /\ FnAt(stack, Len(stack)) = FnOn(Below, Top) /\ Top \in FramesOf(made)
  BY <1>1, PlacedPop
<1>3. Below # <<>> /\ Fits(TopOf(Below), Top)
  BY <1>2 DEF StandsOn, TopOf
<1>4. FnAt(Below, Len(Below)) = CurrentFn
  BY <1>1, <1>2 DEF FnOn
<1>5. \A c : c \in Saved(stack) <=> c \in Saved(Below)
  <2>1. ASSUME NEW c
        PROVE  c \in Saved(stack) <=> c \in Saved(Below) \/ (Below # <<>> /\ Top.kind = "fn" /\ c = Top.saved)
    BY <1>1, PopSaved
  <2>. QED BY <2>1
<1>6. Brings(Below, Top) = AwaitsOf(TopOf(Below), Top)
  BY <1>3 DEF Brings, TopOf
<1>7. Saved(Below) = Saved(stack)
  BY <1>5
<1>. QED BY <1>2, <1>3, <1>4, <1>6, <1>7

LEMMA BelowWaits ==
  ASSUME BlocksInv, stack # <<>>, NEW t, NEW f
  PROVE  Waits(stack, t, f) <=> Waits(Below, t, f) \/ (t \in Brings(Below, Top) /\ f = CurrentFn)
<1>1. /\ made \in Nat /\ CurrentFn = FnAt(stack, Len(stack)) /\ Placed(stack, fnOf, made)
      /\ Top = TopOf(stack) /\ Below = Under(stack)
  BY HereFacts DEF BlocksInv
<1>2. Waits(stack, t, f) <=> \/ Waits(Under(stack), t, f)
                             \/ t \in Brings(Under(stack), TopOf(stack)) /\ f = FnAt(stack, Len(stack))
  BY <1>1, PopWaits
<1>. QED BY <1>1, <1>2

LEMMA BelowSoiled ==
  ASSUME BlocksInv, stack # <<>>, NEW f
  PROVE  Soiled(stack, f) <=> \/ Soiled(Below, f)
                              \/ Top.kind = "loop" /\ Top.last = "return" /\ f = CurrentFn
<1>1. /\ made \in Nat /\ CurrentFn = FnAt(stack, Len(stack)) /\ Placed(stack, fnOf, made)
      /\ Top = TopOf(stack) /\ Below = Under(stack)
  BY HereFacts DEF BlocksInv
<1>2. Soiled(stack, f) <=>
           \/ Soiled(Under(stack), f)
           \/ TopOf(stack).kind = "loop" /\ TopOf(stack).last = "return" /\ f = FnAt(stack, Len(stack))
  BY <1>1, PopSoiled
<1>. QED BY <1>1, <1>2

\* The block that a construct has still to attach is attached, if there is one.
Hands(x, fn2) == \/ Brings(Below, Top) = {} /\ fn2 = fnOf
                 \/ Brings(Below, Top) = {x} /\ fn2 = [fnOf EXCEPT ![x] = CurrentFn]

LEMMA Handed ==
  ASSUME BlocksInv, stack # <<>>, Top.kind # "fn", NEW x, NEW fn2, Hands(x, fn2)
  PROVE  /\ Placed(Below, fn2, made) /\ KeepsWaiting(stack, Below, fn2)
         /\ Attaches(fnOf, fn2, x)
         /\ x \in Brings(Below, Top) => /\ x \in 1..made /\ x \in Blocks /\ fnOf[x] = NoBlock
                                        /\ fn2[x] = CurrentFn
<1>1. made \in Nat /\ fnOf \in [Blocks -> Blocks \union {NoBlock}] /\ CurrentFn # NoBlock
      /\ \A b \in 1..made : b \in Blocks
  BY HereFacts, Bounds DEF BlocksInv, TypeOK, Blocks
<1>2. Placed(Below, fnOf, made) /\ Joins(Below, Top, fnOf, made)
  BY BelowFacts
<1>3. CASE Brings(Below, Top) = {} /\ fn2 = fnOf
  <2>1. KeepsWaiting(stack, Below, fn2)
    BY <1>3, BelowWaits DEF KeepsWaiting
  <2>2. Attaches(fnOf, fn2, x)
    BY <1>3 DEF Attaches
  <2>. QED BY <1>2, <1>3, <2>1, <2>2
<1>4. CASE Brings(Below, Top) = {x} /\ fn2 = [fnOf EXCEPT ![x] = CurrentFn]
  <2>1. x \in 1..made /\ fnOf[x] = NoBlock /\ ~ Awaited(Below, x)
    BY <1>2, <1>4 DEF Joins
  <2>2. x \in Blocks /\ fn2[x] = CurrentFn /\ \A b \in Blocks : b # x => fn2[b] = fnOf[b]
    BY <1>1, <1>4, <2>1
  <2>3. Placed(Below, fn2, made)
    BY <1>1, <1>2, <2>1, <2>2, PlacedAttach
  <2>4. KeepsWaiting(stack, Below, fn2)
    BY <1>4, <2>2, BelowWaits DEF KeepsWaiting
  <2>5. Attaches(fnOf, fn2, x)
    BY <2>1, <2>2 DEF Attaches
  <2>. QED BY <2>1, <2>2, <2>3, <2>4, <2>5
<1>. QED BY <1>3, <1>4 DEF Hands

LEMMA Done ==
  ASSUME BlocksInv, stack # <<>>,
         Top.kind \in {"then", "else", "loop", "block", "select", "match"},
         NEW form \in Lasts, NEW x, NEW fn2, Hands(x, fn2), NEW bur2, buried \subseteq bur2,
         Top.kind = "loop" /\ Top.last = "return" => CurrentFn \in bur2,
         NEW su, su = After(form, Below)
  PROVE  /\ Placed(su, fn2, made) /\ su # <<>> /\ TopOf(su) = Told(TopOf(Below), form)
         /\ TopOf(Below).kind \in Statements /\ TopOf(Below) \in FramesOf(made)
         /\ Ended(TopOf(su)) => form = "return"
         /\ FnAt(su, Len(su)) = CurrentFn /\ Saved(su) = Saved(stack)
         /\ KeepsWaiting(stack, su, fn2) /\ Remembers(stack, buried, su, bur2)
<1>1. made \in Nat
  BY HereFacts
<1>2. /\ Below # <<>> /\ FnAt(Below, Len(Below)) = CurrentFn /\ Saved(Below) = Saved(stack)
      /\ Fits(TopOf(Below), Top)
  BY BelowFacts
<1>3. Placed(Below, fn2, made) /\ KeepsWaiting(stack, Below, fn2)
  BY Handed
<1>4. TopOf(Below).kind \in Statements /\ TopOf(Below).last # "return"
  BY <1>2 DEF Fits, IsExpression
<1>5. /\ Placed(su, fn2, made) /\ su # <<>> /\ TopOf(su) = Told(TopOf(Below), form)
      /\ FnAt(su, Len(su)) = CurrentFn /\ Saved(su) = Saved(stack)
  BY <1>1, <1>2, <1>3, <1>4, AfterFacts
<1>6. ASSUME NEW t, NEW f PROVE Waits(su, t, f) <=> Waits(Below, t, f)
  BY <1>1, <1>2, <1>3, <1>4, AfterWaits
<1>7. KeepsWaiting(stack, su, fn2)
  BY <1>3, <1>6 DEF KeepsWaiting
<1>8. ASSUME NEW f, Soiled(Below, f) PROVE Soiled(su, f)
  BY <1>1, <1>2, <1>3, <1>4, <1>8, AfterSoiled
<1>9. Remembers(stack, buried, su, bur2)
  BY <1>8, BelowSoiled DEF Remembers
<1>10. TopOf(Below) \in FramesOf(made)
  BY <1>1, <1>2, <1>3, PlacedPop
<1>11. Told(TopOf(Below), form).last = form /\ Told(TopOf(Below), form).kind = TopOf(Below).kind
  BY <1>1, <1>2, <1>3, <1>4, AfterIs
<1>12. Ended(TopOf(su)) => form = "return"
  BY <1>4, <1>5, <1>11 DEF Ended, Statements
<1>. QED BY <1>4, <1>5, <1>7, <1>9, <1>10, <1>12

-----------------------------------------------------------------------------
(* Statements without blocks.                                                 *)

LEMMA AtStatementFacts ==
  ASSUME AtStatement
  PROVE  stack # <<>> /\ Top.kind \in Statements /\ Top.last # "return" /\ ~ Ended(Top)
         /\ (Top.kind = "case" => Top.last = "none")
BY DEF AtStatement, Statements, Ended

LEMMA AtExpressionFacts ==
  ASSUME AtExpression
  PROVE  /\ stack # <<>> /\ ~ Ended(Top)
         /\ Top.kind \in Statements \union {"select", "logic"}
<1>1. CASE AtStatement
  BY <1>1, AtStatementFacts
<1>2. CASE ~ AtStatement
  BY <1>2 DEF AtExpression, Ended, Statements
<1>. QED BY <1>1, <1>2

LEMMA SameBlocks ==
  ASSUME NEW st, NEW fn, NEW i, NEW b
  PROVE  Attaches(fn, fn, b) /\ Moves(st, fn, i, i)
BY DEF Attaches, Moves

LEMMA SameSaved ==
  ASSUME NEW st, NEW st2, Saved(st2) = Saved(st), NEW i, NEW i2
  PROVE  Returning(st, st2, i, i2)
BY DEF Returning

LEMMA Staying ==
  ASSUME BlocksInv, stack # <<>>, Top.kind \in Statements, Top.last # "return",
         NEW form \in Lasts, NEW su, su = After(form, stack)
  PROVE  /\ Placed(su, fnOf, made) /\ su # <<>>
         /\ FnAt(su, Len(su)) = CurrentFn /\ Saved(su) = Saved(stack)
         /\ KeepsWaiting(stack, su, fnOf) /\ Remembers(stack, buried, su, buried)
         /\ Closed(su) => form = "return"
         /\ form = "return" => Closed(su) \/ IsSoiled(su, buried, CurrentFn)
<1>1. /\ made \in Nat /\ CurrentFn = FnAt(stack, Len(stack)) /\ Placed(stack, fnOf, made)
      /\ Top = TopOf(stack)
  BY HereFacts DEF BlocksInv
<1>2. /\ Placed(su, fnOf, made) /\ su # <<>> /\ TopOf(su) = Told(Top, form)
      /\ FnAt(su, Len(su)) = CurrentFn /\ Saved(su) = Saved(stack)
  BY <1>1, AfterFacts
<1>3. KeepsWaiting(stack, su, fnOf)
  <2>1. ASSUME NEW t, NEW f PROVE Waits(su, t, f) <=> Waits(stack, t, f)
    BY <1>1, AfterWaits
  <2>. QED BY <2>1 DEF KeepsWaiting
<1>4. Remembers(stack, buried, su, buried)
  <2>1. ASSUME NEW f, Soiled(stack, f) PROVE Soiled(su, f)
    BY <1>1, <2>1, AfterSoiled
  <2>. QED BY <2>1 DEF Remembers
<1>5. Told(Top, form).last = form /\ Told(Top, form).kind = Top.kind
  BY <1>1, AfterIs
<1>6. Closed(su) => form = "return"
  BY <1>2, <1>5 DEF Closed, Ended, Statements
<1>7. form = "return" /\ Top.kind # "loop" => Closed(su)
  BY <1>2, <1>5 DEF Closed, Ended
<1>8. form = "return" /\ Top.kind = "loop" => Soiled(su, CurrentFn)
  BY <1>1, AfterSoiled
<1>. QED BY <1>2, <1>3, <1>4, <1>6, <1>7, <1>8 DEF IsSoiled

LEMMA TypesHere ==
  ASSUME BlocksInv
  PROVE  /\ made \in 0..MaxBlocks /\ made \in Nat /\ FnTyped(fnOf, made) /\ CodeTyped(content, made)
         /\ PhisTyped(phis) /\ ins \in 0..made /\ live \in BOOLEAN /\ buried \subseteq 1..made
BY TypesAre, Bounds DEF BlocksInv

LEMMA InstrHere ==
  ASSUME NEW m \in Nat
  PROVE  /\ Code \in InstrOf(m) /\ Ret \in InstrOf(m) /\ Ret # Code /\ Ret.to = {}
         /\ \A b \in 1..m : Br(b) \in InstrOf(m) /\ Br(b) # Code /\ Br(b).to = {b}
         /\ \A v \in Nat, b, c \in 1..m :
              CondBr(v, b, c) \in InstrOf(m) /\ CondBr(v, b, c) # Code /\ CondBr(v, b, c).to = {b, c}
BY DEF InstrOf, Code, Ret, Br, CondBr

LEMMA CondBrHere ==
  ASSUME NEW m \in Nat, NEW v \in Nat, NEW b \in 1..m, NEW c \in 1..m
  PROVE  /\ CondBr(v, b, c) \in InstrOf(m) /\ CondBr(v, b, c) # Code
         /\ CondBr(v, b, c).to = {b, c}
BY DEF InstrOf, Code, CondBr

LEMMA StatementStep ==
  ASSUME BlocksInv, TvisitStatement PROVE BlocksInv'
<1>1. AtStatement /\ content' = Insert(ins, Code) /\ stack' = After("statement", stack)
      /\ made' = made /\ fnOf' = fnOf /\ phis' = phis /\ ins' = ins /\ live' = live /\ buried' = buried
  BY DEF TvisitStatement
<1>2. stack # <<>> /\ Top.kind \in Statements /\ Top.last # "return" /\ ~ Ended(Top)
  BY <1>1, AtStatementFacts
<1>3. /\ ins \in 1..made /\ ins \in Blocks /\ fnOf[ins] = CurrentFn /\ ins \notin Saved(stack)
  BY <1>2, HereFacts
<1>4. "statement" \in Lasts /\ "statement" # "return"
  BY DEF Lasts
<1>5. /\ Placed(stack', fnOf, made) /\ stack' # <<>>
      /\ FnAt(stack', Len(stack')) = CurrentFn /\ Saved(stack') = Saved(stack)
      /\ KeepsWaiting(stack, stack', fnOf) /\ Remembers(stack, buried, stack', buried)
      /\ ~ Closed(stack')
  BY <1>1, <1>2, <1>4, Staying
<1>6. Attaches(fnOf, fnOf, ins) /\ Moves(stack, fnOf, ins, ins) /\ Returning(stack, stack', ins, ins)
  BY <1>5, SameBlocks, SameSaved
<1>7. Filled(stack', fnOf, content', ins, buried)
  BY <1>1, <1>2, <1>5, <1>6, GoOn
<1>8. CodeTyped(content', made)
  <2>1. made \in Nat /\ Code \in InstrOf(made)
    BY TypesHere, InstrHere
  <2>. QED BY <1>1, <1>3, <2>1, CodeInserted
<1>9. /\ made' \in 0..MaxBlocks /\ FnTyped(fnOf', made') /\ CodeTyped(content', made')
       /\ PhisTyped(phis') /\ ins' \in 1..made' /\ live' \in BOOLEAN /\ buried' \subseteq 1..made'
  BY <1>1, <1>3, <1>8, TypesHere
<1>10. /\ Placed(stack', fnOf', made') /\ stack' # <<>> /\ fnOf'[ins'] = FnAt(stack', Len(stack'))
      /\ Filled(stack', fnOf', content', ins', buried')
  BY <1>1, <1>3, <1>5, <1>7
<1>. QED BY <1>9, <1>10, Stepped

LEMMA ReturnStep ==
  ASSUME BlocksInv, TvisitReturnStatement PROVE BlocksInv'
<1>1. AtStatement /\ content' = Insert(ins, Ret) /\ stack' = After("return", stack)
      /\ made' = made /\ fnOf' = fnOf /\ phis' = phis /\ ins' = ins /\ live' \in BOOLEAN /\ buried' = buried
  BY DEF TvisitReturnStatement
<1>2. stack # <<>> /\ Top.kind \in Statements /\ Top.last # "return" /\ ~ Ended(Top)
  BY <1>1, AtStatementFacts
<1>3. /\ ins \in 1..made /\ ins \in Blocks /\ fnOf[ins] = CurrentFn /\ ins \notin Saved(stack)
  BY <1>2, HereFacts
<1>4. "return" \in Lasts
  BY DEF Lasts
<1>5. /\ Placed(stack', fnOf, made) /\ stack' # <<>>
      /\ FnAt(stack', Len(stack')) = CurrentFn /\ Saved(stack') = Saved(stack)
      /\ KeepsWaiting(stack, stack', fnOf) /\ Remembers(stack, buried, stack', buried)
      /\ Closed(stack') \/ IsSoiled(stack', buried, CurrentFn)
  BY <1>1, <1>2, <1>4, Staying
<1>6. Attaches(fnOf, fnOf, ins) /\ Moves(stack, fnOf, ins, ins) /\ Returning(stack, stack', ins, ins)
  BY <1>5, SameBlocks, SameSaved
<1>7. made \in Nat /\ Ret \in InstrOf(made) /\ Ret # Code /\ Ret.to = {}
  BY TypesHere, InstrHere
<1>8. Filled(stack', fnOf, content', ins, buried)
  <2>1. made <= made
    BY <1>7
  <2>. QED BY <1>1, <1>2, <1>3, <1>5, <1>6, <1>7, <2>1, Terminate
<1>9. CodeTyped(content', made)
  BY <1>1, <1>3, <1>7, CodeInserted
<1>10. /\ made' \in 0..MaxBlocks /\ FnTyped(fnOf', made') /\ CodeTyped(content', made')
       /\ PhisTyped(phis') /\ ins' \in 1..made' /\ live' \in BOOLEAN /\ buried' \subseteq 1..made'
  BY <1>1, <1>3, <1>9, TypesHere
<1>11. /\ Placed(stack', fnOf', made') /\ stack' # <<>> /\ fnOf'[ins'] = FnAt(stack', Len(stack'))
      /\ Filled(stack', fnOf', content', ins', buried')
  BY <1>1, <1>3, <1>5, <1>8
<1>. QED BY <1>10, <1>11, Stepped

-----------------------------------------------------------------------------
(* Constructs are opened.                                                     *)

LEMMA StandsOnTop ==
  ASSUME stack # <<>>, NEW fr
  PROVE  /\ StandsOn(stack, fr) <=> Fits(Top, fr)
         /\ Brings(stack, fr) = AwaitsOf(Top, fr)
BY DEF StandsOn, Brings, Top

LEMMA FreshBlocks ==
  ASSUME BlocksInv, NEW b \in Blocks, b > made
  PROVE  fnOf[b] = NoBlock /\ content[b] = <<>> /\ b # ins /\ b \notin 1..made
<1>1. made \in Nat /\ FnTyped(fnOf, made) /\ CodeTyped(content, made) /\ ins \in 0..made
  BY TypesHere
<1>. QED BY <1>1 DEF FnTyped, CodeTyped, Blocks

LEMMA BlockStep ==
  ASSUME BlocksInv, TvisitBlock PROVE BlocksInv'
<1> DEFINE fr == [kind |-> "block", last |-> "none"]
<1>1. AtStatement /\ stack' = Append(stack, fr)
      /\ made' = made /\ fnOf' = fnOf /\ content' = content /\ phis' = phis /\ ins' = ins
      /\ live' = live /\ buried' = buried
  BY DEF TvisitBlock
<1>2. stack # <<>> /\ Top.kind \in Statements /\ Top.last # "return" /\ ~ Ended(Top)
  BY <1>1, AtStatementFacts
<1>3. /\ ins \in 1..made /\ ins \in Blocks /\ fnOf[ins] = CurrentFn /\ ins \notin Saved(stack)
      /\ made \in Nat /\ made <= made
  BY <1>2, HereFacts
<1>4. /\ fr \in FramesOf(made) /\ fr.kind # "fn" /\ Fits(Top, fr) /\ AwaitsOf(Top, fr) = {}
      /\ KnownOf(stack, fr, fnOf) /\ ~ Ended(fr)
  BY <1>2 DEF FramesOf, Lasts, Fits, IsExpression, AwaitsOf, KnownOf, Ended
<1> HIDE DEF fr
<1>5. /\ Placed(stack', fnOf, made) /\ stack' # <<>> /\ TopOf(stack') = fr
      /\ FnAt(stack', Len(stack')) = CurrentFn /\ Saved(stack') = Saved(stack)
      /\ KeepsWaiting(stack, stack', fnOf) /\ Remembers(stack, buried, stack', buried)
  BY <1>1, <1>2, <1>3, <1>4, StandsOnTop, Opened
<1>6. Attaches(fnOf, fnOf, ins) /\ Moves(stack, fnOf, ins, ins) /\ Returning(stack, stack', ins, ins)
  BY <1>5, SameBlocks, SameSaved
<1>7. Filled(stack', fnOf, content, ins, buried)
  BY <1>2, <1>4, <1>5, <1>6, GoOn DEF Closed
<1>8. /\ made' \in 0..MaxBlocks /\ FnTyped(fnOf', made') /\ CodeTyped(content', made')
      /\ PhisTyped(phis') /\ ins' \in 1..made' /\ live' \in BOOLEAN /\ buried' \subseteq 1..made'
  BY <1>1, <1>3, TypesHere
<1>9. /\ Placed(stack', fnOf', made') /\ stack' # <<>> /\ fnOf'[ins'] = FnAt(stack', Len(stack'))
      /\ Filled(stack', fnOf', content', ins', buried')
  BY <1>1, <1>3, <1>5, <1>7
<1>. QED BY <1>8, <1>9, Stepped

\* A select and a logical expression make the block where they end first.
LEMMA MergeStep ==
  ASSUME BlocksInv, stack # <<>>, ~ Ended(Top), made + 1 <= MaxBlocks,
         NEW fr \in FramesOf(made + 1), fr.kind \in {"select", "logic"}, fr.merge = made + 1,
         fr.kind = "select" => fr.more, Fits(Top, fr), made' = made + 1, stack' = Append(stack, fr),
         UNCHANGED <<fnOf, content, phis, ins, live, buried>>
  PROVE  BlocksInv'
<1>1. fnOf' = fnOf /\ content' = content /\ phis' = phis /\ ins' = ins /\ live' = live /\ buried' = buried
  OBVIOUS
<1>2. /\ ins \in 1..made /\ ins \in Blocks /\ fnOf[ins] = CurrentFn /\ ins \notin Saved(stack)
      /\ made \in Nat
  BY HereFacts
<1>3. /\ made + 1 \in Nat /\ made <= made + 1 /\ made + 1 \in Blocks /\ made + 1 > made
      /\ made + 1 \in (made + 1)..(made + 1)
  BY <1>2 DEF Blocks
<1>4. fnOf[made + 1] = NoBlock
  BY <1>3, FreshBlocks
<1>5. fr.kind # "fn" /\ AwaitsOf(Top, fr) = {made + 1} /\ KnownOf(stack, fr, fnOf) /\ ~ Ended(fr)
  BY DEF AwaitsOf, KnownOf, Ended, Statements
<1>6. \A t \in Brings(stack, fr) : t \in (made + 1)..(made + 1) /\ fnOf[t] = NoBlock
  BY <1>3, <1>4, <1>5, StandsOnTop
<1>7. /\ Placed(stack', fnOf, made + 1) /\ stack' # <<>> /\ TopOf(stack') = fr
      /\ FnAt(stack', Len(stack')) = CurrentFn /\ Saved(stack') = Saved(stack)
      /\ KeepsWaiting(stack, stack', fnOf) /\ Remembers(stack, buried, stack', buried)
  <2>1. \A b \in 1..made : fnOf[b] = fnOf[b]
    OBVIOUS
  <2>2. StandsOn(stack, fr)
    BY StandsOnTop
  <2>. QED BY <1>3, <1>5, <1>6, <2>1, <2>2, Opened
<1>8. Attaches(fnOf, fnOf, ins) /\ Moves(stack, fnOf, ins, ins) /\ Returning(stack, stack', ins, ins)
  BY <1>7, SameBlocks, SameSaved
<1>9. Filled(stack', fnOf, content, ins, buried)
  BY <1>5, <1>7, <1>8, GoOn DEF Closed
<1>10. /\ made' \in 0..MaxBlocks /\ FnTyped(fnOf', made') /\ CodeTyped(content', made')
       /\ PhisTyped(phis') /\ ins' \in 1..made' /\ live' \in BOOLEAN /\ buried' \subseteq 1..made'
  <2>1. FnTyped(fnOf, made + 1) /\ CodeTyped(content, made + 1)
    BY <1>3, TypesHere, FnWider, CodeWider
  <2>2. ins \in 1..(made + 1) /\ buried \subseteq 1..(made + 1) /\ made + 1 \in 0..MaxBlocks
    BY <1>2, <1>3, TypesHere
  <2>. QED BY <1>1, <2>1, <2>2, TypesHere
<1>11. /\ Placed(stack', fnOf', made') /\ stack' # <<>> /\ fnOf'[ins'] = FnAt(stack', Len(stack'))
       /\ Filled(stack', fnOf', content', ins', buried')
  BY <1>1, <1>2, <1>7, <1>9
<1>. QED BY <1>10, <1>11, Stepped

LEMMA SelectStep ==
  ASSUME BlocksInv, select PROVE BlocksInv'
<1> DEFINE fr == [kind |-> "select", merge |-> made + 1, else |-> NoBlock, more |-> TRUE, was |-> live]
<1>1. /\ AtStatement /\ made + 2 <= MaxBlocks /\ made' = made + 1 /\ stack' = Append(stack, fr)
      /\ UNCHANGED <<fnOf, content, phis, ins, live, buried>>
  BY DEF select, Opens
<1>2. stack # <<>> /\ Top.kind \in Statements /\ Top.last # "return" /\ ~ Ended(Top)
  BY <1>1, AtStatementFacts
<1>3. made \in Nat /\ live \in BOOLEAN /\ MaxBlocks \in Nat
  BY TypesHere, Bounds
<1>4. /\ fr \in FramesOf(made + 1) /\ fr.kind \in {"select", "logic"} /\ fr.merge = made + 1
      /\ fr.kind = "select" => fr.more
      /\ Fits(Top, fr)
  BY <1>2, <1>3 DEF FramesOf, Fits, IsExpression, NoBlock
<1>5. made + 1 <= MaxBlocks
  BY <1>1, <1>3
<1> HIDE DEF fr
<1>. QED BY <1>1, <1>2, <1>4, <1>5, MergeStep

LEMMA LogicStep ==
  ASSUME BlocksInv, logic PROVE BlocksInv'
<1> DEFINE fr == [kind |-> "logic", merge |-> made + 1, current |-> ins, count |-> 0, ready |-> FALSE]
<1>1. /\ AtExpression /\ made + 2 <= MaxBlocks /\ made' = made + 1 /\ stack' = Append(stack, fr)
      /\ UNCHANGED <<fnOf, content, phis, ins, live, buried>>
  BY DEF logic, Opens
<1>2. stack # <<>> /\ Top.kind \in Statements \union {"select", "logic"} /\ ~ Ended(Top)
  BY <1>1, AtExpressionFacts
<1>3. made \in Nat /\ ins \in 1..made /\ MaxBlocks \in Nat
  BY <1>2, HereFacts, Bounds
<1>4. /\ fr \in FramesOf(made + 1) /\ fr.kind \in {"select", "logic"} /\ fr.merge = made + 1
      /\ fr.kind = "select" => fr.more
      /\ Fits(Top, fr)
  BY <1>2, <1>3 DEF FramesOf, Fits, IsExpression
<1>5. made + 1 <= MaxBlocks
  BY <1>1, <1>3
<1> HIDE DEF fr
<1>. QED BY <1>1, <1>2, <1>4, <1>5, MergeStep

LEMMA AttachesNew ==
  ASSUME BlocksInv, NEW x \in Blocks, fnOf[x] = NoBlock, NEW f, f # NoBlock
  PROVE  /\ Attaches(fnOf, [fnOf EXCEPT ![x] = f], x) /\ [fnOf EXCEPT ![x] = f][x] = f
         /\ \A b \in Blocks : b # x => [fnOf EXCEPT ![x] = f][b] = fnOf[b]
<1>1. fnOf \in [Blocks -> Blocks \union {NoBlock}]
  BY TypesHere DEF FnTyped
<1>. QED BY <1>1 DEF Attaches

\* A statement that branches to a new block, in which code is inserted next, and to
\* others that are attached later.
LEMMA BranchStep ==
  ASSUME BlocksInv, stack # <<>>, Top.kind \in Statements, Top.last # "return",
         NEW m2 \in Nat, made + 1 <= m2, m2 <= MaxBlocks,
         NEW fr \in FramesOf(m2), fr.kind \in {"then", "loop"}, fr.last # "return",
         fr.kind = "loop" => fr.body = made + 1,
         \A t \in AwaitsOf(Top, fr) : t \in (made + 2)..m2,
         NEW e \in InstrOf(m2), e # Code, e.to \subseteq {made + 1} \union AwaitsOf(Top, fr),
         made' = m2, fnOf' = [fnOf EXCEPT ![made + 1] = CurrentFn], content' = Insert(ins, e),
         ins' = made + 1, stack' = Append(stack, fr), phis' = phis, live' = live, buried' = buried
  PROVE  BlocksInv'
<1> DEFINE x == made + 1
           fn2 == [fnOf EXCEPT ![x] = CurrentFn]
<1>1. /\ ins \in 1..made /\ ins \in Blocks /\ fnOf[ins] = CurrentFn /\ ins \notin Saved(stack)
      /\ made \in Nat /\ CurrentFn \in 1..made /\ CurrentFn # NoBlock
      /\ CurrentFn = FnAt(stack, Len(stack))
  BY HereFacts
<1>2. /\ made <= m2 /\ x \in Blocks /\ x \in 1..m2 /\ x > made /\ x # ins
      /\ \A b \in 1..made : b \in Blocks /\ b # x
      /\ \A t \in (made + 2)..m2 : t \in (made + 1)..m2 /\ t \in Blocks /\ t # x /\ t > made
  BY <1>1, Bounds DEF Blocks
<1>3. fnOf[x] = NoBlock /\ \A t \in (made + 2)..m2 : fnOf[t] = NoBlock
  BY <1>2, FreshBlocks
<1> HIDE DEF x
<1>4. Attaches(fnOf, fn2, x) /\ fn2[x] = CurrentFn /\ \A b \in Blocks : b # x => fn2[b] = fnOf[b]
  <2>1. x \in Blocks /\ fnOf[x] = NoBlock /\ CurrentFn # NoBlock
    BY <1>1, <1>2, <1>3
  <2>. QED BY <2>1, AttachesNew
<1> HIDE DEF fn2
<1>5. fr.kind # "fn" /\ StandsOn(stack, fr) /\ Brings(stack, fr) = AwaitsOf(Top, fr) /\ ~ Ended(fr)
  <2>1. Fits(Top, fr)
    BY DEF Fits, IsExpression
  <2>2. ~ Ended(fr)
    BY DEF Ended
  <2>. QED BY <2>1, <2>2, StandsOnTop
<1>6. KnownOf(stack, fr, fn2)
  BY <1>1, <1>4 DEF KnownOf, x
<1>7. \A t \in Brings(stack, fr) : t \in (made + 1)..m2 /\ fn2[t] = NoBlock
  BY <1>2, <1>3, <1>4, <1>5
<1>8. \A b \in 1..made : fn2[b] = fnOf[b]
  BY <1>2, <1>4
<1>9. /\ Placed(stack', fn2, m2) /\ stack' # <<>> /\ TopOf(stack') = fr
      /\ FnAt(stack', Len(stack')) = CurrentFn /\ Saved(stack') = Saved(stack)
      /\ KeepsWaiting(stack, stack', fn2) /\ Remembers(stack, buried, stack', buried)
      /\ \A t \in Brings(stack, fr) : Waits(stack', t, CurrentFn)
  BY <1>2, <1>5, <1>6, <1>7, <1>8, Opened
<1>10. Moves(stack, fnOf, ins, x) /\ Returning(stack, stack', ins, x)
  BY <1>3, <1>9, SameSaved DEF Moves
<1>11. \A t \in e.to : fn2[t] = CurrentFn \/ Waits(stack', t, CurrentFn)
  BY <1>4, <1>5, <1>9 DEF x
<1>12. ~ Ended(Top) /\ ~ Closed(stack')
  BY <1>5, <1>9 DEF Ended, Closed, Statements
<1>13. Filled(stack', fn2, content', x, buried)
  BY <1>1, <1>2, <1>4, <1>9, <1>10, <1>11, <1>12, Terminate
<1>14. fnOf' = fn2 /\ ins' = x
  BY DEF fn2, x
<1>15. /\ made' \in 0..MaxBlocks /\ FnTyped(fnOf', made') /\ CodeTyped(content', made')
       /\ PhisTyped(phis') /\ ins' \in 1..made' /\ live' \in BOOLEAN /\ buried' \subseteq 1..made'
  <2>1. FnTyped(fn2, m2)
    <3>1. FnTyped(fnOf, m2) /\ CurrentFn \in 1..m2
      BY <1>1, <1>2, TypesHere, FnWider
    <3>. QED BY <1>2, <3>1, FnAttached DEF fn2
  <2>2. CodeTyped(content', m2)
    BY <1>1, <1>2, CodeInserted
  <2>3. buried \subseteq 1..m2 /\ m2 \in 0..MaxBlocks
    BY <1>1, <1>2, TypesHere
  <2>. QED BY <1>2, <1>14, <2>1, <2>2, <2>3, TypesHere
<1>16. /\ Placed(stack', fnOf', made') /\ stack' # <<>> /\ fnOf'[ins'] = FnAt(stack', Len(stack'))
       /\ Filled(stack', fnOf', content', ins', buried')
  BY <1>4, <1>9, <1>13, <1>14
<1>. QED BY <1>15, <1>16, Stepped

LEMMA ConditionalStep ==
  ASSUME BlocksInv, NEW hasElse \in BOOLEAN, conditional(hasElse) PROVE BlocksInv'
<1> DEFINE m2 == IF hasElse THEN made + 3 ELSE made + 2
           fr == [kind |-> "then", else |-> made + 2, rest |-> m2, was |-> live, last |-> "none"]
           e == CondBr(0, made + 1, made + 2)
<1>1. /\ AtStatement /\ made + (m2 - made) <= MaxBlocks
      /\ made' = m2 /\ fnOf' = [fnOf EXCEPT ![made + 1] = CurrentFn] /\ content' = Insert(ins, e)
      /\ ins' = made + 1 /\ stack' = Append(stack, fr) /\ phis' = phis /\ live' = live /\ buried' = buried
  BY DEF conditional, Opens
<1>2. stack # <<>> /\ Top.kind \in Statements /\ Top.last # "return"
  BY <1>1, AtStatementFacts
<1>3. made \in Nat /\ live \in BOOLEAN /\ MaxBlocks \in Nat
  BY TypesHere, Bounds
<1>4. /\ m2 \in Nat /\ made + 1 <= m2 /\ made + 2 <= m2
      /\ made + 1 \in 1..m2 /\ made + 2 \in 1..m2 /\ m2 \in 1..m2
      /\ made + 2 \in (made + 2)..m2 /\ m2 \in (made + 2)..m2
  BY <1>3
<1>5. m2 <= MaxBlocks
  BY <1>1, <1>3, <1>4
<1> HIDE DEF m2
<1>6. /\ fr \in FramesOf(m2) /\ fr.kind \in {"then", "loop"} /\ fr.last # "return"
      /\ fr.kind = "loop" => fr.body = made + 1
      /\ AwaitsOf(Top, fr) = {made + 2, m2}
  BY <1>3, <1>4 DEF FramesOf, Lasts, AwaitsOf
<1>7. e \in InstrOf(m2) /\ e # Code /\ e.to = {made + 1, made + 2}
  BY <1>4, InstrHere
<1> HIDE DEF fr, e
<1>. QED BY <1>1, <1>2, <1>4, <1>5, <1>6, <1>7, BranchStep

LEMMA LoopStep ==
  ASSUME BlocksInv, loop PROVE BlocksInv'
<1> DEFINE m2 == made + 2
           fr == [kind |-> "loop", body |-> made + 1, rest |-> m2, was |-> live, last |-> "none"]
           e == CondBr(0, made + 1, m2)
<1>1. /\ AtStatement /\ m2 <= MaxBlocks
      /\ made' = m2 /\ fnOf' = [fnOf EXCEPT ![made + 1] = CurrentFn] /\ content' = Insert(ins, e)
      /\ ins' = made + 1 /\ stack' = Append(stack, fr) /\ phis' = phis /\ live' = live /\ buried' = buried
  BY DEF loop, Opens
<1>2. stack # <<>> /\ Top.kind \in Statements /\ Top.last # "return"
  BY <1>1, AtStatementFacts
<1>3. made \in Nat /\ live \in BOOLEAN
  BY TypesHere
<1>4. /\ m2 \in Nat /\ made + 1 <= m2 /\ made + 1 \in 1..m2 /\ m2 \in 1..m2 /\ m2 \in (made + 2)..m2
  BY <1>3
<1> HIDE DEF m2
<1>6. /\ fr \in FramesOf(m2) /\ fr.kind \in {"then", "loop"} /\ fr.last # "return"
      /\ fr.kind = "loop" => fr.body = made + 1
      /\ AwaitsOf(Top, fr) = {m2}
  BY <1>3, <1>4 DEF FramesOf, Lasts, AwaitsOf
<1>7. e \in InstrOf(m2) /\ e # Code /\ e.to = {made + 1, m2}
  BY <1>4, InstrHere
<1> HIDE DEF fr, e
<1>. QED BY <1>1, <1>2, <1>4, <1>6, <1>7, BranchStep

LEMMA MatchStep ==
  ASSUME BlocksInv, match PROVE BlocksInv'
<1> DEFINE fr == [kind |-> "match", merge |-> made + 1, switch |-> ins, cases |-> 0, was |-> live]
           e == [op |-> "switch", to |-> {made + 1}, on |-> 0]
<1>1. /\ AtStatement /\ made + 2 <= MaxBlocks /\ made' = made + 1 /\ stack' = Append(stack, fr)
      /\ content' = Insert(ins, e)
      /\ fnOf' = fnOf /\ phis' = phis /\ ins' = ins /\ live' = live /\ buried' = buried
  BY DEF match, Opens
<1>2. stack # <<>> /\ Top.kind \in Statements /\ Top.last # "return" /\ ~ Ended(Top)
  BY <1>1, AtStatementFacts
<1>3. /\ ins \in 1..made /\ ins \in Blocks /\ fnOf[ins] = CurrentFn /\ ins \notin Saved(stack)
      /\ made \in Nat /\ CurrentFn = FnAt(stack, Len(stack))
  BY <1>2, HereFacts
<1>4. /\ made + 1 \in Nat /\ made <= made + 1 /\ made + 1 \in Blocks /\ made + 1 > made
      /\ made + 1 \in (made + 1)..(made + 1) /\ made + 1 \in 1..(made + 1) /\ made + 1 <= MaxBlocks
      /\ ins \in 1..(made + 1)
  BY <1>1, <1>3, Bounds DEF Blocks
<1>5. fnOf[made + 1] = NoBlock
  BY <1>4, FreshBlocks
<1>6. live \in BOOLEAN
  BY TypesHere
<1>7. /\ fr \in FramesOf(made + 1) /\ fr.kind # "fn" /\ AwaitsOf(Top, fr) = {made + 1} /\ Ended(fr)
      /\ Fits(Top, fr)
  BY <1>2, <1>4, <1>6 DEF FramesOf, AwaitsOf, Ended, Fits, IsExpression
<1>8. KnownOf(stack, fr, fnOf)
  BY <1>3 DEF KnownOf
<1>9. e \in InstrOf(made + 1) /\ e # Code /\ e.to = {made + 1}
  BY <1>4 DEF InstrOf, Code
<1> HIDE DEF fr, e
<1>10. Brings(stack, fr) = {made + 1} /\ StandsOn(stack, fr)
  BY <1>2, <1>7, StandsOnTop
<1>11. /\ Placed(stack', fnOf, made + 1) /\ stack' # <<>> /\ TopOf(stack') = fr
      /\ FnAt(stack', Len(stack')) = CurrentFn /\ Saved(stack') = Saved(stack)
      /\ KeepsWaiting(stack, stack', fnOf) /\ Remembers(stack, buried, stack', buried)
      /\ Waits(stack', made + 1, CurrentFn)
  <2>1. \A b \in 1..made : fnOf[b] = fnOf[b]
    OBVIOUS
  <2>. QED BY <1>1, <1>2, <1>4, <1>5, <1>7, <1>8, <1>10, <2>1, Opened
<1>12. Attaches(fnOf, fnOf, ins) /\ Moves(stack, fnOf, ins, ins) /\ Returning(stack, stack', ins, ins)
  BY <1>11, SameBlocks, SameSaved
<1>13. Closed(stack')
  BY <1>7, <1>11 DEF Closed
<1>14. \A t \in e.to : fnOf[t] = CurrentFn \/ Waits(stack', t, CurrentFn)
  BY <1>9, <1>11
<1>15. Filled(stack', fnOf, content', ins, buried)
  BY <1>1, <1>2, <1>3, <1>4, <1>9, <1>11, <1>12, <1>13, <1>14, Terminate
<1>16. /\ made' \in 0..MaxBlocks /\ FnTyped(fnOf', made') /\ CodeTyped(content', made')
       /\ PhisTyped(phis') /\ ins' \in 1..made' /\ live' \in BOOLEAN /\ buried' \subseteq 1..made'
  <2>1. FnTyped(fnOf, made + 1)
    BY <1>3, <1>4, TypesHere, FnWider
  <2>2. CodeTyped(content', made + 1)
    BY <1>1, <1>3, <1>4, <1>9, CodeInserted
  <2>3. buried \subseteq 1..(made + 1) /\ made + 1 \in 0..MaxBlocks
    BY <1>3, <1>4, TypesHere
  <2>. QED BY <1>1, <1>4, <2>1, <2>2, <2>3, TypesHere
<1>17. /\ Placed(stack', fnOf', made') /\ stack' # <<>> /\ fnOf'[ins'] = FnAt(stack', Len(stack'))
       /\ Filled(stack', fnOf', content', ins', buried')
  BY <1>1, <1>3, <1>11, <1>15
<1>. QED BY <1>16, <1>17, Stepped

-----------------------------------------------------------------------------
(* Constructs end.                                                            *)

\* The statement that ends is the last one of the block around it.
LEMMA EndBlockStep ==
  ASSUME BlocksInv, endBlock PROVE BlocksInv'
<1> DEFINE form == IF TopOf(Below).kind = "case" /\ Top.last = "return" THEN "return" ELSE "statement"
<1>1. /\ stack # <<>> /\ Top.kind = "block" /\ stack' = After(form, Below)
      /\ buried' = IF ~ (TopOf(Below).kind = "case") /\ Top.last = "return"
                     THEN buried \union {CurrentFn} ELSE buried
      /\ made' = made /\ fnOf' = fnOf /\ content' = content /\ phis' = phis /\ ins' = ins
      /\ live' = live
  BY DEF endBlock, TopOf
<1>2. /\ ins \in 1..made /\ ins \in Blocks /\ fnOf[ins] = CurrentFn /\ ins \notin Saved(stack)
      /\ CurrentFn \in 1..made
  BY <1>1, HereFacts
<1>3. form \in Lasts /\ buried \subseteq buried' /\ buried' \subseteq buried \union {CurrentFn}
  BY <1>1 DEF Lasts
<1>4. /\ Brings(Below, Top) = {} /\ Top.kind # "fn"
      /\ Top.kind = "loop" /\ Top.last = "return" => CurrentFn \in buried'
  BY <1>1, BelowFacts DEF AwaitsOf
<1>5. Ended(Top) <=> Top.last = "return"
  BY <1>1 DEF Ended, Statements
<1>6. Hands(ins, fnOf)
  BY <1>4 DEF Hands
<1>7. form = "return" <=> TopOf(Below).kind = "case" /\ Top.last = "return"
  OBVIOUS
<1>8. Top.last = "return" /\ form # "return" => CurrentFn \in buried'
  BY <1>1
<1> HIDE DEF form
<1>9. /\ Placed(stack', fnOf, made) /\ stack' # <<>> /\ TopOf(stack') = Told(TopOf(Below), form)
      /\ TopOf(Below).kind \in Statements /\ TopOf(Below) \in FramesOf(made)
      /\ Ended(TopOf(stack')) => form = "return"
      /\ FnAt(stack', Len(stack')) = CurrentFn /\ Saved(stack') = Saved(stack)
      /\ KeepsWaiting(stack, stack', fnOf) /\ Remembers(stack, buried, stack', buried')
  BY <1>1, <1>3, <1>4, <1>6, Done
<1>10. form = "return" => Closed(stack')
  <2>1. Told(TopOf(Below), "return").last = "return" /\ Told(TopOf(Below), "return").kind = TopOf(Below).kind
    BY <1>9, HereFacts, <1>1, FrameAfter DEF Told, Lasts
  <2>. QED BY <1>7, <1>9, <2>1 DEF Closed, Ended, Statements
<1>11. Attaches(fnOf, fnOf, ins) /\ Moves(stack, fnOf, ins, ins) /\ Returning(stack, stack', ins, ins)
  BY <1>9, SameBlocks, SameSaved
<1>12. Filled(stack', fnOf, content, ins, buried')
  <2>1. Ended(Top) => IsSoiled(stack', buried', CurrentFn) \/ Closed(stack')
    BY <1>5, <1>8, <1>10 DEF IsSoiled
  <2>2. Closed(stack') => Ended(Top)
    BY <1>5, <1>7, <1>9 DEF Closed
  <2>. QED BY <1>1, <1>2, <1>9, <1>11, <2>1, <2>2, GoOn
<1>13. /\ made' \in 0..MaxBlocks /\ FnTyped(fnOf', made') /\ CodeTyped(content', made')
       /\ PhisTyped(phis') /\ ins' \in 1..made' /\ live' \in BOOLEAN /\ buried' \subseteq 1..made'
  BY <1>1, <1>2, <1>3, TypesHere
<1>14. /\ Placed(stack', fnOf', made') /\ stack' # <<>> /\ fnOf'[ins'] = FnAt(stack', Len(stack'))
       /\ Filled(stack', fnOf', content', ins', buried')
  BY <1>1, <1>2, <1>9, <1>12
<1>. QED BY <1>13, <1>14, Stepped

\* How the construct ends: its last block ended in a return, or gets a terminator
\* that goes to blocks of the function.
EndsWith(ct2, fn2) ==
  \/ Ended(Top) /\ ct2 = content
  \/ ~ Ended(Top) /\ \E e \in InstrOf(made) : /\ e # Code /\ ct2 = Insert(ins, e)
                                              /\ \A t \in e.to : fn2[t] = CurrentFn

\* A construct is left for the block that it waited for.
LEMMA EndStep ==
  ASSUME BlocksInv, stack # <<>>, Top.kind \in {"then", "else", "loop", "select", "match"},
         NEW x, Brings(Below, Top) = {x}, fnOf' = [fnOf EXCEPT ![x] = CurrentFn], ins' = x,
         stack' = After("statement", Below), EndsWith(content', fnOf'), made' = made, phis' = phis,
         live' \in BOOLEAN, buried \subseteq buried', buried' \subseteq buried \union {CurrentFn},
         Top.kind = "loop" /\ Top.last = "return" => CurrentFn \in buried'
  PROVE  BlocksInv'
<1> DEFINE fn2 == [fnOf EXCEPT ![x] = CurrentFn]
<1>1. /\ ins \in 1..made /\ ins \in Blocks /\ fnOf[ins] = CurrentFn /\ ins \notin Saved(stack)
      /\ CurrentFn \in 1..made /\ made \in Nat /\ made <= made /\ CurrentFn # NoBlock
  BY HereFacts
<1>2. Hands(x, fn2) /\ Top.kind # "fn" /\ x \in Brings(Below, Top)
  BY DEF Hands
<1>3. "statement" \in Lasts /\ "statement" # "return"
  BY DEF Lasts
<1>4. fnOf' = fn2 /\ FnTyped(fnOf, made) /\ made <= MaxBlocks
  BY <1>1, TypesHere, Bounds
<1>5. FnTyped(fn2, made) \/ x \notin 1..made
  BY <1>1, <1>4, FnAttached
<1> HIDE DEF fn2
<1>6. /\ Attaches(fnOf, fn2, x) /\ x \in 1..made /\ x \in Blocks /\ fnOf[x] = NoBlock
      /\ fn2[x] = CurrentFn
  BY <1>2, Handed
<1>7. /\ Placed(stack', fn2, made) /\ stack' # <<>>
      /\ ~ Ended(TopOf(stack'))
      /\ FnAt(stack', Len(stack')) = CurrentFn /\ Saved(stack') = Saved(stack)
      /\ KeepsWaiting(stack, stack', fn2) /\ Remembers(stack, buried, stack', buried')
  BY <1>2, <1>3, Done
<1>8. Moves(stack, fnOf, ins, x) /\ Returning(stack, stack', ins, x) /\ x # ins
  BY <1>1, <1>6, <1>7, SameSaved DEF Moves
<1>9. ~ Closed(stack')
  BY <1>7 DEF Closed
<1>10. CASE Ended(Top) /\ content' = content
  <2>1. Filled(stack', fn2, content', x, buried')
    BY <1>1, <1>6, <1>7, <1>8, <1>9, <1>10, GoOn
  <2>2. CodeTyped(content', made)
    BY <1>10, TypesHere
  <2>3. /\ made' \in 0..MaxBlocks /\ FnTyped(fnOf', made') /\ CodeTyped(content', made')
        /\ PhisTyped(phis') /\ ins' \in 1..made' /\ live' \in BOOLEAN /\ buried' \subseteq 1..made'
    BY <1>1, <1>4, <1>5, <1>6, <2>2, TypesHere
  <2>4. /\ Placed(stack', fnOf', made') /\ stack' # <<>> /\ fnOf'[ins'] = FnAt(stack', Len(stack'))
        /\ Filled(stack', fnOf', content', ins', buried')
    BY <1>4, <1>6, <1>7, <2>1
  <2>. QED BY <2>3, <2>4, Stepped
<1>11. ASSUME ~ Ended(Top), NEW e \in InstrOf(made), e # Code, content' = Insert(ins, e),
              \A t \in e.to : fn2[t] = CurrentFn
       PROVE  BlocksInv'
  <2>1. Filled(stack', fn2, content', x, buried')
    BY <1>1, <1>6, <1>7, <1>8, <1>9, <1>11, Terminate
  <2>2. CodeTyped(content', made)
    BY <1>1, <1>11, CodeInserted
  <2>3. /\ made' \in 0..MaxBlocks /\ FnTyped(fnOf', made') /\ CodeTyped(content', made')
        /\ PhisTyped(phis') /\ ins' \in 1..made' /\ live' \in BOOLEAN /\ buried' \subseteq 1..made'
    BY <1>1, <1>4, <1>5, <1>6, <2>2, TypesHere
  <2>4. /\ Placed(stack', fnOf', made') /\ stack' # <<>> /\ fnOf'[ins'] = FnAt(stack', Len(stack'))
        /\ Filled(stack', fnOf', content', ins', buried')
    BY <1>4, <1>6, <1>7, <2>1
  <2>. QED BY <2>3, <2>4, Stepped
<1>. QED BY <1>4, <1>10, <1>11 DEF EndsWith

LEMMA EndElseStep ==
  ASSUME BlocksInv, endElse PROVE BlocksInv'
<1> DEFINE x == Top.rest
           fn2 == [fnOf EXCEPT ![x] = CurrentFn]
<1>1. /\ stack # <<>> /\ Top.kind = "else" /\ BranchUnlessReturn(x)
      /\ fnOf' = fn2 /\ ins' = x /\ live' = (live \/ Top.out)
      /\ stack' = After("statement", Below) /\ made' = made /\ phis' = phis /\ buried' = buried
  BY DEF endElse
<1>2. Top \in FramesOf(made) /\ made \in Nat
  BY <1>1, HereFacts, BelowFacts
<1>3. x \in 1..made /\ Top.out \in BOOLEAN
  BY <1>1, <1>2, FrameFacts
<1>4. live' \in BOOLEAN
  BY <1>1, <1>3, TypesHere
<1>5. Brings(Below, Top) = {x}
  BY <1>1, BelowFacts DEF AwaitsOf
<1>6. Ended(Top) <=> Top.last = "return"
  BY <1>1 DEF Ended, Statements
<1>7. fn2[x] = CurrentFn
  <2>1. x \in Blocks /\ FnTyped(fnOf, made)
    BY <1>2, <1>3, TypesHere, Bounds DEF Blocks
  <2>. QED BY <2>1 DEF FnTyped
<1>8. Br(x) \in InstrOf(made) /\ Br(x) # Code /\ Br(x).to = {x}
  BY <1>2, <1>3, InstrHere
<1>9. EndsWith(content', fnOf')
  BY <1>1, <1>6, <1>7, <1>8 DEF EndsWith, BranchUnlessReturn
<1> HIDE DEF x
<1>10. Top.kind \in {"then", "else", "loop", "select", "match"} /\ Top.kind # "loop"
  BY <1>1
<1>. QED BY <1>1, <1>4, <1>5, <1>9, <1>10, EndStep

LEMMA EndLoopStep ==
  ASSUME BlocksInv, endLoop PROVE BlocksInv'
<1> DEFINE x == Top.rest
           fn2 == [fnOf EXCEPT ![x] = CurrentFn]
           e == CondBr(0, Top.body, x)
<1>1. /\ stack # <<>> /\ Top.kind = "loop" /\ content' = Insert(ins, e)
      /\ fnOf' = fn2 /\ ins' = x /\ live' = Top.was
      /\ buried' = IF Top.last = "return" THEN buried \union {CurrentFn} ELSE buried
      /\ stack' = After("statement", Below) /\ made' = made /\ phis' = phis
  BY DEF endLoop
<1>2. Top \in FramesOf(made) /\ made \in Nat
  BY <1>1, HereFacts, BelowFacts
<1>3. x \in 1..made /\ Top.body \in 1..made /\ Top.was \in BOOLEAN
  BY <1>1, <1>2, FrameFacts
<1>5. Brings(Below, Top) = {x} /\ KnownOf(Below, Top, fnOf) /\ FnAt(Below, Len(Below)) = CurrentFn
  BY <1>1, BelowFacts DEF AwaitsOf, Joins
<1>6. ~ Ended(Top)
  BY <1>1 DEF Ended, Statements
<1>7. fn2[x] = CurrentFn /\ fn2[Top.body] = CurrentFn
  <2>1. x \in Blocks /\ Top.body \in Blocks /\ FnTyped(fnOf, made)
    BY <1>2, <1>3, TypesHere, Bounds DEF Blocks
  <2>2. fnOf[Top.body] = CurrentFn
    BY <1>1, <1>5 DEF KnownOf
  <2>. QED BY <2>1, <2>2 DEF FnTyped
<1>8. e \in InstrOf(made) /\ e # Code /\ e.to = {Top.body, x}
  <2>1. 0 \in Nat
    OBVIOUS
  <2>. QED BY <1>2, <1>3, <2>1, InstrHere
<1> HIDE DEF e
<1>9. EndsWith(content', fnOf')
  BY <1>1, <1>6, <1>7, <1>8 DEF EndsWith
<1> HIDE DEF x
<1>10. Top.kind \in {"then", "else", "loop", "select", "match"}
       /\ buried \subseteq buried' /\ buried' \subseteq buried \union {CurrentFn}
       /\ (Top.kind = "loop" /\ Top.last = "return" => CurrentFn \in buried')
       /\ live' \in BOOLEAN
  BY <1>1, <1>3
<1>. QED BY <1>1, <1>5, <1>9, <1>10, EndStep

LEMMA EndAlternativesStep ==
  ASSUME BlocksInv, endAlternatives PROVE BlocksInv'
<1> DEFINE x == Top.merge
<1>1. /\ stack # <<>> /\ Top.kind \in {"select", "match"} /\ (Top.kind = "select" => ~ Top.more)
      /\ fnOf' = [fnOf EXCEPT ![x] = CurrentFn] /\ ins' = x
      /\ stack' = After("statement", Below) /\ made' = made /\ phis' = phis /\ buried' = buried
      /\ content' = content /\ live' = live
  BY DEF endAlternatives
<1>2. Brings(Below, Top) = {x}
  BY <1>1, BelowFacts DEF AwaitsOf
<1>3. Ended(Top)
  BY <1>1 DEF Ended
<1>4. EndsWith(content', fnOf')
  BY <1>1, <1>3 DEF EndsWith
<1> HIDE DEF x
<1>5. Top.kind \in {"then", "else", "loop", "select", "match"} /\ Top.kind # "loop"
      /\ live' \in BOOLEAN /\ buried \subseteq buried' /\ buried' \subseteq buried \union {CurrentFn}
  BY <1>1, TypesHere
<1>. QED BY <1>1, <1>2, <1>4, <1>5, EndStep

LEMMA EndThenStep ==
  ASSUME BlocksInv, endThen, Top.else = Top.rest PROVE BlocksInv'
<1> DEFINE x == Top.else
           fn2 == [fnOf EXCEPT ![x] = CurrentFn]
<1>1. /\ stack # <<>> /\ Top.kind = "then" /\ BranchUnlessReturn(x)
      /\ fnOf' = fn2 /\ ins' = x /\ live' = Top.was
      /\ stack' = After("statement", Below) /\ made' = made /\ phis' = phis /\ buried' = buried
  BY DEF endThen
<1>2. Top \in FramesOf(made) /\ made \in Nat
  BY <1>1, HereFacts, BelowFacts
<1>3. x \in 1..made /\ Top.was \in BOOLEAN
  BY <1>1, <1>2, FrameFacts
<1>5. Brings(Below, Top) = {x}
  BY <1>1, BelowFacts DEF AwaitsOf
<1>6. Ended(Top) <=> Top.last = "return"
  BY <1>1 DEF Ended, Statements
<1>7. fn2[x] = CurrentFn
  <2>1. x \in Blocks /\ FnTyped(fnOf, made)
    BY <1>2, <1>3, TypesHere, Bounds DEF Blocks
  <2>. QED BY <2>1 DEF FnTyped
<1>8. Br(x) \in InstrOf(made) /\ Br(x) # Code /\ Br(x).to = {x}
  BY <1>2, <1>3, InstrHere
<1>9. EndsWith(content', fnOf')
  BY <1>1, <1>6, <1>7, <1>8 DEF EndsWith, BranchUnlessReturn
<1> HIDE DEF x
<1>10. Top.kind \in {"then", "else", "loop", "select", "match"} /\ Top.kind # "loop"
       /\ live' \in BOOLEAN
  BY <1>1, <1>3
<1>. QED BY <1>1, <1>5, <1>9, <1>10, EndStep

-----------------------------------------------------------------------------
(* A frame is put on a stack, or in the place of the innermost one.           *)

LEMMA Put ==
  ASSUME NEW m \in Nat, NEW fn, NEW b, Placed(b, fn, m), b # <<>>,
         NEW fr \in FramesOf(m), fr.kind # "fn", Joins(b, fr, fn, m)
  PROVE  /\ Placed(Append(b, fr), fn, m) /\ Append(b, fr) # <<>> /\ TopOf(Append(b, fr)) = fr
         /\ FnAt(Append(b, fr), Len(Append(b, fr))) = FnAt(b, Len(b))
         /\ Saved(Append(b, fr)) = Saved(b)
<1>1. b \in Seq(FramesOf(m)) /\ Nests(b) /\ StandsOn(b, fr)
  BY DEF Placed, Joins
<1>2. Placed(Append(b, fr), fn, m)
  BY <1>1, PlacedPush
<1>3. Append(b, fr) # <<>> /\ Len(Append(b, fr)) = Len(b) + 1 /\ Append(b, fr)[Len(b) + 1] = fr
  BY <1>1, AppendFacts
<1>4. FnAt(Append(b, fr), Len(b) + 1) = FnOn(b, fr)
  BY <1>1, PushFn
<1>5. ASSUME NEW c PROVE c \in Saved(Append(b, fr)) <=> c \in Saved(b)
  <2>1. c \in Saved(Append(b, fr)) <=> c \in Saved(b) \/ (b # <<>> /\ fr.kind = "fn" /\ c = fr.saved)
    BY <1>1, SavedPush
  <2>. QED BY <2>1
<1>6. Saved(Append(b, fr)) = Saved(b)
  BY <1>5
<1>. QED BY <1>2, <1>3, <1>4, <1>6 DEF TopOf, FnOn

LEMMA PutWaits ==
  ASSUME NEW m \in Nat, NEW fn, NEW b, Placed(b, fn, m), b # <<>>,
         NEW fr \in FramesOf(m), fr.kind # "fn", Joins(b, fr, fn, m), NEW t, NEW f
  PROVE  Waits(Append(b, fr), t, f) <=> Waits(b, t, f) \/ (t \in Brings(b, fr) /\ f = FnAt(b, Len(b)))
<1>1. b \in Seq(FramesOf(m)) /\ Nests(b) /\ StandsOn(b, fr)
  BY DEF Placed, Joins
<1>2. Waits(Append(b, fr), t, f) <=> Waits(b, t, f) \/ (t \in Brings(b, fr) /\ f = FnOn(b, fr))
  BY <1>1, WaitsPush
<1>. QED BY <1>2 DEF FnOn

LEMMA PutSoiled ==
  ASSUME NEW m \in Nat, NEW fn, NEW b, Placed(b, fn, m), b # <<>>,
         NEW fr \in FramesOf(m), fr.kind # "fn", Joins(b, fr, fn, m), NEW f, Soiled(b, f)
  PROVE  Soiled(Append(b, fr), f)
<1>1. b \in Seq(FramesOf(m)) /\ Nests(b) /\ StandsOn(b, fr)
  BY DEF Placed, Joins
<1>2. Soiled(Append(b, fr), f) <=>
           \/ Soiled(b, f)
           \/ fr.kind = "loop" /\ fr.last = "return" /\ f = FnOn(b, fr)
  BY <1>1, SoiledPush
<1>. QED BY <1>2

LEMMA SwapTop ==
  ASSUME NEW m \in Nat, NEW fn, NEW st, Placed(st, fn, m), st # <<>>,
         NEW y \in FramesOf(m), Alike(TopOf(st), y)
  PROVE  /\ Placed(Append(Under(st), y), fn, m) /\ Append(Under(st), y) # <<>>
         /\ TopOf(Append(Under(st), y)) = y
         /\ FnAt(Append(Under(st), y), Len(Append(Under(st), y))) = FnAt(st, Len(st))
         /\ Saved(Append(Under(st), y)) = Saved(st)
<1> DEFINE b == Under(st)
           o == TopOf(st)
<1>1. /\ b \in Seq(FramesOf(m)) /\ o \in FramesOf(m) /\ st = Append(b, o)
  BY PlacedPop
<1> HIDE DEF b, o
<1>2. Placed(Append(b, o), fn, m) /\ Alike(o, y)
  BY <1>1 DEF o
<1>3. b \in Seq(FramesOf(m)) /\ o \in FramesOf(m)
  BY <1>1
<1>4. /\ Placed(Append(b, y), fn, m) /\ Append(b, y) # <<>> /\ TopOf(Append(b, y)) = y
      /\ FnAt(Append(b, y), Len(Append(b, y))) = FnAt(Append(b, o), Len(Append(b, o)))
      /\ Saved(Append(b, y)) = Saved(Append(b, o))
  BY <1>2, <1>3, Swap
<1>. QED BY <1>1, <1>4 DEF b

LEMMA SwapTopWaits ==
  ASSUME NEW m \in Nat, NEW fn, NEW st, Placed(st, fn, m), st # <<>>,
         NEW y \in FramesOf(m), Alike(TopOf(st), y), NEW t, NEW f
  PROVE  Waits(Append(Under(st), y), t, f) <=> Waits(st, t, f)
<1> DEFINE b == Under(st)
           o == TopOf(st)
<1>1. /\ b \in Seq(FramesOf(m)) /\ o \in FramesOf(m) /\ st = Append(b, o) /\ Nests(b) /\ StandsOn(b, o)
  BY PlacedPop
<1> HIDE DEF b, o
<1>2. /\ b \in Seq(FramesOf(m)) /\ o \in FramesOf(m) /\ Alike(o, y) /\ Nests(b) /\ StandsOn(b, o)
  BY <1>1 DEF o
<1>3. Waits(Append(b, y), t, f) <=> Waits(Append(b, o), t, f)
  BY <1>2, SwapWaits
<1>. QED BY <1>1, <1>3 DEF b

LEMMA SwapTopSoiled ==
  ASSUME NEW m \in Nat, NEW fn, NEW st, Placed(st, fn, m), st # <<>>,
         NEW y \in FramesOf(m), Alike(TopOf(st), y), TopOf(st).kind # "loop", NEW f, Soiled(st, f)
  PROVE  Soiled(Append(Under(st), y), f)
<1>1. Under(st) \in Seq(FramesOf(m)) /\ Nests(Under(st)) /\ StandsOn(Under(st), TopOf(st))
  BY PlacedPop
<1>2. Soiled(Under(st), f)
  BY PopSoiled
<1>3. StandsOn(Under(st), y)
  BY <1>1, AlikeTop
<1>4. Soiled(Append(Under(st), y), f) <=>
           \/ Soiled(Under(st), f)
           \/ y.kind = "loop" /\ y.last = "return" /\ f = FnOn(Under(st), y)
  BY <1>1, <1>3, SoiledPush
<1>. QED BY <1>2, <1>4

LEMMA EndThenElseStep ==
  ASSUME BlocksInv, endThen, Top.else # Top.rest PROVE BlocksInv'
<1> DEFINE x == Top.else
           fn2 == [fnOf EXCEPT ![x] = CurrentFn]
           fr == [kind |-> "else", rest |-> Top.rest, out |-> live, last |-> "none"]
<1>1. /\ stack # <<>> /\ Top.kind = "then" /\ BranchUnlessReturn(Top.rest)
      /\ fnOf' = fn2 /\ ins' = x /\ live' = Top.was
      /\ stack' = Append(Below, fr) /\ made' = made /\ phis' = phis /\ buried' = buried
  BY DEF endThen, Replace
<1>2. /\ ins \in 1..made /\ ins \in Blocks /\ fnOf[ins] = CurrentFn /\ ins \notin Saved(stack)
      /\ CurrentFn \in 1..made /\ made \in Nat /\ made <= made /\ CurrentFn # NoBlock
  BY <1>1, HereFacts
<1>3. /\ Below # <<>> /\ Placed(Below, fnOf, made) /\ FnAt(Below, Len(Below)) = CurrentFn
      /\ Saved(Below) = Saved(stack) /\ Fits(TopOf(Below), Top)
      /\ Joins(Below, Top, fnOf, made) /\ Top \in FramesOf(made)
      /\ Brings(Below, Top) = {x, Top.rest}
  BY <1>1, BelowFacts DEF AwaitsOf
<1>4. x \in 1..made /\ Top.rest \in 1..made /\ Top.was \in BOOLEAN /\ live \in BOOLEAN
  BY <1>1, <1>2, <1>3, FrameFacts, TypesHere
<1>5. /\ fr \in FramesOf(made) /\ fr.kind = "else" /\ fr.rest = Top.rest /\ ~ Ended(fr)
  BY <1>4 DEF FramesOf, Lasts, Ended
<1>6. FnTyped(fnOf, made) /\ made <= MaxBlocks
  BY <1>2, TypesHere, Bounds
<1>7. x \in Blocks /\ Top.rest \in Blocks /\ \A b \in 1..made : b \in Blocks
  BY <1>2, <1>4, <1>6, Bounds DEF Blocks
<1>8. /\ fnOf[x] = NoBlock /\ fnOf[Top.rest] = NoBlock
      /\ ~ Awaited(Below, x) /\ ~ Awaited(Below, Top.rest)
  BY <1>3 DEF Joins
<1>9. Attaches(fnOf, fn2, x) /\ fn2[x] = CurrentFn /\ \A b \in Blocks : b # x => fn2[b] = fnOf[b]
  <2>1. x \in Blocks /\ fnOf[x] = NoBlock /\ CurrentFn # NoBlock
    BY <1>2, <1>7, <1>8
  <2>. QED BY <2>1, AttachesNew
<1>10. FnTyped(fn2, made)
  BY <1>2, <1>4, <1>6, FnAttached
<1>11. x # Top.rest
  OBVIOUS
<1>12. Br(Top.rest) \in InstrOf(made) /\ Br(Top.rest) # Code /\ Br(Top.rest).to = {Top.rest}
  BY <1>2, <1>4, InstrHere
<1> HIDE DEF x, fr, fn2
<1>13. Placed(Below, fn2, made)
  BY <1>2, <1>3, <1>7, <1>8, <1>9, PlacedAttach
<1>14. Joins(Below, fr, fn2, made) /\ Brings(Below, fr) = {Top.rest}
  <2>1. StandsOn(Below, fr) /\ KnownOf(Below, fr, fn2)
    BY <1>1, <1>3, <1>5 DEF StandsOn, Fits, IsExpression, KnownOf, TopOf
  <2>2. Brings(Below, fr) = {Top.rest}
    BY <1>3, <1>5 DEF Brings, AwaitsOf
  <2>3. fn2[Top.rest] = NoBlock
    BY <1>7, <1>8, <1>9, <1>11
  <2>. QED BY <1>4, <1>8, <2>1, <2>2, <2>3 DEF Joins
<1>15. fr.kind # "fn"
  BY <1>5
<1>16. /\ Placed(stack', fn2, made) /\ stack' # <<>> /\ TopOf(stack') = fr
       /\ FnAt(stack', Len(stack')) = CurrentFn /\ Saved(stack') = Saved(stack)
  <2>1. /\ Placed(Append(Below, fr), fn2, made) /\ Append(Below, fr) # <<>>
        /\ TopOf(Append(Below, fr)) = fr
        /\ FnAt(Append(Below, fr), Len(Append(Below, fr))) = FnAt(Below, Len(Below))
        /\ Saved(Append(Below, fr)) = Saved(Below)
    BY <1>2, <1>3, <1>5, <1>13, <1>14, <1>15, Put
  <2>. QED BY <1>1, <1>3, <2>1
<1>17. KeepsWaiting(stack, stack', fn2) /\ Waits(stack', Top.rest, CurrentFn)
  <2>1. ASSUME NEW t, NEW f
        PROVE  Waits(Append(Below, fr), t, f) <=>
                 Waits(Below, t, f) \/ (t \in Brings(Below, fr) /\ f = FnAt(Below, Len(Below)))
    BY <1>2, <1>3, <1>5, <1>13, <1>14, <1>15, PutWaits
  <2>2. ASSUME NEW t, NEW f
        PROVE  Waits(stack, t, f) <=> Waits(Below, t, f) \/ (t \in {x, Top.rest} /\ f = CurrentFn)
    BY <1>1, <1>3, BelowWaits
  <2>3. ASSUME NEW t, NEW f
        PROVE  Waits(stack', t, f) <=> Waits(Below, t, f) \/ (t = Top.rest /\ f = CurrentFn)
    BY <1>1, <1>3, <1>14, <2>1
  <2>. QED BY <1>9, <2>2, <2>3 DEF KeepsWaiting
<1>18. Remembers(stack, buried, stack', buried)
  <2>1. ASSUME NEW f, Soiled(Below, f) PROVE Soiled(Append(Below, fr), f)
    BY <1>2, <1>3, <1>5, <1>13, <1>14, <1>15, <2>1, PutSoiled
  <2>2. ASSUME NEW f, Soiled(stack, f) PROVE Soiled(stack', f)
    BY <1>1, <2>1, <2>2, BelowSoiled
  <2>. QED BY <2>2 DEF Remembers
<1>19. Moves(stack, fnOf, ins, x) /\ Returning(stack, stack', ins, x) /\ x # ins /\ ~ Closed(stack')
  BY <1>2, <1>5, <1>8, <1>16, SameSaved DEF Moves, Closed
<1>20. Ended(Top) <=> Top.last = "return"
  BY <1>1 DEF Ended, Statements
<1>21. Filled(stack', fn2, content', x, buried) /\ CodeTyped(content', made)
  <2>1. CASE Top.last = "return"
    <3>1. content' = content /\ Ended(Top)
      BY <1>1, <1>20, <2>1 DEF BranchUnlessReturn
    <3>2. Filled(stack', fn2, content', x, buried)
      BY <1>1, <1>2, <1>9, <1>16, <1>17, <1>18, <1>19, <3>1, GoOn
    <3>. QED BY <3>1, <3>2, TypesHere
  <2>2. CASE Top.last # "return"
    <3>1. content' = Insert(ins, Br(Top.rest)) /\ ~ Ended(Top)
      BY <1>1, <1>20, <2>2 DEF BranchUnlessReturn
    <3>2. \A t \in Br(Top.rest).to : fn2[t] = CurrentFn \/ Waits(stack', t, CurrentFn)
      BY <1>12, <1>17
    <3>3. Filled(stack', fn2, content', x, buried)
      BY <1>1, <1>2, <1>9, <1>12, <1>16, <1>17, <1>18, <1>19, <3>1, <3>2, Terminate
    <3>4. CodeTyped(content', made)
      BY <1>2, <1>12, <3>1, CodeInserted
    <3>. QED BY <3>3, <3>4
  <2>. QED BY <2>1, <2>2
<1>22. /\ made' \in 0..MaxBlocks /\ FnTyped(fnOf', made') /\ CodeTyped(content', made')
       /\ PhisTyped(phis') /\ ins' \in 1..made' /\ live' \in BOOLEAN /\ buried' \subseteq 1..made'
  BY <1>1, <1>4, <1>10, <1>21, TypesHere
<1>23. /\ Placed(stack', fnOf', made') /\ stack' # <<>> /\ fnOf'[ins'] = FnAt(stack', Len(stack'))
       /\ Filled(stack', fnOf', content', ins', buried')
  BY <1>1, <1>9, <1>16, <1>21
<1>. QED BY <1>22, <1>23, Stepped

\* What stands around an alternative.
LEMMA AroundFacts ==
  ASSUME BlocksInv, stack # <<>>, Top.kind = "case"
  PROVE  /\ TopOf(Below).kind \in {"select", "match"} /\ TopOf(Below) \in FramesOf(made)
         /\ TopOf(Below).merge \in 1..made /\ TopOf(Below).was \in BOOLEAN
         /\ Waits(Below, TopOf(Below).merge, CurrentFn)
         /\ Closed(Below) <=> ~ (TopOf(Below).kind = "select" /\ TopOf(Below).more)
         /\ TopOf(Below).kind = "select" /\ TopOf(Below).more =>
              Brings(Below, Top) = {TopOf(Below).else}
         /\ ~ (TopOf(Below).kind = "select" /\ TopOf(Below).more) => Brings(Below, Top) = {}
<1> DEFINE a == TopOf(Below)
<1>1. /\ Below # <<>> /\ Placed(Below, fnOf, made) /\ FnAt(Below, Len(Below)) = CurrentFn
      /\ Fits(a, Top) /\ Brings(Below, Top) = AwaitsOf(a, Top) /\ made \in Nat
  BY BelowFacts, HereFacts
<1>2. a.kind \in {"select", "match"}
  BY <1>1 DEF Fits
<1>3. a \in FramesOf(made) /\ StandsOn(Under(Below), a)
  BY <1>1, PlacedPop
<1>4. a.merge \in 1..made /\ a.was \in BOOLEAN /\ (a.kind = "select" => a.more \in BOOLEAN)
  BY <1>1, <1>2, <1>3, FrameFacts
<1>5. Waits(Below, a.merge, CurrentFn)
  <2>1. Under(Below) # <<>>
    BY <1>2, <1>3 DEF StandsOn
  <2>2. Brings(Under(Below), a) = {a.merge}
    BY <1>2, <2>1 DEF Brings, AwaitsOf
  <2>3. Waits(Below, a.merge, CurrentFn) <=>
          \/ Waits(Under(Below), a.merge, CurrentFn)
          \/ a.merge \in Brings(Under(Below), TopOf(Below)) /\ CurrentFn = FnAt(Below, Len(Below))
    BY <1>1, PopWaits
  <2>. QED BY <1>1, <2>2, <2>3
<1>6. Closed(Below) <=> ~ (a.kind = "select" /\ a.more)
  BY <1>1, <1>2, <1>4 DEF Closed, Ended, Statements
<1>7. Brings(Below, Top) = IF a.kind = "select" /\ a.more THEN {a.else} ELSE {}
  BY <1>1 DEF AwaitsOf
<1>. QED BY <1>2, <1>3, <1>4, <1>5, <1>6, <1>7

LEMMA EndCaseStep ==
  ASSUME BlocksInv, endCase PROVE BlocksInv'
<1> DEFINE a == TopOf(Below)
           toElse == a.kind = "select" /\ a.more
           x == IF toElse THEN a.else ELSE ins
           fn2 == IF toElse THEN [fnOf EXCEPT ![a.else] = CurrentFn] ELSE fnOf
<1>1. /\ stack # <<>> /\ Top.kind = "case" /\ BranchUnlessReturn(a.merge)
      /\ fnOf' = fn2 /\ ins' = x /\ live' = a.was
      /\ stack' = Below /\ made' = made /\ phis' = phis /\ buried' = buried
  BY DEF endCase, TopOf
<1>2. /\ ins \in 1..made /\ ins \in Blocks /\ fnOf[ins] = CurrentFn /\ ins \notin Saved(stack)
      /\ CurrentFn \in 1..made /\ made \in Nat /\ made <= made /\ CurrentFn # NoBlock
  BY <1>1, HereFacts
<1>3. /\ a.merge \in 1..made /\ a.was \in BOOLEAN
      /\ Waits(Below, a.merge, CurrentFn)
      /\ Closed(Below) <=> ~ toElse
      /\ toElse => Brings(Below, Top) = {a.else}
      /\ ~ toElse => Brings(Below, Top) = {}
  BY <1>1, AroundFacts
<1>4. Below # <<>> /\ FnAt(Below, Len(Below)) = CurrentFn /\ Saved(Below) = Saved(stack)
  BY <1>1, BelowFacts
<1>5. Hands(x, fn2)
  BY <1>3 DEF Hands
<1>6. (~ toElse => x = ins /\ fn2 = fnOf) /\ (toElse => x \in Brings(Below, Top))
  BY <1>3
<1>7. Top.kind # "fn" /\ Top.kind # "loop"
  BY <1>1
<1>8. Br(a.merge) \in InstrOf(made) /\ Br(a.merge) # Code /\ Br(a.merge).to = {a.merge}
  BY <1>2, <1>3, InstrHere
<1>9. Ended(Top) <=> Top.last = "return"
  BY <1>1 DEF Ended, Statements
<1>10. FnTyped(fn2, made) /\ x \in 1..made
  <2>1. toElse => a.else \in 1..made
    <3>1. toElse => Hands(a.else, [fnOf EXCEPT ![a.else] = CurrentFn])
      BY <1>3 DEF Hands
    <3>2. toElse => a.else \in Brings(Below, Top)
      BY <1>3
    <3>. QED BY <1>1, <1>7, <3>1, <3>2, Handed
  <2>2. FnTyped(fnOf, made) /\ made <= MaxBlocks
    BY <1>2, TypesHere, Bounds
  <2>3. toElse => FnTyped([fnOf EXCEPT ![a.else] = CurrentFn], made)
    BY <1>2, <2>1, <2>2, FnAttached
  <2>. QED BY <1>2, <2>1, <2>2, <2>3
<1> HIDE DEF toElse, x, fn2
<1>11. /\ Placed(Below, fn2, made) /\ KeepsWaiting(stack, Below, fn2)
       /\ Attaches(fnOf, fn2, x)
       /\ x \in Brings(Below, Top) => /\ x \in 1..made /\ x \in Blocks /\ fnOf[x] = NoBlock
                                      /\ fn2[x] = CurrentFn
  BY <1>1, <1>5, <1>7, Handed
<1>12. fn2[x] = CurrentFn /\ (x = ins <=> ~ toElse)
  BY <1>2, <1>6, <1>11
<1>13. Remembers(stack, buried, Below, buried)
  BY <1>1, <1>7, BelowSoiled DEF Remembers
<1>14. Moves(stack, fnOf, ins, x) /\ Returning(stack, Below, ins, x)
  BY <1>4, <1>6, <1>11, SameSaved DEF Moves
<1>15. Filled(Below, fn2, content', x, buried) /\ CodeTyped(content', made)
  <2>1. CASE Top.last = "return"
    <3>1. content' = content /\ Ended(Top)
      BY <1>1, <1>9, <2>1 DEF BranchUnlessReturn
    <3>2. Filled(Below, fn2, content', x, buried)
      BY <1>1, <1>2, <1>3, <1>4, <1>11, <1>12, <1>13, <1>14, <3>1, GoOn
    <3>. QED BY <3>1, <3>2, TypesHere
  <2>2. CASE Top.last # "return"
    <3>1. content' = Insert(ins, Br(a.merge)) /\ ~ Ended(Top)
      BY <1>1, <1>9, <2>2 DEF BranchUnlessReturn
    <3>2. \A t \in Br(a.merge).to : fn2[t] = CurrentFn \/ Waits(Below, t, CurrentFn)
      BY <1>3, <1>8
    <3>3. Filled(Below, fn2, content', x, buried)
      BY <1>1, <1>2, <1>3, <1>4, <1>8, <1>11, <1>12, <1>13, <1>14, <3>1, <3>2, Terminate
    <3>4. CodeTyped(content', made)
      BY <1>2, <1>8, <3>1, CodeInserted
    <3>. QED BY <3>3, <3>4
  <2>. QED BY <2>1, <2>2
<1>16. /\ made' \in 0..MaxBlocks /\ FnTyped(fnOf', made') /\ CodeTyped(content', made')
       /\ PhisTyped(phis') /\ ins' \in 1..made' /\ live' \in BOOLEAN /\ buried' \subseteq 1..made'
  BY <1>1, <1>3, <1>10, <1>15, TypesHere
<1>17. /\ Placed(stack', fnOf', made') /\ stack' # <<>> /\ fnOf'[ins'] = FnAt(stack', Len(stack'))
       /\ Filled(stack', fnOf', content', ins', buried')
  BY <1>1, <1>4, <1>11, <1>12, <1>15
<1>. QED BY <1>16, <1>17, Stepped

-----------------------------------------------------------------------------
(* Logical expressions.                                                       *)

LEMMA LogicFrame ==
  ASSUME NEW m \in Nat, NEW fr \in FramesOf(m), fr.kind = "logic"
  PROVE  /\ WithOperand(fr) \in FramesOf(m) /\ Alike(fr, WithOperand(fr)) /\ ~ Ended(WithOperand(fr))
         /\ [fr EXCEPT !.ready = FALSE] \in FramesOf(m) /\ Alike(fr, [fr EXCEPT !.ready = FALSE])
         /\ ~ Ended([fr EXCEPT !.ready = FALSE])
         /\ fr.merge \in 1..m /\ fr.current \in 1..m /\ fr.count \in Nat
<1> DEFINE L == [kind : {"logic"}, merge : 1..m, current : 1..m, count : Nat, ready : BOOLEAN]
<1>1. fr \in L
  BY DEF FramesOf
<1>2. L \subseteq FramesOf(m)
  BY DEF FramesOf
<1>3. [fr EXCEPT !.count = @ + 1, !.ready = TRUE] \in L /\ [fr EXCEPT !.ready = FALSE] \in L
  <2>1. fr.count + 1 \in Nat
    BY <1>1
  <2>2. \A n \in Nat, b \in BOOLEAN : [fr EXCEPT !.count = n, !.ready = b] \in L
    BY <1>1
  <2>3. [fr EXCEPT !.ready = FALSE] \in L
    BY <1>1
  <2>4. [fr EXCEPT !.count = @ + 1, !.ready = TRUE] = [fr EXCEPT !.count = fr.count + 1, !.ready = TRUE]
    BY <1>1
  <2>. HIDE DEF L
  <2>. QED BY <2>1, <2>2, <2>3, <2>4
<1>4. /\ WithOperand(fr).merge = fr.merge /\ WithOperand(fr).kind = "logic"
      /\ [fr EXCEPT !.ready = FALSE].merge = fr.merge /\ [fr EXCEPT !.ready = FALSE].kind = "logic"
  BY <1>1 DEF WithOperand
<1>5. fr.merge \in 1..m /\ fr.current \in 1..m /\ fr.count \in Nat
  BY <1>1
<1> HIDE DEF L
<1>6. WithOperand(fr) \in FramesOf(m) /\ [fr EXCEPT !.ready = FALSE] \in FramesOf(m)
  BY <1>2, <1>3 DEF WithOperand
<1>7. Alike(fr, WithOperand(fr)) /\ ~ Ended(WithOperand(fr))
  BY <1>4 DEF Alike, Ended, Statements
<1>8. Alike(fr, [fr EXCEPT !.ready = FALSE]) /\ ~ Ended([fr EXCEPT !.ready = FALSE])
  BY <1>4 DEF Alike, Ended, Statements
<1>. QED BY <1>5, <1>6, <1>7, <1>8

LEMMA PhiTyped ==
  ASSUME PhisTyped(phis), made \in Nat, made <= MaxBlocks,
         NEW fr \in FramesOf(made), fr.kind = "logic", NEW b \in Blocks
  PROVE  PhisTyped(PhiOf(fr, b))
<1>1. fr.merge \in 1..made /\ fr.current \in 1..made /\ fr.count \in Nat
  BY LogicFrame
<1>2. fr.merge \in Blocks /\ fr.current \in Blocks /\ fr.count + 1 \in Nat \ {0}
  BY <1>1, Bounds DEF Blocks
<1> DEFINE e == <<IF fr.count = 0 THEN fr.current ELSE b, fr.count + 1>>
<1>3. e \in Blocks \X (Nat \ {0})
  BY <1>2
<1> HIDE DEF e
<1>4. phis[fr.merge] \union {e} \in SUBSET (Blocks \X (Nat \ {0}))
  BY <1>2, <1>3 DEF PhisTyped
<1>5. PhiOf(fr, b) = [phis EXCEPT ![fr.merge] = @ \union {e}]
  BY DEF PhiOf, e
<1>. QED BY <1>2, <1>4, <1>5 DEF PhisTyped

LEMMA OperandStep ==
  ASSUME BlocksInv, operand PROVE BlocksInv'
<1> DEFINE y == WithOperand(Top)
<1>1. /\ stack # <<>> /\ Top.kind = "logic" /\ content' = Insert(ins, Code)
      /\ phis' = PhiOf(Top, ins) /\ stack' = Append(Below, y)
      /\ made' = made /\ fnOf' = fnOf /\ ins' = ins /\ live' = live /\ buried' = buried
  BY DEF operand, Replace
<1>2. /\ ins \in 1..made /\ ins \in Blocks /\ fnOf[ins] = CurrentFn /\ ins \notin Saved(stack)
      /\ made \in Nat /\ Top = TopOf(stack) /\ Below = Under(stack)
      /\ CurrentFn = FnAt(stack, Len(stack)) /\ Placed(stack, fnOf, made)
  BY <1>1, HereFacts DEF BlocksInv
<1>3. Top \in FramesOf(made)
  BY <1>1, BelowFacts
<1>4. y \in FramesOf(made) /\ Alike(Top, y) /\ ~ Ended(y) /\ ~ Ended(Top) /\ Top.kind # "loop"
  BY <1>1, <1>2, <1>3, LogicFrame DEF Ended, Statements
<1>5. PhisTyped(phis')
  BY <1>1, <1>2, <1>3, TypesHere, Bounds, PhiTyped
<1> HIDE DEF y
<1>6. /\ Placed(stack', fnOf, made) /\ stack' # <<>> /\ TopOf(stack') = y
      /\ FnAt(stack', Len(stack')) = CurrentFn /\ Saved(stack') = Saved(stack)
  <2>1. /\ Placed(Append(Under(stack), y), fnOf, made) /\ Append(Under(stack), y) # <<>>
        /\ TopOf(Append(Under(stack), y)) = y
        /\ FnAt(Append(Under(stack), y), Len(Append(Under(stack), y))) = FnAt(stack, Len(stack))
        /\ Saved(Append(Under(stack), y)) = Saved(stack)
    BY <1>1, <1>2, <1>4, SwapTop
  <2>. QED BY <1>1, <1>2, <2>1
<1>7. KeepsWaiting(stack, stack', fnOf)
  <2>1. ASSUME NEW t, NEW f PROVE Waits(Append(Under(stack), y), t, f) <=> Waits(stack, t, f)
    BY <1>1, <1>2, <1>4, SwapTopWaits
  <2>. QED BY <1>1, <1>2, <2>1 DEF KeepsWaiting
<1>8. Remembers(stack, buried, stack', buried)
  <2>1. ASSUME NEW f, Soiled(stack, f) PROVE Soiled(Append(Under(stack), y), f)
    BY <1>1, <1>2, <1>4, <2>1, SwapTopSoiled
  <2>. QED BY <1>1, <1>2, <2>1 DEF Remembers
<1>9. Attaches(fnOf, fnOf, ins) /\ Moves(stack, fnOf, ins, ins) /\ Returning(stack, stack', ins, ins)
  BY <1>6, SameBlocks, SameSaved
<1>10. Filled(stack', fnOf, content', ins, buried)
  BY <1>1, <1>4, <1>6, <1>7, <1>8, <1>9, GoOn DEF Closed
<1>11. CodeTyped(content', made)
  <2>1. Code \in InstrOf(made) /\ made <= made
    BY <1>2, InstrHere
  <2>. QED BY <1>1, <1>2, <2>1, CodeInserted
<1>12. /\ made' \in 0..MaxBlocks /\ FnTyped(fnOf', made') /\ CodeTyped(content', made')
       /\ PhisTyped(phis') /\ ins' \in 1..made' /\ live' \in BOOLEAN /\ buried' \subseteq 1..made'
  BY <1>1, <1>2, <1>5, <1>11, TypesHere
<1>13. /\ Placed(stack', fnOf', made') /\ stack' # <<>> /\ fnOf'[ins'] = FnAt(stack', Len(stack'))
       /\ Filled(stack', fnOf', content', ins', buried')
  BY <1>1, <1>2, <1>6, <1>10
<1>. QED BY <1>12, <1>13, Stepped

LEMMA NextOperandStep ==
  ASSUME BlocksInv, nextOperand PROVE BlocksInv'
<1> DEFINE y == [Top EXCEPT !.ready = FALSE]
           x == made + 1
           fn2 == [fnOf EXCEPT ![x] = CurrentFn]
           e == CondBr(Top.count, x, Top.merge)
<1>1. /\ stack # <<>> /\ Top.kind = "logic" /\ made < MaxBlocks /\ content' = Insert(ins, e)
      /\ phis' = phis /\ stack' = Append(Below, y)
      /\ made' = x /\ fnOf' = fn2 /\ ins' = x /\ live' = live /\ buried' = buried
  BY DEF nextOperand, Replace
<1>2. /\ ins \in 1..made /\ ins \in Blocks /\ fnOf[ins] = CurrentFn /\ ins \notin Saved(stack)
      /\ made \in Nat /\ Top = TopOf(stack) /\ Below = Under(stack)
      /\ CurrentFn \in 1..made /\ CurrentFn # NoBlock
      /\ CurrentFn = FnAt(stack, Len(stack)) /\ Placed(stack, fnOf, made)
  BY <1>1, HereFacts DEF BlocksInv
<1>3. Top \in FramesOf(made) /\ Brings(Below, Top) = {Top.merge}
  BY <1>1, BelowFacts DEF AwaitsOf
<1>4. /\ y \in FramesOf(made) /\ Alike(Top, y) /\ ~ Ended(y) /\ ~ Ended(Top) /\ Top.kind # "loop"
      /\ Top.merge \in 1..made /\ Top.count \in Nat
  BY <1>1, <1>2, <1>3, LogicFrame DEF Ended, Statements
<1>5. /\ x \in Nat /\ made <= x /\ x \in Blocks /\ x > made /\ x \in 1..x /\ x # ins /\ x \notin 1..made
      /\ x <= MaxBlocks /\ CurrentFn \in 1..x /\ Top.merge \in 1..x
      /\ \A b \in 1..made : b \in Blocks /\ b # x
  BY <1>1, <1>2, <1>4, Bounds DEF Blocks
<1>6. fnOf[x] = NoBlock
  BY <1>5, FreshBlocks
<1>7. e \in InstrOf(x) /\ e # Code /\ e.to = {x, Top.merge}
  BY <1>4, <1>5, InstrHere
<1> HIDE DEF x
<1>8. Attaches(fnOf, fn2, x) /\ fn2[x] = CurrentFn /\ \A b \in Blocks : b # x => fn2[b] = fnOf[b]
  <2>1. x \in Blocks /\ fnOf[x] = NoBlock /\ CurrentFn # NoBlock
    BY <1>2, <1>5, <1>6
  <2>. QED BY <2>1, AttachesNew
<1>9. FnTyped(fn2, x)
  <2>1. FnTyped(fnOf, x)
    BY <1>2, <1>5, TypesHere, FnWider
  <2>. QED BY <1>5, <2>1, FnAttached
<1> HIDE DEF y, fn2, e
<1>10. /\ Placed(stack', fnOf, made) /\ stack' # <<>> /\ TopOf(stack') = y
      /\ FnAt(stack', Len(stack')) = CurrentFn /\ Saved(stack') = Saved(stack)
  <2>1. /\ Placed(Append(Under(stack), y), fnOf, made) /\ Append(Under(stack), y) # <<>>
        /\ TopOf(Append(Under(stack), y)) = y
        /\ FnAt(Append(Under(stack), y), Len(Append(Under(stack), y))) = FnAt(stack, Len(stack))
        /\ Saved(Append(Under(stack), y)) = Saved(stack)
    BY <1>1, <1>2, <1>4, SwapTop
  <2>. QED BY <1>1, <1>2, <2>1
<1>11. Placed(stack', fn2, x)
  <2>1. ~ Awaited(stack', x)
    BY <1>5, <1>10, AwaitedIn
  <2>2. \A b \in 1..made : fn2[b] = fnOf[b]
    BY <1>5, <1>8
  <2>. QED BY <1>2, <1>5, <1>10, <2>1, <2>2, PlacedAttach
<1>12. KeepsWaiting(stack, stack', fn2) /\ Waits(stack', Top.merge, CurrentFn)
  <2>1. ASSUME NEW t, NEW f PROVE Waits(Append(Under(stack), y), t, f) <=> Waits(stack, t, f)
    BY <1>1, <1>2, <1>4, SwapTopWaits
  <2>2. Waits(stack, Top.merge, CurrentFn)
    BY <1>1, <1>3, BelowWaits
  <2>. QED BY <1>1, <1>2, <2>1, <2>2 DEF KeepsWaiting
<1>13. Remembers(stack, buried, stack', buried)
  <2>1. ASSUME NEW f, Soiled(stack, f) PROVE Soiled(Append(Under(stack), y), f)
    BY <1>1, <1>2, <1>4, <2>1, SwapTopSoiled
  <2>. QED BY <1>1, <1>2, <2>1 DEF Remembers
<1>14. Moves(stack, fnOf, ins, x) /\ Returning(stack, stack', ins, x) /\ ~ Closed(stack')
  BY <1>4, <1>6, <1>10, SameSaved DEF Moves, Closed
<1>15. \A t \in e.to : fn2[t] = CurrentFn \/ Waits(stack', t, CurrentFn)
  BY <1>7, <1>8, <1>12
<1>16. Filled(stack', fn2, content', x, buried)
  BY <1>1, <1>2, <1>4, <1>5, <1>7, <1>8, <1>10, <1>12, <1>13, <1>14, <1>15, Terminate
<1>17. /\ made' \in 0..MaxBlocks /\ FnTyped(fnOf', made') /\ CodeTyped(content', made')
       /\ PhisTyped(phis') /\ ins' \in 1..made' /\ live' \in BOOLEAN /\ buried' \subseteq 1..made'
  <2>1. CodeTyped(content', x)
    BY <1>1, <1>2, <1>5, <1>7, CodeInserted
  <2>2. buried \subseteq 1..x /\ x \in 0..MaxBlocks
    BY <1>2, <1>5, TypesHere
  <2>. QED BY <1>1, <1>5, <1>9, <2>1, <2>2, TypesHere
<1>18. /\ Placed(stack', fnOf', made') /\ stack' # <<>> /\ fnOf'[ins'] = FnAt(stack', Len(stack'))
       /\ Filled(stack', fnOf', content', ins', buried')
  BY <1>1, <1>8, <1>10, <1>11, <1>16
<1>. QED BY <1>17, <1>18, Stepped

\* The stack when a logical expression ends: what was around it, which has an operand
\* more if it is a logical expression too.
LEMMA AfterLogic ==
  ASSUME BlocksInv, endLogic
  PROVE  /\ \/ stack' = Below
            \/ /\ TopOf(Below).kind = "logic"
               /\ stack' = Append(Under(Below), WithOperand(TopOf(Below)))
         /\ PhisTyped(phis') /\ ~ Ended(TopOf(Below)) /\ TopOf(Below) \in FramesOf(made)
<1> DEFINE a == TopOf(Below)
<1>1. /\ stack # <<>> /\ Top.kind = "logic"
      /\ IF a.kind = "logic"
           THEN phis' = PhiOf(a, Top.merge) /\ stack' = Append(Under(Below), WithOperand(a))
           ELSE stack' = Below /\ phis' = phis
  BY DEF endLogic, TopOf, Under
<1>2. /\ Below # <<>> /\ Placed(Below, fnOf, made) /\ Fits(a, Top) /\ Top \in FramesOf(made)
      /\ made \in Nat
  BY <1>1, BelowFacts, HereFacts
<1>3. a \in FramesOf(made)
  BY <1>2, PlacedPop
<1>4. ~ Ended(a)
  BY <1>1, <1>2 DEF Fits, IsExpression
<1>5. Top.merge \in Blocks /\ PhisTyped(phis) /\ made <= MaxBlocks
  <2>1. Top.merge \in 1..made
    BY <1>1, <1>2, LogicFrame
  <2>. QED BY <1>2, <2>1, TypesHere, Bounds DEF Blocks
<1> HIDE DEF a
<1>6. a.kind = "logic" => PhisTyped(PhiOf(a, Top.merge))
  BY <1>2, <1>3, <1>5, PhiTyped
<1>. QED BY <1>1, <1>3, <1>4, <1>5, <1>6 DEF a

LEMMA EndLogicStep ==
  ASSUME BlocksInv, endLogic PROVE BlocksInv'
<1> DEFINE a == TopOf(Below)
           x == Top.merge
           fn2 == [fnOf EXCEPT ![x] = CurrentFn]
           e == [Br(x) EXCEPT !.on = Top.count]
<1>1. /\ stack # <<>> /\ Top.kind = "logic" /\ content' = Insert(ins, e)
      /\ fnOf' = fn2 /\ ins' = x /\ made' = made /\ live' = live /\ buried' = buried
  BY DEF endLogic
<1>2. /\ ins \in 1..made /\ ins \in Blocks /\ fnOf[ins] = CurrentFn /\ ins \notin Saved(stack)
      /\ CurrentFn \in 1..made /\ made \in Nat /\ made <= made /\ CurrentFn # NoBlock
  BY <1>1, HereFacts
<1>3. /\ Below # <<>> /\ FnAt(Below, Len(Below)) = CurrentFn /\ Saved(Below) = Saved(stack)
      /\ Top \in FramesOf(made) /\ Brings(Below, Top) = {x}
  BY <1>1, BelowFacts DEF AwaitsOf
<1>4. x \in 1..made /\ Top.count \in Nat /\ ~ Ended(Top) /\ Top.kind # "fn"
  BY <1>1, <1>2, <1>3, LogicFrame DEF Ended, Statements
<1>5. e \in InstrOf(made) /\ e # Code /\ e.to = {x}
  BY <1>2, <1>4 DEF InstrOf, Br, Code
<1>6. Hands(x, fn2) /\ x \in Brings(Below, Top)
  BY <1>3 DEF Hands
<1>7. FnTyped(fn2, made)
  <2>1. FnTyped(fnOf, made) /\ made <= MaxBlocks
    BY <1>2, TypesHere, Bounds
  <2>. QED BY <1>2, <1>4, <2>1, FnAttached
<1>8. /\ \/ stack' = Below
         \/ a.kind = "logic" /\ stack' = Append(Under(Below), WithOperand(a))
      /\ PhisTyped(phis') /\ ~ Ended(a) /\ a \in FramesOf(made)
  BY AfterLogic
<1> HIDE DEF a, x, fn2, e
<1>9. /\ Placed(Below, fn2, made) /\ KeepsWaiting(stack, Below, fn2)
      /\ Attaches(fnOf, fn2, x) /\ x \in Blocks /\ fnOf[x] = NoBlock /\ fn2[x] = CurrentFn
  BY <1>1, <1>4, <1>6, Handed
<1>10. Remembers(stack, buried, Below, buried)
  BY <1>1, BelowSoiled DEF Remembers
<1>11. /\ Placed(stack', fn2, made) /\ stack' # <<>> /\ ~ Closed(stack')
       /\ FnAt(stack', Len(stack')) = CurrentFn /\ Saved(stack') = Saved(stack)
       /\ KeepsWaiting(stack, stack', fn2) /\ Remembers(stack, buried, stack', buried)
  <2>1. CASE stack' = Below
    <3>1. ~ Closed(stack')
      BY <1>8, <2>1 DEF Closed, a
    <3>. QED BY <1>3, <1>9, <1>10, <2>1, <3>1
  <2>2. CASE a.kind = "logic" /\ stack' = Append(Under(Below), WithOperand(a))
    <3> DEFINE y == WithOperand(a)
    <3>1. y \in FramesOf(made) /\ Alike(a, y) /\ ~ Ended(y)
      BY <1>2, <1>8, <2>2, LogicFrame
    <3>2. a = TopOf(Below) /\ a.kind # "loop"
      BY <2>2 DEF a
    <3> HIDE DEF y
    <3>3. /\ Placed(Append(Under(Below), y), fn2, made) /\ Append(Under(Below), y) # <<>>
          /\ TopOf(Append(Under(Below), y)) = y
          /\ FnAt(Append(Under(Below), y), Len(Append(Under(Below), y))) = FnAt(Below, Len(Below))
          /\ Saved(Append(Under(Below), y)) = Saved(Below)
      BY <1>2, <1>3, <1>9, <3>1, <3>2, SwapTop
    <3>4. stack' = Append(Under(Below), y)
      BY <2>2 DEF y
    <3>5. ASSUME NEW t, NEW f PROVE Waits(Append(Under(Below), y), t, f) <=> Waits(Below, t, f)
      BY <1>2, <1>3, <1>9, <3>1, <3>2, SwapTopWaits
    <3>6. ASSUME NEW f, Soiled(Below, f) PROVE Soiled(Append(Under(Below), y), f)
      BY <1>2, <1>3, <1>9, <3>1, <3>2, <3>6, SwapTopSoiled
    <3>7. KeepsWaiting(stack, stack', fn2)
      BY <1>9, <3>4, <3>5 DEF KeepsWaiting
    <3>8. Remembers(stack, buried, stack', buried)
      BY <1>10, <3>4, <3>6 DEF Remembers
    <3>9. ~ Closed(stack')
      BY <3>1, <3>3, <3>4 DEF Closed
    <3>. QED BY <1>3, <3>3, <3>4, <3>7, <3>8, <3>9
  <2>. QED BY <1>8, <2>1, <2>2
<1>12. Moves(stack, fnOf, ins, x) /\ Returning(stack, stack', ins, x) /\ x # ins
  BY <1>2, <1>9, <1>11, SameSaved DEF Moves
<1>13. \A t \in e.to : fn2[t] = CurrentFn \/ Waits(stack', t, CurrentFn)
  BY <1>5, <1>9
<1>14. Filled(stack', fn2, content', x, buried)
  BY <1>1, <1>2, <1>4, <1>5, <1>9, <1>11, <1>12, <1>13, Terminate
<1>15. /\ made' \in 0..MaxBlocks /\ FnTyped(fnOf', made') /\ CodeTyped(content', made')
       /\ PhisTyped(phis') /\ ins' \in 1..made' /\ live' \in BOOLEAN /\ buried' \subseteq 1..made'
  <2>1. CodeTyped(content', made)
    BY <1>1, <1>2, <1>5, CodeInserted
  <2>. QED BY <1>1, <1>4, <1>7, <1>8, <2>1, TypesHere
<1>16. /\ Placed(stack', fnOf', made') /\ stack' # <<>> /\ fnOf'[ins'] = FnAt(stack', Len(stack'))
       /\ Filled(stack', fnOf', content', ins', buried')
  BY <1>1, <1>9, <1>11, <1>14
<1>. QED BY <1>15, <1>16, Stepped

-----------------------------------------------------------------------------
(* Alternatives.                                                              *)

CaseFrame == [kind |-> "case", last |-> "none"]

LEMMA CaseFacts ==
  ASSUME NEW m \in Nat
  PROVE  /\ CaseFrame \in FramesOf(m) /\ CaseFrame.kind = "case" /\ CaseFrame.kind # "fn"
         /\ ~ Ended(CaseFrame)
BY DEF CaseFrame, FramesOf, Lasts, Ended

\* The select after the check of an alternative.
WithElse(fr, else, more) == [fr EXCEPT !.else = else, !.more = more]

LEMMA SelectFrame ==
  ASSUME NEW m \in Nat, NEW m2 \in Nat, m <= m2, NEW fr \in FramesOf(m), fr.kind = "select",
         NEW else \in 1..m2, NEW more \in BOOLEAN
  PROVE  /\ WithElse(fr, else, more) \in FramesOf(m2) /\ WithElse(fr, else, more).kind = "select"
         /\ WithElse(fr, else, more).merge = fr.merge /\ WithElse(fr, else, more).else = else
         /\ WithElse(fr, else, more).more = more
<1> DEFINE S(n) == [kind : {"select"}, merge : 1..n, else : 0..n, more : BOOLEAN, was : BOOLEAN]
<1>1. fr \in FramesOf(m2)
  BY FramesWider
<1>2. fr \in S(m2) /\ S(m2) \subseteq FramesOf(m2)
  BY <1>1 DEF FramesOf
<1>3. else \in 0..m2
  OBVIOUS
<1>4. [fr EXCEPT !.else = else, !.more = more] \in S(m2)
  BY <1>2, <1>3
<1>5. /\ [fr EXCEPT !.else = else, !.more = more].kind = "select"
      /\ [fr EXCEPT !.else = else, !.more = more].merge = fr.merge
      /\ [fr EXCEPT !.else = else, !.more = more].else = else
      /\ [fr EXCEPT !.else = else, !.more = more].more = more
  BY <1>2
<1> HIDE DEF S
<1>. QED BY <1>2, <1>4, <1>5 DEF WithElse

\* The stack when an alternative of a select is opened.
LEMMA SelectOpened ==
  ASSUME BlocksInv, stack # <<>>, Top.kind = "select", NEW m2 \in Nat, made + 1 <= m2, m2 <= MaxBlocks,
         NEW fr \in FramesOf(m2), fr.kind = "select", fr.merge = Top.merge,
         fr.more => fr.else \in (made + 2)..m2,
         NEW fn2, fn2[made + 1] = CurrentFn, \A b \in Blocks : b # made + 1 => fn2[b] = fnOf[b],
         NEW st2, st2 = Append(Append(Below, fr), CaseFrame)
  PROVE  /\ Placed(st2, fn2, m2) /\ st2 # <<>> /\ ~ Closed(st2)
         /\ FnAt(st2, Len(st2)) = CurrentFn /\ Saved(st2) = Saved(stack)
         /\ KeepsWaiting(stack, st2, fn2) /\ Remembers(stack, buried, st2, buried)
         /\ Waits(st2, Top.merge, CurrentFn) /\ (fr.more => Waits(st2, fr.else, CurrentFn))
<1> DEFINE x == made + 1
           b1 == Append(Below, fr)
<1>1. /\ made \in Nat /\ CurrentFn # NoBlock /\ made <= m2 /\ x \notin 1..made /\ x \in 1..m2
      /\ x > made /\ x \in Blocks /\ (\A t \in (made + 2)..m2 : t \notin 1..made /\ t # x /\ t \in 1..m2)
      /\ \A t \in 1..made : t # x /\ t \in 1..m2
      /\ \A t \in 1..m2 : t \in Blocks
      /\ \A t \in (made + 2)..m2 : t > made
  BY HereFacts, Bounds DEF Blocks
<1>2. /\ Below # <<>> /\ Placed(Below, fnOf, made) /\ FnAt(Below, Len(Below)) = CurrentFn
      /\ Saved(Below) = Saved(stack) /\ Fits(TopOf(Below), Top)
      /\ Joins(Below, Top, fnOf, made) /\ Brings(Below, Top) = {Top.merge}
  BY BelowFacts DEF AwaitsOf
<1> HIDE DEF x
<1>3. fnOf[x] = NoBlock
  BY <1>1, FreshBlocks
<1>4. fn2[x] = CurrentFn /\ \A b \in Blocks : b # x => fn2[b] = fnOf[b]
  BY DEF x
<1>5. Placed(Below, fn2, m2)
  <2>1. ~ Awaited(Below, x)
    BY <1>1, <1>2, AwaitedIn
  <2>2. \A b \in 1..made : b # x => fn2[b] = fnOf[b]
    BY <1>1, <1>4
  <2>3. made \in Nat /\ made <= m2 /\ Placed(Below, fnOf, made) /\ (x \in 1..made => fnOf[x] = NoBlock)
    BY <1>1, <1>2
  <2>. QED BY <2>1, <2>2, <2>3, PlacedAttach
<1>6. Joins(Below, fr, fn2, m2) /\ Brings(Below, fr) = {Top.merge} /\ fr.kind # "fn"
  <2>1. StandsOn(Below, fr) /\ KnownOf(Below, fr, fn2)
    BY <1>2 DEF StandsOn, Fits, IsExpression, KnownOf, TopOf
  <2>2. Brings(Below, fr) = {Top.merge}
    BY <1>2 DEF Brings, AwaitsOf
  <2>3. Top.merge \in 1..made /\ fnOf[Top.merge] = NoBlock /\ ~ Awaited(Below, Top.merge)
    BY <1>2 DEF Joins
  <2>4. fn2[Top.merge] = NoBlock /\ Top.merge \in 1..m2
    BY <1>1, <1>4, <2>3
  <2>. QED BY <2>1, <2>2, <2>3, <2>4 DEF Joins
<1>7. /\ Placed(b1, fn2, m2) /\ b1 # <<>> /\ TopOf(b1) = fr
      /\ FnAt(b1, Len(b1)) = FnAt(Below, Len(Below)) /\ Saved(b1) = Saved(Below)
  BY <1>2, <1>5, <1>6, Put
<1>8. ASSUME NEW t, NEW f
      PROVE  Waits(b1, t, f) <=>
               Waits(Below, t, f) \/ (t \in Brings(Below, fr) /\ f = FnAt(Below, Len(Below)))
  BY <1>2, <1>5, <1>6, PutWaits
<1>9. ASSUME NEW f, Soiled(Below, f) PROVE Soiled(b1, f)
  BY <1>2, <1>5, <1>6, <1>9, PutSoiled
<1>10. ASSUME NEW t PROVE Awaited(b1, t) <=> Awaited(Below, t) \/ t \in Brings(Below, fr)
  <2>1. Below \in Seq(FramesOf(m2)) /\ Nests(Below) /\ StandsOn(Below, fr)
    BY <1>5, <1>6 DEF Placed, Joins
  <2>. QED BY <2>1, AwaitedPush
<1> HIDE DEF b1
<1>11. CaseFrame \in FramesOf(m2) /\ CaseFrame.kind = "case" /\ CaseFrame.kind # "fn" /\ ~ Ended(CaseFrame)
  BY CaseFacts
<1>12. Brings(b1, CaseFrame) = IF fr.more THEN {fr.else} ELSE {}
  BY <1>7, <1>11 DEF Brings, AwaitsOf, TopOf
<1>13. Joins(b1, CaseFrame, fn2, m2)
  <2>1. StandsOn(b1, CaseFrame) /\ KnownOf(b1, CaseFrame, fn2)
    BY <1>7, <1>11 DEF StandsOn, Fits, KnownOf, TopOf
  <2>2. fr.more => fnOf[fr.else] = NoBlock
    BY <1>1, FreshBlocks
  <2>3. fr.more => fn2[fr.else] = NoBlock /\ fr.else \in 1..m2 /\ fr.else \notin 1..made
    BY <1>1, <1>4, <2>2
  <2>4. Top.merge \in 1..made
    BY <1>2 DEF Joins
  <2>5. fr.more => ~ Awaited(b1, fr.else)
    <3>1. fr.more => ~ Awaited(Below, fr.else)
      BY <1>2, <2>3, AwaitedIn
    <3>. QED BY <1>6, <1>10, <2>3, <2>4, <3>1
  <2>. QED BY <1>12, <2>1, <2>3, <2>5 DEF Joins
<1>14. st2 = Append(b1, CaseFrame)
  BY DEF b1
<1>15. /\ Placed(Append(b1, CaseFrame), fn2, m2) /\ Append(b1, CaseFrame) # <<>>
       /\ TopOf(Append(b1, CaseFrame)) = CaseFrame
       /\ FnAt(Append(b1, CaseFrame), Len(Append(b1, CaseFrame))) = FnAt(b1, Len(b1))
       /\ Saved(Append(b1, CaseFrame)) = Saved(b1)
  BY <1>7, <1>11, <1>13, Put
<1>16. ASSUME NEW t, NEW f
       PROVE  Waits(Append(b1, CaseFrame), t, f) <=>
               Waits(b1, t, f) \/ (t \in Brings(b1, CaseFrame) /\ f = FnAt(b1, Len(b1)))
  BY <1>7, <1>11, <1>13, PutWaits
<1>17. ASSUME NEW f, Soiled(b1, f) PROVE Soiled(Append(b1, CaseFrame), f)
  BY <1>7, <1>11, <1>13, <1>17, PutSoiled
<1>18. ASSUME NEW t, NEW f
       PROVE  Waits(st2, t, f) <=> \/ Waits(stack, t, f)
                                   \/ t \in Brings(b1, CaseFrame) /\ f = CurrentFn
  BY <1>2, <1>6, <1>7, <1>8, <1>14, <1>16, BelowWaits
<1>19. KeepsWaiting(stack, st2, fn2)
  BY <1>18 DEF KeepsWaiting
<1>20. Waits(st2, Top.merge, CurrentFn)
  BY <1>2, <1>18, BelowWaits
<1>21. fr.more => Waits(st2, fr.else, CurrentFn)
  BY <1>12, <1>18
<1>22. Remembers(stack, buried, st2, buried)
  <2>1. ASSUME NEW f, Soiled(stack, f) PROVE Soiled(st2, f)
    BY <1>9, <1>14, <1>17, <2>1, BelowSoiled
  <2>. QED BY <2>1 DEF Remembers
<1>23. ~ Closed(st2)
  BY <1>11, <1>14, <1>15 DEF Closed
<1>. QED BY <1>2, <1>7, <1>14, <1>15, <1>19, <1>20, <1>21, <1>22, <1>23

LEMMA SelectCaseStep ==
  ASSUME BlocksInv, NEW isLast \in BOOLEAN, selectCase(isLast) PROVE BlocksInv'
<1> DEFINE x == made + 1
           m2 == IF isLast THEN x ELSE made + 2
           else == IF isLast THEN Top.merge ELSE made + 2
           more == ~ isLast
           fr == WithElse(Top, else, more)
           fn2 == [fnOf EXCEPT ![x] = CurrentFn]
           e == CondBr(0, x, else)
<1>1. /\ stack # <<>> /\ Top.kind = "select" /\ m2 <= MaxBlocks
      /\ made' = m2 /\ fnOf' = fn2 /\ content' = Insert(ins, e) /\ ins' = x /\ live' = Top.was
      /\ stack' = Append(Append(Below, fr), CaseFrame) /\ phis' = phis /\ buried' = buried
      /\ Top.more
  BY DEF selectCase, Replace, CaseFrame, WithElse
<1>2. /\ ins \in 1..made /\ ins \in Blocks /\ fnOf[ins] = CurrentFn /\ ins \notin Saved(stack)
      /\ made \in Nat /\ CurrentFn \in 1..made /\ CurrentFn # NoBlock
  BY <1>1, HereFacts
<1>3. Top \in FramesOf(made)
  BY <1>1, BelowFacts
<1>4. Top.merge \in 1..made /\ Top.was \in BOOLEAN
  BY <1>1, <1>2, <1>3, FrameFacts
<1>5. /\ m2 \in Nat /\ x <= m2 /\ made <= m2 /\ x \in 1..m2 /\ else \in 1..m2 /\ x # ins
      /\ ~ isLast => else \in (made + 2)..m2
  BY <1>2, <1>4
<1>6. x \in Blocks /\ x > made /\ CurrentFn \in 1..m2
  BY <1>1, <1>2, <1>5, Bounds DEF Blocks
<1>7. isLast => else = Top.merge
  OBVIOUS
<1> HIDE DEF m2, else
<1>8. e \in InstrOf(m2) /\ e # Code /\ e.to = {x, else}
  <2>1. 0 \in Nat /\ m2 \in Nat /\ x \in 1..m2 /\ else \in 1..m2
    BY <1>5
  <2> HIDE DEF x, more, fr, fn2
  <2>. QED BY <2>1, CondBrHere
<1>9. /\ fr \in FramesOf(m2) /\ fr.kind = "select" /\ fr.merge = Top.merge
      /\ fr.else = else /\ fr.more = ~ isLast
  <2>1. /\ made \in Nat /\ m2 \in Nat /\ made <= m2 /\ Top \in FramesOf(made) /\ Top.kind = "select"
        /\ else \in 1..m2 /\ more \in BOOLEAN
    BY <1>1, <1>2, <1>3, <1>5
  <2>2. more = ~ isLast
    OBVIOUS
  <2> HIDE DEF more
  <2>3. /\ fr \in FramesOf(m2) /\ fr.kind = "select" /\ fr.merge = Top.merge
        /\ fr.else = else /\ fr.more = more
    BY <2>1, SelectFrame
  <2>. QED BY <2>2, <2>3
<1>10. fnOf[x] = NoBlock
  BY <1>6, FreshBlocks
<1>11. fr.more => fr.else \in (made + 2)..m2
  BY <1>5, <1>9
<1> HIDE DEF fr, e
<1>13. Attaches(fnOf, fn2, x) /\ fn2[x] = CurrentFn /\ \A b \in Blocks : b # x => fn2[b] = fnOf[b]
  <2>1. x \in Blocks /\ fnOf[x] = NoBlock /\ CurrentFn # NoBlock
    BY <1>2, <1>6, <1>10
  <2> HIDE DEF x
  <2>. QED BY <2>1, AttachesNew
<1>12. /\ Placed(stack', fn2, m2) /\ stack' # <<>> /\ ~ Closed(stack')
       /\ FnAt(stack', Len(stack')) = CurrentFn /\ Saved(stack') = Saved(stack)
       /\ KeepsWaiting(stack, stack', fn2) /\ Remembers(stack, buried, stack', buried)
       /\ Waits(stack', Top.merge, CurrentFn) /\ (fr.more => Waits(stack', fr.else, CurrentFn))
  <2> HIDE DEF fn2
  <2>. QED BY <1>1, <1>5, <1>9, <1>11, <1>13, SelectOpened
<1> HIDE DEF x
<1>14. FnTyped(fn2, m2)
  <2>1. FnTyped(fnOf, m2)
    BY <1>2, <1>5, TypesHere, FnWider
  <2>. QED BY <1>1, <1>5, <1>6, <2>1, FnAttached
<1> HIDE DEF fn2
<1>15. \A t \in e.to : fn2[t] = CurrentFn \/ Waits(stack', t, CurrentFn)
  BY <1>7, <1>8, <1>9, <1>12, <1>13
<1>16. Moves(stack, fnOf, ins, x) /\ Returning(stack, stack', ins, x) /\ ~ Ended(Top)
  BY <1>1, <1>10, <1>12, SameSaved DEF Moves, Ended, Statements
<1>17. Filled(stack', fn2, content', x, buried)
  BY <1>1, <1>2, <1>5, <1>8, <1>12, <1>13, <1>15, <1>16, Terminate
<1>18. /\ made' \in 0..MaxBlocks /\ FnTyped(fnOf', made') /\ CodeTyped(content', made')
       /\ PhisTyped(phis') /\ ins' \in 1..made' /\ live' \in BOOLEAN /\ buried' \subseteq 1..made'
  <2>1. CodeTyped(content', m2)
    BY <1>1, <1>2, <1>5, <1>8, CodeInserted
  <2>2. buried \subseteq 1..m2 /\ m2 \in 0..MaxBlocks
    BY <1>1, <1>2, <1>5, TypesHere, Bounds
  <2>. QED BY <1>1, <1>4, <1>5, <1>14, <2>1, <2>2, TypesHere
<1>19. /\ Placed(stack', fnOf', made') /\ stack' # <<>> /\ fnOf'[ins'] = FnAt(stack', Len(stack'))
       /\ Filled(stack', fnOf', content', ins', buried')
  BY <1>1, <1>12, <1>13, <1>17
<1>. QED BY <1>18, <1>19, Stepped

LEMMA AddCaseFacts ==
  ASSUME NEW m \in Nat, NEW code \in Seq(InstrOf(m)), NEW merge, NEW x \in 1..m
  PROVE  /\ AddCase(code, merge, x) \in Seq(InstrOf(m)) /\ Len(AddCase(code, merge, x)) = Len(code)
         /\ Terms(AddCase(code, merge, x)) = Terms(code)
         /\ Targets(AddCase(code, merge, x)) \subseteq Targets(code) \union {x}
<1> DEFINE new == AddCase(code, merge, x)
<1>1. DOMAIN code = 1..Len(code) /\ Len(code) \in Nat
  OBVIOUS
<1>2. ASSUME NEW k \in 1..Len(code)
      PROVE  /\ new[k] \in InstrOf(m) /\ (new[k] = Code <=> code[k] = Code)
             /\ new[k].to \subseteq code[k].to \union {x}
  <2>1. code[k] \in InstrOf(m)
    OBVIOUS
  <2>2. new[k] = IF code[k].op = "switch" /\ merge \in code[k].to
                   THEN [code[k] EXCEPT !.to = @ \union {x}] ELSE code[k]
    BY <1>1 DEF AddCase
  <2>3. CASE code[k].op = "switch" /\ merge \in code[k].to
    <3>1. new[k] = [code[k] EXCEPT !.to = @ \union {x}]
      BY <2>2, <2>3
    <3> HIDE DEF new
    <3>2. new[k] = [op |-> "switch", to |-> code[k].to \union {x}, on |-> code[k].on]
      BY <2>1, <2>3, <3>1 DEF InstrOf
    <3>3. code[k].to \union {x} \in SUBSET (1..m) /\ code[k].on \in Nat
      BY <2>1 DEF InstrOf
    <3>4. new[k] \in InstrOf(m)
      BY <3>2, <3>3 DEF InstrOf
    <3>5. new[k] # Code /\ code[k] # Code
      BY <2>3, <3>2 DEF Code
    <3>6. new[k].to = code[k].to \union {x}
      BY <3>2
    <3>. QED BY <3>4, <3>5, <3>6
  <2>4. CASE ~ (code[k].op = "switch" /\ merge \in code[k].to)
    <3>1. new[k] = code[k]
      BY <2>2, <2>4
    <3> HIDE DEF new
    <3>. QED BY <2>1, <3>1
  <2>. QED BY <2>3, <2>4
<1>3. DOMAIN new = 1..Len(code)
  BY <1>1 DEF AddCase
<1>4. new = [k \in 1..Len(code) |-> new[k]]
  BY <1>1 DEF AddCase
<1> HIDE DEF new
<1>5. new \in [1..Len(code) -> InstrOf(m)]
  BY <1>2, <1>4
<1>6. new \in Seq(InstrOf(m)) /\ Len(new) = Len(code)
  BY <1>1, <1>5
<1>7. Terms(new) = Terms(code)
  BY <1>1, <1>2, <1>3 DEF Terms
<1>8. Targets(new) \subseteq Targets(code) \union {x}
  BY <1>1, <1>2, <1>3 DEF Targets
<1>. QED BY <1>6, <1>7, <1>8 DEF new

WithCase(fr) == [fr EXCEPT !.cases = @ + 1]

LEMMA MatchFrame ==
  ASSUME NEW m \in Nat, NEW fr \in FramesOf(m), fr.kind = "match"
  PROVE  /\ WithCase(fr) \in FramesOf(m) /\ Alike(fr, WithCase(fr))
         /\ WithCase(fr).kind = "match"
<1> DEFINE M == [kind : {"match"}, merge : 1..m, switch : 1..m, cases : Nat, was : BOOLEAN]
<1>1. fr \in M /\ M \subseteq FramesOf(m)
  BY DEF FramesOf
<1>2. fr.cases + 1 \in Nat
  BY <1>1
<1>3. [fr EXCEPT !.cases = fr.cases + 1] \in M
  BY <1>1, <1>2
<1>4. WithCase(fr) = [fr EXCEPT !.cases = fr.cases + 1]
  BY DEF WithCase
<1>5. WithCase(fr).kind = "match" /\ WithCase(fr).merge = fr.merge /\ WithCase(fr).switch = fr.switch
  BY <1>1 DEF WithCase
<1> HIDE DEF M
<1>. QED BY <1>1, <1>3, <1>4, <1>5 DEF Alike

\* The stack when an alternative of a match is opened.
LEMMA MatchOpened ==
  ASSUME BlocksInv, stack # <<>>, Top.kind = "match", made + 1 <= MaxBlocks,
         NEW fn2, fn2[made + 1] = CurrentFn, \A b \in Blocks : b # made + 1 => fn2[b] = fnOf[b],
         NEW st2, st2 = Append(Append(Below, WithCase(Top)), CaseFrame)
  PROVE  /\ Placed(st2, fn2, made + 1) /\ st2 # <<>> /\ ~ Closed(st2)
         /\ FnAt(st2, Len(st2)) = CurrentFn /\ Saved(st2) = Saved(stack)
         /\ KeepsWaiting(stack, st2, fn2) /\ Remembers(stack, buried, st2, buried)
<1> DEFINE x == made + 1
           y == WithCase(Top)
           b1 == Append(Under(stack), y)
<1>1. /\ made \in Nat /\ x \in Nat /\ made <= x /\ x \notin 1..made
      /\ (\A t \in 1..made : t # x /\ t \in Blocks)
      /\ Top = TopOf(stack) /\ Below = Under(stack)
      /\ CurrentFn = FnAt(stack, Len(stack)) /\ Placed(stack, fnOf, made)
  BY HereFacts, Bounds DEF Blocks, BlocksInv
<1>2. Top \in FramesOf(made)
  BY BelowFacts
<1>3. y \in FramesOf(made) /\ Alike(Top, y) /\ y.kind = "match" /\ Top.kind # "loop"
  BY <1>1, <1>2, MatchFrame
<1> HIDE DEF x, y
<1>4. /\ Placed(b1, fnOf, made) /\ b1 # <<>> /\ TopOf(b1) = y
      /\ FnAt(b1, Len(b1)) = FnAt(stack, Len(stack)) /\ Saved(b1) = Saved(stack)
  BY <1>1, <1>3, SwapTop
<1>5. ASSUME NEW t, NEW f PROVE Waits(b1, t, f) <=> Waits(stack, t, f)
  BY <1>1, <1>3, SwapTopWaits
<1>6. ASSUME NEW f, Soiled(stack, f) PROVE Soiled(b1, f)
  BY <1>1, <1>3, <1>6, SwapTopSoiled
<1>7. st2 = Append(b1, CaseFrame)
  BY <1>1 DEF y
<1> HIDE DEF b1
<1>8. Placed(b1, fn2, x)
  <2>1. ~ Awaited(b1, x)
    BY <1>1, <1>4, AwaitedIn
  <2>2. \A b \in 1..made : b # x => fn2[b] = fnOf[b]
    BY <1>1 DEF x
  <2>3. made \in Nat /\ x \in Nat /\ made <= x /\ Placed(b1, fnOf, made) /\ (x \in 1..made => fnOf[x] = NoBlock)
    BY <1>1, <1>4
  <2>. QED BY <2>1, <2>2, <2>3, PlacedAttach
<1>9. CaseFrame \in FramesOf(x) /\ CaseFrame.kind = "case" /\ CaseFrame.kind # "fn" /\ ~ Ended(CaseFrame)
  BY <1>1, CaseFacts
<1>10. Brings(b1, CaseFrame) = {}
  BY <1>3, <1>4, <1>9 DEF Brings, AwaitsOf, TopOf
<1>11. Joins(b1, CaseFrame, fn2, x)
  <2>1. StandsOn(b1, CaseFrame) /\ KnownOf(b1, CaseFrame, fn2)
    BY <1>3, <1>4, <1>9 DEF StandsOn, Fits, KnownOf, TopOf
  <2>. QED BY <1>10, <2>1 DEF Joins
<1>12. /\ Placed(Append(b1, CaseFrame), fn2, x) /\ Append(b1, CaseFrame) # <<>>
       /\ TopOf(Append(b1, CaseFrame)) = CaseFrame
       /\ FnAt(Append(b1, CaseFrame), Len(Append(b1, CaseFrame))) = FnAt(b1, Len(b1))
       /\ Saved(Append(b1, CaseFrame)) = Saved(b1)
  BY <1>1, <1>4, <1>8, <1>9, <1>11, Put
<1>13. ASSUME NEW t, NEW f
       PROVE  Waits(Append(b1, CaseFrame), t, f) <=>
               Waits(b1, t, f) \/ (t \in Brings(b1, CaseFrame) /\ f = FnAt(b1, Len(b1)))
  BY <1>1, <1>4, <1>8, <1>9, <1>11, PutWaits
<1>14. ASSUME NEW f, Soiled(b1, f) PROVE Soiled(Append(b1, CaseFrame), f)
  BY <1>1, <1>4, <1>8, <1>9, <1>11, <1>14, PutSoiled
<1>15. KeepsWaiting(stack, st2, fn2)
  BY <1>5, <1>7, <1>13 DEF KeepsWaiting
<1>16. Remembers(stack, buried, st2, buried)
  BY <1>6, <1>7, <1>14 DEF Remembers
<1>17. ~ Closed(st2)
  BY <1>7, <1>9, <1>12 DEF Closed
<1>. QED BY <1>1, <1>4, <1>7, <1>12, <1>15, <1>16, <1>17 DEF x

LEMMA MatchCaseStep ==
  ASSUME BlocksInv, matchCase PROVE BlocksInv'
<1> DEFINE x == made + 1
           w == Top.switch
           new == AddCase(content[w], Top.merge, x)
           fn2 == [fnOf EXCEPT ![x] = CurrentFn]
<1>1. /\ stack # <<>> /\ Top.kind = "match" /\ made < MaxBlocks
      /\ made' = x /\ fnOf' = fn2 /\ ins' = x /\ live' = Top.was
      /\ content' = [content EXCEPT ![w] = new, ![x] = <<Code>>]
      /\ stack' = Append(Append(Below, WithCase(Top)), CaseFrame) /\ phis' = phis /\ buried' = buried
  BY DEF matchCase, Replace, CaseFrame, WithCase
<1>2. /\ ins \in 1..made /\ ins \in Blocks /\ fnOf[ins] = CurrentFn /\ ins \notin Saved(stack)
      /\ made \in Nat /\ CurrentFn \in 1..made /\ CurrentFn # NoBlock
  BY <1>1, HereFacts
<1>3. Top \in FramesOf(made) /\ FnAt(Below, Len(Below)) = CurrentFn /\ Joins(Below, Top, fnOf, made)
  BY <1>1, BelowFacts
<1>4. w \in 1..made /\ Top.was \in BOOLEAN /\ fnOf[w] = CurrentFn
  BY <1>1, <1>2, <1>3, FrameFacts DEF Joins, KnownOf
<1>5. /\ x \in Nat /\ made <= x /\ x \in 1..x /\ x # ins /\ x # w /\ x > made /\ x <= MaxBlocks
      /\ x \in Blocks /\ w \in Blocks /\ CurrentFn \in 1..x
  BY <1>1, <1>2, <1>4, Bounds DEF Blocks
<1>6. fnOf[x] = NoBlock /\ content[x] = <<>>
  BY <1>5, FreshBlocks
<1>7. content \in [Blocks -> Seq(InstrOf(x))] /\ TypeOK /\ Filled(stack, fnOf, content, ins, buried)
  <2>1. CodeTyped(content, x)
    BY <1>2, <1>5, TypesHere, CodeWider
  <2>. QED BY <2>1 DEF BlocksInv, CodeTyped
<1>8. content[w] \in Seq(InstrOf(x))
  BY <1>5, <1>7
<1> HIDE DEF x, w
<1>9. /\ new \in Seq(InstrOf(x)) /\ Len(new) = Len(content[w])
      /\ Terms(new) = Terms(content[w]) /\ Targets(new) \subseteq Targets(content[w]) \union {x}
  BY <1>5, <1>8, AddCaseFacts
<1>10. Attaches(fnOf, fn2, x) /\ fn2[x] = CurrentFn /\ \A b \in Blocks : b # x => fn2[b] = fnOf[b]
  <2>1. x \in Blocks /\ fnOf[x] = NoBlock /\ CurrentFn # NoBlock
    BY <1>2, <1>5, <1>6
  <2>. QED BY <2>1, AttachesNew
<1>11. FnTyped(fn2, x)
  <2>1. FnTyped(fnOf, x)
    BY <1>2, <1>5, TypesHere, FnWider
  <2>. QED BY <1>5, <2>1, FnAttached
<1> HIDE DEF new, fn2
<1>12. /\ content'[x] = <<Code>> /\ content'[w] = new
       /\ \A b \in Blocks : b # x /\ b # w => content'[b] = content[b]
  BY <1>1, <1>5, <1>7
<1>13. <<Code>> \in Seq(InstrOf(x)) /\ Terms(<<Code>>) = {} /\ Targets(<<Code>>) = {}
  <2>1. Code \in InstrOf(x) /\ Code.to = {}
    BY <1>5, InstrHere DEF Code
  <2>2. DOMAIN <<Code>> = {1} /\ <<Code>>[1] = Code
    OBVIOUS
  <2>3. \A k \in DOMAIN <<Code>> : <<Code>>[k] = Code
    BY <2>2
  <2>4. Terms(<<Code>>) = {}
    BY <2>3 DEF Terms
  <2>5. Targets(<<Code>>) = {}
    BY <2>1, <2>3 DEF Targets
  <2>. QED BY <2>1, <2>4, <2>5
<1>14. content' \in [Blocks -> Seq(InstrOf(x))]
  BY <1>1, <1>7, <1>9, <1>13
<1>15. /\ Placed(stack', fn2, x) /\ stack' # <<>> /\ ~ Closed(stack')
       /\ FnAt(stack', Len(stack')) = CurrentFn /\ Saved(stack') = Saved(stack)
       /\ KeepsWaiting(stack, stack', fn2) /\ Remembers(stack, buried, stack', buried)
  BY <1>1, <1>5, <1>10, MatchOpened DEF x
<1>16. Moves(stack, fnOf, ins, x) /\ Returning(stack, stack', ins, x)
  BY <1>6, <1>15, SameSaved DEF Moves
<1>17. GoInside(content)
  BY <1>7, TargetsIn DEF GoInside
<1>18. KeepsCode(fnOf, content, ins, stack', fn2, content')
  <2>1. \A b \in Blocks : fnOf[b] = NoBlock =>
           IF fn2[b] = NoBlock THEN content'[b] = content[b]
                               ELSE Terms(content'[b]) = {} /\ Targets(content'[b]) = {}
    <3>1. \A b \in Blocks : fnOf[b] = NoBlock => b # w
      BY <1>2, <1>4
    <3>. QED BY <1>2, <1>10, <1>12, <1>13, <3>1
  <2>2. \A b \in Blocks : fnOf[b] # NoBlock =>
           Terms(content'[b]) = Terms(content[b]) /\ Len(content'[b]) = Len(content[b])
    BY <1>6, <1>9, <1>12
  <2>3. \A b \in Blocks : fnOf[b] # NoBlock => \A t \in Targets(content'[b]) :
           t \in Targets(content[b]) \/ fn2[t] = fnOf[b] \/ Waits(stack', t, fnOf[b])
    BY <1>4, <1>6, <1>9, <1>10, <1>12
  <2>. QED BY <2>1, <2>2, <2>3 DEF KeepsCode
<1>19. Terms(content'[ins]) = Terms(content[ins]) /\ Len(content'[ins]) = Len(content[ins])
  BY <1>2, <1>5, <1>9, <1>12
<1>20. Ended(Top)
  BY <1>1 DEF Ended
<1>21. Finishes(stack', content'[ins], x, ins)
  BY <1>1, <1>19, <1>20, HereContent DEF Finishes
<1>22. ~ IsSoiled(stack', buried, fnOf[ins]) => EndsOnce(stack', content'[ins], x, ins)
  <2>1. ~ IsSoiled(stack', buried, CurrentFn) => CurrentFn \notin buried /\ ~ Soiled(stack, CurrentFn)
    BY <1>15 DEF IsSoiled, Remembers
  <2>. QED BY <1>1, <1>2, <1>5, <1>15, <1>19, <2>1, HereContent DEF EndsOnce
<1>23. Filled(stack', fn2, content', x, buried)
  BY <1>7, <1>10, <1>15, <1>16, <1>17, <1>18, <1>21, <1>22, FilledStep
<1>24. CodeTyped(content', x)
  <2>1. \A b \in Blocks : b > x => content'[b] = <<>>
    <3>1. \A b \in Blocks : b > x => b > made /\ b # x /\ b # w
      BY <1>2, <1>4, <1>5 DEF Blocks, x
    <3>2. \A b \in Blocks : b > x => content[b] = <<>>
      BY <3>1, FreshBlocks
    <3>. QED BY <1>12, <3>1, <3>2
  <2>. QED BY <1>14, <2>1 DEF CodeTyped
<1>25. /\ made' \in 0..MaxBlocks /\ FnTyped(fnOf', made') /\ CodeTyped(content', made')
       /\ PhisTyped(phis') /\ ins' \in 1..made' /\ live' \in BOOLEAN /\ buried' \subseteq 1..made'
  <2>1. buried \subseteq 1..x /\ x \in 0..MaxBlocks
    BY <1>1, <1>2, <1>5, TypesHere, Bounds
  <2>. QED BY <1>1, <1>4, <1>5, <1>11, <1>24, <2>1, TypesHere
<1>26. /\ Placed(stack', fnOf', made') /\ stack' # <<>> /\ fnOf'[ins'] = FnAt(stack', Len(stack'))
       /\ Filled(stack', fnOf', content', ins', buried')
  BY <1>1, <1>10, <1>15, <1>23
<1>. QED BY <1>25, <1>26, Stepped

-----------------------------------------------------------------------------
(* Functions.                                                                 *)

LEMMA SteppedAny ==
  ASSUME made' \in 0..MaxBlocks, FnTyped(fnOf', made'), CodeTyped(content', made'),
         PhisTyped(phis'), ins' \in 0..made', live' \in BOOLEAN, buried' \subseteq 1..made',
         Placed(stack', fnOf', made'), Inserting(stack', fnOf', ins'),
         Filled(stack', fnOf', content', ins', buried')
  PROVE  BlocksInv'
<1>1. stack' \in Seq(FramesOf(made'))
  BY DEF Placed
<1>2. TypeOK'
  BY <1>1 DEF TypeOK, FnTyped, CodeTyped, PhisTyped, Instructions, InstrOf
<1>. QED BY <1>2 DEF BlocksInv

LEMMA NothingVisited ==
  /\ Saved(<<>>) = {} /\ \A t, f : ~ Waits(<<>>, t, f) /\ ~ Soiled(<<>>, f)
  /\ ~ Closed(<<>>)
BY DEF Saved, Waits, Soiled, Closed

\* What is below a function that is being visited.
LEMMA LeftFacts ==
  ASSUME BlocksInv, stack # <<>>, Top.kind = "fn"
  PROVE  /\ Placed(Below, fnOf, made) /\ KeepsWaiting(stack, Below, fnOf)
         /\ Remembers(stack, buried, Below, buried) /\ Returning(stack, Below, ins, Top.saved)
         /\ Inserting(Below, fnOf, Top.saved) /\ Top.saved \in 0..made /\ Top.was \in BOOLEAN
         /\ Top.saved # ins /\ ins \notin Saved(Below) /\ Moves(stack, fnOf, ins, Top.saved)
         /\ StandsOn(Below, Top)
<1>1. /\ made \in Nat /\ CurrentFn = FnAt(stack, Len(stack)) /\ Placed(stack, fnOf, made)
      /\ Top = TopOf(stack) /\ Below = Under(stack) /\ ins \in 1..made /\ ins \notin Saved(stack)
  BY HereFacts DEF BlocksInv
<1>2. /\ Placed(Below, fnOf, made) /\ StandsOn(Below, Top) /\ Joins(Below, Top, fnOf, made)
      /\ Top \in FramesOf(made)
  BY <1>1, PlacedPop
<1>3. Top.saved \in 0..made /\ Top.was \in BOOLEAN
  BY <1>1, <1>2, FrameFacts
<1>4. Brings(Below, Top) = {}
  BY DEF Brings, AwaitsOf
<1>5. KeepsWaiting(stack, Below, fnOf)
  BY <1>4, BelowWaits DEF KeepsWaiting
<1>6. Remembers(stack, buried, Below, buried)
  BY BelowSoiled DEF Remembers
<1>7. ASSUME NEW c
      PROVE  c \in Saved(stack) <=> c \in Saved(Below) \/ (Below # <<>> /\ c = Top.saved)
  <2>1. c \in Saved(stack) <=>
            \/ c \in Saved(Under(stack))
            \/ Under(stack) # <<>> /\ TopOf(stack).kind = "fn" /\ c = TopOf(stack).saved
    BY <1>1, PopSaved
  <2>. QED BY <1>1, <2>1
<1>8. Returning(stack, Below, ins, Top.saved)
  BY <1>7 DEF Returning
<1>9. Inserting(Below, fnOf, Top.saved)
  BY <1>2 DEF Joins, KnownOf, StandsOn, Inserting
<1>10. CASE Below = <<>>
  <2>1. Top.saved = NoBlock
    BY <1>2, <1>10 DEF StandsOn
  <2>2. Top.saved # ins /\ Top.saved \notin Blocks
    BY <1>1, <2>1 DEF NoBlock, Blocks
  <2>. QED BY <1>1, <1>2, <1>3, <1>5, <1>6, <1>7, <1>8, <1>9, <2>2 DEF Moves
<1>11. CASE Below # <<>>
  <2>1. Top.saved \in Saved(stack)
    BY <1>7, <1>11
  <2>. QED BY <1>1, <1>2, <1>3, <1>5, <1>6, <1>7, <1>8, <1>9, <2>1 DEF Moves
<1>. QED BY <1>10, <1>11

\* A function is left, for where it was entered from.
LEMMA LeaveStep ==
  ASSUME BlocksInv, stack # <<>>, Top.kind = "fn",
         Placed(stack', fnOf, made), KeepsWaiting(stack, stack', fnOf),
         Remembers(stack, buried, stack', buried), Returning(stack, stack', ins, Top.saved),
         Inserting(stack', fnOf, Top.saved), ins \notin Saved(stack'), ~ Closed(stack'),
         content' = IF Top.last = "return" THEN content ELSE Insert(ins, Ret),
         made' = made, fnOf' = fnOf, phis' = phis, ins' = Top.saved, live' = Top.was, buried' = buried
  PROVE  BlocksInv'
<1>1. /\ ins \in 1..made /\ ins \in Blocks /\ fnOf[ins] = CurrentFn /\ made \in Nat /\ made <= made
  BY HereFacts
<1>2. /\ Top.saved \in 0..made /\ Top.was \in BOOLEAN /\ Top.saved # ins
      /\ Moves(stack, fnOf, ins, Top.saved)
  BY LeftFacts
<1>3. Attaches(fnOf, fnOf, Top.saved)
  BY SameBlocks
<1>4. Ended(Top) <=> Top.last = "return"
  BY DEF Ended, Statements
<1>5. Ret \in InstrOf(made) /\ Ret # Code /\ Ret.to = {}
  BY <1>1, InstrHere
<1>6. Filled(stack', fnOf, content', Top.saved, buried) /\ CodeTyped(content', made)
  <2>1. CASE Top.last = "return"
    <3>1. content' = content /\ Ended(Top)
      BY <1>4, <2>1
    <3>2. Filled(stack', fnOf, content', Top.saved, buried)
      BY <1>2, <1>3, <3>1, GoOn
    <3>. QED BY <3>1, <3>2, TypesHere
  <2>2. CASE Top.last # "return"
    <3>1. content' = Insert(ins, Ret) /\ ~ Ended(Top)
      BY <1>4, <2>2
    <3>2. \A t \in Ret.to : fnOf[t] = CurrentFn \/ Waits(stack', t, CurrentFn)
      BY <1>5
    <3>3. Filled(stack', fnOf, content', Top.saved, buried)
      BY <1>1, <1>2, <1>3, <1>5, <3>1, <3>2, Terminate
    <3>4. CodeTyped(content', made)
      BY <1>1, <1>5, <3>1, CodeInserted
    <3>. QED BY <3>3, <3>4
  <2>. QED BY <2>1, <2>2
<1>7. /\ made' \in 0..MaxBlocks /\ FnTyped(fnOf', made') /\ CodeTyped(content', made')
      /\ PhisTyped(phis') /\ ins' \in 0..made' /\ live' \in BOOLEAN /\ buried' \subseteq 1..made'
  BY <1>2, <1>6, TypesHere
<1>8. /\ Placed(stack', fnOf', made') /\ Inserting(stack', fnOf', ins')
      /\ Filled(stack', fnOf', content', ins', buried')
  BY <1>6
<1>. QED BY <1>7, <1>8, SteppedAny

LEMMA EndLambdaStep ==
  ASSUME BlocksInv, endLambda PROVE BlocksInv'
<1>1. /\ stack # <<>> /\ Top.kind = "fn" /\ Top.lambda /\ Top.last = "return"
      /\ ins' = Top.saved /\ live' = Top.was /\ stack' = Below
      /\ made' = made /\ fnOf' = fnOf /\ content' = content /\ phis' = phis /\ buried' = buried
  BY DEF endLambda
<1>2. /\ Placed(Below, fnOf, made) /\ KeepsWaiting(stack, Below, fnOf)
      /\ Remembers(stack, buried, Below, buried) /\ Returning(stack, Below, ins, Top.saved)
      /\ Inserting(Below, fnOf, Top.saved) /\ ins \notin Saved(Below)
      /\ StandsOn(Below, Top)
  BY <1>1, LeftFacts
<1>3. ~ Closed(Below)
  BY <1>1, <1>2 DEF Closed, StandsOn, Fits, IsExpression, TopOf
<1>. QED BY <1>1, <1>2, <1>3, LeaveStep

LEMMA EndInvokeableStep ==
  ASSUME BlocksInv, endInvokeable PROVE BlocksInv'
<1>1. /\ stack # <<>> /\ Top.kind = "fn" /\ ~ Top.lambda
      /\ content' = IF Top.last = "return" THEN content ELSE Insert(ins, Ret)
      /\ ins' = Top.saved /\ live' = Top.was /\ stack' = After("statement", Below)
      /\ made' = made /\ fnOf' = fnOf /\ phis' = phis /\ buried' = buried
  BY DEF endInvokeable
<1>2. /\ Placed(Below, fnOf, made) /\ KeepsWaiting(stack, Below, fnOf)
      /\ Remembers(stack, buried, Below, buried) /\ Returning(stack, Below, ins, Top.saved)
      /\ Inserting(Below, fnOf, Top.saved) /\ ins \notin Saved(Below)
      /\ StandsOn(Below, Top)
  BY <1>1, LeftFacts
<1>3. CASE Below = <<>>
  <2>1. stack' = Below
    BY <1>1, <1>3 DEF After
  <2>2. ~ Closed(Below)
    BY <1>3, NothingVisited
  <2>. QED BY <1>1, <1>2, <2>1, <2>2, LeaveStep
<1>4. CASE Below # <<>>
  <2>1. TopOf(Below).kind \in Statements /\ TopOf(Below).last # "return"
    BY <1>1, <1>2, <1>4 DEF StandsOn, Fits, IsExpression, TopOf
  <2>2. "statement" \in Lasts /\ "statement" # "return" /\ made \in Nat
    BY TypesHere DEF Lasts
  <2>3. /\ Placed(stack', fnOf, made) /\ stack' # <<>> /\ TopOf(stack') = Told(TopOf(Below), "statement")
        /\ Len(stack') = Len(Below) /\ FnAt(stack', Len(stack')) = FnAt(Below, Len(Below))
        /\ Saved(stack') = Saved(Below)
    BY <1>1, <1>2, <1>4, <2>1, <2>2, AfterFacts
  <2>4. ASSUME NEW t, NEW f PROVE Waits(stack', t, f) <=> Waits(Below, t, f)
    <3>1. Waits(After("statement", Below), t, f) <=> Waits(Below, t, f)
      BY <1>2, <1>4, <2>1, <2>2, AfterWaits
    <3>. QED BY <1>1, <3>1
  <2>5. ASSUME NEW f, Soiled(Below, f) PROVE Soiled(stack', f)
    <3>1. Soiled(After("statement", Below), f)
      BY <1>2, <1>4, <2>1, <2>2, <2>5, AfterSoiled
    <3>. QED BY <1>1, <3>1
  <2>6. KeepsWaiting(stack, stack', fnOf) /\ Remembers(stack, buried, stack', buried)
    BY <1>2, <2>4, <2>5 DEF KeepsWaiting, Remembers
  <2>7. Returning(stack, stack', ins, Top.saved) /\ ins \notin Saved(stack')
    BY <1>2, <2>3 DEF Returning
  <2>8. Inserting(stack', fnOf, Top.saved)
    BY <1>2, <1>4, <2>3 DEF Inserting
  <2>9. ~ Closed(stack')
    <3>1. /\ Told(TopOf(Below), "statement").last = "statement"
          /\ Told(TopOf(Below), "statement").kind = TopOf(Below).kind
      BY <1>2, <1>4, <2>1, <2>2, AfterIs
    <3>. QED BY <2>1, <2>2, <2>3, <3>1 DEF Closed, Ended, Statements
  <2>. QED BY <1>1, <2>3, <2>6, <2>7, <2>8, <2>9, LeaveStep
<1>. QED BY <1>3, <1>4

\* The block a frame goes back to, when it is left.
GoesBack(st, fr) == IF st # <<>> /\ fr.kind = "fn" THEN {fr.saved} ELSE {}
LEMMA SavedAdds ==
  ASSUME NEW m \in Nat, NEW st \in Seq(FramesOf(m)), NEW fr \in FramesOf(m),
         NEW su, su = Append(st, fr)
  PROVE  Saved(su) = Saved(st) \union GoesBack(st, fr)
<1>1. ASSUME NEW c
      PROVE c \in Saved(su) <=> c \in Saved(st) \/ (st # <<>> /\ fr.kind = "fn" /\ c = fr.saved)
  BY SavedPush
<1>2. ASSUME NEW c
      PROVE c \in Saved(su) <=> c \in Saved(st) \/ c \in GoesBack(st, fr)
  BY <1>1 DEF GoesBack
<1>. QED BY <1>2

\* The stack when a function is entered.
LEMMA Entered ==
  ASSUME BlocksInv, made + 1 <= MaxBlocks, NEW fn2, fn2[made + 1] = made + 1,
         \A b \in Blocks : b # made + 1 => fn2[b] = fnOf[b],
         NEW fr \in FramesOf(made + 1), fr.kind = "fn", fr.entry = made + 1, fr.saved = ins,
         StandsOn(stack, fr), NEW su, su = Append(stack, fr)
  PROVE  /\ Placed(su, fn2, made + 1) /\ su # <<>> /\ TopOf(su) = fr
         /\ FnAt(su, Len(su)) = made + 1
         /\ KeepsWaiting(stack, su, fn2) /\ Remembers(stack, buried, su, buried)
         /\ Returning(stack, su, ins, made + 1) /\ (stack # <<>> => ins \in Saved(su))
<1> DEFINE x == made + 1
<1>1. /\ made \in Nat /\ x \in Nat /\ made <= x /\ x \notin 1..made /\ x # ins /\ ins \in 0..made
      /\ (\A t \in 1..made : t # x /\ t \in Blocks)
      /\ Placed(stack, fnOf, made) /\ Inserting(stack, fnOf, ins)
  BY TypesHere, Bounds DEF Blocks, BlocksInv
<1>2. /\ fn2[x] = x /\ (\A b \in Blocks : b # x => fn2[b] = fnOf[b])
      /\ fr \in FramesOf(x) /\ fr.entry = x
  OBVIOUS
<1>3. \A j \in 1..Len(stack) : stack[j].kind = "fn" => stack[j].entry # x
  <2>1. ASSUME NEW j \in 1..Len(stack), stack[j].kind = "fn" PROVE stack[j].entry \in 1..made
    <3>1. stack[j] \in FramesOf(made)
      BY <1>1 DEF Placed
    <3>. QED BY <1>1, <2>1, <3>1, FrameFacts
  <2>. QED BY <1>1, <2>1
<1> HIDE DEF x
<1>4. Placed(stack, fn2, x)
  <2>1. ~ Awaited(stack, x)
    BY <1>1, AwaitedIn
  <2>2. \A b \in 1..made : b # x => fn2[b] = fnOf[b]
    BY <1>1, <1>2
  <2>3. made \in Nat /\ x \in Nat /\ made <= x /\ Placed(stack, fnOf, made) /\ (x \in 1..made => fnOf[x] = NoBlock)
    BY <1>1
  <2>. QED BY <2>1, <2>2, <2>3, PlacedAttach
<1>5. x \in Nat /\ stack \in Seq(FramesOf(x)) /\ Nests(stack) /\ fr \in FramesOf(x)
  BY <1>1, <1>2, <1>4 DEF Placed
<1>6. Brings(stack, fr) = {}
  BY DEF Brings, AwaitsOf
<1>7. KnownOf(stack, fr, fn2)
  <2>1. stack # <<>> => ins # NoBlock /\ fnOf[ins] = FnAt(stack, Len(stack)) /\ ins \in 1..made
    BY <1>1 DEF Inserting, NoBlock
  <2>2. stack # <<>> => fn2[ins] = fnOf[ins]
    BY <1>1, <1>2, <2>1
  <2>. QED BY <1>2, <1>3, <2>1, <2>2 DEF KnownOf
<1>8. Joins(stack, fr, fn2, x)
  BY <1>6, <1>7 DEF Joins
<1>9. Placed(su, fn2, x)
  BY <1>1, <1>2, <1>4, <1>5, <1>8, PlacedPush
<1>10. su # <<>> /\ su[Len(su)] = fr /\ Len(su) = Len(stack) + 1
  BY <1>2, <1>5, AppendFacts
<1>11. FnAt(su, Len(su)) = x
  <2>1. FnAt(su, Len(stack) + 1) = FnOn(stack, fr)
    BY <1>1, <1>2, <1>5, PushFn
  <2>. QED BY <1>2, <1>10, <2>1 DEF FnOn
<1>12. ASSUME NEW c PROVE c \in Saved(su) <=> c \in Saved(stack) \/ (stack # <<>> /\ c = ins)
  <2>1. Saved(su) = Saved(stack) \union GoesBack(stack, fr)
    BY <1>5, SavedAdds
  <2>2. c \in GoesBack(stack, fr) <=> stack # <<>> /\ c = ins
    BY DEF GoesBack
  <2>. QED BY <2>1, <2>2
<1>13. ASSUME NEW t, NEW f PROVE Waits(su, t, f) <=> Waits(stack, t, f)
  <2>1. Waits(su, t, f) <=> Waits(stack, t, f) \/ (t \in Brings(stack, fr) /\ f = FnOn(stack, fr))
    BY <1>5, WaitsPush
  <2>. QED BY <1>6, <2>1
<1>14. ASSUME NEW f, Soiled(stack, f) PROVE Soiled(su, f)
  <2>1. Soiled(su, f) <=>
          \/ Soiled(stack, f)
          \/ fr.kind = "loop" /\ fr.last = "return" /\ f = FnOn(stack, fr)
    BY <1>5, SoiledPush
  <2>. QED BY <1>14, <2>1
<1>15. KeepsWaiting(stack, su, fn2) /\ Remembers(stack, buried, su, buried)
  BY <1>13, <1>14 DEF KeepsWaiting, Remembers
<1>16. Returning(stack, su, ins, x) /\ (stack # <<>> => ins \in Saved(su))
  BY <1>12 DEF Returning
<1>. QED BY <1>9, <1>10, <1>11, <1>15, <1>16 DEF TopOf, x

LEMMA EnterStep ==
  ASSUME BlocksInv, NEW proc \in BOOLEAN, NEW lambda \in BOOLEAN, EnterBody(proc, lambda),
         stack = <<>> => ~ lambda,
         stack # <<>> => IF lambda
                           THEN Top.kind \in Statements \union {"select", "logic"} /\ ~ Ended(Top)
                           ELSE Top.kind \in Statements /\ Top.last # "return" /\ ~ Ended(Top)
  PROVE  BlocksInv'
<1> DEFINE x == made + 1
           fr == [kind |-> "fn", entry |-> made + 1, proc |-> proc, lambda |-> lambda,
                  saved |-> ins, was |-> live, last |-> "none"]
           fn2 == [fnOf EXCEPT ![x] = x]
<1>1. /\ made < MaxBlocks /\ made' = made + 1 /\ fnOf' = fn2 /\ ins' = made + 1 /\ live' = TRUE
      /\ stack' = Append(stack, fr)
      /\ content' = content /\ phis' = phis /\ buried' = buried
  BY DEF EnterBody
<1>2. /\ made \in Nat /\ MaxBlocks \in Nat /\ ins \in 0..made /\ live \in BOOLEAN
      /\ Inserting(stack, fnOf, ins) /\ Filled(stack, fnOf, content, ins, buried) /\ TypeOK
  BY TypesHere, Bounds DEF BlocksInv
<1>3. /\ x \in Nat /\ made <= x /\ x <= MaxBlocks /\ x \in 1..x /\ x # NoBlock /\ x # ins /\ x > made
      /\ x \in Blocks /\ ins \in 0..x
  BY <1>1, <1>2 DEF Blocks, NoBlock
<1>4. /\ fr \in FramesOf(x) /\ fr.kind = "fn" /\ fr.entry = x /\ fr.saved = ins /\ fr.lambda = lambda
      /\ fr.last = "none"
  BY <1>2, <1>3 DEF FramesOf, Lasts
<1>5. fnOf[x] = NoBlock /\ content[x] = <<>>
  BY <1>3, FreshBlocks
<1> HIDE DEF fr
<1>6. Attaches(fnOf, fn2, x) /\ fn2[x] = x /\ \A b \in Blocks : b # x => fn2[b] = fnOf[b]
  <2>1. x \in Blocks /\ fnOf[x] = NoBlock /\ x # NoBlock
    BY <1>3, <1>5
  <2> HIDE DEF x
  <2>. QED BY <2>1, AttachesNew
<1>7. FnTyped(fn2, x)
  <2>1. FnTyped(fnOf, x)
    BY <1>2, <1>3, TypesHere, FnWider
  <2> HIDE DEF x
  <2>. QED BY <1>3, <2>1, FnAttached
<1>8. StandsOn(stack, fr)
  <2>1. CASE stack = <<>>
    <3>1. ins = NoBlock
      BY <1>2, <2>1 DEF Inserting
    <3>. QED BY <1>4, <2>1, <3>1 DEF StandsOn
  <2>2. CASE stack # <<>>
    <3>1. Fits(Top, fr)
      BY <1>4, <2>2 DEF Fits, IsExpression
    <3>. QED BY <2>2, <3>1, StandsOnTop
  <2>. QED BY <2>1, <2>2
<1> HIDE DEF fn2
<1>9. /\ Placed(stack', fn2, x) /\ stack' # <<>> /\ TopOf(stack') = fr
      /\ FnAt(stack', Len(stack')) = x
      /\ KeepsWaiting(stack, stack', fn2) /\ Remembers(stack, buried, stack', buried)
      /\ Returning(stack, stack', ins, x) /\ (stack # <<>> => ins \in Saved(stack'))
  BY <1>1, <1>3, <1>4, <1>6, <1>8, Entered
<1> HIDE DEF x
<1>10. Moves(stack, fnOf, ins, x) /\ ~ Closed(stack')
  BY <1>4, <1>5, <1>9 DEF Moves, Closed, Ended
<1>11. Filled(stack', fn2, content, x, buried)
  <2>1. CASE stack # <<>>
    BY <1>6, <1>9, <1>10, <2>1, GoOn
  <2>2. CASE stack = <<>>
    <3>1. ins \notin Blocks
      BY <1>2, <2>2 DEF Inserting, NoBlock, Blocks
    <3>2. GoInside(content)
      BY <1>2, TargetsIn DEF GoInside
    <3>3. KeepsCode(fnOf, content, ins, stack', fn2, content)
      <4>1. \A b \in Blocks : fnOf[b] = NoBlock => content[b] = <<>>
        BY <1>2 DEF Filled
      <4>2. \A b \in Blocks : fnOf[b] = NoBlock => Terms(content[b]) = {} /\ Targets(content[b]) = {}
        BY <4>1, NothingYet
      <4>. QED BY <4>2 DEF KeepsCode
    <3>. QED BY <1>2, <1>6, <1>9, <1>10, <3>1, <3>2, <3>3, FilledStep
  <2>. QED BY <2>1, <2>2
<1>12. CodeTyped(content, x) /\ buried \subseteq 1..x /\ x \in 0..MaxBlocks
  BY <1>2, <1>3, TypesHere, CodeWider
<1>13. made' = x /\ ins' = x /\ fnOf' = fn2 /\ content' = content /\ phis' = phis /\ buried' = buried
       /\ live' \in BOOLEAN
  BY <1>1 DEF x
<1>14. /\ made' \in 0..MaxBlocks /\ FnTyped(fnOf', made') /\ CodeTyped(content', made')
       /\ PhisTyped(phis') /\ ins' \in 1..made' /\ live' \in BOOLEAN /\ buried' \subseteq 1..made'
  BY <1>3, <1>7, <1>12, <1>13, TypesHere
<1>15. /\ Placed(stack', fnOf', made') /\ stack' # <<>> /\ fnOf'[ins'] = FnAt(stack', Len(stack'))
       /\ Filled(stack', fnOf', content', ins', buried')
  BY <1>6, <1>9, <1>11, <1>13
<1>. QED BY <1>14, <1>15, Stepped

LEMMA InvokeableStep ==
  ASSUME BlocksInv, NEW proc \in BOOLEAN, visitInvokeable(proc) PROVE BlocksInv'
<1>1. /\ stack = <<>> \/ (AtStatement /\ Top.kind # "case")
      /\ EnterBody(proc, FALSE)
  BY DEF visitInvokeable
<1>2. stack # <<>> => Top.kind \in Statements /\ Top.last # "return" /\ ~ Ended(Top)
  BY <1>1, AtStatementFacts
<1>. QED BY <1>1, <1>2, EnterStep

LEMMA LambdaStep ==
  ASSUME BlocksInv, TvisitLambdaConstExpr PROVE BlocksInv'
<1>1. AtExpression /\ EnterBody(FALSE, TRUE)
  BY DEF TvisitLambdaConstExpr
<1>2. stack # <<>> /\ ~ Ended(Top) /\ Top.kind \in Statements \union {"select", "logic"}
  BY <1>1, AtExpressionFacts
<1>. QED BY <1>1, <1>2, EnterStep

-----------------------------------------------------------------------------
(* The invariant.                                                             *)

\* Nothing is generated yet.
LEMMA BlocksInit == Init => BlocksInv
<1> SUFFICES ASSUME Init PROVE BlocksInv
  OBVIOUS
<1>1. MaxBlocks \in Nat
  BY Bounds
<1>2. /\ made = 0 /\ ins = 0 /\ stack = <<>> /\ live = FALSE /\ buried = {}
      /\ fnOf = [b \in Blocks |-> NoBlock] /\ content = [b \in Blocks |-> <<>>]
      /\ phis = [b \in Blocks |-> {}]
  BY DEF Init, NoBlock
<1>3. /\ \A b \in Blocks : fnOf[b] = NoBlock /\ content[b] = <<>>
      /\ fnOf \in [Blocks -> Blocks \union {NoBlock}]
      /\ phis \in [Blocks -> SUBSET (Blocks \X (Nat \ {0}))]
  BY <1>2
<1>4. content \in [Blocks -> Seq(Instructions)]
  <2>1. <<>> \in Seq(Instructions)
    OBVIOUS
  <2> HIDE DEF Instructions
  <2>. QED BY <1>2, <2>1
<1>5. made \in 0..MaxBlocks /\ ins \in 0..made /\ buried \subseteq 1..made /\ live \in BOOLEAN
  <2>1. made \in 0..MaxBlocks /\ ins \in 0..made
    BY <1>1, <1>2
  <2>2. buried \subseteq 1..made
    BY <1>2
  <2>3. live \in BOOLEAN
    BY <1>2
  <2>. QED BY <2>1, <2>2, <2>3
<1>6. stack \in Seq(FramesOf(made))
  BY <1>2
<1>7. TypeOK
  BY <1>3, <1>4, <1>5, <1>6 DEF TypeOK
<1>8. Placed(stack, fnOf, made)
  <2>1. DOMAIN stack = {}
    BY <1>2
  <2>. QED BY <1>2, <1>6, <2>1 DEF Placed, Nests
<1>9. Inserting(stack, fnOf, ins)
  BY <1>2 DEF Inserting, NoBlock
<1>10. Filled(stack, fnOf, content, ins, buried)
  BY <1>2, <1>3 DEF Filled
<1>. QED BY <1>7, <1>8, <1>9, <1>10 DEF BlocksInv

LEMMA BlocksStutter ==
  ASSUME BlocksInv, UNCHANGED vars PROVE BlocksInv'
<1>1. made' = made /\ fnOf' = fnOf /\ content' = content /\ phis' = phis /\ ins' = ins
  BY DEF vars
<1>2. stack' = stack /\ live' = live /\ buried' = buried
  BY DEF vars
<1>3. /\ made \in 0..MaxBlocks /\ FnTyped(fnOf, made) /\ CodeTyped(content, made)
      /\ PhisTyped(phis) /\ ins \in 0..made /\ live \in BOOLEAN /\ buried \subseteq 1..made
  BY TypesHere
<1>4. /\ Placed(stack, fnOf, made) /\ Inserting(stack, fnOf, ins)
      /\ Filled(stack, fnOf, content, ins, buried)
  BY DEF BlocksInv
<1>. QED BY <1>1, <1>2, <1>3, <1>4, SteppedAny

LEMMA BlocksNext == BlocksInv /\ [Next]_vars => BlocksInv'
<1> SUFFICES ASSUME BlocksInv, [Next]_vars PROVE BlocksInv'
  OBVIOUS
<1>1. ASSUME NEW b \in BOOLEAN, visitInvokeable(b) PROVE BlocksInv'
  BY <1>1, InvokeableStep
<1>2. ASSUME NEW b \in BOOLEAN, conditional(b) PROVE BlocksInv'
  BY <1>2, ConditionalStep
<1>3. ASSUME NEW b \in BOOLEAN, selectCase(b) PROVE BlocksInv'
  BY <1>3, SelectCaseStep
<1>4. CASE endInvokeable
  BY <1>4, EndInvokeableStep
<1>5. CASE TvisitStatement
  BY <1>5, StatementStep
<1>6. CASE TvisitReturnStatement
  BY <1>6, ReturnStep
<1>7. CASE TvisitBlock
  BY <1>7, BlockStep
<1>8. CASE endBlock
  BY <1>8, EndBlockStep
<1>9. CASE endThen
  BY <1>9, EndThenStep, EndThenElseStep
<1>10. CASE endElse
  BY <1>10, EndElseStep
<1>11. CASE loop
  BY <1>11, LoopStep
<1>12. CASE endLoop
  BY <1>12, EndLoopStep
<1>13. CASE select
  BY <1>13, SelectStep
<1>14. CASE match
  BY <1>14, MatchStep
<1>15. CASE matchCase
  BY <1>15, MatchCaseStep
<1>16. CASE endCase
  BY <1>16, EndCaseStep
<1>17. CASE endAlternatives
  BY <1>17, EndAlternativesStep
<1>18. CASE TvisitLambdaConstExpr
  BY <1>18, LambdaStep
<1>19. CASE endLambda
  BY <1>19, EndLambdaStep
<1>20. CASE logic
  BY <1>20, LogicStep
<1>21. CASE operand
  BY <1>21, OperandStep
<1>22. CASE nextOperand
  BY <1>22, NextOperandStep
<1>23. CASE endLogic
  BY <1>23, EndLogicStep
<1>24. CASE UNCHANGED vars
  BY <1>24, BlocksStutter
<1>. QED
  BY <1>1, <1>2, <1>3, <1>4, <1>5, <1>6, <1>7, <1>8, <1>9, <1>10, <1>11, <1>12, <1>13,
     <1>14, <1>15, <1>16, <1>17, <1>18, <1>19, <1>20, <1>21, <1>22, <1>23, <1>24 DEF Next

LEMMA BlocksInductive == Spec => []BlocksInv
BY BlocksInit, BlocksNext, PTL DEF Spec

-----------------------------------------------------------------------------
(* The theorems.                                                              *)

\* Blocks, functions, instructions and the constructs being visited have their types:
\* every instruction goes to blocks that were made, a block that was not made is
\* attached to nothing and empty, and every construct remembers blocks that exist.
THEOREM CodegenTyped == Spec => []TypeOK
<1>1. BlocksInv => TypeOK
  BY DEF BlocksInv
<1>. QED BY <1>1, BlocksInductive, PTL

\* Code is inserted into the function whose body is being visited, however functions
\* and lambdas nest: builder->SetInsertPoint(ins) at their ends gives back a block of
\* the function around them.
THEOREM InsertionFollows == Spec => []InsertsInFunction
<1>1. BlocksInv => InsertsInFunction
  BY CurrentFnIs DEF BlocksInv, Inserting, InsertsInFunction
<1>. QED BY <1>1, BlocksInductive, PTL

\* Nothing waits for a function that is generated: no construct, no insertion point.
LEMMA FinishedFacts ==
  ASSUME BlocksInv, NEW f \in Finished, NEW b \in Attached(f)
  PROVE  /\ f # NoBlock /\ b \in Blocks /\ fnOf[b] = f /\ b # ins /\ b \notin Saved(stack)
         /\ ~ Soiled(stack, f) /\ \A t : ~ Waits(stack, t, f)
<1>1. f \in Blocks /\ f \notin BeingVisited /\ b \in Blocks /\ fnOf[b] = f
  BY DEF Finished, Functions, Attached
<1>2. b \in Nat \ {0} /\ f # NoBlock
  BY <1>1, Bounds DEF Blocks, NoBlock
<1>3. made \in Nat /\ stack \in Seq(FramesOf(made)) /\ Nests(stack)
  BY TypesHere DEF BlocksInv, Placed
<1>4. Len(stack) \in Nat /\ DOMAIN stack = 1..Len(stack) /\ (stack # <<>> <=> Len(stack) # 0)
  BY <1>3
<1>5. ASSUME NEW i \in 1..Len(stack) PROVE FnAt(stack, i) # f
  <2>1. i \in Nat \ {0} /\ stack # <<>>
    BY <1>4
  <2>2. stack[1].kind = "fn"
    BY <1>3, <2>1 DEF Nests
  <2>3. PICK k \in 1..i : stack[k].kind = "fn" /\ FnAt(stack, i) = stack[k].entry
    BY <2>1, <2>2, FnAtVisited
  <2>4. k \in DOMAIN stack
    BY <1>4, <2>1
  <2>. QED BY <1>1, <2>3, <2>4 DEF BeingVisited
<1>6. b # ins
  <2>1. CASE stack = <<>>
    BY <1>2, <2>1 DEF BlocksInv, Inserting, NoBlock
  <2>2. CASE stack # <<>>
    <3>1. Len(stack) \in 1..Len(stack)
      BY <1>4, <2>2
    <3>2. fnOf[ins] = FnAt(stack, Len(stack))
      BY <2>2 DEF BlocksInv, Inserting
    <3>. QED BY <1>1, <1>5, <3>1, <3>2
  <2>. QED BY <2>1, <2>2
<1>7. b \notin Saved(stack)
  <2> SUFFICES ASSUME NEW i \in 1..Len(stack), i > 1, stack[i].kind = "fn", stack[i].saved = b
               PROVE FALSE
    BY <1>4 DEF Saved
  <2>1. i - 1 \in 1..Len(stack)
    BY <1>4
  <2>2. fnOf[stack[i].saved] = FnAt(stack, i - 1)
    BY <1>4 DEF BlocksInv, Placed, Known
  <2>. QED BY <1>1, <1>5, <2>1, <2>2
<1>8. ~ Soiled(stack, f) /\ \A t : ~ Waits(stack, t, f)
  BY <1>4, <1>5 DEF Soiled, Waits
<1>. QED BY <1>1, <1>2, <1>6, <1>7, <1>8

LEMMA FinishedEnds ==
  ASSUME BlocksInv, NEW f \in Finished, NEW b \in Attached(f)
  PROVE  /\ Ends(b)
         /\ \A k \in Terminators(b) : content[b][k].to \subseteq Attached(f)
         /\ f \notin buried => Terminators(b) = {Len(content[b])}
<1>1. /\ f # NoBlock /\ b \in Blocks /\ fnOf[b] = f /\ b # ins /\ b \notin Saved(stack)
      /\ ~ Soiled(stack, f) /\ \A t : ~ Waits(stack, t, f)
  BY FinishedFacts
<1>2. Terminators(b) = Terms(content[b])
  BY DEF Terminators, Terms
<1>3. /\ Goes(stack, fnOf, content[b], b) /\ Finishes(stack, content[b], ins, b)
      /\ f \notin buried => EndsOnce(stack, content[b], ins, b)
  BY <1>1 DEF BlocksInv, Filled
<1>4. Terms(content[b]) # {}
  BY <1>1, <1>3 DEF Finishes
<1>5. ASSUME NEW k \in Terminators(b) PROVE content[b][k].to \subseteq Attached(f)
  <2>1. k \in DOMAIN content[b]
    BY DEF Terminators
  <2>2. content[b][k].to \subseteq Targets(content[b])
    BY <2>1 DEF Targets
  <2>3. Targets(content[b]) \subseteq Blocks
    BY <1>1, TargetsIn DEF BlocksInv
  <2>4. \A t \in Targets(content[b]) : fnOf[t] = f
    BY <1>1, <1>3 DEF Goes
  <2>. QED BY <2>2, <2>3, <2>4 DEF Attached
<1>6. f \notin buried => Terms(content[b]) = {Len(content[b])}
  BY <1>3, <1>4 DEF EndsOnce
<1>. QED BY <1>2, <1>4, <1>5, <1>6 DEF Ends

\* Every block of a function that was generated has a terminator, and goes only to
\* blocks that were attached to that function: no block that a construct made is
\* forgotten or attached elsewhere, however constructs nest.
THEOREM FunctionsEnd == Spec => []FinishedFunctionsEnd
<1>1. BlocksInv => FinishedFunctionsEnd
  BY FinishedEnds DEF FinishedFunctionsEnd
<1>. QED BY <1>1, BlocksInductive, PTL

\* A function where no return ended a bare block or the body of a loop is well formed:
\* each of its blocks ends once, with its last instruction.
THEOREM BlocksEndOnce == Spec => []OneTerminator
<1>1. BlocksInv => OneTerminator
  BY FinishedEnds DEF OneTerminator
<1>. QED BY <1>1, BlocksInductive, PTL

-----------------------------------------------------------------------------
(* Which blocks can be executed.                                              *)

\* Nothing after its first terminator is executed in a block.
Firsts(code) == {k \in Terms(code) : \A j \in Terms(code) : k <= j}
Hops(code)   == UNION {code[k].to : k \in Firsts(code)}

Roots(fn)   == {f \in Blocks : fn[f] = f}
Shut(S, ct) == \A b \in S : Hops(ct[b]) \subseteq S

\* The least set that has the entries of all functions and where these blocks go.
Lit(fn, ct) ==
  {b \in Blocks : \A S \in SUBSET Blocks : Roots(fn) \subseteq S /\ Shut(S, ct) => b \in S}

LEMMA HopsTargets ==
  ASSUME NEW code
  PROVE  /\ Hops(code) \subseteq Targets(code)
         /\ Terms(code) = {} => Hops(code) = {}
BY DEF Hops, Firsts, Targets, Terms

LEMMA LitLeast ==
  ASSUME NEW fn, NEW ct, GoInside(ct)
  PROVE  /\ Lit(fn, ct) \subseteq Blocks /\ Roots(fn) \subseteq Lit(fn, ct) /\ Shut(Lit(fn, ct), ct)
         /\ \A S \in SUBSET Blocks : Roots(fn) \subseteq S /\ Shut(S, ct) => Lit(fn, ct) \subseteq S
<1>1. Lit(fn, ct) \subseteq Blocks /\ Roots(fn) \subseteq Lit(fn, ct)
  BY DEF Lit, Roots
<1>2. \A S \in SUBSET Blocks : Roots(fn) \subseteq S /\ Shut(S, ct) => Lit(fn, ct) \subseteq S
  BY DEF Lit
<1>3. ASSUME NEW b \in Lit(fn, ct), NEW t \in Hops(ct[b]) PROVE t \in Lit(fn, ct)
  <2>1. b \in Blocks /\ t \in Blocks
    BY <1>1, <1>3, HopsTargets DEF GoInside
  <2>2. ASSUME NEW S \in SUBSET Blocks, Roots(fn) \subseteq S, Shut(S, ct) PROVE t \in S
    BY <1>2, <1>3, <2>2 DEF Shut
  <2>. QED BY <2>1, <2>2 DEF Lit
<1>4. Shut(Lit(fn, ct), ct)
  BY <1>3 DEF Shut
<1>. QED BY <1>1, <1>2, <1>4

LEMMA LitSame ==
  ASSUME NEW fn, NEW ct, NEW fn2, NEW ct2, Roots(fn2) = Roots(fn),
         \A b \in Blocks : Hops(ct2[b]) = Hops(ct[b])
  PROVE  Lit(fn2, ct2) = Lit(fn, ct)
<1>1. \A S \in SUBSET Blocks : Shut(S, ct2) <=> Shut(S, ct)
  BY DEF Shut
<1>. QED BY <1>1 DEF Lit

HopsOn(ct, ct2, x, T) == /\ \A b \in Blocks : b # x => Hops(ct2[b]) = Hops(ct[b])
                         /\ Hops(ct2[x]) = Hops(ct[x]) \union T
NewRoots(fn, fn2, N)  == Roots(fn2) = Roots(fn) \union N
NoFurther(ct, lit, X) == \A t \in X : Hops(ct[t]) = {} \/ t \in lit

TakenFrom(A, T, lit, x) == A = IF x \in lit THEN T ELSE {}

\* Block x goes to those in T too, and those in N are new entries.
LEMMA LitStep ==
  ASSUME NEW fn, NEW ct, GoInside(ct), NEW fn2, NEW ct2, GoInside(ct2),
         NEW x \in Blocks, NEW T \in SUBSET Blocks, NEW N \in SUBSET Blocks,
         NewRoots(fn, fn2, N), HopsOn(ct, ct2, x, T),
         NEW A, TakenFrom(A, T, Lit(fn, ct), x),
         NoFurther(ct2, Lit(fn, ct), A), NoFurther(ct2, Lit(fn, ct), N)
  PROVE  Lit(fn2, ct2) = Lit(fn, ct) \union N \union A
<1> DEFINE L  == Lit(fn, ct)
           L2 == Lit(fn2, ct2)
           S  == L \union N \union A
<1>1. /\ L \subseteq Blocks /\ Roots(fn) \subseteq L /\ Shut(L, ct)
      /\ L2 \subseteq Blocks /\ Roots(fn2) \subseteq L2 /\ Shut(L2, ct2)
      /\ Roots(fn2) = Roots(fn) \union N
  BY LitLeast DEF NewRoots
<1>2. \A R \in SUBSET Blocks : Roots(fn) \subseteq R /\ Shut(R, ct) => L \subseteq R
  BY LitLeast
<1>3. \A R \in SUBSET Blocks : Roots(fn2) \subseteq R /\ Shut(R, ct2) => L2 \subseteq R
  BY LitLeast
<1>4. A \subseteq Blocks /\ (x \in L => A = T) /\ (x \notin L => A = {})
  BY DEF TakenFrom
<1>5. \A t \in A \union N : Hops(ct2[t]) = {} \/ t \in L
  BY DEF NoFurther
<1> HIDE DEF L, L2
<1>6. L2 \subseteq S
  <2>1. ASSUME NEW b \in S PROVE Hops(ct2[b]) \subseteq S
    <3>1. CASE b \in L
      <4>1. b \in Blocks /\ Hops(ct[b]) \subseteq L
        BY <1>1, <3>1 DEF Shut
      <4>2. CASE b = x
        BY <1>4, <3>1, <4>1, <4>2 DEF HopsOn
      <4>3. CASE b # x
        BY <4>1, <4>3 DEF HopsOn
      <4>. QED BY <4>2, <4>3
    <3>2. CASE b \notin L
      BY <1>5, <2>1, <3>2
    <3>. QED BY <3>1, <3>2
  <2>2. S \in SUBSET Blocks /\ Roots(fn2) \subseteq S
    BY <1>1, <1>4
  <2>. QED BY <1>3, <2>1, <2>2 DEF Shut
<1>7. L \subseteq L2
  <2>1. ASSUME NEW b \in L2 PROVE Hops(ct[b]) \subseteq L2
    <3>1. b \in Blocks /\ Hops(ct2[b]) \subseteq L2
      BY <1>1, <2>1 DEF Shut
    <3>2. Hops(ct[b]) \subseteq Hops(ct2[b])
      BY <3>1 DEF HopsOn
    <3>. QED BY <3>1, <3>2
  <2>. QED BY <1>1, <1>2, <2>1 DEF Shut
<1>8. N \subseteq L2 /\ A \subseteq L2
  <2>1. N \subseteq L2
    BY <1>1
  <2>2. x \in L => T \subseteq L2
    BY <1>1, <1>7 DEF Shut, HopsOn
  <2>. QED BY <1>4, <2>1, <2>2
<1>. QED BY <1>6, <1>7, <1>8 DEF L, L2

LEMMA RootsSame ==
  ASSUME NEW fn, NEW x \in Blocks, fn \in [Blocks -> Blocks \union {NoBlock}], fn[x] = NoBlock,
         NEW f, f # x
  PROVE  Roots([fn EXCEPT ![x] = f]) = Roots(fn)
<1>1. NoBlock \notin Blocks
  BY Bounds DEF Blocks, NoBlock
<1>. QED BY <1>1 DEF Roots

-----------------------------------------------------------------------------
(* What the constructs say of the blocks that can be executed.                *)

\* Block b can be executed up to where code is inserted in it.
Open(lit, ct, b) == b \in lit /\ Terms(ct[b]) = {}

\* Frames that remember whether their construct can be reached.
Caps      == {"then", "loop", "select", "match"}
Tells(fr) == IF fr.kind = "else" THEN fr.out ELSE fr.kind \in Caps /\ fr.was

\* No function is entered in frame i; otherwise, whether the place where the first of
\* them is entered can be reached.
LastFn(st, i)     == \A j \in (i + 1)..Len(st) : st[j].kind # "fn"
FnPast(st, i, j)  == st[j].kind = "fn" /\ \A k \in (i + 1)..(j - 1) : st[k].kind # "fn"
LiveIn(st, i, lv) ==
  IF LastFn(st, i) THEN lv ELSE \E j \in (i + 1)..Len(st) : FnPast(st, i, j) /\ st[j].was

InCase(st, i, w) == IF i = Len(st) THEN w ELSE st[i + 1].kind = "case"

\* The switch that goes to block m ends the block.
Switches(code, m) == \E k \in Firsts(code) : code[k].op = "switch" /\ m \in code[k].to

\* Which of the blocks of a construct can be executed: v says whether the place that
\* is being visited in it can be reached, w that it is in an alternative.
Claim(fr, nested, w, lit, ct, v) ==
  /\ fr.kind = "fn" /\ nested => (fr.was <=> Open(lit, ct, fr.saved))
  /\ fr.kind = "then" => (fr.was <=> fr.else \in lit) /\ (fr.rest # fr.else => fr.rest \notin lit)
  /\ fr.kind = "else" => (fr.out <=> fr.rest \in lit)
  /\ fr.kind = "loop" => (fr.was <=> fr.body \in lit) /\ (fr.was <=> fr.rest \in lit)
  /\ fr.kind = "select" => /\ fr.merge \in lit => fr.was
                           /\ ~ fr.more /\ fr.was => fr.merge \in lit
                           /\ fr.more /\ w => (fr.was <=> fr.else \in lit)
  /\ fr.kind = "match" => /\ fr.was <=> fr.merge \in lit
                          /\ fr.was => fr.switch \in lit /\ Switches(ct[fr.switch], fr.merge)
  /\ fr.kind \in {"select", "match"} /\ ~ w => (v <=> fr.was)
  /\ fr.kind = "logic" => (fr.merge \in lit => v)

Claims(st, w, lit, ct, lv) ==
  \A i \in 1..Len(st) : Claim(st[i], i > 1, InCase(st, i, w), lit, ct, LiveIn(st, i, lv))

\* What can be reached is in constructs of the same function that can be reached.
RestsUpTo(st, n) ==
  \A i \in 1..n : st[i].kind \in Caps /\ (\A j \in (i + 1)..n : st[j].kind # "fn") => st[i].was
Rests(st)   == RestsUpTo(st, Len(st))
Says(fr)    == Tells(fr) \/ (fr.kind = "fn" /\ fr.was)
Chained(st) == \A i \in 1..Len(st) : Says(st[i]) => RestsUpTo(st, i - 1)

Flows(st, w, lit, ct, lv) == Claims(st, w, lit, ct, lv) /\ Chained(st) /\ (lv => Rests(st))

\* The same for the stack with one frame more.
Into(fr, lv)    == IF fr.kind = "fn" THEN fr.was ELSE lv
Suits(b, fr, lv) == fr.kind # "fn" => (Tells(fr) => Rests(b)) /\ (fr.kind \in Caps /\ lv => fr.was)

LEMMA LiveInPush ==
  ASSUME NEW m \in Nat, NEW b \in Seq(FramesOf(m)), NEW fr \in FramesOf(m),
         NEW su, su = Append(b, fr), NEW lv, NEW i \in 1..Len(b)
  PROVE  LiveIn(su, i, lv) <=> LiveIn(b, i, Into(fr, lv))
<1> DEFINE n == Len(b)
<1>1. /\ n \in Nat /\ Len(su) = n + 1 /\ su[n + 1] = fr
      /\ \A k \in 1..n : su[k] = b[k]
  BY PushFacts
<1>2. i \in 1..n
  OBVIOUS
<1> HIDE DEF n
<1>3. \A j \in (i + 1)..n : j \in 1..n /\ su[j] = b[j] /\ j \in (i + 1)..(n + 1)
  <2>1. \A j \in (i + 1)..n : j \in 1..n /\ j \in (i + 1)..(n + 1)
    BY <1>1, <1>2
  <2>. QED BY <1>1, <2>1
<1>4. \A j \in (i + 1)..(n + 1) : j \in (i + 1)..n \/ j = n + 1
  BY <1>1, <1>2
<1>5. n + 1 \in (i + 1)..(n + 1) /\ (n + 1) - 1 = n
  BY <1>1, <1>2
<1>6. LastFn(su, i) <=> LastFn(b, i) /\ fr.kind # "fn"
  BY <1>1, <1>3, <1>4, <1>5 DEF LastFn, n
<1>7. ASSUME NEW j \in (i + 1)..n PROVE FnPast(su, i, j) <=> FnPast(b, i, j)
  <2>1. \A k \in (i + 1)..(j - 1) : k \in (i + 1)..n
    BY <1>1, <1>2
  <2>. QED BY <1>3, <2>1 DEF FnPast
<1>8. FnPast(su, i, n + 1) <=> fr.kind = "fn" /\ LastFn(b, i)
  BY <1>1, <1>3, <1>5 DEF FnPast, LastFn, n
<1> DEFINE Past(st, hi) == \E j \in (i + 1)..hi : FnPast(st, i, j) /\ st[j].was
<1>9. Past(su, n + 1) <=> Past(b, n) \/ (fr.kind = "fn" /\ LastFn(b, i) /\ fr.was)
  BY <1>1, <1>3, <1>4, <1>5, <1>7, <1>8
<1>10. LastFn(b, i) => ~ Past(b, n)
  BY DEF FnPast, LastFn, n
<1>11. LiveIn(su, i, lv) <=> IF LastFn(su, i) THEN lv ELSE Past(su, n + 1)
  BY <1>1 DEF LiveIn
<1>12. \A v : LiveIn(b, i, v) <=> IF LastFn(b, i) THEN v ELSE Past(b, n)
  BY DEF LiveIn, n
<1> HIDE DEF Past
<1>13. CASE fr.kind = "fn"
  BY <1>6, <1>9, <1>10, <1>11, <1>12, <1>13 DEF Into
<1>14. CASE fr.kind # "fn"
  BY <1>6, <1>9, <1>10, <1>11, <1>12, <1>14 DEF Into
<1>. QED BY <1>13, <1>14

LEMMA ClaimsPush ==
  ASSUME NEW m \in Nat, NEW b \in Seq(FramesOf(m)), NEW fr \in FramesOf(m),
         NEW su, su = Append(b, fr), NEW w, NEW lit, NEW ct, NEW lv
  PROVE  Claims(su, w, lit, ct, lv) <=>
           /\ Claims(b, fr.kind = "case", lit, ct, Into(fr, lv))
           /\ Claim(fr, b # <<>>, w, lit, ct, lv)
<1> DEFINE n == Len(b)
<1>1. /\ n \in Nat /\ Len(su) = n + 1 /\ su[n + 1] = fr
      /\ \A k \in 1..n : su[k] = b[k]
  BY PushFacts
<1>2. \A i \in 1..n : LiveIn(su, i, lv) <=> LiveIn(b, i, Into(fr, lv))
  BY LiveInPush
<1>3. b # <<>> <=> n + 1 > 1
  BY DEF n
<1>4. LiveIn(su, n + 1, lv) <=> lv
  BY <1>1 DEF LiveIn, LastFn
<1>5. InCase(su, n + 1, w) <=> w
  BY <1>1 DEF InCase
<1>6. ASSUME NEW i \in 1..n
      PROVE  InCase(su, i, w) <=> InCase(b, i, fr.kind = "case")
  <2>1. i # n + 1 /\ (i # n => i + 1 \in 1..n)
    BY <1>1
  <2>. QED BY <1>1, <2>1 DEF InCase, n
<1>7. InCase(b, n, fr.kind = "case") \in BOOLEAN
  BY DEF InCase, n
<1>8. \A i \in 1..(n + 1) : i \in 1..n \/ i = n + 1
  BY <1>1
<1>9. \A i \in 1..n : i \in 1..(n + 1)
  BY <1>1
<1>10. n + 1 \in 1..(n + 1)
  BY <1>1
<1>11. ASSUME NEW i \in 1..n
       PROVE  Claim(su[i], i > 1, InCase(su, i, w), lit, ct, LiveIn(su, i, lv)) <=>
              Claim(b[i], i > 1, InCase(b, i, fr.kind = "case"), lit, ct, LiveIn(b, i, Into(fr, lv)))
  BY <1>1, <1>2, <1>6 DEF Claim
<1>12. Claim(su[n + 1], n + 1 > 1, InCase(su, n + 1, w), lit, ct, LiveIn(su, n + 1, lv)) <=>
       Claim(fr, b # <<>>, w, lit, ct, lv)
  BY <1>1, <1>3, <1>4, <1>5 DEF Claim
<1>13. Claims(su, w, lit, ct, lv) <=>
         \A i \in 1..(n + 1) : Claim(su[i], i > 1, InCase(su, i, w), lit, ct, LiveIn(su, i, lv))
  BY <1>1 DEF Claims
<1>14. Claims(b, fr.kind = "case", lit, ct, Into(fr, lv)) <=>
         \A i \in 1..n : Claim(b[i], i > 1, InCase(b, i, fr.kind = "case"), lit, ct,
                               LiveIn(b, i, Into(fr, lv)))
  BY DEF Claims, n
<1> HIDE DEF n
<1>. QED BY <1>8, <1>9, <1>10, <1>11, <1>12, <1>13, <1>14

LEMMA RestsPush ==
  ASSUME NEW m \in Nat, NEW b \in Seq(FramesOf(m)), NEW fr \in FramesOf(m),
         NEW su, su = Append(b, fr)
  PROVE  /\ Rests(su) <=> fr.kind = "fn" \/ (Rests(b) /\ (fr.kind \in Caps => fr.was))
         /\ Chained(su) <=> Chained(b) /\ (Says(fr) => Rests(b))
<1> DEFINE n == Len(b)
<1>1. /\ n \in Nat /\ Len(su) = n + 1 /\ su[n + 1] = fr
      /\ \A k \in 1..n : su[k] = b[k]
  BY PushFacts
<1> HIDE DEF n
<1>2. /\ \A i \in 1..(n + 1) : i \in 1..n \/ i = n + 1
      /\ \A i \in 1..n : i \in 1..(n + 1)
      /\ n + 1 \in 1..(n + 1) /\ (n + 1) - 1 = n
  BY <1>1
<1>3. ASSUME NEW k \in 0..n PROVE RestsUpTo(su, k) <=> RestsUpTo(b, k)
  <2>1. \A i \in 1..k : i \in 1..n /\ \A j \in (i + 1)..k : j \in 1..n
    BY <1>1
  <2>. QED BY <1>1, <2>1 DEF RestsUpTo
<1>4. RestsUpTo(su, n + 1) <=> fr.kind = "fn" \/ (RestsUpTo(b, n) /\ (fr.kind \in Caps => fr.was))
  <2>1. \A j \in (n + 1 + 1)..(n + 1) : FALSE
    BY <1>1
  <2>2. ASSUME NEW i \in 1..n
        PROVE  /\ n + 1 \in (i + 1)..(n + 1)
               /\ \A j \in (i + 1)..(n + 1) : j = n + 1 \/ (j \in (i + 1)..n /\ su[j] = b[j])
               /\ \A j \in (i + 1)..n : j \in (i + 1)..(n + 1) /\ su[j] = b[j]
    BY <1>1
  <2>3. ASSUME NEW i \in 1..n
        PROVE  (\A j \in (i + 1)..(n + 1) : su[j].kind # "fn") <=>
                  fr.kind # "fn" /\ (\A j \in (i + 1)..n : b[j].kind # "fn")
    BY <1>1, <2>2
  <2>4. fr.kind = "fn" => fr.kind \notin Caps
    BY DEF Caps
  <2> DEFINE Q(st, i, k) == st[i].kind \in Caps /\ (\A j \in (i + 1)..k : st[j].kind # "fn") => st[i].was
  <2>5. \A i \in 1..n : Q(su, i, n + 1) <=> fr.kind = "fn" \/ Q(b, i, n)
    BY <1>1, <2>3
  <2>6. Q(su, n + 1, n + 1) <=> (fr.kind \in Caps => fr.was)
    BY <1>1, <2>1
  <2>7. RestsUpTo(su, n + 1) <=> \A i \in 1..(n + 1) : Q(su, i, n + 1)
    BY DEF RestsUpTo
  <2>8. RestsUpTo(b, n) <=> \A i \in 1..n : Q(b, i, n)
    BY DEF RestsUpTo
  <2> HIDE DEF Q
  <2>. QED BY <1>2, <2>4, <2>5, <2>6, <2>7, <2>8
<1>5. \A i \in 1..n : i - 1 \in 0..n
  BY <1>1
<1>6. n \in 0..n
  BY <1>1
<1>7. Rests(su) <=> fr.kind = "fn" \/ (Rests(b) /\ (fr.kind \in Caps => fr.was))
  BY <1>1, <1>4 DEF Rests, n
<1>8. Chained(su) <=> \A i \in 1..(n + 1) : Says(su[i]) => RestsUpTo(su, i - 1)
  BY <1>1 DEF Chained
<1>9. Chained(b) <=> \A i \in 1..n : Says(b[i]) => RestsUpTo(b, i - 1)
  BY DEF Chained, n
<1>10. Rests(b) <=> RestsUpTo(b, n)
  BY DEF Rests, n
<1>11. \A i \in 1..n : RestsUpTo(su, i - 1) <=> RestsUpTo(b, i - 1)
  BY <1>3, <1>5
<1>12. RestsUpTo(su, (n + 1) - 1) <=> RestsUpTo(b, n)
  BY <1>2, <1>3, <1>6
<1>13. Chained(su) <=> Chained(b) /\ (Says(fr) => Rests(b))
  BY <1>1, <1>2, <1>8, <1>9, <1>10, <1>11, <1>12
<1>. QED BY <1>7, <1>13

LEMMA FlowsPush ==
  ASSUME NEW m \in Nat, NEW b \in Seq(FramesOf(m)), NEW fr \in FramesOf(m),
         NEW su, su = Append(b, fr), NEW w, NEW lit, NEW ct, NEW lv
  PROVE  Flows(su, w, lit, ct, lv) <=>
           /\ Flows(b, fr.kind = "case", lit, ct, Into(fr, lv)) /\ Suits(b, fr, lv)
           /\ Claim(fr, b # <<>>, w, lit, ct, lv)
<1> DEFINE C == Claims(b, fr.kind = "case", lit, ct, Into(fr, lv))
           F == Flows(b, fr.kind = "case", lit, ct, Into(fr, lv))
           K == Claim(fr, b # <<>>, w, lit, ct, lv)
           D == Flows(su, w, lit, ct, lv)
           Q == Claims(su, w, lit, ct, lv)
<1>1. Q <=> C /\ K
  <2>1. Q <=> Claims(b, fr.kind = "case", lit, ct, Into(fr, lv)) /\ Claim(fr, b # <<>>, w, lit, ct, lv)
    BY ClaimsPush
  <2>. QED BY <2>1
<1>2. /\ Rests(su) <=> fr.kind = "fn" \/ (Rests(b) /\ (fr.kind \in Caps => fr.was))
      /\ Chained(su) <=> Chained(b) /\ (Says(fr) => Rests(b))
  BY RestsPush
<1>3. D <=> Q /\ Chained(su) /\ (lv => Rests(su))
  BY DEF Flows
<1>4. F <=> C /\ Chained(b) /\ (Into(fr, lv) => Rests(b))
  BY DEF Flows
<1> HIDE DEF C, F, K, D, Q
<1>5. D <=> F /\ Suits(b, fr, lv) /\ K
  <2>1. CASE fr.kind = "fn"
    <3>1. (Says(fr) <=> fr.was) /\ (Into(fr, lv) <=> fr.was)
      BY <2>1 DEF Says, Tells, Caps, Into
    <3>2. Suits(b, fr, lv)
      BY <2>1 DEF Suits
    <3>. QED BY <1>1, <1>2, <1>3, <1>4, <2>1, <3>1, <3>2
  <2>2. CASE fr.kind # "fn"
    <3>1. (Says(fr) <=> Tells(fr)) /\ (Into(fr, lv) <=> lv)
      BY <2>2 DEF Says, Into
    <3>2. Suits(b, fr, lv) <=> (Tells(fr) => Rests(b)) /\ (fr.kind \in Caps /\ lv => fr.was)
      BY <2>2 DEF Suits
    <3>. QED BY <1>1, <1>2, <1>3, <1>4, <2>2, <3>1, <3>2
  <2>. QED BY <2>1, <2>2
<1>. QED BY <1>5 DEF F, K, D

\* Frames of which the same is claimed.
Twins(a, b) == /\ Alike(a, b)
               /\ a.kind \in Caps \union {"fn"} => a.was = b.was
               /\ a.kind = "else" => a.out = b.out

LEMMA FlowsTwin ==
  ASSUME NEW m \in Nat, NEW b \in Seq(FramesOf(m)), NEW o \in FramesOf(m), NEW y \in FramesOf(m),
         Twins(o, y), NEW w, NEW lit, NEW ct, NEW lv
  PROVE  Flows(Append(b, o), w, lit, ct, lv) <=> Flows(Append(b, y), w, lit, ct, lv)
<1> DEFINE so == Append(b, o)
           sy == Append(b, y)
<1>1. Flows(so, w, lit, ct, lv) <=>
           /\ Flows(b, o.kind = "case", lit, ct, Into(o, lv)) /\ Suits(b, o, lv)
           /\ Claim(o, b # <<>>, w, lit, ct, lv)
  BY FlowsPush
<1>2. Flows(sy, w, lit, ct, lv) <=>
           /\ Flows(b, y.kind = "case", lit, ct, Into(y, lv)) /\ Suits(b, y, lv)
           /\ Claim(y, b # <<>>, w, lit, ct, lv)
  BY FlowsPush
<1>3. o.kind = y.kind /\ Into(o, lv) = Into(y, lv)
  BY DEF Twins, Alike, Into, Caps
<1>4. Tells(o) <=> Tells(y)
  BY <1>3 DEF Twins, Tells, Caps
<1>5. Suits(b, o, lv) <=> Suits(b, y, lv)
  BY <1>3, <1>4 DEF Suits, Twins
<1>6. Claim(o, b # <<>>, w, lit, ct, lv) <=> Claim(y, b # <<>>, w, lit, ct, lv)
  BY DEF Claim, Twins, Alike, Caps
<1>7. Flows(b, o.kind = "case", lit, ct, Into(o, lv)) <=> Flows(b, y.kind = "case", lit, ct, Into(y, lv))
  BY <1>3
<1> HIDE DEF so, sy
<1>8. Flows(so, w, lit, ct, lv) <=> Flows(sy, w, lit, ct, lv)
  BY <1>1, <1>2, <1>5, <1>6, <1>7
<1>. QED BY <1>8 DEF so, sy

LEMMA ToldTwin ==
  ASSUME NEW m \in Nat, NEW fr \in FramesOf(m), fr.kind \in Statements, NEW form \in Lasts
  PROVE  Twins(fr, Told(fr, form))
<1>1. Alike(fr, Told(fr, form))
  BY FrameAfter DEF Alike, Statements, Told
<1>2. fr.kind \in {"fn", "then", "loop"} => Told(fr, form).was = fr.was
  BY DEF FramesOf, Told
<1>3. fr.kind = "else" => Told(fr, form).out = fr.out
  BY DEF FramesOf, Told
<1>. QED BY <1>1, <1>2, <1>3 DEF Twins, Caps, Statements

LEMMA FlowsTold ==
  ASSUME NEW m \in Nat, NEW fn, NEW st, Placed(st, fn, m), st # <<>>,
         TopOf(st).kind \in Statements, NEW form \in Lasts, NEW w, NEW lit, NEW ct, NEW lv
  PROVE  Flows(st, w, lit, ct, lv) <=> Flows(After(form, st), w, lit, ct, lv)
<1> DEFINE b == Under(st)
           o == TopOf(st)
           y == Told(o, form)
<1>1. b \in Seq(FramesOf(m)) /\ o \in FramesOf(m) /\ st = Append(b, o)
  BY PlacedPop
<1>2. After(form, st) = Append(b, y) /\ y \in FramesOf(m)
  BY AfterIs
<1>3. Twins(o, y)
  BY <1>1, ToldTwin
<1> HIDE DEF b, o, y
<1>4. Flows(Append(b, o), w, lit, ct, lv) <=> Flows(Append(b, y), w, lit, ct, lv)
  BY <1>1, <1>2, <1>3, FlowsTwin
<1>. QED BY <1>1, <1>2, <1>4

\* What is visited in a logical expression, or in a select outside its alternatives,
\* is a logical expression.
LEMMA Expressions ==
  ASSUME NEW m \in Nat, NEW st \in Seq(FramesOf(m)), Nests(st), NEW i \in 1..(Len(st) - 1),
         LastFn(st, i),
         st[i].kind = "logic" \/ (st[i].kind \in {"select", "match"} /\ st[i + 1].kind # "case")
  PROVE  st[Len(st)].kind = "logic"
<1> DEFINE n == Len(st)
           k == n - (i + 1)
           f == [j \in 0..k |-> st[i + 1 + j].kind]
           S == {"logic"}
<1>1. n \in Nat /\ i \in 1..(n - 1) /\ k \in Nat /\ st # <<>>
  BY DEF n
<1>2. \A j \in 2..n : Fits(st[j - 1], st[j])
  BY <1>1 DEF Nests, n
<1>3. \A j \in (i + 1)..n : st[j].kind # "fn"
  BY DEF LastFn, n
<1>4. \A x, y : Fits(x, y) /\ y.kind # "fn"
                /\ (x.kind = "logic" \/ (x.kind \in {"select", "match"} /\ y.kind # "case"))
                => y.kind = "logic"
  BY DEF Fits, IsExpression, Statements
<1> HIDE DEF n
<1>5. st[i + 1].kind = "logic"
  <2>1. i + 1 \in 2..n /\ i + 1 \in (i + 1)..n /\ (i + 1) - 1 = i
    BY <1>1
  <2>2. Fits(st[i], st[i + 1]) /\ st[i + 1].kind # "fn"
    BY <1>2, <1>3, <2>1
  <2>. QED BY <1>4, <2>2
<1>6. \A j \in 1..k : f[j - 1] \in S => f[j] \in S
  <2> SUFFICES ASSUME NEW j \in 1..k, f[j - 1] \in S PROVE f[j] \in S
    OBVIOUS
  <2>1. /\ j \in 0..k /\ j - 1 \in 0..k /\ i + 1 + j \in 2..n /\ i + 1 + j \in (i + 1)..n
        /\ (i + 1 + j) - 1 = i + 1 + (j - 1)
    BY <1>1
  <2>2. Fits(st[i + 1 + (j - 1)], st[i + 1 + j]) /\ st[i + 1 + j].kind # "fn"
    BY <1>2, <1>3, <2>1
  <2>3. st[i + 1 + (j - 1)].kind = "logic"
    BY <2>1
  <2>4. st[i + 1 + j].kind = "logic"
    BY <1>4, <2>2, <2>3
  <2>. QED BY <2>1, <2>4
<1>7. f[0] \in S
  BY <1>1, <1>5
<1> HIDE DEF f, S
<1>8. \A j \in 0..k : f[j] \in S
  BY <1>1, <1>6, <1>7, Stays
<1>9. k \in 0..k /\ i + 1 + k = n
  BY <1>1
<1>. QED BY <1>8, <1>9 DEF f, S, n

\* Where no expression is visited, only what is reached around it depends on whether
\* the place that is visited can be reached.
LEMMA FlowsFree ==
  ASSUME NEW m \in Nat, NEW st \in Seq(FramesOf(m)), Nests(st), st # <<>>, NEW w, w \in BOOLEAN,
         TopOf(st).kind \in Statements \/ (TopOf(st).kind \in {"select", "match"} /\ w),
         NEW lit, NEW ct, NEW lv, NEW lv2, Flows(st, w, lit, ct, lv), lv2 => Rests(st)
  PROVE  Flows(st, w, lit, ct, lv2)
<1>1. ASSUME NEW i \in 1..Len(st)
      PROVE  Claim(st[i], i > 1, InCase(st, i, w), lit, ct, LiveIn(st, i, lv2))
  <2>1. Claim(st[i], i > 1, InCase(st, i, w), lit, ct, LiveIn(st, i, lv))
    BY DEF Flows, Claims
  <2>2. CASE ~ LastFn(st, i)
    <3>1. LiveIn(st, i, lv2) <=> LiveIn(st, i, lv)
      BY <2>2 DEF LiveIn
    <3>. QED BY <2>1, <3>1 DEF Claim
  <2>3. CASE LastFn(st, i) /\ i = Len(st)
    <3>1. st[i].kind \in Statements \/ (st[i].kind \in {"select", "match"} /\ InCase(st, i, w))
      BY <2>3 DEF TopOf, InCase
    <3>. QED BY <2>1, <3>1 DEF Claim, Statements
  <2>4. CASE LastFn(st, i) /\ i # Len(st)
    <3>1. i \in 1..(Len(st) - 1)
      BY <2>4
    <3>2. st[Len(st)].kind # "logic"
      BY DEF TopOf, Statements
    <3>3. st[i].kind # "logic" /\ (st[i].kind \in {"select", "match"} => st[i + 1].kind = "case")
      BY <2>4, <3>1, <3>2, Expressions
    <3>4. st[i].kind \in {"select", "match"} => InCase(st, i, w)
      BY <2>4, <3>3 DEF InCase
    <3>. QED BY <2>1, <3>3, <3>4 DEF Claim
  <2>. QED BY <2>2, <2>3, <2>4
<1>2. Claims(st, w, lit, ct, lv2)
  BY <1>1 DEF Claims
<1>3. Chained(st)
  BY DEF Flows
<1>. QED BY <1>2, <1>3 DEF Flows

\* What was in the blocks stays, at least up to their first terminators.
Persists(ct, ct2) ==
  \A b \in Blocks : \A k \in Firsts(ct[b]) :
     k \in Firsts(ct2[b]) /\ ct2[b][k].op = ct[b][k].op /\ ct[b][k].to \subseteq ct2[b][k].to

\* More blocks can be executed, which are attached to nothing and no construct awaits.
Grows(lit, lit2, st, fn) ==
  lit \subseteq lit2 /\ \A x \in lit2 : x \in lit \/ (fn[x] = NoBlock /\ ~ Awaited(st, x))

SavedAsOpen(st, ct, ct2) == \A b \in Saved(st) : Terms(ct2[b]) = {} <=> Terms(ct[b]) = {}

LEMMA ClaimKept ==
  ASSUME NEW m \in Nat, m <= MaxBlocks, NEW st, NEW fn, Placed(st, fn, m),
         NEW lit, NEW lit2, Grows(lit, lit2, st, fn),
         NEW ct, NEW ct2, Persists(ct, ct2), SavedAsOpen(st, ct, ct2),
         NEW i \in 1..Len(st), NEW v, Claim(st[i], i > 1, InCase(st, i, FALSE), lit, ct, v)
  PROVE  Claim(st[i], i > 1, InCase(st, i, FALSE), lit2, ct2, v)
<1>1. /\ st \in Seq(FramesOf(m)) /\ DOMAIN st = 1..Len(st) /\ Len(st) \in Nat
      /\ Known(st, fn, i)
  BY DEF Placed
<1>2. \A j \in 1..Len(st) : FnAt(st, j) # NoBlock
  BY FnAtIn DEF NoBlock
<1>3. \A b : fn[b] # NoBlock \/ Awaited(st, b) => (b \in lit2 <=> b \in lit)
  BY DEF Grows
<1>4. \A b \in Awaits(st, i) : b \in lit2 <=> b \in lit
  BY <1>1, <1>3 DEF Awaited
<1> DEFINE fr == st[i]
<1>5. fr \in FramesOf(m)
  BY <1>1
<1>6. Claim(fr, i > 1, InCase(st, i, FALSE), lit, ct, v)
  OBVIOUS
<1>7. fr.kind = "fn" /\ i > 1 => (Open(lit2, ct2, fr.saved) <=> Open(lit, ct, fr.saved))
  <2> SUFFICES ASSUME fr.kind = "fn", i > 1 PROVE Open(lit2, ct2, fr.saved) <=> Open(lit, ct, fr.saved)
    OBVIOUS
  <2>1. i - 1 \in 1..Len(st)
    BY <1>1
  <2>2. fn[fr.saved] # NoBlock
    BY <1>1, <1>2, <2>1 DEF Known
  <2>3. fr.saved \in Saved(st)
    BY <1>1 DEF Saved
  <2>. QED BY <1>3, <2>2, <2>3 DEF Open, SavedAsOpen
<1>8. fr.kind = "then" => (fr.else \in lit2 <=> fr.else \in lit) /\ (fr.rest \in lit2 <=> fr.rest \in lit)
  BY <1>4 DEF Awaits, AwaitsOf
<1>9. fr.kind \in {"else", "loop"} => (fr.rest \in lit2 <=> fr.rest \in lit)
  BY <1>4 DEF Awaits, AwaitsOf
<1>10. fr.kind = "loop" => (fr.body \in lit2 <=> fr.body \in lit)
  BY <1>1, <1>2, <1>3 DEF Known
<1>11. fr.kind \in {"select", "match", "logic"} => (fr.merge \in lit2 <=> fr.merge \in lit)
  BY <1>4 DEF Awaits, AwaitsOf
<1>12. fr.kind = "select" /\ fr.more /\ InCase(st, i, FALSE) => (fr.else \in lit2 <=> fr.else \in lit)
  <2> SUFFICES ASSUME fr.kind = "select", fr.more, InCase(st, i, FALSE)
               PROVE  fr.else \in lit2 <=> fr.else \in lit
    OBVIOUS
  <2>1. i # Len(st) /\ st[i + 1].kind = "case"
    BY DEF InCase
  <2>2. i + 1 \in 1..Len(st) /\ (i + 1) - 1 = i
    <3>1. Len(st) \in Nat /\ i \in 1..Len(st) /\ i # Len(st)
      BY <1>1, <2>1
    <3> HIDE DEF fr
    <3>. QED BY ONLY <3>1
  <2>3. Awaits(st, i + 1) = {fr.else}
    BY <2>1, <2>2 DEF Awaits, AwaitsOf
  <2>. QED BY <1>1, <1>3, <2>2, <2>3 DEF Awaited
<1>13. fr.kind = "match" => /\ fr.switch \in lit2 <=> fr.switch \in lit
                            /\ Switches(ct[fr.switch], fr.merge) => Switches(ct2[fr.switch], fr.merge)
  <2> SUFFICES ASSUME fr.kind = "match"
               PROVE  /\ fr.switch \in lit2 <=> fr.switch \in lit
                      /\ Switches(ct[fr.switch], fr.merge) => Switches(ct2[fr.switch], fr.merge)
    OBVIOUS
  <2>1. fr.switch \in Blocks
    <3>1. fr.switch \in 1..m
      BY <1>5, FrameFacts
    <3>. QED BY <3>1, Bounds DEF Blocks
  <2>2. fn[fr.switch] # NoBlock
    BY <1>1, <1>2 DEF Known
  <2>. QED BY <1>3, <2>1, <2>2 DEF Persists, Switches
<1> HIDE DEF fr
<1>14. Claim(fr, i > 1, InCase(st, i, FALSE), lit2, ct2, v)
  BY <1>6, <1>7, <1>8, <1>9, <1>10, <1>11, <1>12, <1>13 DEF Claim
<1>. QED BY <1>14 DEF fr

LEMMA FlowsKept ==
  ASSUME NEW m \in Nat, m <= MaxBlocks, NEW st, NEW fn, Placed(st, fn, m),
         NEW lit, NEW lit2, Grows(lit, lit2, st, fn),
         NEW ct, NEW ct2, Persists(ct, ct2), SavedAsOpen(st, ct, ct2),
         NEW lv, Flows(st, FALSE, lit, ct, lv)
  PROVE  Flows(st, FALSE, lit2, ct2, lv)
<1>1. ASSUME NEW i \in 1..Len(st)
      PROVE  Claim(st[i], i > 1, InCase(st, i, FALSE), lit2, ct2, LiveIn(st, i, lv))
  <2>1. Claim(st[i], i > 1, InCase(st, i, FALSE), lit, ct, LiveIn(st, i, lv))
    BY DEF Flows, Claims
  <2>. QED BY <2>1, ClaimKept
<1>2. Claims(st, FALSE, lit2, ct2, lv)
  BY <1>1 DEF Claims
<1>. QED BY <1>2 DEF Flows

-----------------------------------------------------------------------------
(* The blocks that can be executed after a step.                              *)

KeepsFirsts(code, a) == \A k \in Firsts(code) : k \in Firsts(a) /\ a[k] = code[k]

LEMMA AppendFirsts ==
  ASSUME NEW S, NEW code \in Seq(S), NEW e \in S
  PROVE  /\ Terms(code) = {} /\ e # Code => Hops(Append(code, e)) = e.to
                                            /\ (\A m \in e.to : e.op = "switch" => Switches(Append(code, e), m))
         /\ Terms(code) # {} \/ e = Code => Firsts(Append(code, e)) = Firsts(code)
         /\ KeepsFirsts(code, Append(code, e))
<1> DEFINE n == Len(code)
           a == Append(code, e)
<1>1. /\ n \in Nat /\ a[n + 1] = e /\ \A k \in 1..n : a[k] = code[k]
      /\ DOMAIN code = 1..n
  BY AppendFacts
<1>2. /\ e # Code => Terms(a) = Terms(code) \union {n + 1}
      /\ e = Code => Terms(a) = Terms(code)
  BY AppendCode
<1> HIDE DEF a, n
<1>3. \A k \in Terms(code) : k \in 1..n /\ k <= n + 1 /\ ~ (n + 1 <= k)
  BY <1>1 DEF Terms
<1>4. Terms(code) # {} \/ e = Code => Firsts(a) = Firsts(code)
  BY <1>1, <1>2, <1>3 DEF Firsts
<1>5. Terms(code) = {} => Firsts(code) = {}
  BY DEF Firsts
<1>6. \A k \in Firsts(code) : k \in Firsts(a) /\ a[k] = code[k]
  BY <1>1, <1>3, <1>4, <1>5 DEF Firsts
<1>7. ASSUME Terms(code) = {}, e # Code
      PROVE  Hops(a) = e.to /\ (\A m \in e.to : e.op = "switch" => Switches(a, m))
  <2>1. Firsts(a) = {n + 1}
    BY <1>1, <1>2, <1>7 DEF Firsts
  <2>. QED BY <1>1, <2>1 DEF Hops, Switches
<1>8. KeepsFirsts(code, a)
  BY <1>6 DEF KeepsFirsts
<1>. QED BY <1>4, <1>7, <1>8 DEF a

LEMMA InsertHops ==
  ASSUME NEW S, content \in [Blocks -> Seq(S)], NEW b \in Blocks, NEW e \in S
  PROVE  /\ \A c \in Blocks : c # b => Hops(Insert(b, e)[c]) = Hops(content[c])
         /\ e # Code /\ Terms(content[b]) = {} => Hops(Insert(b, e)[b]) = e.to
         /\ e = Code \/ Terms(content[b]) # {} => Hops(Insert(b, e)[b]) = Hops(content[b])
         /\ e = Code => \A c \in Blocks : Terms(Insert(b, e)[c]) = Terms(content[c])
         /\ Persists(content, Insert(b, e))
<1> DEFINE ct2 == Insert(b, e)
           code == content[b]
           a == Append(code, e)
<1>1. \A c \in Blocks : c # b => ct2[c] = content[c]
  BY InsertElsewhere
<1>2. (e # Code => ct2[b] = a) /\ (e = Code => ct2[b] = code \/ ct2[b] = a)
  BY InsertOther
<1>3. code \in Seq(S)
  OBVIOUS
<1>4. /\ Terms(code) = {} /\ e # Code => Hops(a) = e.to
      /\ Terms(code) # {} \/ e = Code => Firsts(a) = Firsts(code)
      /\ \A k \in Firsts(code) : k \in Firsts(a) /\ a[k] = code[k]
  <2> HIDE DEF code
  <2>1. Terms(code) = {} /\ e # Code => Hops(a) = e.to
    BY <1>3, AppendFirsts
  <2>2. Terms(code) # {} \/ e = Code => Firsts(a) = Firsts(code)
    BY <1>3, AppendFirsts
  <2>3. KeepsFirsts(code, a)
    BY <1>3, AppendFirsts
  <2>. QED BY <2>1, <2>2, <2>3 DEF KeepsFirsts
<1>5. e = Code => Terms(ct2[b]) = Terms(code)
  BY InsertCode
<1> HIDE DEF ct2, code, a
<1>6. Terms(code) # {} \/ e = Code => Hops(a) = Hops(code)
  BY <1>4 DEF Hops
<1>7. \A c \in Blocks : \A k \in Firsts(content[c]) : k \in Firsts(ct2[c]) /\ ct2[c][k] = content[c][k]
  BY <1>1, <1>2, <1>4 DEF code
<1>8. Persists(content, ct2)
  BY <1>7 DEF Persists
<1>. QED BY <1>1, <1>2, <1>4, <1>5, <1>6, <1>8 DEF ct2, code

LEMMA TypedInside ==
  ASSUME NEW ct, NEW m \in Nat, m <= MaxBlocks, CodeTyped(ct, m)
  PROVE  GoInside(ct)
<1>1. \A b \in Blocks : ct[b] \in Seq(InstrOf(m))
  BY DEF CodeTyped
<1>2. \A b \in Blocks : Targets(ct[b]) \subseteq 1..m
  BY <1>1, TargetsMade
<1>3. 1..m \subseteq Blocks
  BY Bounds DEF Blocks
<1>. QED BY <1>2, <1>3 DEF GoInside

Now == Lit(fnOf, content)

\* Blocks that were not made are not executed.
LEMMA NowMade ==
  ASSUME BlocksInv
  PROVE  /\ Now \subseteq 1..made /\ Now \subseteq Blocks /\ Roots(fnOf) \subseteq Now
         /\ Shut(Now, content) /\ GoInside(content)
         /\ \A x \in Blocks : x > made => x \notin Now
<1>1. made \in Nat /\ made <= MaxBlocks /\ MaxBlocks \in Nat /\ CodeTyped(content, made) /\ FnTyped(fnOf, made)
  BY TypesHere, Bounds DEF BlocksInv
<1>2. GoInside(content)
  BY <1>1, TypedInside
<1>3. 1..made \in SUBSET Blocks
  BY <1>1 DEF Blocks
<1>4. Roots(fnOf) \subseteq 1..made
  <2>1. \A f \in Blocks : f > made => fnOf[f] # f
    BY <1>1 DEF FnTyped, NoBlock, Blocks
  <2>. QED BY <1>1, <2>1 DEF Roots, Blocks
<1>5. Shut(1..made, content)
  <2>1. \A b \in 1..made : Targets(content[b]) \subseteq 1..made
    BY <1>1, <1>3, TargetsMade DEF CodeTyped
  <2>. QED BY <2>1, HopsTargets DEF Shut
<1>6. Now \subseteq 1..made
  BY <1>2, <1>3, <1>4, <1>5, LitLeast DEF Now
<1>7. Now \subseteq Blocks /\ Roots(fnOf) \subseteq Now /\ Shut(Now, content)
  BY <1>2, LitLeast DEF Now
<1>8. \A x \in Blocks : x > made => x \notin 1..made
  BY <1>1
<1>. QED BY <1>2, <1>6, <1>7, <1>8

\* A terminator is inserted: the blocks that it goes to can be executed if it can.
LEMMA LitTerminated ==
  ASSUME BlocksInv, ins \in Blocks, NEW m2 \in Nat, made <= m2, m2 <= MaxBlocks,
         NEW e \in InstrOf(m2), e # Code, NEW ct2, ct2 = Insert(ins, e),
         NEW fn2, Roots(fn2) = Roots(fnOf),
         NEW A, A = IF Open(Now, content, ins) THEN e.to ELSE {},
         \A t \in A : t \in Now \/ (t # ins /\ content[t] = <<>>)
  PROVE  Lit(fn2, ct2) = Now \union A
<1>1. /\ made \in Nat /\ MaxBlocks \in Nat /\ CodeTyped(content, made) /\ GoInside(content)
  BY TypesHere, NowMade, Bounds
<1>2. CodeTyped(ct2, m2)
  BY CodeInserted
<1>3. GoInside(ct2)
  BY <1>2, TypedInside
<1>4. content \in [Blocks -> Seq(InstrOf(m2))]
  BY <1>1, CodeWider DEF CodeTyped
<1> DEFINE T == IF Terms(content[ins]) = {} THEN e.to ELSE {}
<1>5. /\ \A b \in Blocks : b # ins => Hops(ct2[b]) = Hops(content[b])
      /\ Terms(content[ins]) = {} => Hops(ct2[ins]) = e.to
      /\ Terms(content[ins]) # {} => Hops(ct2[ins]) = Hops(content[ins])
  BY <1>4, InsertHops
<1>6. Hops(ct2[ins]) = Hops(content[ins]) \union T
  BY <1>5, HopsTargets
<1>7. e.to \subseteq Blocks
  BY <1>1 DEF InstrOf, Blocks
<1> DEFINE N == {}
<1>8. T \in SUBSET Blocks /\ N \in SUBSET Blocks
  BY <1>7
<1>9. TakenFrom(A, T, Lit(fnOf, content), ins)
  BY DEF Open, Now, TakenFrom
<1>10. \A t \in A : Hops(ct2[t]) = {} \/ t \in Now
  BY <1>5, <1>7, NothingYet, HopsTargets
<1>11. NewRoots(fnOf, fn2, N)
  BY DEF NewRoots
<1>12. /\ NoFurther(ct2, Lit(fnOf, content), A) /\ NoFurther(ct2, Lit(fnOf, content), N)
       /\ HopsOn(content, ct2, ins, T)
  BY <1>5, <1>6, <1>10 DEF NoFurther, HopsOn, Now
<1>13. N = {}
  OBVIOUS
<1> HIDE DEF T, N
<1>14. Lit(fn2, ct2) = Lit(fnOf, content) \union N \union A
  BY <1>1, <1>3, <1>6, <1>8, <1>9, <1>11, <1>12, LitStep
<1>. QED BY <1>13, <1>14 DEF Now

\* Code is inserted.
LEMMA LitCoded ==
  ASSUME BlocksInv, ins \in Blocks, NEW ct2, ct2 = Insert(ins, Code)
  PROVE  /\ Lit(fnOf, ct2) = Now /\ Persists(content, ct2)
         /\ \A b \in Blocks : Terms(ct2[b]) = Terms(content[b])
<1>1. made \in Nat /\ CodeTyped(content, made)
  BY TypesHere
<1>2. Code \in InstrOf(made) /\ content \in [Blocks -> Seq(InstrOf(made))]
  BY <1>1, InstrHere DEF CodeTyped
<1>3. /\ \A b \in Blocks : b # ins => Hops(ct2[b]) = Hops(content[b])
      /\ Hops(ct2[ins]) = Hops(content[ins])
      /\ \A b \in Blocks : Terms(ct2[b]) = Terms(content[b])
      /\ Persists(content, ct2)
  BY <1>2, InsertHops
<1>4. \A b \in Blocks : Hops(ct2[b]) = Hops(content[b])
  BY <1>3
<1>5. Lit(fnOf, ct2) = Lit(fnOf, content)
  BY <1>4, LitSame
<1>. QED BY <1>3, <1>5 DEF Now

-----------------------------------------------------------------------------
(* The invariant of the blocks that can be executed.                          *)

\* Code is inserted in a block that can be executed exactly when the place that is
\* visited can be reached; behind the last alternative no code is inserted before the
\* construct is left.
SettledAt(st) == TopOf(st).kind = "match" \/ (TopOf(st).kind = "select" /\ ~ TopOf(st).more)
Pointed(st, lv, i, lit, ct) == st # <<>> /\ ~ SettledAt(st) => (lv <=> Open(lit, ct, i))

FlowInv == /\ Pointed(stack, live, ins, Now, content)
           /\ Flows(stack, FALSE, Now, content, live)

LEMMA FlowStepped ==
  ASSUME NEW L2, Lit(fnOf', content') = L2, Pointed(stack', live', ins', L2, content'),
         Flows(stack', FALSE, L2, content', live')
  PROVE  FlowInv'
BY DEF FlowInv, Now

LEMMA FlowsPop ==
  ASSUME NEW m \in Nat, NEW st, NEW fn, Placed(st, fn, m), st # <<>>,
         NEW w, NEW lit, NEW ct, NEW lv
  PROVE  Flows(st, w, lit, ct, lv) <=>
           /\ Flows(Under(st), TopOf(st).kind = "case", lit, ct, Into(TopOf(st), lv))
           /\ Suits(Under(st), TopOf(st), lv) /\ Claim(TopOf(st), Under(st) # <<>>, w, lit, ct, lv)
<1> DEFINE b == Under(st)
           o == TopOf(st)
<1>1. b \in Seq(FramesOf(m)) /\ o \in FramesOf(m) /\ st = Append(b, o)
  BY PlacedPop
<1> HIDE DEF b, o
<1>2. Flows(st, w, lit, ct, lv) <=>
           /\ Flows(b, o.kind = "case", lit, ct, Into(o, lv)) /\ Suits(b, o, lv)
           /\ Claim(o, b # <<>>, w, lit, ct, lv)
  BY <1>1, FlowsPush
<1>. QED BY <1>2 DEF b, o

LEMMA FlowsHere ==
  ASSUME BlocksInv, FlowInv, stack # <<>>
  PROVE  /\ Flows(Below, Top.kind = "case", Now, content, Into(Top, live))
         /\ Suits(Below, Top, live) /\ Claim(Top, Below # <<>>, FALSE, Now, content, live)
         /\ live => Rests(stack)
         /\ Flows(stack, FALSE, Now, content, live)
<1>1. Placed(stack, fnOf, made) /\ made \in Nat /\ Top = TopOf(stack) /\ Below = Under(stack)
  BY HereFacts DEF BlocksInv
<1>2. Flows(stack, FALSE, Now, content, live)
  BY DEF FlowInv
<1> DEFINE w == FALSE
           lv == live
<1>3. Flows(stack, w, Now, content, lv) <=>
           /\ Flows(Under(stack), TopOf(stack).kind = "case", Now, content, Into(TopOf(stack), lv))
           /\ Suits(Under(stack), TopOf(stack), lv)
           /\ Claim(TopOf(stack), Under(stack) # <<>>, w, Now, content, lv)
  <2> HIDE DEF w, lv
  <2>. QED BY <1>1, FlowsPop
<1>4. /\ Flows(Under(stack), TopOf(stack).kind = "case", Now, content, Into(TopOf(stack), live))
      /\ Suits(Under(stack), TopOf(stack), live)
      /\ Claim(TopOf(stack), Under(stack) # <<>>, FALSE, Now, content, live)
  BY <1>2, <1>3
<1>5. live => Rests(stack)
  BY <1>2 DEF Flows
<1>. QED BY <1>1, <1>2, <1>4, <1>5

\* Blocks that constructs around st do not know of.
NotYet(A, st) == \A t \in A : t \in Now \/ (t \in Blocks /\ fnOf[t] = NoBlock /\ ~ Awaited(st, t))

LEMMA EmptyBlocks ==
  ASSUME BlocksInv, NEW t \in Blocks, fnOf[t] = NoBlock
  PROVE  content[t] = <<>> /\ Terms(content[t]) = {} /\ (stack # <<>> => t # ins)
<1>1. content[t] = <<>>
  BY DEF BlocksInv, Filled
<1>2. stack # <<>> => t # ins
  BY HereFacts
<1>. QED BY <1>1, <1>2, NothingYet

LEMMA NotYetGrows ==
  ASSUME NEW A, NEW st, NotYet(A, st)
  PROVE  Grows(Now, Now \union A, st, fnOf)
BY DEF NotYet, Grows

\* Something is inserted.
LEMMA InsertKept ==
  ASSUME BlocksInv, stack # <<>>, NEW m2 \in Nat, made <= m2,
         NEW e \in InstrOf(m2), NEW ct2, ct2 = Insert(ins, e),
         NEW st, Placed(st, fnOf, made), Saved(st) \subseteq Saved(stack),
         NEW lit2, Grows(Now, lit2, st, fnOf), NEW lv, Flows(st, FALSE, Now, content, lv)
  PROVE  Flows(st, FALSE, lit2, ct2, lv)
<1>1. /\ made \in Nat /\ made <= MaxBlocks /\ CodeTyped(content, made)
      /\ ins \in Blocks /\ ins \notin Saved(stack)
  BY TypesHere, HereFacts, Bounds DEF BlocksInv
<1>2. content \in [Blocks -> Seq(InstrOf(m2))]
  BY <1>1, CodeWider DEF CodeTyped
<1>3. Persists(content, ct2)
  BY <1>1, <1>2, InsertHops
<1>4. SavedAsOpen(st, content, ct2)
  <2> SUFFICES ASSUME NEW b \in Saved(st) PROVE ct2[b] = content[b]
    BY DEF SavedAsOpen
  <2>1. b \in 1..made /\ b # ins
    BY <1>1, SavedElsewhere
  <2>2. b \in Blocks
    BY <1>1, <2>1, Bounds DEF Blocks
  <2>. QED BY <1>1, <1>2, <2>1, <2>2, InsertElsewhere
<1>. QED BY <1>1, <1>3, <1>4, FlowsKept

LEMMA FlowsTerminated ==
  ASSUME BlocksInv, stack # <<>>, NEW m2 \in Nat, made <= m2, m2 <= MaxBlocks,
         NEW e \in InstrOf(m2), e # Code, NEW ct2, ct2 = Insert(ins, e),
         NEW fn2, Roots(fn2) = Roots(fnOf),
         NEW A, A = IF Open(Now, content, ins) THEN e.to ELSE {},
         NEW st, Placed(st, fnOf, made), Saved(st) \subseteq Saved(stack), NotYet(A, st),
         NEW lv, Flows(st, FALSE, Now, content, lv)
  PROVE  Lit(fn2, ct2) = Now \union A /\ Flows(st, FALSE, Now \union A, ct2, lv)
<1>1. \A t \in A : t \in Now \/ (t # ins /\ content[t] = <<>>)
  BY EmptyBlocks DEF NotYet
<1>2. ins \in Blocks
  BY HereFacts
<1>3. Lit(fn2, ct2) = Now \union A
  BY <1>1, <1>2, LitTerminated
<1>4. Grows(Now, Now \union A, st, fnOf)
  BY NotYetGrows
<1>5. Flows(st, FALSE, Now \union A, ct2, lv)
  BY <1>4, InsertKept
<1>. QED BY <1>3, <1>5

LEMMA InsertsHere ==
  ASSUME BlocksInv, stack # <<>>, NEW m2 \in Nat, made <= m2, NEW e \in InstrOf(m2)
  PROVE  /\ \A c \in Blocks : c # ins => Insert(ins, e)[c] = content[c]
         /\ e # Code => Terms(Insert(ins, e)[ins]) # {}
<1>1. /\ made \in Nat /\ CodeTyped(content, made) /\ ins \in Blocks
  BY TypesHere, HereFacts
<1>2. content \in [Blocks -> Seq(InstrOf(m2))]
  BY <1>1, CodeWider DEF CodeTyped
<1>. QED BY <1>1, <1>2, InsertElsewhere, InsertTerminator

\* Block b can be executed if the branch to it is reached.
Sent(A, b, yes) == A = IF yes THEN {b} ELSE {}

\* The end of a branch or of an alternative, "unless the block ends in a return".
LEMMA FlowsBranched ==
  ASSUME BlocksInv, FlowInv, stack # <<>>, Top.kind \in Statements \ {"loop"},
         NEW b \in 1..made, BranchUnlessReturn(b),
         NEW fn2, Roots(fn2) = Roots(fnOf), NEW A, Sent(A, b, live),
         NEW st, Placed(st, fnOf, made), Saved(st) \subseteq Saved(stack), NotYet(A, st),
         NEW lv, Flows(st, FALSE, Now, content, lv)
  PROVE  /\ Lit(fn2, content') = Now \union A /\ Flows(st, FALSE, Now \union A, content', lv)
         /\ \A c \in Blocks : c # ins => content'[c] = content[c]
<1>1. /\ made \in Nat /\ made <= MaxBlocks /\ made <= made
      /\ Br(b) \in InstrOf(made) /\ Br(b) # Code /\ Br(b).to = {b}
  <2>1. made \in Nat /\ made <= MaxBlocks
    BY Bounds DEF BlocksInv
  <2>. QED BY <2>1, InstrHere
<1>2. live <=> Open(Now, content, ins)
  <2>1. ~ SettledAt(stack)
    BY DEF SettledAt, TopOf, Top, Statements
  <2>. QED BY <2>1 DEF FlowInv, Pointed
<1>3. CASE Top.last = "return"
  <2>1. content' = content
    BY <1>3 DEF BranchUnlessReturn
  <2>2. Terms(content[ins]) # {}
    BY <1>3, HereContent DEF Ended
  <2>3. A = {}
    BY <1>2, <2>2 DEF Open, Sent
  <2>4. Lit(fn2, content) = Now
    BY LitSame DEF Now
  <2>. QED BY <2>1, <2>3, <2>4
<1>4. CASE Top.last # "return"
  <2> DEFINE e == Br(b)
  <2>1. content' = Insert(ins, e)
    BY <1>4 DEF BranchUnlessReturn
  <2>2. e \in InstrOf(made) /\ e # Code /\ A = IF Open(Now, content, ins) THEN e.to ELSE {}
    BY <1>1, <1>2 DEF Sent
  <2> HIDE DEF e
  <2>3. Lit(fn2, content') = Now \union A /\ Flows(st, FALSE, Now \union A, content', lv)
    BY <1>1, <2>1, <2>2, FlowsTerminated
  <2>4. \A c \in Blocks : c # ins => content'[c] = content[c]
    BY <1>1, <2>1, <2>2, InsertsHere
  <2>. QED BY <2>3, <2>4
<1>. QED BY <1>3, <1>4

\* A frame on a stack of which the invariant holds.
LEMMA FlowsPut ==
  ASSUME NEW m \in Nat, NEW b \in Seq(FramesOf(m)), NEW fr \in FramesOf(m), fr.kind # "case",
         NEW su, su = Append(b, fr), NEW lit, NEW ct, NEW lv,
         Flows(b, FALSE, lit, ct, Into(fr, lv)), Suits(b, fr, lv),
         Claim(fr, b # <<>>, FALSE, lit, ct, lv)
  PROVE  Flows(su, FALSE, lit, ct, lv)
<1> DEFINE w == FALSE
           k == fr.kind = "case"
<1>1. k = FALSE
  OBVIOUS
<1>2. Flows(b, k, lit, ct, Into(fr, lv)) /\ Claim(fr, b # <<>>, w, lit, ct, lv)
  BY <1>1
<1>3. k = (fr.kind = "case")
  OBVIOUS
<1>4. Flows(su, w, lit, ct, lv)
  <2> HIDE DEF w
  <2>. QED BY <1>2, FlowsPush
<1>. QED BY <1>4

LEMMA FlowsPutCase ==
  ASSUME NEW m \in Nat, NEW b \in Seq(FramesOf(m)), NEW fr \in FramesOf(m),
         fr.kind \in {"select", "match"}, NEW su, su = Append(Append(b, fr), CaseFrame),
         NEW lit, NEW ct, NEW lv,
         Flows(b, FALSE, lit, ct, lv), Suits(b, fr, lv), Claim(fr, b # <<>>, TRUE, lit, ct, lv)
  PROVE  Flows(su, FALSE, lit, ct, lv)
<1> DEFINE s1 == Append(b, fr)
           t == TRUE
           w == FALSE
           k == fr.kind = "case"
           c == CaseFrame
           kc == c.kind = "case"
<1>1. k = w /\ kc = t /\ Into(fr, lv) = lv /\ Into(c, lv) = lv
  BY DEF Into, CaseFrame
<1>2. s1 \in Seq(FramesOf(m)) /\ c \in FramesOf(m)
  BY CaseFacts, AppendFacts
<1>3. Flows(b, k, lit, ct, Into(fr, lv)) /\ Claim(fr, b # <<>>, t, lit, ct, lv)
  BY <1>1
<1>4. Flows(s1, t, lit, ct, lv)
  <2> HIDE DEF t
  <2>. QED BY <1>3, FlowsPush
<1>5. Suits(s1, c, lv) /\ Claim(c, s1 # <<>>, w, lit, ct, lv)
  BY DEF Suits, Claim, Tells, Caps, CaseFrame
<1>6. Flows(s1, kc, lit, ct, Into(c, lv))
  BY <1>1, <1>4
<1>7. su = Append(s1, c)
  OBVIOUS
<1>8. Flows(su, w, lit, ct, lv)
  <2> HIDE DEF w, s1, c
  <2>. QED BY <1>2, <1>5, <1>6, <1>7, FlowsPush
<1>. QED BY <1>8

\* What is below a construct that is no alternative.
LEMMA FlowsUnder ==
  ASSUME BlocksInv, FlowInv, stack # <<>>, Top.kind # "case"
  PROVE  Flows(Below, FALSE, Now, content, Into(Top, live))
<1> DEFINE k == Top.kind = "case"
<1>1. k = FALSE
  OBVIOUS
<1>2. Flows(Below, k, Now, content, Into(Top, live))
  BY FlowsHere
<1>. QED BY <1>1, <1>2

\* Where code is inserted next, and where not.
LEMMA UnsettledHere ==
  ASSUME stack # <<>>, FlowInv, Top.kind \in Statements \union {"logic"} \/ (Top.kind = "select" /\ Top.more)
  PROVE  live <=> Open(Now, content, ins)
BY DEF FlowInv, Pointed, SettledAt, TopOf, Top, Statements

-----------------------------------------------------------------------------
(* Statements without blocks.                                                 *)

LEMMA StatementFlows ==
  ASSUME BlocksInv, FlowInv, TvisitStatement PROVE FlowInv'
<1>1. /\ stack # <<>> /\ Top.kind \in Statements /\ content' = Insert(ins, Code)
      /\ stack' = After("statement", stack)
      /\ made' = made /\ fnOf' = fnOf /\ ins' = ins /\ live' = live
  BY AtStatementFacts DEF TvisitStatement
<1>2. /\ Placed(stack, fnOf, made) /\ made \in Nat /\ ins \in Blocks /\ TopOf(stack).kind \in Statements
      /\ "statement" \in Lasts
  BY <1>1, HereFacts DEF BlocksInv, Lasts
<1>3. Code \in InstrOf(made) /\ made <= made /\ Grows(Now, Now, stack, fnOf)
  BY <1>2, InstrHere DEF Grows
<1>4. Flows(stack, FALSE, Now, content', live)
  BY <1>1, <1>2, <1>3, FlowsHere, InsertKept
<1>5. Flows(stack', FALSE, Now, content', live)
  BY <1>1, <1>2, <1>4, FlowsTold
<1>6. Lit(fnOf, content') = Now /\ Terms(content'[ins]) = Terms(content[ins])
  BY <1>1, <1>2, LitCoded
<1>7. Pointed(stack', live, ins, Now, content')
  BY <1>1, <1>6, UnsettledHere DEF Pointed, Open
<1>. QED BY <1>1, <1>5, <1>6, <1>7, FlowStepped

LEMMA ReturnFlows ==
  ASSUME BlocksInv, FlowInv, TvisitReturnStatement PROVE FlowInv'
<1>1. /\ stack # <<>> /\ Top.kind \in Statements /\ content' = Insert(ins, Ret)
      /\ stack' = After("return", stack)
      /\ made' = made /\ fnOf' = fnOf /\ ins' = ins /\ live' = FALSE
  BY AtStatementFacts DEF TvisitReturnStatement
<1>2. /\ Placed(stack, fnOf, made) /\ made \in Nat /\ made <= MaxBlocks /\ made <= made
      /\ ins \in Blocks /\ TopOf(stack).kind \in Statements
      /\ "return" \in Lasts /\ stack \in Seq(FramesOf(made)) /\ Nests(stack)
  BY <1>1, HereFacts, Bounds DEF BlocksInv, Lasts, Placed
<1> DEFINE e == Ret
           A == IF Open(Now, content, ins) THEN e.to ELSE {}
<1>3. e \in InstrOf(made) /\ e # Code /\ e.to = {}
  BY <1>2, InstrHere
<1>4. A = {} /\ NotYet(A, stack) /\ Saved(stack) \subseteq Saved(stack)
  BY <1>3 DEF NotYet
<1>5. content' = Insert(ins, e) /\ A = IF Open(Now, content, ins) THEN e.to ELSE {}
  BY <1>1
<1> HIDE DEF e, A
<1>6. Lit(fnOf, content') = Now \union A /\ Flows(stack, FALSE, Now \union A, content', live)
  BY <1>1, <1>2, <1>3, <1>4, <1>5, FlowsHere, FlowsTerminated
<1>7. Terms(content'[ins]) # {}
  BY <1>1, <1>2, <1>3, <1>5, InsertsHere
<1>8. Lit(fnOf, content') = Now /\ Flows(stack, FALSE, Now, content', live)
  BY <1>4, <1>6
<1> DEFINE no == FALSE
<1>9. Flows(stack, FALSE, Now, content', no)
  <2>1. no => Rests(stack)
    OBVIOUS
  <2> DEFINE w == FALSE
  <2>2. w \in BOOLEAN /\ Flows(stack, w, Now, content', live)
    BY <1>8
  <2> HIDE DEF no, w
  <2>3. Flows(stack, w, Now, content', no)
    BY <1>1, <1>2, <2>1, <2>2, FlowsFree
  <2>. QED BY <2>3 DEF w
<1>10. Flows(stack', FALSE, Now, content', no)
  <2> HIDE DEF no
  <2>. QED BY <1>1, <1>2, <1>9, FlowsTold
<1>11. Pointed(stack', FALSE, ins, Now, content')
  BY <1>7 DEF Pointed, Open
<1>. QED BY <1>1, <1>8, <1>10, <1>11, FlowStepped

\* A construct is opened that leaves the blocks as they are.
LEMMA FlowsOpened ==
  ASSUME BlocksInv, FlowInv, stack # <<>>, NEW m2 \in Nat, made <= m2,
         NEW fr \in FramesOf(m2), fr.kind # "case", fr.kind # "fn", Tells(fr) => live,
         fr.kind \in Caps => fr.was = live, Claim(fr, TRUE, FALSE, Now, content, live),
         ~ SettledAt(stack), fr.kind = "select" => fr.more, fr.kind # "match",
         fnOf' = fnOf, content' = content, ins' = ins, live' = live, stack' = Append(stack, fr)
  PROVE  FlowInv'
<1>1. stack \in Seq(FramesOf(m2))
  <2>1. made \in Nat /\ stack \in Seq(FramesOf(made))
    BY HereFacts
  <2>. QED BY <2>1, FramesWider, WiderSeq
<1>2. Suits(stack, fr, live)
  BY FlowsHere DEF Suits
<1>3. Into(fr, live) = live
  BY DEF Into
<1>4. Claim(fr, stack # <<>>, FALSE, Now, content, live)
  BY DEF Claim
<1>5. Flows(stack, FALSE, Now, content, Into(fr, live))
  BY <1>3, FlowsHere
<1>6. Flows(stack', FALSE, Now, content, live)
  BY <1>1, <1>2, <1>4, <1>5, FlowsPut
<1>7. live <=> Open(Now, content, ins)
  BY DEF FlowInv, Pointed
<1>8. Pointed(stack', live, ins, Now, content)
  BY <1>7 DEF Pointed
<1>9. Lit(fnOf', content') = Now
  BY DEF Now
<1>. QED BY <1>6, <1>8, <1>9, FlowStepped

LEMMA BlockFlows ==
  ASSUME BlocksInv, FlowInv, TvisitBlock PROVE FlowInv'
<1> DEFINE fr == [kind |-> "block", last |-> "none"]
<1>1. /\ stack # <<>> /\ Top.kind \in Statements /\ stack' = Append(stack, fr)
      /\ fnOf' = fnOf /\ content' = content /\ ins' = ins /\ live' = live
  BY AtStatementFacts DEF TvisitBlock
<1>2. made \in Nat /\ made <= made
  BY <1>1, HereFacts
<1>3. /\ fr \in FramesOf(made) /\ fr.kind = "block" /\ ~ Tells(fr) /\ fr.kind \notin Caps
      /\ Claim(fr, TRUE, FALSE, Now, content, live)
  BY DEF FramesOf, Lasts, Tells, Caps, Claim
<1>4. ~ SettledAt(stack)
  BY <1>1 DEF SettledAt, TopOf, Top, Statements
<1> HIDE DEF fr
<1>. QED BY <1>1, <1>2, <1>3, <1>4, FlowsOpened

LEMMA EndBlockFlows ==
  ASSUME BlocksInv, FlowInv, endBlock PROVE FlowInv'
<1> DEFINE form == IF TopOf(Below).kind = "case" /\ Top.last = "return" THEN "return" ELSE "statement"
<1>1. /\ stack # <<>> /\ Top.kind = "block" /\ stack' = After(form, Below)
      /\ fnOf' = fnOf /\ content' = content /\ ins' = ins /\ live' = live
  BY DEF endBlock, TopOf
<1>2. /\ Below # <<>> /\ Placed(Below, fnOf, made) /\ TopOf(Below).kind \in Statements /\ made \in Nat
  BY <1>1, BelowFacts, HereFacts DEF Fits, IsExpression
<1>3. form \in Lasts
  BY DEF Lasts
<1> HIDE DEF form
<1>4. Into(Top, live) = live
  BY <1>1 DEF Into
<1>5. Flows(Below, FALSE, Now, content, live)
  BY <1>1, <1>4, FlowsUnder
<1>6. Flows(stack', FALSE, Now, content, live)
  BY <1>1, <1>2, <1>3, <1>5, FlowsTold
<1>7. Pointed(stack', live, ins, Now, content)
  BY <1>1, UnsettledHere DEF Pointed, Statements
<1>8. Lit(fnOf', content') = Now
  BY <1>1 DEF Now
<1>. QED BY <1>1, <1>6, <1>7, <1>8, FlowStepped

LEMMA SelectFlows ==
  ASSUME BlocksInv, FlowInv, select PROVE FlowInv'
<1> DEFINE fr == [kind |-> "select", merge |-> made + 1, else |-> NoBlock, more |-> TRUE, was |-> live]
<1>1. /\ stack # <<>> /\ Top.kind \in Statements /\ stack' = Append(stack, fr)
      /\ fnOf' = fnOf /\ content' = content /\ ins' = ins /\ live' = live
      /\ made + 2 <= MaxBlocks
  BY AtStatementFacts DEF select, Opens
<1>2. made \in Nat /\ made + 1 \in Nat /\ made <= made + 1 /\ MaxBlocks \in Nat /\ live \in BOOLEAN
  BY <1>1, HereFacts, Bounds, TypesHere
<1>3. made + 1 \notin Now
  BY <1>1, <1>2, NowMade DEF Blocks
<1>4. /\ fr \in FramesOf(made + 1) /\ fr.kind = "select" /\ fr.was = live /\ fr.more
      /\ fr.merge = made + 1
  BY <1>2 DEF FramesOf, NoBlock
<1>5. ~ SettledAt(stack)
  BY <1>1 DEF SettledAt, TopOf, Top, Statements
<1> HIDE DEF fr
<1>6. Claim(fr, TRUE, FALSE, Now, content, live) /\ (Tells(fr) => live)
  BY <1>3, <1>4 DEF Claim, Tells
<1>. QED BY <1>1, <1>2, <1>4, <1>5, <1>6, FlowsOpened

-----------------------------------------------------------------------------
(* Logical expressions.                                                       *)

LEMMA LogicFlows ==
  ASSUME BlocksInv, FlowInv, logic PROVE FlowInv'
<1> DEFINE fr == [kind |-> "logic", merge |-> made + 1, current |-> ins, count |-> 0, ready |-> FALSE]
<1>1. /\ stack # <<>> /\ Top.kind \in Statements \union {"select", "logic"} /\ ~ Ended(Top)
      /\ stack' = Append(stack, fr)
      /\ fnOf' = fnOf /\ content' = content /\ ins' = ins /\ live' = live
      /\ made + 2 <= MaxBlocks
  BY AtExpressionFacts DEF logic, Opens
<1>2. /\ made \in Nat /\ made + 1 \in Nat /\ made <= made + 1 /\ MaxBlocks \in Nat
      /\ ins \in 1..made
  BY <1>1, HereFacts, Bounds
<1>3. made + 1 \notin Now
  BY <1>1, <1>2, NowMade DEF Blocks
<1>4. fr \in FramesOf(made + 1) /\ fr.kind = "logic" /\ fr.merge = made + 1
  BY <1>2 DEF FramesOf
<1>5. ~ SettledAt(stack)
  BY <1>1 DEF SettledAt, TopOf, Top, Statements, Ended
<1> HIDE DEF fr
<1>6. Claim(fr, TRUE, FALSE, Now, content, live) /\ ~ Tells(fr) /\ fr.kind \notin Caps
  BY <1>3, <1>4 DEF Claim, Tells, Caps
<1>. QED BY <1>1, <1>2, <1>4, <1>5, <1>6, FlowsOpened

LEMMA LogicTwins ==
  ASSUME NEW m \in Nat, NEW fr \in FramesOf(m), fr.kind = "logic"
  PROVE  /\ Twins(fr, WithOperand(fr)) /\ Twins(fr, [fr EXCEPT !.ready = FALSE])
         /\ WithOperand(fr).kind = "logic" /\ [fr EXCEPT !.ready = FALSE].kind = "logic"
<1>1. Alike(fr, WithOperand(fr)) /\ Alike(fr, [fr EXCEPT !.ready = FALSE])
  BY LogicFrame
<1>2. WithOperand(fr).kind = "logic" /\ [fr EXCEPT !.ready = FALSE].kind = "logic"
  BY <1>1 DEF Alike
<1>. QED BY <1>1, <1>2 DEF Twins, Caps

LEMMA OperandFlows ==
  ASSUME BlocksInv, FlowInv, operand PROVE FlowInv'
<1> DEFINE y == WithOperand(Top)
<1>1. /\ stack # <<>> /\ Top.kind = "logic" /\ content' = Insert(ins, Code)
      /\ stack' = Append(Below, y) /\ fnOf' = fnOf /\ ins' = ins /\ live' = live
  BY DEF operand, Replace
<1>2. /\ Placed(stack, fnOf, made) /\ made \in Nat /\ ins \in Blocks
      /\ Top = TopOf(stack) /\ Below = Under(stack)
  BY <1>1, HereFacts DEF BlocksInv
<1>3. Below \in Seq(FramesOf(made)) /\ Top \in FramesOf(made) /\ stack = Append(Below, Top)
  BY <1>1, <1>2, PlacedPop
<1>4. y \in FramesOf(made) /\ Twins(Top, y) /\ y.kind = "logic"
  BY <1>1, <1>2, <1>3, LogicFrame, LogicTwins
<1> HIDE DEF y
<1>5. Code \in InstrOf(made) /\ made <= made /\ Grows(Now, Now, stack, fnOf)
  BY <1>2, InstrHere DEF Grows
<1>6. Flows(stack, FALSE, Now, content', live)
  BY <1>1, <1>2, <1>5, FlowsHere, InsertKept
<1>7. Flows(stack', FALSE, Now, content', live)
  <2>1. Flows(Append(Below, Top), FALSE, Now, content', live) <=>
          Flows(Append(Below, y), FALSE, Now, content', live)
    <3> DEFINE w == FALSE
               lv == live
               ct == content'
               o == Top
               b == Below
    <3>1. b \in Seq(FramesOf(made)) /\ o \in FramesOf(made) /\ Twins(o, y)
      BY <1>3, <1>4
    <3> HIDE DEF w, lv, ct, o, b
    <3>2. Flows(Append(b, o), w, Now, ct, lv) <=> Flows(Append(b, y), w, Now, ct, lv)
      BY <1>2, <1>4, <3>1, FlowsTwin
    <3>. QED BY <3>2 DEF w, lv, ct, o, b
  <2>. QED BY <1>1, <1>3, <1>6, <2>1
<1>8. Lit(fnOf, content') = Now /\ Terms(content'[ins]) = Terms(content[ins])
  BY <1>1, <1>2, LitCoded
<1>9. Pointed(stack', live, ins, Now, content')
  BY <1>1, <1>8, UnsettledHere DEF Pointed, Open
<1>. QED BY <1>1, <1>7, <1>8, <1>9, FlowStepped

-----------------------------------------------------------------------------
(* Branches and loops.                                                        *)

LEMMA FlowsQuiet ==
  ASSUME NEW m \in Nat, NEW st, NEW fn, Placed(st, fn, m), st # <<>>, TopOf(st).kind \in Statements,
         NEW lit, NEW ct, NEW lv, NEW lv2, Flows(st, FALSE, lit, ct, lv), lv2 => Rests(st)
  PROVE  Flows(st, FALSE, lit, ct, lv2)
<1> DEFINE w == FALSE
<1>1. w \in BOOLEAN /\ Flows(st, w, lit, ct, lv) /\ st \in Seq(FramesOf(m)) /\ Nests(st)
  BY DEF Placed
<1> HIDE DEF w
<1>2. Flows(st, w, lit, ct, lv2)
  BY <1>1, FlowsFree
<1>. QED BY <1>2 DEF w

\* A statement ends, and what follows it can be reached if lv2.
LEMMA FlowsEnded ==
  ASSUME NEW m \in Nat, NEW st, NEW fn, Placed(st, fn, m), st # <<>>, TopOf(st).kind \in Statements,
         NEW lit, NEW ct, NEW lv, NEW lv2, Flows(st, FALSE, lit, ct, lv), lv2 => Rests(st),
         NEW form \in Lasts
  PROVE  Flows(After(form, st), FALSE, lit, ct, lv2)
<1>1. Flows(st, FALSE, lit, ct, lv2)
  BY FlowsQuiet
<1>. QED BY <1>1, FlowsTold

LEMMA AttachRoots ==
  ASSUME BlocksInv, stack # <<>>, NEW x \in Blocks, fnOf[x] = NoBlock
  PROVE  Roots([fnOf EXCEPT ![x] = CurrentFn]) = Roots(fnOf)
<1>1. fnOf[CurrentFn] = CurrentFn /\ CurrentFn # NoBlock
  BY HereFacts
<1>2. x # CurrentFn /\ fnOf \in [Blocks -> Blocks \union {NoBlock}]
  BY <1>1 DEF BlocksInv, TypeOK
<1> DEFINE f == CurrentFn
<1>3. f # x
  BY <1>2
<1> HIDE DEF f
<1>4. Roots([fnOf EXCEPT ![x] = f]) = Roots(fnOf)
  BY <1>2, <1>3, RootsSame
<1>. QED BY <1>4 DEF f

\* A block that the innermost construct waits for.
LEMMA AwaitedHere ==
  ASSUME BlocksInv, stack # <<>>, Top.kind # "fn", NEW x \in Brings(Below, Top)
  PROVE  /\ x \in Blocks /\ x \in 1..made /\ fnOf[x] = NoBlock /\ ~ Awaited(Below, x)
         /\ content[x] = <<>> /\ Terms(content[x]) = {} /\ x # ins
         /\ Roots([fnOf EXCEPT ![x] = CurrentFn]) = Roots(fnOf)
<1>1. x \in 1..made /\ fnOf[x] = NoBlock /\ ~ Awaited(Below, x)
  BY BelowFacts DEF Joins
<1>2. x \in Blocks
  BY <1>1, Bounds DEF BlocksInv, Blocks
<1>. QED BY <1>1, <1>2, EmptyBlocks, AttachRoots

LEMMA FreshHere ==
  ASSUME BlocksInv, NEW x \in Blocks, x > made
  PROVE  /\ x \notin Now /\ fnOf[x] = NoBlock /\ ~ Awaited(stack, x) /\ Terms(content[x]) = {}
<1>1. x \notin Now /\ fnOf[x] = NoBlock /\ content[x] = <<>> /\ x \notin 1..made
  BY NowMade, FreshBlocks
<1>2. ~ Awaited(stack, x)
  BY <1>1, AwaitedIn DEF BlocksInv
<1>. QED BY <1>1, <1>2, NothingYet

\* A statement that branches to a new block, in which code is inserted next.
LEMMA FlowsBranch ==
  ASSUME BlocksInv, FlowInv, stack # <<>>, Top.kind \in Statements, NEW m2 \in Nat,
         made + 1 <= m2, m2 <= MaxBlocks, NEW fr \in FramesOf(m2), fr.kind \in {"then", "loop"},
         fr.was = live, NEW e \in InstrOf(m2), e # Code,
         e.to \subseteq (made + 1)..m2, made + 1 \in e.to,
         fnOf' = [fnOf EXCEPT ![made + 1] = CurrentFn], content' = Insert(ins, e),
         ins' = made + 1, stack' = Append(stack, fr), live' = live,
         NEW L2, L2 = Now \union (IF live THEN e.to ELSE {}),
         Claim(fr, TRUE, FALSE, L2, content', live)
  PROVE  FlowInv'
<1>1. /\ made \in Nat /\ MaxBlocks \in Nat /\ made <= m2 /\ Placed(stack, fnOf, made)
      /\ stack \in Seq(FramesOf(made)) /\ ins \in 1..made
  BY HereFacts, Bounds DEF BlocksInv
<1>2. (live <=> Open(Now, content, ins)) /\ Flows(stack, FALSE, Now, content, live)
  BY UnsettledHere, FlowsHere
<1>3. made + 1 \in Blocks /\ e.to \subseteq Blocks /\ made + 1 # ins
  BY <1>1 DEF Blocks
<1>4. \A t \in e.to : t \notin Now /\ fnOf[t] = NoBlock /\ ~ Awaited(stack, t) /\ t \in Blocks
  <2>1. ASSUME NEW t \in e.to PROVE t \in Blocks /\ t > made
    BY <1>1, <1>3
  <2>. QED BY <2>1, FreshHere
<1> DEFINE A == IF Open(Now, content, ins) THEN e.to ELSE {}
<1>5. NotYet(A, stack) /\ Saved(stack) \subseteq Saved(stack) /\ L2 = Now \union A
  BY <1>2, <1>4 DEF NotYet
<1>6. Roots(fnOf') = Roots(fnOf)
  BY <1>3, <1>4, AttachRoots
<1>7. A = IF Open(Now, content, ins) THEN e.to ELSE {}
  OBVIOUS
<1> HIDE DEF A
<1>8. Lit(fnOf', content') = Now \union A /\ Flows(stack, FALSE, Now \union A, content', live)
  BY <1>1, <1>2, <1>5, <1>6, <1>7, FlowsTerminated
<1>9. Lit(fnOf', content') = L2 /\ Flows(stack, FALSE, L2, content', live)
  BY <1>5, <1>8
<1>10. stack \in Seq(FramesOf(m2))
  BY <1>1, FramesWider, WiderSeq
<1>11. Suits(stack, fr, live) /\ Into(fr, live) = live
  BY FlowsHere DEF Suits, Tells, Into
<1>12. Claim(fr, stack # <<>>, FALSE, L2, content', live)
  BY DEF Claim
<1>13. Flows(stack, FALSE, L2, content', Into(fr, live))
  BY <1>9, <1>11
<1>14. Flows(stack', FALSE, L2, content', live)
  <2> DEFINE ct == content'
             lv == live
  <2>1. Flows(stack, FALSE, L2, ct, Into(fr, lv)) /\ Claim(fr, stack # <<>>, FALSE, L2, ct, lv)
        /\ Suits(stack, fr, lv) /\ fr.kind # "case"
    BY <1>11, <1>12, <1>13
  <2> HIDE DEF ct, lv
  <2>2. Flows(stack', FALSE, L2, ct, lv)
    BY <1>10, <2>1, FlowsPut
  <2>. QED BY <2>2 DEF ct, lv
<1>15. Terms(content'[made + 1]) = {}
  <2>1. content'[made + 1] = content[made + 1]
    BY <1>1, <1>3, InsertsHere
  <2> DEFINE x == made + 1
  <2>2. x \in Blocks /\ x > made
    BY <1>1, <1>3
  <2> HIDE DEF x
  <2>3. Terms(content[x]) = {}
    BY <2>2, FreshHere
  <2>. QED BY <2>1, <2>3 DEF x
<1>16. Pointed(stack', live, made + 1, L2, content')
  BY <1>4, <1>15 DEF Pointed, Open
<1>. QED BY <1>9, <1>14, <1>16, FlowStepped

LEMMA ConditionalFlows ==
  ASSUME BlocksInv, FlowInv, NEW hasElse \in BOOLEAN, conditional(hasElse) PROVE FlowInv'
<1> DEFINE rest == IF hasElse THEN made + 3 ELSE made + 2
           fr   == [kind |-> "then", else |-> made + 2, rest |-> rest, was |-> live, last |-> "none"]
           e    == CondBr(0, made + 1, made + 2)
           L2   == Now \union (IF live THEN e.to ELSE {})
<1>1. /\ stack # <<>> /\ Top.kind \in Statements
      /\ made + (rest - made) <= MaxBlocks
      /\ fnOf' = [fnOf EXCEPT ![made + 1] = CurrentFn] /\ content' = Insert(ins, e)
      /\ ins' = made + 1 /\ stack' = Append(stack, fr) /\ live' = live
  BY AtStatementFacts DEF conditional, Opens
<1>2. made \in Nat /\ MaxBlocks \in Nat /\ live \in BOOLEAN
  BY <1>1, HereFacts, Bounds, TypesHere
<1>3. /\ rest \in Nat /\ made + 2 <= rest /\ made + 1 <= rest /\ rest <= MaxBlocks
      /\ rest \in {made + 2, made + 3}
  BY <1>1, <1>2
<1>4. made + 1 \in 1..rest /\ made + 2 \in 1..rest /\ rest \in 1..rest /\ 0 \in Nat
  BY <1>2, <1>3
<1>5. e \in InstrOf(rest) /\ e # Code /\ e.to = {made + 1, made + 2}
  BY <1>3, <1>4, CondBrHere
<1>6. /\ fr \in FramesOf(rest) /\ fr.kind = "then" /\ fr.was = live /\ fr.else = made + 2
      /\ fr.rest = rest
  BY <1>2, <1>4 DEF FramesOf, Lasts
<1>7. e.to \subseteq (made + 1)..rest /\ made + 1 \in e.to
  BY <1>2, <1>3, <1>5
<1>8. made + 2 \notin Now /\ rest \notin Now
  <2>1. made + 2 \in Blocks /\ made + 2 > made /\ rest \in Blocks /\ rest > made
    BY <1>2, <1>3 DEF Blocks
  <2>. QED BY <2>1, FreshHere
<1>9. rest # made + 2 => rest \notin e.to
  BY <1>2, <1>3, <1>5
<1> HIDE DEF rest, fr, e
<1>10. Claim(fr, TRUE, FALSE, L2, content', live)
  BY <1>5, <1>6, <1>8, <1>9 DEF Claim
<1>. QED BY <1>1, <1>3, <1>5, <1>6, <1>7, <1>10, FlowsBranch

LEMMA LoopFlows ==
  ASSUME BlocksInv, FlowInv, loop PROVE FlowInv'
<1> DEFINE m2 == made + 2
           fr == [kind |-> "loop", body |-> made + 1, rest |-> made + 2, was |-> live, last |-> "none"]
           e  == CondBr(0, made + 1, made + 2)
           L2 == Now \union (IF live THEN e.to ELSE {})
<1>1. /\ stack # <<>> /\ Top.kind \in Statements /\ made + 2 <= MaxBlocks
      /\ fnOf' = [fnOf EXCEPT ![made + 1] = CurrentFn] /\ content' = Insert(ins, e)
      /\ ins' = made + 1 /\ stack' = Append(stack, fr) /\ live' = live
  BY AtStatementFacts DEF loop, Opens
<1>2. made \in Nat /\ MaxBlocks \in Nat /\ live \in BOOLEAN
  BY <1>1, HereFacts, Bounds, TypesHere
<1>3. m2 \in Nat /\ made + 1 <= m2 /\ m2 <= MaxBlocks
  BY <1>1, <1>2
<1>4. made + 1 \in 1..m2 /\ made + 2 \in 1..m2 /\ 0 \in Nat
  BY <1>2
<1>5. e \in InstrOf(m2) /\ e # Code /\ e.to = {made + 1, made + 2}
  BY <1>3, <1>4, CondBrHere
<1>6. /\ fr \in FramesOf(m2) /\ fr.kind = "loop" /\ fr.was = live /\ fr.body = made + 1
      /\ fr.rest = made + 2
  BY <1>2, <1>4 DEF FramesOf, Lasts
<1>7. e.to \subseteq (made + 1)..m2 /\ made + 1 \in e.to
  BY <1>2, <1>3, <1>5
<1>8. made + 1 \notin Now /\ made + 2 \notin Now
  <2>1. made + 1 \in Blocks /\ made + 1 > made /\ made + 2 \in Blocks /\ made + 2 > made
    BY <1>1, <1>2 DEF Blocks
  <2>. QED BY <2>1, FreshHere
<1> HIDE DEF m2, fr, e
<1>9. Claim(fr, TRUE, FALSE, L2, content', live)
  BY <1>5, <1>6, <1>8 DEF Claim
<1>. QED BY <1>1, <1>3, <1>5, <1>6, <1>7, <1>9, FlowsBranch

\* What an ended branch, or loop, says of what it is in.
LEMMA EndsHere ==
  ASSUME BlocksInv, FlowInv, stack # <<>>, Top.kind \in {"then", "else", "loop"}
  PROVE  /\ Below # <<>> /\ Placed(Below, fnOf, made) /\ TopOf(Below).kind \in Statements
         /\ Saved(Below) = Saved(stack) /\ made \in Nat /\ made <= MaxBlocks
         /\ Flows(Below, FALSE, Now, content, live) /\ (Tells(Top) => Rests(Below))
         /\ Top.kind \in Caps /\ live => Top.was
         /\ Claim(Top, TRUE, FALSE, Now, content, live)
         /\ live <=> Open(Now, content, ins)
         /\ Brings(Below, Top) = AwaitsOf(TopOf(Below), Top)
         /\ Top \in FramesOf(made) /\ "statement" \in Lasts
<1>1. /\ Below # <<>> /\ Placed(Below, fnOf, made) /\ TopOf(Below).kind \in Statements
      /\ Saved(Below) = Saved(stack) /\ made \in Nat /\ made <= MaxBlocks
      /\ Brings(Below, Top) = AwaitsOf(TopOf(Below), Top) /\ Top \in FramesOf(made)
  BY BelowFacts, HereFacts, Bounds DEF Fits, IsExpression, BlocksInv
<1>2. Into(Top, live) = live /\ Top.kind # "case" /\ Top.kind # "fn"
  BY DEF Into
<1>3. Flows(Below, FALSE, Now, content, live)
  BY <1>2, FlowsUnder
<1>4. Suits(Below, Top, live) /\ Claim(Top, Below # <<>>, FALSE, Now, content, live)
  BY FlowsHere
<1>5. Claim(Top, TRUE, FALSE, Now, content, live)
  BY <1>1, <1>4 DEF Claim
<1>6. live <=> Open(Now, content, ins)
  BY UnsettledHere DEF Statements
<1>. QED BY <1>1, <1>2, <1>3, <1>4, <1>5, <1>6 DEF Suits, Lasts

LEMMA EndLoopFlows ==
  ASSUME BlocksInv, FlowInv, endLoop PROVE FlowInv'
<1> DEFINE e == CondBr(0, Top.body, Top.rest)
           A == IF Open(Now, content, ins) THEN e.to ELSE {}
           x == Top.rest
           was == Top.was
<1>1. /\ stack # <<>> /\ Top.kind = "loop" /\ content' = Insert(ins, e)
      /\ fnOf' = [fnOf EXCEPT ![x] = CurrentFn] /\ ins' = x /\ live' = was
      /\ stack' = After("statement", Below)
  BY DEF endLoop
<1>2. /\ Below # <<>> /\ Placed(Below, fnOf, made) /\ TopOf(Below).kind \in Statements
      /\ Saved(Below) = Saved(stack) /\ made \in Nat /\ made <= MaxBlocks
      /\ Flows(Below, FALSE, Now, content, live) /\ (was => Rests(Below)) /\ (live => was)
      /\ Claim(Top, TRUE, FALSE, Now, content, live)
      /\ live <=> Open(Now, content, ins)
      /\ x \in Brings(Below, Top) /\ Top \in FramesOf(made) /\ "statement" \in Lasts
  BY <1>1, EndsHere DEF Tells, Caps, AwaitsOf
<1>3. (was <=> Top.body \in Now) /\ (was <=> x \in Now)
  BY <1>1, <1>2 DEF Claim
<1>4. /\ x \in Blocks /\ content[x] = <<>> /\ Terms(content[x]) = {} /\ x # ins
      /\ Roots(fnOf') = Roots(fnOf)
  BY <1>1, <1>2, AwaitedHere
<1>5. e \in InstrOf(made) /\ e # Code /\ e.to = {Top.body, x}
  <2> DEFINE v == 0
             y == Top.body
  <2>1. y \in 1..made /\ x \in 1..made /\ v \in Nat
    BY <1>1, <1>2, FrameFacts
  <2>2. made \in Nat
    BY <1>2
  <2> HIDE DEF v, y, x
  <2>3. CondBr(v, y, x) \in InstrOf(made) /\ CondBr(v, y, x) # Code /\ CondBr(v, y, x).to = {y, x}
    BY <2>1, <2>2, CondBrHere
  <2>. QED BY <2>3 DEF v, y, x
<1>6. A \subseteq Now
  BY <1>2, <1>3, <1>5
<1>7. NotYet(A, Below) /\ Saved(Below) \subseteq Saved(stack) /\ made <= made
      /\ A = IF Open(Now, content, ins) THEN e.to ELSE {}
  BY <1>2, <1>6 DEF NotYet
<1> HIDE DEF e, A, x, was
<1>8. Lit(fnOf', content') = Now \union A /\ Flows(Below, FALSE, Now \union A, content', live)
  BY <1>1, <1>2, <1>4, <1>5, <1>7, FlowsTerminated
<1>9. Lit(fnOf', content') = Now /\ Flows(Below, FALSE, Now, content', live)
  <2>1. Now \union A = Now
    BY <1>6
  <2>. QED BY <1>8, <2>1
<1>10. Flows(stack', FALSE, Now, content', was)
  BY <1>1, <1>2, <1>9, FlowsEnded
<1>11. content'[x] = content[x]
  BY <1>1, <1>2, <1>4, <1>5, <1>7, InsertsHere
<1>12. Pointed(stack', was, x, Now, content')
  BY <1>3, <1>4, <1>11 DEF Pointed, Open
<1>. QED BY <1>1, <1>9, <1>10, <1>12, FlowStepped

\* The then branch of an if without else.
LEMMA EndThenFlows ==
  ASSUME BlocksInv, FlowInv, endThen, Top.else = Top.rest PROVE FlowInv'
<1> DEFINE x == Top.rest
           A == IF live THEN {x} ELSE {}
           was == Top.was
<1>1. /\ stack # <<>> /\ Top.kind = "then" /\ BranchUnlessReturn(x)
      /\ fnOf' = [fnOf EXCEPT ![x] = CurrentFn] /\ ins' = x /\ live' = was
      /\ stack' = After("statement", Below)
  BY DEF endThen
<1>2. /\ Below # <<>> /\ Placed(Below, fnOf, made) /\ TopOf(Below).kind \in Statements
      /\ Saved(Below) = Saved(stack) /\ made \in Nat
      /\ Flows(Below, FALSE, Now, content, live) /\ (was => Rests(Below)) /\ (live => was)
      /\ Claim(Top, TRUE, FALSE, Now, content, live)
      /\ x \in Brings(Below, Top) /\ Top \in FramesOf(made) /\ "statement" \in Lasts
  BY <1>1, EndsHere DEF Tells, Caps, AwaitsOf
<1>3. was <=> x \in Now
  BY <1>1, <1>2 DEF Claim
<1>4. /\ x \in Blocks /\ x \in 1..made /\ content[x] = <<>> /\ Terms(content[x]) = {} /\ x # ins
      /\ Roots(fnOf') = Roots(fnOf)
  BY <1>1, <1>2, AwaitedHere
<1>5. A \subseteq Now
  BY <1>2, <1>3
<1>6. NotYet(A, Below) /\ Saved(Below) \subseteq Saved(stack)
      /\ Top.kind \in Statements \ {"loop"}
  <2>1. Saved(Below) \subseteq Saved(stack) /\ Top.kind \in Statements \ {"loop"}
    BY <1>1, <1>2 DEF Statements
  <2>2. NotYet(A, Below)
    <3> HIDE DEF A
    <3>. QED BY <1>5 DEF NotYet
  <2>. QED BY <2>1, <2>2
<1>6a. Sent(A, x, live)
  BY DEF Sent
<1> HIDE DEF A, x, was
<1>7. /\ Lit(fnOf', content') = Now \union A /\ Flows(Below, FALSE, Now \union A, content', live)
      /\ \A c \in Blocks : c # ins => content'[c] = content[c]
  BY <1>1, <1>2, <1>4, <1>6, <1>6a, FlowsBranched
<1>8. Lit(fnOf', content') = Now /\ Flows(Below, FALSE, Now, content', live)
  <2>1. Now \union A = Now
    BY <1>5
  <2>. QED BY <1>7, <2>1
<1>9. Flows(stack', FALSE, Now, content', was)
  BY <1>1, <1>2, <1>8, FlowsEnded
<1>10. Pointed(stack', was, x, Now, content')
  BY <1>3, <1>4, <1>7 DEF Pointed, Open
<1>. QED BY <1>1, <1>8, <1>9, <1>10, FlowStepped

LEMMA EndThenElseFlows ==
  ASSUME BlocksInv, FlowInv, endThen, Top.else # Top.rest PROVE FlowInv'
<1> DEFINE x == Top.rest
           z == Top.else
           A == IF live THEN {x} ELSE {}
           was == Top.was
           L2 == Now \union A
           fr == [kind |-> "else", rest |-> x, out |-> live, last |-> "none"]
<1>1. /\ stack # <<>> /\ Top.kind = "then" /\ BranchUnlessReturn(x)
      /\ fnOf' = [fnOf EXCEPT ![z] = CurrentFn] /\ ins' = z /\ live' = was
      /\ stack' = Append(Below, fr)
  BY DEF endThen, Replace
<1>2. /\ Below # <<>> /\ Placed(Below, fnOf, made) /\ TopOf(Below).kind \in Statements
      /\ Saved(Below) = Saved(stack) /\ made \in Nat
      /\ Flows(Below, FALSE, Now, content, live) /\ (was => Rests(Below))
      /\ Claim(Top, TRUE, FALSE, Now, content, live)
      /\ x \in Brings(Below, Top) /\ z \in Brings(Below, Top) /\ Top \in FramesOf(made)
  BY <1>1, EndsHere DEF Tells, Caps, AwaitsOf
<1>3. (was <=> z \in Now) /\ x \notin Now /\ x # z
  BY <1>1, <1>2 DEF Claim
<1>4. x \in Blocks /\ x \in 1..made /\ fnOf[x] = NoBlock /\ ~ Awaited(Below, x)
  BY <1>1, <1>2, AwaitedHere
<1>5. /\ z \in Blocks /\ Terms(content[z]) = {} /\ z # ins /\ Roots(fnOf') = Roots(fnOf)
  BY <1>1, <1>2, AwaitedHere
<1>6. NotYet(A, Below) /\ Saved(Below) \subseteq Saved(stack)
      /\ Top.kind \in Statements \ {"loop"}
  <2>1. Saved(Below) \subseteq Saved(stack) /\ Top.kind \in Statements \ {"loop"}
    BY <1>1, <1>2 DEF Statements
  <2>2. A \subseteq {x}
    OBVIOUS
  <2>3. NotYet(A, Below)
    <3> HIDE DEF A, x
    <3>. QED BY <1>4, <2>2 DEF NotYet
  <2>. QED BY <2>1, <2>3
<1>6a. Sent(A, x, live)
  BY DEF Sent
<1>7. fr \in FramesOf(made) /\ fr.kind = "else" /\ fr.out = live /\ fr.rest = x
  <2>1. live \in BOOLEAN
    BY TypesHere
  <2>. QED BY <1>4, <2>1 DEF FramesOf, Lasts
<1> HIDE DEF A, x, z, was, fr
<1>8. /\ Lit(fnOf', content') = L2 /\ Flows(Below, FALSE, L2, content', live)
      /\ \A c \in Blocks : c # ins => content'[c] = content[c]
  BY <1>1, <1>2, <1>4, <1>5, <1>6, <1>6a, FlowsBranched
<1>9. (z \in L2 <=> was) /\ (x \in L2 <=> live)
  BY <1>3, <1>6a DEF Sent
<1> HIDE DEF L2
<1>10. Flows(Below, FALSE, L2, content', was)
  BY <1>2, <1>8, FlowsQuiet
<1>11. Suits(Below, fr, was)
  <2>1. live => Rests(Below)
    BY <1>2 DEF Flows
  <2>. QED BY <1>7, <2>1 DEF Suits, Tells, Caps
<1>12. Flows(stack', FALSE, L2, content', was)
  <2> DEFINE ct == content'
  <2>1. Claim(fr, Below # <<>>, FALSE, L2, ct, was) /\ Into(fr, was) = was /\ fr.kind # "case"
    BY <1>7, <1>9 DEF Claim, Into
  <2>2. Flows(Below, FALSE, L2, ct, Into(fr, was))
    BY <1>10, <2>1
  <2>3. Below \in Seq(FramesOf(made))
    BY <1>2 DEF Placed
  <2> HIDE DEF ct
  <2>4. Flows(stack', FALSE, L2, ct, was)
    BY <1>1, <1>2, <1>7, <1>11, <2>1, <2>2, <2>3, FlowsPut
  <2>. QED BY <2>4 DEF ct
<1>13. Pointed(stack', was, z, L2, content')
  BY <1>5, <1>8, <1>9 DEF Pointed, Open
<1>. QED BY <1>1, <1>8, <1>12, <1>13, FlowStepped

LEMMA EndElseFlows ==
  ASSUME BlocksInv, FlowInv, endElse PROVE FlowInv'
<1> DEFINE x == Top.rest
           A == IF live THEN {x} ELSE {}
           lv == live \/ Top.out
           L2 == Now \union A
<1>1. /\ stack # <<>> /\ Top.kind = "else" /\ BranchUnlessReturn(x)
      /\ fnOf' = [fnOf EXCEPT ![x] = CurrentFn] /\ ins' = x /\ live' = lv
      /\ stack' = After("statement", Below)
  BY DEF endElse
<1>2. /\ Below # <<>> /\ Placed(Below, fnOf, made) /\ TopOf(Below).kind \in Statements
      /\ Saved(Below) = Saved(stack) /\ made \in Nat
      /\ Flows(Below, FALSE, Now, content, live) /\ (Top.out => Rests(Below))
      /\ Claim(Top, TRUE, FALSE, Now, content, live)
      /\ x \in Brings(Below, Top) /\ Top \in FramesOf(made) /\ "statement" \in Lasts
  BY <1>1, EndsHere DEF Tells, AwaitsOf
<1>3. Top.out <=> x \in Now
  BY <1>1, <1>2 DEF Claim
<1>4. /\ x \in Blocks /\ x \in 1..made /\ fnOf[x] = NoBlock /\ ~ Awaited(Below, x)
      /\ Terms(content[x]) = {} /\ x # ins /\ Roots(fnOf') = Roots(fnOf)
  BY <1>1, <1>2, AwaitedHere
<1>5. NotYet(A, Below) /\ Saved(Below) \subseteq Saved(stack)
      /\ Top.kind \in Statements \ {"loop"}
  <2>1. Saved(Below) \subseteq Saved(stack) /\ Top.kind \in Statements \ {"loop"}
    BY <1>1, <1>2 DEF Statements
  <2>2. A \subseteq {x}
    OBVIOUS
  <2>3. NotYet(A, Below)
    <3> HIDE DEF A, x
    <3>. QED BY <1>4, <2>2 DEF NotYet
  <2>. QED BY <2>1, <2>3
<1>5a. Sent(A, x, live)
  BY DEF Sent
<1>6. x \in L2 <=> lv
  BY <1>3
<1>7. lv => Rests(Below)
  BY <1>2 DEF Flows
<1> HIDE DEF A, x, lv
<1>8. /\ Lit(fnOf', content') = L2 /\ Flows(Below, FALSE, L2, content', live)
      /\ \A c \in Blocks : c # ins => content'[c] = content[c]
  BY <1>1, <1>2, <1>4, <1>5, <1>5a, FlowsBranched
<1> HIDE DEF L2
<1>9. Flows(stack', FALSE, L2, content', lv)
  BY <1>1, <1>2, <1>7, <1>8, FlowsEnded
<1>10. Pointed(stack', lv, x, L2, content')
  BY <1>4, <1>6, <1>8 DEF Pointed, Open
<1>. QED BY <1>1, <1>8, <1>9, <1>10, FlowStepped

-----------------------------------------------------------------------------
(* Functions.                                                                 *)

\* A new block is the entry of a function.
LEMMA LitEntered ==
  ASSUME BlocksInv, NEW x \in Blocks, x > made
  PROVE  Lit([fnOf EXCEPT ![x] = x], content) = Now \union {x}
<1> DEFINE fn2 == [fnOf EXCEPT ![x] = x]
           none == {}
           N == {x}
<1>1. x \notin Now /\ fnOf[x] = NoBlock /\ Terms(content[x]) = {}
  BY FreshHere
<1>2. fnOf \in [Blocks -> Blocks \union {NoBlock}] /\ NoBlock \notin Blocks
  BY Bounds DEF BlocksInv, TypeOK, NoBlock, Blocks
<1>3. NewRoots(fnOf, fn2, N)
  BY <1>1, <1>2 DEF NewRoots, Roots
<1>4. HopsOn(content, content, x, none) /\ TakenFrom(none, none, Lit(fnOf, content), x)
  BY DEF HopsOn, TakenFrom
<1>5. NoFurther(content, Lit(fnOf, content), none) /\ NoFurther(content, Lit(fnOf, content), N)
  BY <1>1, HopsTargets DEF NoFurther
<1>6. GoInside(content)
  BY NowMade
<1>7. none \in SUBSET Blocks /\ N \in SUBSET Blocks /\ none = {}
  OBVIOUS
<1> HIDE DEF fn2, none, N
<1>8. Lit(fn2, content) = Lit(fnOf, content) \union N \union none
  BY <1>3, <1>4, <1>5, <1>6, <1>7, LitStep
<1>9. Lit(fn2, content) = Now \union N
  BY <1>7, <1>8 DEF Now
<1>. QED BY <1>9 DEF fn2, N

LEMMA EnterFlows ==
  ASSUME BlocksInv, FlowInv, NEW proc \in BOOLEAN, NEW lambda \in BOOLEAN, EnterBody(proc, lambda),
         stack # <<>> => ~ SettledAt(stack)
  PROVE  FlowInv'
<1> DEFINE x == made + 1
           fr == [kind |-> "fn", entry |-> made + 1, proc |-> proc, lambda |-> lambda,
                  saved |-> ins, was |-> live, last |-> "none"]
           yes == TRUE
           X == {x}
           L2 == Now \union X
<1>1. /\ made < MaxBlocks /\ fnOf' = [fnOf EXCEPT ![x] = x] /\ ins' = x /\ live' = yes
      /\ stack' = Append(stack, fr) /\ content' = content
  BY DEF EnterBody
<1>2. /\ made \in Nat /\ made <= MaxBlocks /\ MaxBlocks \in Nat /\ ins \in 0..made /\ live \in BOOLEAN
      /\ Placed(stack, fnOf, made) /\ stack \in Seq(FramesOf(made))
  BY TypesHere, Bounds DEF BlocksInv, Placed
<1>3. x \in Nat /\ x \in Blocks /\ x > made /\ ins # x /\ made <= x
  BY <1>1, <1>2 DEF Blocks
<1>4. fr \in FramesOf(x) /\ fr.kind = "fn" /\ fr.saved = ins /\ fr.was = live
  BY <1>2, <1>3 DEF FramesOf, Lasts
<1> HIDE DEF x, fr
<1>5. Lit(fnOf', content') = L2
  BY <1>1, <1>3, LitEntered
<1>6. /\ x \notin Now /\ fnOf[x] = NoBlock /\ ~ Awaited(stack, x) /\ Terms(content[x]) = {}
  BY <1>3, FreshHere
<1>7. Grows(Now, L2, stack, fnOf)
  BY <1>6 DEF Grows
<1>8. Persists(content, content) /\ SavedAsOpen(stack, content, content)
  BY DEF Persists, SavedAsOpen
<1>9. x \in L2 /\ (ins \in L2 <=> ins \in Now)
  BY <1>3
<1> HIDE DEF L2
<1>10. Flows(stack, FALSE, L2, content, live)
  <2>1. Flows(stack, FALSE, Now, content, live)
    BY DEF FlowInv
  <2>. QED BY <1>2, <1>7, <1>8, <2>1, FlowsKept
<1>11. stack # <<>> => (live <=> Open(L2, content, ins))
  BY <1>9 DEF FlowInv, Pointed, Open
<1>12. /\ fr.kind # "case" /\ Into(fr, yes) = live /\ Suits(stack, fr, yes)
       /\ Claim(fr, stack # <<>>, FALSE, L2, content, yes)
  BY <1>4, <1>11 DEF Into, Suits, Claim
<1>13. stack \in Seq(FramesOf(x))
  BY <1>2, <1>3, FramesWider, WiderSeq
<1>14. Pointed(stack', yes, x, L2, content')
  BY <1>1, <1>6, <1>9 DEF Pointed, Open
<1> HIDE DEF yes
<1>15. Flows(stack, FALSE, L2, content, Into(fr, yes))
  BY <1>10, <1>12
<1>16. Flows(stack', FALSE, L2, content, yes)
  BY <1>1, <1>3, <1>4, <1>12, <1>13, <1>15, FlowsPut
<1>. QED BY <1>1, <1>5, <1>14, <1>16, FlowStepped

LEMMA InvokeableFlows ==
  ASSUME BlocksInv, FlowInv, NEW proc \in BOOLEAN, visitInvokeable(proc) PROVE FlowInv'
<1>1. EnterBody(proc, FALSE) /\ (stack # <<>> => Top.kind \in Statements)
  BY AtStatementFacts DEF visitInvokeable
<1>2. stack # <<>> => ~ SettledAt(stack)
  BY <1>1 DEF SettledAt, TopOf, Top, Statements
<1>. QED BY <1>1, <1>2, EnterFlows

LEMMA LambdaFlows ==
  ASSUME BlocksInv, FlowInv, TvisitLambdaConstExpr PROVE FlowInv'
<1>1. /\ EnterBody(FALSE, TRUE) /\ stack # <<>> /\ ~ Ended(Top)
      /\ Top.kind \in Statements \union {"select", "logic"}
  BY AtExpressionFacts DEF TvisitLambdaConstExpr
<1>2. stack # <<>> => ~ SettledAt(stack)
  BY <1>1 DEF SettledAt, TopOf, Top, Statements, Ended
<1>. QED BY <1>1, <1>2, EnterFlows

\* What the function that is left says of what it is in.
LEMMA LeftFlows ==
  ASSUME BlocksInv, FlowInv, stack # <<>>, Top.kind = "fn"
  PROVE  /\ Flows(Below, FALSE, Now, content, Top.was) /\ Placed(Below, fnOf, made)
         /\ Below # <<>> => (Top.was <=> Open(Now, content, Top.saved))
         /\ Top.saved \in 0..made /\ Top.saved # ins /\ StandsOn(Below, Top)
         /\ Saved(Below) \subseteq Saved(stack)
<1>1. Placed(Below, fnOf, made) /\ StandsOn(Below, Top) /\ Top.saved \in 0..made /\ Top.saved # ins
  BY LeftFacts
<1>2. Into(Top, live) = Top.was /\ Top.kind # "case"
  BY DEF Into
<1>3. Flows(Below, FALSE, Now, content, Top.was)
  BY <1>2, FlowsUnder
<1>4. Claim(Top, Below # <<>>, FALSE, Now, content, live)
  BY FlowsHere
<1>5. Below # <<>> => (Top.was <=> Open(Now, content, Top.saved))
  BY <1>4 DEF Claim
<1>6. Saved(Below) \subseteq Saved(stack)
  <2>1. made \in Nat /\ Placed(stack, fnOf, made) /\ Top = TopOf(stack) /\ Below = Under(stack)
    BY HereFacts DEF BlocksInv
  <2>2. \A c : c \in Saved(Under(stack)) => c \in Saved(stack)
    BY <2>1, PopSaved
  <2>. QED BY <2>1, <2>2
<1>. QED BY <1>1, <1>3, <1>5, <1>6

LEMMA EndLambdaFlows ==
  ASSUME BlocksInv, FlowInv, endLambda PROVE FlowInv'
<1>1. /\ stack # <<>> /\ Top.kind = "fn" /\ stack' = Below /\ fnOf' = fnOf /\ content' = content
      /\ ins' = Top.saved /\ live' = Top.was
  BY DEF endLambda
<1>2. Flows(Below, FALSE, Now, content, Top.was) /\ (Below # <<>> => (Top.was <=> Open(Now, content, Top.saved)))
  BY <1>1, LeftFlows
<1>3. Lit(fnOf', content') = Now
  BY <1>1 DEF Now
<1>4. Pointed(stack', Top.was, Top.saved, Now, content)
  BY <1>1, <1>2 DEF Pointed
<1>. QED BY <1>1, <1>2, <1>3, <1>4, FlowStepped

LEMMA EndInvokeableFlows ==
  ASSUME BlocksInv, FlowInv, endInvokeable PROVE FlowInv'
<1> DEFINE was == Top.was
           back == Top.saved
<1>1. /\ stack # <<>> /\ Top.kind = "fn" /\ ~ Top.lambda
      /\ content' = IF Top.last = "return" THEN content ELSE Insert(ins, Ret)
      /\ ins' = back /\ live' = was /\ stack' = After("statement", Below)
      /\ fnOf' = fnOf
  BY DEF endInvokeable
<1>2. /\ Flows(Below, FALSE, Now, content, was) /\ Placed(Below, fnOf, made)
      /\ Below # <<>> => (was <=> Open(Now, content, back))
      /\ back \in 0..made /\ back # ins /\ StandsOn(Below, Top)
      /\ Saved(Below) \subseteq Saved(stack)
  BY <1>1, LeftFlows
<1>3. made \in Nat /\ made <= MaxBlocks /\ MaxBlocks \in Nat /\ made <= made /\ "statement" \in Lasts
  BY <1>1, HereFacts, Bounds DEF BlocksInv, Lasts
<1> HIDE DEF was, back
<1>4. /\ Lit(fnOf, content') = Now /\ Flows(Below, FALSE, Now, content', was)
      /\ \A c \in Blocks : c # ins => content'[c] = content[c]
  <2>1. CASE Top.last = "return"
    <3>1. content' = content
      BY <1>1, <2>1
    <3>. QED BY <1>2, <3>1 DEF Now
  <2>2. CASE Top.last # "return"
    <3> DEFINE e == Ret
               A == IF Open(Now, content, ins) THEN e.to ELSE {}
    <3>1. e \in InstrOf(made) /\ e # Code /\ e.to = {}
      BY <1>3, InstrHere
    <3>2. A = {} /\ NotYet(A, Below)
      BY <3>1 DEF NotYet
    <3>3. content' = Insert(ins, e) /\ A = IF Open(Now, content, ins) THEN e.to ELSE {}
      BY <1>1, <2>2
    <3> HIDE DEF e, A
    <3>4. Lit(fnOf, content') = Now \union A /\ Flows(Below, FALSE, Now \union A, content', was)
      BY <1>1, <1>2, <1>3, <3>1, <3>2, <3>3, FlowsTerminated
    <3>5. \A c \in Blocks : c # ins => content'[c] = content[c]
      BY <1>1, <1>3, <3>1, <3>3, InsertsHere
    <3>6. Now \union A = Now
      BY <3>2
    <3>. QED BY <3>4, <3>5, <3>6
  <2>. QED BY <2>1, <2>2
<1>5. CASE Below = <<>>
  <2>1. stack' = Below
    BY <1>1, <1>5 DEF After
  <2>2. Pointed(stack', was, back, Now, content')
    BY <1>5, <2>1 DEF Pointed
  <2>. QED BY <1>1, <1>4, <2>1, <2>2, FlowStepped
<1>6. CASE Below # <<>>
  <2>1. TopOf(Below).kind \in Statements
    BY <1>1, <1>2, <1>6 DEF StandsOn, Fits, IsExpression, TopOf
  <2>2. Flows(stack', FALSE, Now, content', was)
    BY <1>1, <1>2, <1>3, <1>4, <1>6, <2>1, FlowsTold
  <2>3. back \in Blocks
    <3>1. Inserting(Below, fnOf, Top.saved)
      BY <1>1, LeftFacts
    <3>. QED BY <1>2, <1>3, <1>6, <3>1 DEF Inserting, NoBlock, Blocks, back
  <2>4. Pointed(stack', was, back, Now, content')
    BY <1>2, <1>4, <1>6, <2>3 DEF Pointed, Open
  <2>. QED BY <1>1, <1>4, <2>2, <2>4, FlowStepped
<1>. QED BY <1>5, <1>6

\* What a logical expression says of what it is in.
LEMMA LogicHere ==
  ASSUME BlocksInv, FlowInv, stack # <<>>, Top.kind = "logic"
  PROVE  /\ Below # <<>> /\ Placed(Below, fnOf, made) /\ Saved(Below) \subseteq Saved(stack)
         /\ Flows(Below, FALSE, Now, content, live) /\ (live <=> Open(Now, content, ins))
         /\ Top.merge \in Now => live
         /\ Top.merge \in Brings(Below, Top) /\ Top \in FramesOf(made)
         /\ made \in Nat /\ made <= MaxBlocks /\ MaxBlocks \in Nat /\ ins \in 1..made
<1>1. /\ Below # <<>> /\ Placed(Below, fnOf, made) /\ Saved(Below) = Saved(stack)
      /\ Top.merge \in Brings(Below, Top) /\ Top \in FramesOf(made)
  BY BelowFacts DEF AwaitsOf
<1>2. made \in Nat /\ made <= MaxBlocks /\ MaxBlocks \in Nat /\ ins \in 1..made
  BY HereFacts, Bounds DEF BlocksInv
<1>3. Into(Top, live) = live /\ Top.kind # "case"
  BY DEF Into
<1>4. Flows(Below, FALSE, Now, content, live)
  BY <1>3, FlowsUnder
<1>5. Claim(Top, Below # <<>>, FALSE, Now, content, live)
  BY FlowsHere
<1>6. Top.merge \in Now => live
  BY <1>5 DEF Claim
<1>7. live <=> Open(Now, content, ins)
  BY UnsettledHere
<1>. QED BY <1>1, <1>2, <1>4, <1>6, <1>7

LEMMA NextOperandFlows ==
  ASSUME BlocksInv, FlowInv, nextOperand PROVE FlowInv'
<1> DEFINE y == [Top EXCEPT !.ready = FALSE]
           x == made + 1
           z == Top.merge
           v == Top.count
           e == CondBr(v, x, z)
           A == IF Open(Now, content, ins) THEN e.to ELSE {}
           L2 == Now \union A
<1>1. /\ stack # <<>> /\ Top.kind = "logic" /\ made < MaxBlocks /\ content' = Insert(ins, e)
      /\ stack' = Append(Below, y) /\ fnOf' = [fnOf EXCEPT ![x] = CurrentFn] /\ ins' = x /\ live' = live
  BY DEF nextOperand, Replace
<1>2. /\ Below # <<>> /\ Placed(Below, fnOf, made) /\ Saved(Below) \subseteq Saved(stack)
      /\ Flows(Below, FALSE, Now, content, live) /\ (live <=> Open(Now, content, ins))
      /\ z \in Now => live
      /\ z \in Brings(Below, Top) /\ Top \in FramesOf(made)
      /\ made \in Nat /\ made <= MaxBlocks /\ MaxBlocks \in Nat /\ ins \in 1..made
  BY <1>1, LogicHere
<1>3. z \in Blocks /\ fnOf[z] = NoBlock /\ ~ Awaited(Below, z) /\ z \in 1..made
  BY <1>1, <1>2, AwaitedHere
<1>4. /\ x \in Nat /\ x \in Blocks /\ x > made /\ made <= x /\ x <= MaxBlocks /\ x # ins /\ x # z
      /\ x \in 1..x /\ z \in 1..x
  BY <1>1, <1>2, <1>3 DEF Blocks
<1>5. v \in Nat /\ y \in FramesOf(made) /\ y.kind = "logic" /\ Twins(Top, y) /\ y.merge = z
  <2>1. Alike(Top, y)
    BY <1>1, <1>2, LogicFrame
  <2>2. v \in Nat /\ y \in FramesOf(made) /\ y.kind = "logic" /\ Twins(Top, y)
    BY <1>1, <1>2, LogicFrame, LogicTwins
  <2>. QED BY <1>1, <2>1, <2>2 DEF Alike
<1> HIDE DEF x, z, v, y
<1>6. e \in InstrOf(x) /\ e # Code /\ e.to = {x, z}
  BY <1>4, <1>5, CondBrHere
<1>7. x \notin Now /\ fnOf[x] = NoBlock /\ ~ Awaited(stack, x) /\ Terms(content[x]) = {}
  BY <1>4, FreshHere
<1>8. ~ Awaited(Below, x)
  <2>1. Placed(stack, fnOf, made) /\ Below = Under(stack)
    BY <1>1, HereFacts DEF BlocksInv
  <2>. QED BY <1>1, <1>2, <1>7, <2>1, PopAwaited
<1> HIDE DEF e
<1>9. A \subseteq {x, z} /\ (live => A = {x, z}) /\ (~ live => A = {})
  <2>1. (Open(Now, content, ins) => A = e.to) /\ (~ Open(Now, content, ins) => A = {})
    OBVIOUS
  <2> HIDE DEF A
  <2>. QED BY <1>2, <1>6, <2>1
<1>10. A = IF Open(Now, content, ins) THEN e.to ELSE {}
  OBVIOUS
<1> HIDE DEF A
<1>11. NotYet(A, Below)
  BY <1>3, <1>4, <1>7, <1>8, <1>9 DEF NotYet
<1>12. Roots(fnOf') = Roots(fnOf)
  BY <1>1, <1>4, <1>7, AttachRoots
<1>13. Lit(fnOf', content') = L2 /\ Flows(Below, FALSE, L2, content', live)
  <2> DEFINE ct == content'
             fn2 == fnOf'
             lv == live
  <2>1. ct = Insert(ins, e) /\ Roots(fn2) = Roots(fnOf) /\ Flows(Below, FALSE, Now, content, lv)
    BY <1>1, <1>2, <1>12
  <2> HIDE DEF ct, fn2, lv, L2
  <2>2. Lit(fn2, ct) = Now \union A /\ Flows(Below, FALSE, Now \union A, ct, lv)
    BY <1>1, <1>2, <1>4, <1>6, <1>10, <1>11, <2>1, FlowsTerminated
  <2>. QED BY <2>2 DEF ct, fn2, lv, L2
<1>14. (x \in L2 <=> live) /\ (z \in L2 => live)
  BY <1>2, <1>7, <1>9
<1>15. Terms(content'[x]) = {}
  <2>1. content'[x] = content[x]
    BY <1>1, <1>4, <1>6, InsertsHere
  <2>. QED BY <1>7, <2>1
<1> HIDE DEF L2
<1>16. /\ Into(y, live) = live /\ Suits(Below, y, live) /\ Claim(y, Below # <<>>, FALSE, L2, content', live)
       /\ y.kind # "case"
  BY <1>5, <1>14 DEF Into, Suits, Claim, Tells, Caps
<1>17. Flows(stack', FALSE, L2, content', live)
  <2> DEFINE ct == content'
             lv == live
  <2>1. Flows(Below, FALSE, L2, ct, Into(y, lv)) /\ Claim(y, Below # <<>>, FALSE, L2, ct, lv)
        /\ Suits(Below, y, lv)
    BY <1>13, <1>16
  <2>2. Below \in Seq(FramesOf(made))
    BY <1>2 DEF Placed
  <2> HIDE DEF ct, lv
  <2>3. Flows(stack', FALSE, L2, ct, lv)
    BY <1>1, <1>2, <1>5, <1>16, <2>1, <2>2, FlowsPut
  <2>. QED BY <2>3 DEF ct, lv
<1>18. Pointed(stack', live, x, L2, content')
  BY <1>14, <1>15 DEF Pointed, Open
<1>. QED BY <1>1, <1>13, <1>17, <1>18, FlowStepped

LEMMA EndLogicFlows ==
  ASSUME BlocksInv, FlowInv, endLogic PROVE FlowInv'
<1> DEFINE a == TopOf(Below)
           y == WithOperand(a)
           z == Top.merge
           e == [Br(z) EXCEPT !.on = Top.count]
           A == IF Open(Now, content, ins) THEN e.to ELSE {}
           L2 == Now \union A
<1>1. /\ stack # <<>> /\ Top.kind = "logic" /\ content' = Insert(ins, e)
      /\ fnOf' = [fnOf EXCEPT ![z] = CurrentFn] /\ ins' = z /\ live' = live
  BY DEF endLogic
<1>2. /\ Below # <<>> /\ Placed(Below, fnOf, made) /\ Saved(Below) \subseteq Saved(stack)
      /\ Flows(Below, FALSE, Now, content, live) /\ (live <=> Open(Now, content, ins))
      /\ z \in Now => live
      /\ z \in Brings(Below, Top) /\ Top \in FramesOf(made)
      /\ made \in Nat /\ made <= MaxBlocks
  BY <1>1, LogicHere
<1>3. /\ z \in Blocks /\ fnOf[z] = NoBlock /\ ~ Awaited(Below, z) /\ z \in 1..made /\ z # ins
      /\ Terms(content[z]) = {} /\ Roots(fnOf') = Roots(fnOf)
  BY <1>1, <1>2, AwaitedHere
<1>4. e \in InstrOf(made) /\ e # Code /\ e.to = {z}
  <2>1. Top.count \in Nat
    BY <1>1, <1>2, LogicFrame
  <2>. QED BY <1>2, <1>3, <2>1 DEF InstrOf, Br, Code
<1>5. \/ stack' = Below
      \/ a.kind = "logic" /\ stack' = Append(Under(Below), y)
  BY AfterLogic
<1> HIDE DEF z, y, a
<1> HIDE DEF e
<1>6. (live => A = {z}) /\ (~ live => A = {})
  <2>1. (Open(Now, content, ins) => A = e.to) /\ (~ Open(Now, content, ins) => A = {})
    OBVIOUS
  <2> HIDE DEF A
  <2>. QED BY <1>2, <1>4, <2>1
<1>7. A = IF Open(Now, content, ins) THEN e.to ELSE {}
  OBVIOUS
<1> HIDE DEF A
<1>8. NotYet(A, Below)
  BY <1>3, <1>6 DEF NotYet
<1>9. Lit(fnOf', content') = L2 /\ Flows(Below, FALSE, L2, content', live)
  <2> DEFINE ct == content'
             fn2 == fnOf'
             lv == live
  <2>1. /\ stack # <<>> /\ ct = Insert(ins, e) /\ Roots(fn2) = Roots(fnOf)
        /\ Flows(Below, FALSE, Now, content, lv) /\ Placed(Below, fnOf, made)
        /\ Saved(Below) \subseteq Saved(stack)
    BY <1>1, <1>2, <1>3
  <2> HIDE DEF ct, fn2, lv, L2
  <2>3. made \in Nat /\ made <= MaxBlocks /\ e \in InstrOf(made) /\ e # Code
    BY <1>2, <1>4
  <2>4. made <= made
    BY <1>2
  <2>2. Lit(fn2, ct) = Now \union A /\ Flows(Below, FALSE, Now \union A, ct, lv)
    BY <1>7, <1>8, <2>1, <2>3, <2>4, FlowsTerminated
  <2>. QED BY <2>2 DEF ct, fn2, lv, L2
<1>10. z \in L2 <=> live
  BY <1>2, <1>6
<1>11. Terms(content'[z]) = {}
  <2>1. content'[z] = content[z]
    <3>1. made <= made
      BY <1>2
    <3>. QED BY <1>1, <1>2, <1>3, <1>4, <3>1, InsertsHere
  <2>. QED BY <1>3, <2>1
<1> HIDE DEF L2
<1>12. Flows(stack', FALSE, L2, content', live)
  <2>1. CASE stack' = Below
    BY <1>9, <2>1
  <2>2. CASE a.kind = "logic" /\ stack' = Append(Under(Below), y)
    <3> DEFINE w == FALSE
               lv == live
               ct == content'
               b == Under(Below)
    <3>1. b \in Seq(FramesOf(made)) /\ a \in FramesOf(made) /\ Below = Append(b, a)
      BY <1>2, PlacedPop DEF a
    <3>2. y \in FramesOf(made) /\ Twins(a, y)
      BY <1>2, <2>2, <3>1, LogicFrame, LogicTwins DEF y
    <3>3. Flows(Append(b, a), w, L2, ct, lv)
      BY <1>9, <3>1
    <3> HIDE DEF w, lv, ct, b
    <3>4. Flows(Append(b, a), w, L2, ct, lv) <=> Flows(Append(b, y), w, L2, ct, lv)
      BY <1>2, <3>1, <3>2, FlowsTwin
    <3>5. Flows(Append(b, y), w, L2, ct, lv)
      BY <3>3, <3>4
    <3>. QED BY <2>2, <3>5 DEF w, lv, ct, b
  <2>. QED BY <1>5, <2>1, <2>2
<1>13. Pointed(stack', live, z, L2, content')
  BY <1>10, <1>11 DEF Pointed, Open
<1>. QED BY <1>1, <1>9, <1>12, <1>13, FlowStepped

-----------------------------------------------------------------------------
(* Alternatives.                                                              *)

\* What a select or a match says of what it is in.
LEMMA AlternativesHere ==
  ASSUME BlocksInv, FlowInv, stack # <<>>, Top.kind \in {"select", "match"}
  PROVE  /\ Below # <<>> /\ Placed(Below, fnOf, made) /\ TopOf(Below).kind \in Statements
         /\ Saved(Below) \subseteq Saved(stack)
         /\ Flows(Below, FALSE, Now, content, live) /\ (Top.was => Rests(Below))
         /\ live <=> Top.was
         /\ Claim(Top, TRUE, FALSE, Now, content, live)
         /\ Top.merge \in Brings(Below, Top) /\ Top \in FramesOf(made)
         /\ made \in Nat /\ made <= MaxBlocks /\ MaxBlocks \in Nat /\ ins \in 1..made
         /\ "statement" \in Lasts
<1>1. /\ Below # <<>> /\ Placed(Below, fnOf, made) /\ Saved(Below) = Saved(stack)
      /\ Top.merge \in Brings(Below, Top) /\ Top \in FramesOf(made)
      /\ TopOf(Below).kind \in Statements
  BY BelowFacts DEF AwaitsOf, Fits, IsExpression
<1>2. made \in Nat /\ made <= MaxBlocks /\ MaxBlocks \in Nat /\ ins \in 1..made
  BY HereFacts, Bounds DEF BlocksInv
<1>3. Into(Top, live) = live /\ Top.kind # "case" /\ Top.kind # "fn"
  BY DEF Into
<1>4. Flows(Below, FALSE, Now, content, live)
  BY <1>3, FlowsUnder
<1>5. Suits(Below, Top, live) /\ Claim(Top, Below # <<>>, FALSE, Now, content, live)
  BY FlowsHere
<1>6. Claim(Top, TRUE, FALSE, Now, content, live)
  BY <1>1, <1>5 DEF Claim
<1>7. Top.was => Rests(Below)
  BY <1>3, <1>5 DEF Suits, Tells, Caps
<1>8. live <=> Top.was
  BY <1>6 DEF Claim
<1>. QED BY <1>1, <1>2, <1>4, <1>6, <1>7, <1>8 DEF Lasts

LEMMA EndAlternativesFlows ==
  ASSUME BlocksInv, FlowInv, endAlternatives PROVE FlowInv'
<1> DEFINE z == Top.merge
<1>1. /\ stack # <<>> /\ Top.kind \in {"select", "match"} /\ (Top.kind = "select" => ~ Top.more)
      /\ fnOf' = [fnOf EXCEPT ![z] = CurrentFn] /\ ins' = z
      /\ stack' = After("statement", Below) /\ content' = content /\ live' = live
  BY DEF endAlternatives
<1>2. /\ Below # <<>> /\ Placed(Below, fnOf, made) /\ TopOf(Below).kind \in Statements
      /\ Flows(Below, FALSE, Now, content, live)
      /\ live <=> Top.was
      /\ Claim(Top, TRUE, FALSE, Now, content, live)
      /\ z \in Brings(Below, Top) /\ Top \in FramesOf(made)
      /\ made \in Nat /\ "statement" \in Lasts
  BY <1>1, AlternativesHere
<1>3. live <=> z \in Now
  BY <1>1, <1>2 DEF Claim
<1>4. Terms(content[z]) = {} /\ Roots(fnOf') = Roots(fnOf)
  <2>1. Top.kind # "fn"
    BY <1>1
  <2>. QED BY <1>1, <1>2, <2>1, AwaitedHere
<1> HIDE DEF z
<1>5. Lit(fnOf', content') = Now
  BY <1>1, <1>4, LitSame DEF Now
<1>6. Flows(stack', FALSE, Now, content, live)
  BY <1>1, <1>2, FlowsTold
<1>7. Pointed(stack', live, z, Now, content)
  BY <1>3, <1>4 DEF Pointed, Open
<1>. QED BY <1>1, <1>5, <1>6, <1>7, FlowStepped

LEMMA SelectCaseFlows ==
  ASSUME BlocksInv, FlowInv, NEW isLast \in BOOLEAN, selectCase(isLast) PROVE FlowInv'
<1> DEFINE x == made + 1
           m2 == IF isLast THEN x ELSE made + 2
           z == IF isLast THEN Top.merge ELSE made + 2
           more == ~ isLast
           y == WithElse(Top, z, more)
           e == CondBr(0, x, z)
           A == IF Open(Now, content, ins) THEN e.to ELSE {}
           L2 == Now \union A
           was == Top.was
<1>1. /\ stack # <<>> /\ Top.kind = "select" /\ m2 <= MaxBlocks
      /\ fnOf' = [fnOf EXCEPT ![x] = CurrentFn] /\ content' = Insert(ins, e) /\ ins' = x
      /\ stack' = Append(Append(Below, y), CaseFrame) /\ live' = was
      /\ Top.more
  BY DEF selectCase, Replace, CaseFrame, WithElse
<1>2. /\ Below # <<>> /\ Placed(Below, fnOf, made) /\ Saved(Below) \subseteq Saved(stack)
      /\ Flows(Below, FALSE, Now, content, live) /\ (was => Rests(Below))
      /\ live <=> was
      /\ Claim(Top, TRUE, FALSE, Now, content, live)
      /\ Top.merge \in Brings(Below, Top) /\ Top \in FramesOf(made)
      /\ made \in Nat /\ made <= MaxBlocks /\ MaxBlocks \in Nat /\ ins \in 1..made
  BY <1>1, AlternativesHere
<1>3. /\ Top.merge \in Blocks /\ fnOf[Top.merge] = NoBlock /\ ~ Awaited(Below, Top.merge)
      /\ Top.merge \in 1..made
  BY <1>1, <1>2, AwaitedHere
<1>4. /\ m2 \in Nat /\ made <= m2 /\ x \in 1..m2 /\ z \in 1..m2 /\ x # ins /\ x # z /\ m2 <= MaxBlocks
      /\ x \in Blocks /\ x > made /\ (isLast => z = Top.merge)
      /\ (~ isLast => z \in Blocks /\ z > made)
  BY <1>1, <1>2, <1>3 DEF Blocks
<1>5. (live <=> Open(Now, content, ins)) /\ live \in BOOLEAN
  BY <1>1, UnsettledHere, TypesHere
<1>6. /\ y \in FramesOf(m2) /\ y.kind = "select" /\ y.merge = Top.merge
      /\ y.else = z /\ y.more = more /\ (y.was = was)
  <2>1. more \in BOOLEAN
    OBVIOUS
  <2> HIDE DEF more, m2, z
  <2>2. /\ y \in FramesOf(m2) /\ y.kind = "select" /\ y.merge = Top.merge
        /\ y.else = z /\ y.more = more
    BY <1>1, <1>2, <1>4, <2>1, SelectFrame
  <2>3. y.was = was
    BY <1>1, <1>2 DEF FramesOf, WithElse
  <2>. QED BY <2>2, <2>3
<1>7. more <=> ~ isLast
  OBVIOUS
<1> HIDE DEF x, m2, z, y, more
<1>8. e \in InstrOf(m2) /\ e # Code /\ e.to = {x, z}
  <2>1. 0 \in Nat
    OBVIOUS
  <2>. QED BY <1>4, <2>1, CondBrHere
<1>9. x \notin Now /\ fnOf[x] = NoBlock /\ ~ Awaited(stack, x) /\ Terms(content[x]) = {}
  BY <1>4, FreshHere
<1>10. Placed(stack, fnOf, made) /\ Below = Under(stack)
  BY <1>1, HereFacts DEF BlocksInv
<1>11. ~ Awaited(Below, x)
  BY <1>1, <1>2, <1>9, <1>10, PopAwaited
<1>12. z \in Blocks /\ fnOf[z] = NoBlock /\ ~ Awaited(Below, z) /\ (~ isLast => z \notin Now)
  <2>1. CASE isLast
    BY <1>3, <1>4, <2>1
  <2>2. CASE ~ isLast
    <3>1. z \in Blocks /\ z > made
      BY <1>4, <2>2
    <3>2. z \notin Now /\ fnOf[z] = NoBlock /\ ~ Awaited(stack, z)
      BY <3>1, FreshHere
    <3>. QED BY <1>1, <1>2, <1>10, <3>1, <3>2, PopAwaited
  <2>. QED BY <2>1, <2>2
<1> HIDE DEF e
<1>13. (live => A = {x, z}) /\ (~ live => A = {})
  <2>1. (Open(Now, content, ins) => A = e.to) /\ (~ Open(Now, content, ins) => A = {})
    OBVIOUS
  <2> HIDE DEF A
  <2>. QED BY <1>5, <1>8, <2>1
<1>14. A = IF Open(Now, content, ins) THEN e.to ELSE {}
  OBVIOUS
<1> HIDE DEF A
<1>15. NotYet(A, Below)
  BY <1>4, <1>9, <1>11, <1>12, <1>13 DEF NotYet
<1>16. Roots(fnOf') = Roots(fnOf)
  BY <1>1, <1>4, <1>9, AttachRoots
<1>17. Lit(fnOf', content') = L2 /\ Flows(Below, FALSE, L2, content', live)
  <2> DEFINE ct == content'
             fn2 == fnOf'
             lv == live
  <2>1. ct = Insert(ins, e) /\ Roots(fn2) = Roots(fnOf) /\ Flows(Below, FALSE, Now, content, lv)
    BY <1>1, <1>2, <1>16
  <2> HIDE DEF ct, fn2, lv, L2
  <2>2. Lit(fn2, ct) = Now \union A /\ Flows(Below, FALSE, Now \union A, ct, lv)
    BY <1>1, <1>2, <1>4, <1>8, <1>14, <1>15, <2>1, FlowsTerminated
  <2>. QED BY <2>2 DEF ct, fn2, lv, L2
<1>18. /\ x \in L2 <=> live
       /\ Top.merge \in L2 => live
       /\ isLast /\ live => Top.merge \in L2
       /\ ~ isLast => (z \in L2 <=> live)
  <2>1. Top.merge \in Now => live
    BY <1>1, <1>2 DEF Claim
  <2>2. Top.merge # x /\ (~ isLast => Top.merge # z)
    BY <1>2, <1>3, <1>4
  <2>. QED BY <1>4, <1>9, <1>12, <1>13, <2>1, <2>2
<1>19. Terms(content'[x]) = {}
  <2>1. content'[x] = content[x]
    BY <1>1, <1>2, <1>4, <1>8, InsertsHere
  <2>. QED BY <1>9, <2>1
<1> HIDE DEF L2
<1>20. was \in BOOLEAN
  BY <1>1, <1>2, FrameFacts
<1> HIDE DEF was
<1>21. was = live
  BY <1>2, <1>5, <1>20
<1>22. Suits(Below, y, live) /\ Claim(y, Below # <<>>, TRUE, L2, content', live)
  BY <1>2, <1>6, <1>7, <1>18 DEF Suits, Claim, Tells, Caps
<1>23. Flows(stack', FALSE, L2, content', live)
  <2> DEFINE ct == content'
             lv == live
  <2>1. Flows(Below, FALSE, L2, ct, lv) /\ Claim(y, Below # <<>>, TRUE, L2, ct, lv)
        /\ Suits(Below, y, lv)
    BY <1>17, <1>22
  <2>2. Below \in Seq(FramesOf(m2))
    <3>1. Below \in Seq(FramesOf(made))
      BY <1>2 DEF Placed
    <3>. QED BY <1>2, <1>4, <3>1, FramesWider, WiderSeq
  <2> HIDE DEF ct, lv
  <2>3. Flows(stack', FALSE, L2, ct, lv)
    BY <1>1, <1>4, <1>6, <2>1, <2>2, FlowsPutCase
  <2>. QED BY <2>3 DEF ct, lv
<1>24. Pointed(stack', live, x, L2, content')
  BY <1>18, <1>19 DEF Pointed, Open
<1>. QED BY <1>1, <1>17, <1>21, <1>23, <1>24, FlowStepped

LEMMA MatchFlows ==
  ASSUME BlocksInv, FlowInv, match PROVE FlowInv'
<1> DEFINE x == made + 1
           fr == [kind |-> "match", merge |-> x, switch |-> ins, cases |-> 0, was |-> live]
           e == [op |-> "switch", to |-> {x}, on |-> 0]
           A == IF Open(Now, content, ins) THEN e.to ELSE {}
           L2 == Now \union A
<1>1. /\ AtStatement /\ made + 2 <= MaxBlocks /\ stack' = Append(stack, fr)
      /\ content' = Insert(ins, e) /\ fnOf' = fnOf /\ ins' = ins /\ live' = live
  BY DEF match, Opens
<1>2. stack # <<>> /\ Top.kind \in Statements
  BY <1>1, AtStatementFacts
<1>3. /\ made \in Nat /\ MaxBlocks \in Nat /\ Placed(stack, fnOf, made)
      /\ stack \in Seq(FramesOf(made)) /\ ins \in 1..made /\ ins \in Blocks /\ live \in BOOLEAN
      /\ made <= MaxBlocks /\ CodeTyped(content, made)
  BY <1>2, HereFacts, TypesHere, Bounds DEF BlocksInv
<1>4. /\ x \in Nat /\ made <= x /\ x <= MaxBlocks /\ x \in Blocks /\ x > made /\ x # ins
      /\ x \in 1..x /\ ins \in 1..x
  BY <1>1, <1>3 DEF Blocks
<1>5. (live <=> Open(Now, content, ins)) /\ Flows(stack, FALSE, Now, content, live) /\ (live => Rests(stack))
  BY <1>2, UnsettledHere, FlowsHere
<1> HIDE DEF x
<1>6. e \in InstrOf(x) /\ e # Code /\ e.to = {x} /\ e.op = "switch"
  BY <1>4 DEF InstrOf, Code
<1>7. /\ fr \in FramesOf(x) /\ fr.kind = "match" /\ fr.merge = x /\ fr.switch = ins
      /\ fr.was = live
  BY <1>3, <1>4 DEF FramesOf
<1> HIDE DEF fr
<1>8. x \notin Now /\ fnOf[x] = NoBlock /\ ~ Awaited(stack, x)
  BY <1>4, FreshHere
<1> HIDE DEF e
<1>9. (live => A = {x}) /\ (~ live => A = {})
  <2>1. (Open(Now, content, ins) => A = e.to) /\ (~ Open(Now, content, ins) => A = {})
    OBVIOUS
  <2> HIDE DEF A
  <2>. QED BY <1>5, <1>6, <2>1
<1>10. A = IF Open(Now, content, ins) THEN e.to ELSE {}
  OBVIOUS
<1> HIDE DEF A
<1>11. NotYet(A, stack)
  BY <1>4, <1>8, <1>9 DEF NotYet
<1>12. Lit(fnOf', content') = L2 /\ Flows(stack, FALSE, L2, content', live)
  <2> DEFINE ct == content'
             fn2 == fnOf'
             lv == live
  <2>1. /\ ct = Insert(ins, e) /\ Roots(fn2) = Roots(fnOf) /\ Flows(stack, FALSE, Now, content, lv)
        /\ Saved(stack) \subseteq Saved(stack)
    BY <1>1, <1>5
  <2> HIDE DEF ct, fn2, lv, L2
  <2>2. Lit(fn2, ct) = Now \union A /\ Flows(stack, FALSE, Now \union A, ct, lv)
    BY <1>2, <1>3, <1>4, <1>6, <1>10, <1>11, <2>1, FlowsTerminated
  <2>. QED BY <2>2 DEF ct, fn2, lv, L2
<1>13. (x \in L2 <=> live) /\ (live => ins \in L2)
  BY <1>5, <1>8, <1>9 DEF Open
<1>14. live => Switches(content'[ins], x)
  <2>1. content \in [Blocks -> Seq(InstrOf(x))]
    BY <1>3, <1>4, CodeWider DEF CodeTyped
  <2>2. content'[ins] = Append(content[ins], e)
    BY <1>1, <1>3, <1>6, <2>1, InsertOther
  <2>3. content[ins] \in Seq(InstrOf(x))
    BY <1>3, <2>1
  <2>4. live => Terms(content[ins]) = {}
    BY <1>5 DEF Open
  <2>. QED BY <1>6, <2>2, <2>3, <2>4, AppendFirsts
<1> HIDE DEF L2
<1>15. /\ Suits(stack, fr, live) /\ Claim(fr, stack # <<>>, FALSE, L2, content', live)
       /\ Into(fr, live) = live /\ fr.kind # "case"
  BY <1>2, <1>5, <1>7, <1>13, <1>14 DEF Suits, Claim, Tells, Caps, Into
<1>16. Flows(stack', FALSE, L2, content', live)
  <2> DEFINE ct == content'
             lv == live
  <2>1. Flows(stack, FALSE, L2, ct, Into(fr, lv)) /\ Claim(fr, stack # <<>>, FALSE, L2, ct, lv)
        /\ Suits(stack, fr, lv)
    BY <1>12, <1>15
  <2>2. stack \in Seq(FramesOf(x))
    BY <1>3, <1>4, FramesWider, WiderSeq
  <2> HIDE DEF ct, lv
  <2>3. Flows(stack', FALSE, L2, ct, lv)
    BY <1>1, <1>4, <1>7, <1>15, <2>1, <2>2, FlowsPut
  <2>. QED BY <2>3 DEF ct, lv
<1>17. SettledAt(stack')
  <2>1. TopOf(stack') = fr
    BY <1>1, <1>3, AppendFacts DEF TopOf
  <2>. QED BY <1>7, <2>1 DEF SettledAt
<1>18. Pointed(stack', live, ins, L2, content')
  BY <1>17 DEF Pointed
<1>. QED BY <1>1, <1>12, <1>16, <1>18, FlowStepped

\* A case is added: the switch goes to its block too, if nothing ended the block of the
\* switch before it.
LEMMA AddCaseHops ==
  ASSUME NEW m \in Nat, NEW code \in Seq(InstrOf(m)), NEW merge, NEW x \in 1..m,
         NEW new, new = AddCase(code, merge, x)
  PROVE  /\ Hops(new) = Hops(code) \union (IF Switches(code, merge) THEN {x} ELSE {})
         /\ Firsts(new) = Firsts(code)
         /\ \A k \in Firsts(code) : new[k].op = code[k].op /\ code[k].to \subseteq new[k].to
         /\ Switches(code, merge) => merge \in Hops(code)
<1>1. Terms(new) = Terms(code)
  BY AddCaseFacts
<1>2. Firsts(new) = Firsts(code)
  BY <1>1 DEF Firsts
<1>3. ASSUME NEW k \in Firsts(code)
      PROVE  /\ new[k].op = code[k].op
             /\ code[k].op = "switch" /\ merge \in code[k].to => new[k].to = code[k].to \union {x}
             /\ ~ (code[k].op = "switch" /\ merge \in code[k].to) => new[k].to = code[k].to
  <2>1. k \in DOMAIN code /\ code[k] \in InstrOf(m)
    BY DEF Firsts, Terms
  <2>2. new[k] = IF code[k].op = "switch" /\ merge \in code[k].to
                   THEN [code[k] EXCEPT !.to = @ \union {x}] ELSE code[k]
    BY <2>1 DEF AddCase
  <2>. QED BY <2>1, <2>2 DEF InstrOf
<1>4. ASSUME NEW j \in Firsts(code), NEW k \in Firsts(code) PROVE j = k
  <2>1. DOMAIN code = 1..Len(code) /\ Len(code) \in Nat
    OBVIOUS
  <2>2. j \in 1..Len(code) /\ k \in 1..Len(code) /\ j <= k /\ k <= j
    BY <2>1 DEF Firsts, Terms
  <2>. QED BY <2>1, <2>2
<1>5. Switches(code, merge) => merge \in Hops(code)
  BY DEF Switches, Hops
<1>6. CASE Switches(code, merge)
  <2>1. PICK k \in Firsts(code) : code[k].op = "switch" /\ merge \in code[k].to
    BY <1>6 DEF Switches
  <2>2. Firsts(code) = {k}
    BY <1>4
  <2>3. Hops(code) = code[k].to /\ Hops(new) = new[k].to
    BY <1>2, <2>2 DEF Hops
  <2>. QED BY <1>2, <1>3, <1>5, <1>6, <2>1, <2>3
<1>7. CASE ~ Switches(code, merge)
  <2>1. \A k \in Firsts(code) : new[k].to = code[k].to /\ new[k].op = code[k].op
    BY <1>3, <1>7 DEF Switches
  <2>2. Hops(new) = Hops(code)
    BY <1>2, <2>1 DEF Hops
  <2>. QED BY <1>2, <1>5, <1>7, <2>1, <2>2
<1>. QED BY <1>6, <1>7

LEMMA MatchCaseFlows ==
  ASSUME BlocksInv, FlowInv, matchCase PROVE FlowInv'
<1> DEFINE x == made + 1
           w == Top.switch
           z == Top.merge
           was == Top.was
           new == AddCase(content[w], z, x)
           y == WithCase(Top)
           T == IF Switches(content[w], z) THEN {x} ELSE {}
           A == IF w \in Now THEN T ELSE {}
           L2 == Now \union A
           ct == content'
<1>1. /\ stack # <<>> /\ Top.kind = "match" /\ made < MaxBlocks
      /\ fnOf' = [fnOf EXCEPT ![x] = CurrentFn] /\ ins' = x /\ live' = was
      /\ ct = [content EXCEPT ![w] = new, ![x] = <<Code>>]
      /\ stack' = Append(Append(Below, y), CaseFrame)
  BY DEF matchCase, Replace, CaseFrame, WithCase
<1>2. /\ Below # <<>> /\ Placed(Below, fnOf, made) /\ Saved(Below) \subseteq Saved(stack)
      /\ Flows(Below, FALSE, Now, content, live) /\ (was => Rests(Below))
      /\ live <=> was
      /\ Claim(Top, TRUE, FALSE, Now, content, live)
      /\ z \in Brings(Below, Top) /\ Top \in FramesOf(made)
      /\ made \in Nat /\ made <= MaxBlocks /\ MaxBlocks \in Nat /\ ins \in 1..made
  BY <1>1, AlternativesHere
<1>3. /\ live \in BOOLEAN /\ was \in BOOLEAN /\ w \in 1..made /\ z \in 1..made
      /\ CodeTyped(content, made)
  BY <1>1, <1>2, FrameFacts, TypesHere
<1>4. /\ x \in Nat /\ made <= x /\ x \in 1..x /\ x # w /\ x # z /\ x > made /\ x <= MaxBlocks
      /\ x \in Blocks /\ w \in Blocks /\ z \in 1..x
  BY <1>1, <1>2, <1>3 DEF Blocks
<1>5. /\ y \in FramesOf(made) /\ y.kind = "match" /\ y.merge = z /\ y.switch = w /\ (y.was = was)
  BY <1>1, <1>2, MatchFrame DEF Alike, WithCase, FramesOf
<1>6. content \in [Blocks -> Seq(InstrOf(x))] /\ GoInside(content)
  BY <1>2, <1>3, <1>4, CodeWider, TypedInside DEF CodeTyped
<1> HIDE DEF x, w, z, y, was
<1>7. x \notin Now /\ fnOf[x] = NoBlock /\ ~ Awaited(stack, x) /\ Terms(content[x]) = {}
  BY <1>4, FreshHere
<1>8. ~ Awaited(Below, x)
  <2>1. Placed(stack, fnOf, made) /\ Below = Under(stack)
    BY <1>1, HereFacts DEF BlocksInv
  <2>. QED BY <1>1, <1>2, <1>7, <2>1, PopAwaited
<1>9. /\ Hops(new) = Hops(content[w]) \union T
      /\ \A k \in Firsts(content[w]) :
           k \in Firsts(new) /\ new[k].op = content[w][k].op /\ content[w][k].to \subseteq new[k].to
      /\ Switches(content[w], z) => z \in Hops(content[w])
      /\ Terms(new) = Terms(content[w])
  <2>1. content[w] \in Seq(InstrOf(x))
    BY <1>4, <1>6
  <2>. QED BY <1>4, <2>1, AddCaseHops, AddCaseFacts
<1>10. Terms(<<Code>>) = {}
  <2>1. DOMAIN <<Code>> = {1} /\ <<Code>>[1] = Code
    OBVIOUS
  <2>. QED BY <2>1 DEF Terms
<1> HIDE DEF new
<1>11. /\ ct[w] = new /\ ct[x] = <<Code>>
       /\ \A b \in Blocks : b # w /\ b # x => ct[b] = content[b]
  BY <1>1, <1>4, <1>6
<1>12. GoInside(ct)
  <2>1. BlocksInv' /\ made' = x
    BY MatchCaseStep DEF matchCase, x
  <2>2. ct \in [Blocks -> Seq(InstrOf(x))] /\ \A b \in Blocks : b > x => ct[b] = <<>>
    BY <2>1 DEF BlocksInv, TypeOK, Instructions, InstrOf
  <2>. QED BY <1>4, <2>2, TypedInside DEF CodeTyped
<1> HIDE DEF ct
<1>13. (live => w \in Now /\ Switches(content[w], z)) /\ (z \in Now => live)
  BY <1>1, <1>2 DEF Claim, w, z, was
<1>14. w \in Now /\ Switches(content[w], z) => live
  <2>1. Shut(Now, content)
    BY NowMade
  <2>. QED BY <1>9, <1>13, <2>1 DEF Shut
<1>15. (live => A = {x}) /\ (~ live => A = {})
  BY <1>13, <1>14
<1>16. T \in SUBSET Blocks /\ TakenFrom(A, T, Now, w)
  BY <1>4 DEF TakenFrom
<1> HIDE DEF T, A
<1>17. HopsOn(content, ct, w, T) /\ Hops(ct[x]) = {}
  <2>1. Hops(ct[x]) = {} /\ Hops(content[x]) = {}
    BY <1>7, <1>10, <1>11, HopsTargets
  <2>. QED BY <1>9, <1>11, <2>1 DEF HopsOn
<1>18. Roots(fnOf') = Roots(fnOf)
  BY <1>1, <1>4, <1>7, AttachRoots
<1>19. Lit(fnOf', ct) = L2
  <2> DEFINE N == {}
             fn2 == fnOf'
  <2>1. NewRoots(fnOf, fn2, N) /\ N \in SUBSET Blocks
    BY <1>18 DEF NewRoots
  <2>2. NoFurther(ct, Now, A) /\ NoFurther(ct, Now, N)
    BY <1>15, <1>17 DEF NoFurther
  <2>3. N = {}
    OBVIOUS
  <2> HIDE DEF N, fn2
  <2>4. Lit(fn2, ct) = Now \union N \union A
    BY <1>4, <1>6, <1>12, <1>16, <1>17, <2>1, <2>2, LitStep DEF Now
  <2>. QED BY <2>3, <2>4 DEF fn2
<1>20. (x \in L2 <=> live) /\ (z \in L2 <=> z \in Now) /\ (w \in Now => w \in L2)
  BY <1>4, <1>7, <1>15
<1>21. Grows(Now, L2, Below, fnOf)
  BY <1>7, <1>8, <1>15 DEF Grows
<1> HIDE DEF L2
<1>22. Persists(content, ct)
  <2>1. Firsts(content[x]) = {}
    BY <1>7 DEF Firsts
  <2>. QED BY <1>9, <1>11, <2>1 DEF Persists
<1>23. SavedAsOpen(Below, content, ct)
  <2>1. ASSUME NEW b \in Saved(Below) PROVE Terms(ct[b]) = {} <=> Terms(content[b]) = {}
    <3>1. b \in 1..made
      BY <1>2, SavedElsewhere
    <3>2. b \in Blocks
      BY <1>2, <3>1 DEF Blocks
    <3>. QED BY <1>7, <1>9, <1>10, <1>11, <3>2
  <2>. QED BY <2>1 DEF SavedAsOpen
<1>24. Flows(Below, FALSE, L2, ct, live)
  <2> DEFINE lv == live
  <2>1. Flows(Below, FALSE, Now, content, lv)
    BY <1>2
  <2> HIDE DEF lv
  <2>2. Flows(Below, FALSE, L2, ct, lv)
    BY <1>2, <1>21, <1>22, <1>23, <2>1, FlowsKept
  <2>. QED BY <2>2 DEF lv
<1>25. live => Switches(ct[w], z)
  BY <1>4, <1>13, <1>22 DEF Switches, Persists
<1>26. live <=> z \in Now
  BY <1>1, <1>2 DEF Claim, z, was
<1>27. was = live
  BY <1>2, <1>3 DEF was
<1>28. Suits(Below, y, live) /\ Claim(y, Below # <<>>, TRUE, L2, ct, live)
  BY <1>2, <1>5, <1>13, <1>20, <1>25, <1>26, <1>27 DEF Suits, Claim, Tells, Caps, was
<1>29. Flows(stack', FALSE, L2, ct, live)
  <2> DEFINE lv == live
  <2>1. Flows(Below, FALSE, L2, ct, lv) /\ Claim(y, Below # <<>>, TRUE, L2, ct, lv)
        /\ Suits(Below, y, lv)
    BY <1>24, <1>28
  <2>2. Below \in Seq(FramesOf(made)) /\ y.kind \in {"select", "match"}
    BY <1>2, <1>5 DEF Placed
  <2> HIDE DEF lv
  <2>3. Flows(stack', FALSE, L2, ct, lv)
    BY <1>1, <1>2, <1>5, <2>1, <2>2, FlowsPutCase
  <2>. QED BY <2>3 DEF lv
<1>30. Pointed(stack', live, x, L2, ct)
  BY <1>10, <1>11, <1>20 DEF Pointed, Open
<1>31. ins' = x /\ live' = live
  BY <1>1, <1>27
<1>. QED BY <1>19, <1>29, <1>30, <1>31, FlowStepped DEF ct

\* What the construct says that an alternative is part of, and what is around it.
LEMMA AroundFlows ==
  ASSUME BlocksInv, FlowInv, stack # <<>>, Top.kind = "case",
         NEW a, a = TopOf(Below), NEW U, U = Under(Below)
  PROVE  /\ Below = Append(U, a) /\ U # <<>> /\ Placed(U, fnOf, made) /\ TopOf(U).kind \in Statements
         /\ Saved(U) \subseteq Saved(stack) /\ a.kind \in {"select", "match"} /\ a \in FramesOf(made)
         /\ Flows(U, FALSE, Now, content, live) /\ (a.was => Rests(U)) /\ (live => a.was)
         /\ Claim(a, TRUE, TRUE, Now, content, live)
         /\ a.merge \in 1..made /\ a.merge \in Blocks
         /\ fnOf[a.merge] = NoBlock /\ ~ Awaited(U, a.merge) /\ Awaited(Below, a.merge)
<1>1. /\ made \in Nat /\ MaxBlocks \in Nat /\ made <= MaxBlocks
      /\ Placed(stack, fnOf, made) /\ Below = Under(stack)
  BY HereFacts, TypesHere, Bounds DEF BlocksInv
<1>2. Below # <<>> /\ Placed(Below, fnOf, made)
  BY BelowFacts
<1>3. /\ a.kind \in {"select", "match"} /\ a \in FramesOf(made) /\ a.merge \in 1..made
  BY AroundFacts
<1>4. /\ Placed(U, fnOf, made) /\ Below = Append(U, a) /\ StandsOn(U, a)
      /\ Joins(U, a, fnOf, made)
  BY <1>1, <1>2, PlacedPop
<1>5. U # <<>> /\ TopOf(U).kind \in Statements
  BY <1>3, <1>4 DEF StandsOn, Fits, IsExpression, TopOf
<1>6. a.merge \in Brings(U, a)
  BY <1>3, <1>5 DEF Brings, AwaitsOf
<1>7. fnOf[a.merge] = NoBlock /\ ~ Awaited(U, a.merge)
  BY <1>4, <1>6 DEF Joins
<1>8. Awaited(Below, a.merge)
  BY <1>1, <1>2, <1>6, PopAwaited
<1>9. Saved(U) \subseteq Saved(stack)
  <2>1. \A c : c \in Saved(U) => c \in Saved(Below)
    BY <1>1, <1>2, PopSaved
  <2>2. \A c : c \in Saved(Below) => c \in Saved(stack)
    BY <1>1, PopSaved
  <2>. QED BY <2>1, <2>2
<1> DEFINE t == TRUE
           w == FALSE
           lv == live
<1>10. Flows(Below, t, Now, content, lv)
  <2> DEFINE k == Top.kind = "case"
  <2>1. k = t /\ Into(Top, live) = lv
    BY DEF Into
  <2>2. Flows(Below, k, Now, content, Into(Top, live))
    BY FlowsHere
  <2>. QED BY <2>1, <2>2
<1> DEFINE k == TopOf(Below).kind = "case"
<1>11. /\ Flows(Under(Below), k, Now, content, Into(TopOf(Below), lv))
       /\ Suits(Under(Below), TopOf(Below), lv)
       /\ Claim(TopOf(Below), Under(Below) # <<>>, t, Now, content, lv)
  <2>1. k = (TopOf(Below).kind = "case")
    OBVIOUS
  <2> HIDE DEF t, lv
  <2>. QED BY <1>1, <1>2, <1>10, FlowsPop
<1>12. k = w /\ Into(a, lv) = lv
  BY <1>3 DEF Into
<1>13. Flows(U, w, Now, content, lv)
  BY <1>11, <1>12
<1>14. Suits(U, a, lv)
  BY <1>11
<1>15. (a.was => Rests(U)) /\ (live => a.was)
  BY <1>3, <1>14 DEF Suits, Tells, Caps
<1>16. Claim(a, TRUE, TRUE, Now, content, live)
  BY <1>3, <1>11 DEF Claim
<1>17. a.merge \in Blocks
  BY <1>1, <1>3 DEF Blocks
<1>. QED BY <1>3, <1>4, <1>5, <1>7, <1>8, <1>9, <1>13, <1>15, <1>16, <1>17

LEMMA EndCaseFlows ==
  ASSUME BlocksInv, FlowInv, endCase PROVE FlowInv'
<1> DEFINE a == TopOf(Below)
           U == Under(Below)
           z == a.merge
           else == a.else
           was == a.was
           toElse == a.kind = "select" /\ a.more
           x == IF toElse THEN else ELSE ins
           A == IF live THEN {z} ELSE {}
           L2 == Now \union A
           ct == content'
           fn2 == fnOf'
<1>1. /\ stack # <<>> /\ Top.kind = "case" /\ BranchUnlessReturn(z)
      /\ fn2 = (IF toElse THEN [fnOf EXCEPT ![else] = CurrentFn] ELSE fnOf) /\ ins' = x
      /\ live' = was /\ stack' = Below
  BY DEF endCase, TopOf
<1>2. /\ Below = Append(U, a) /\ U # <<>> /\ Placed(U, fnOf, made) /\ TopOf(U).kind \in Statements
      /\ Saved(U) \subseteq Saved(stack) /\ a.kind \in {"select", "match"} /\ a \in FramesOf(made)
      /\ Flows(U, FALSE, Now, content, live) /\ (was => Rests(U)) /\ (live => was)
      /\ Claim(a, TRUE, TRUE, Now, content, live)
      /\ z \in 1..made /\ z \in Blocks
      /\ fnOf[z] = NoBlock /\ ~ Awaited(U, z) /\ Awaited(Below, z)
  BY <1>1, AroundFlows
<1>3. /\ made \in Nat /\ ins \in Blocks /\ CodeTyped(content, made)
  BY <1>1, HereFacts, TypesHere
<1>4. toElse => /\ else # z /\ else # ins /\ Terms(content[else]) = {}
                /\ Roots([fnOf EXCEPT ![else] = CurrentFn]) = Roots(fnOf)
                /\ else \in Blocks
  <2>1. toElse => else \in Brings(Below, Top)
    BY <1>1, AroundFacts
  <2> HIDE DEF a, else, z
  <2>2. Top.kind # "fn"
    BY <1>1
  <2>. QED BY <1>1, <1>2, <2>1, <2>2, AwaitedHere
<1>5. Claim(a, TRUE, TRUE, Now, content, live) /\ toElse => (was <=> else \in Now)
  BY DEF Claim
<1>6. Roots(fn2) = Roots(fnOf)
  BY <1>1, <1>4
<1>7. Sent(A, z, live) /\ NotYet(A, U)
  BY <1>2 DEF Sent, NotYet
<1>8. (live => A = {z}) /\ (~ live => A = {})
  OBVIOUS
<1> HIDE DEF A
<1>9. Persists(content, ct)
  <2>1. content' = content \/ content' = Insert(ins, Br(z))
    BY <1>1 DEF BranchUnlessReturn
  <2>2. Persists(content, content)
    BY DEF Persists
  <2>3. Persists(content, Insert(ins, Br(z)))
    <3>1. Br(z) \in InstrOf(made) /\ content \in [Blocks -> Seq(InstrOf(made))]
      BY <1>2, <1>3, InstrHere DEF CodeTyped
    <3>. QED BY <1>3, <3>1, InsertHops
  <2>. QED BY <2>1, <2>2, <2>3
<1> HIDE DEF fn2, a, U, z, else, was
<1>10. /\ Lit(fn2, ct) = L2 /\ Flows(U, FALSE, L2, ct, live)
       /\ \A c \in Blocks : c # ins => ct[c] = content[c]
  <2>1. Top.kind \in Statements \ {"loop"}
    BY <1>1 DEF Statements
  <2> DEFINE lv == live
  <2>2. Flows(U, FALSE, Now, content, lv)
    BY <1>2
  <2> HIDE DEF lv
  <2>3. /\ Lit(fn2, content') = Now \union A /\ Flows(U, FALSE, Now \union A, content', lv)
        /\ \A c \in Blocks : c # ins => content'[c] = content[c]
    BY <1>1, <1>2, <1>6, <1>7, <2>1, <2>2, FlowsBranched
  <2>. QED BY <2>3 DEF lv
<1> HIDE DEF ct
<1>11. /\ z \in L2 <=> z \in Now \/ live
       /\ Now \subseteq L2
       /\ toElse => (else \in L2 <=> else \in Now)
  BY <1>4, <1>8
<1> HIDE DEF L2
<1>12. Flows(U, FALSE, L2, ct, was)
  <2> DEFINE lv == live
  <2>1. Flows(U, FALSE, L2, ct, lv)
    BY <1>10
  <2> HIDE DEF lv
  <2>. QED BY <1>2, <1>3, <2>1, FlowsQuiet
<1>13. /\ Suits(U, a, was) /\ Claim(a, U # <<>>, FALSE, L2, ct, was)
       /\ Into(a, was) = was /\ a.kind # "case"
  <2>1. a.kind = "match" /\ a.was =>
           Switches(content[a.switch], a.merge) /\ a.switch \in Blocks /\ a.switch \in Now
    <3>1. a.kind = "match" => a.switch \in 1..made
      BY <1>2, <1>3, FrameFacts
    <3>2. a.kind = "match" => a.switch \in Blocks
      BY <3>1, Bounds, TypesHere DEF Blocks
    <3>. QED BY <1>2, <3>2 DEF Claim
  <2>2. a.kind = "match" /\ a.was => Switches(ct[a.switch], a.merge)
    BY <1>9, <2>1 DEF Switches, Persists
  <2>3. a.kind = "match" => (a.was <=> z \in Now)
    BY <1>2 DEF Claim, z
  <2>4. a.kind = "select" => (z \in Now => a.was) /\ (~ a.more /\ a.was => z \in Now)
    BY <1>2 DEF Claim, z
  <2>5. Suits(U, a, was)
    BY <1>2 DEF Suits, Tells, Caps, was
  <2>6. Claim(a, U # <<>>, FALSE, L2, ct, was)
    BY <1>2, <1>11, <2>1, <2>2, <2>3, <2>4 DEF Claim, was, z
  <2>. QED BY <1>2, <2>5, <2>6 DEF Into
<1>14. Flows(stack', FALSE, L2, ct, was)
  <2>1. Flows(U, FALSE, L2, ct, Into(a, was))
    BY <1>12, <1>13
  <2>2. U \in Seq(FramesOf(made))
    BY <1>2 DEF Placed
  <2>. QED BY <1>1, <1>2, <1>3, <1>13, <2>1, <2>2, FlowsPut
<1>15. Pointed(stack', was, x, L2, ct)
  <2>1. TopOf(stack') = a
    BY <1>1 DEF a
  <2>2. CASE ~ toElse
    <3>1. SettledAt(stack')
      BY <1>2, <2>1, <2>2 DEF SettledAt
    <3>. QED BY <3>1 DEF Pointed
  <2>3. CASE toElse
    <3>1. x = else /\ ct[else] = content[else]
      BY <1>4, <1>10, <2>3
    <3>2. was <=> else \in L2
      BY <1>2, <1>5, <1>11, <2>3
    <3>. QED BY <1>4, <2>3, <3>1, <3>2 DEF Pointed, Open
  <2>. QED BY <2>2, <2>3
<1>16. Lit(fnOf', content') = L2 /\ Flows(stack', FALSE, L2, content', was)
       /\ Pointed(stack', was, x, L2, content')
  BY <1>10, <1>14, <1>15 DEF fn2, ct
<1>. QED BY <1>1, <1>16, FlowStepped

-----------------------------------------------------------------------------
(* The invariant is kept.                                                     *)

LEMMA FlowInit == Init => FlowInv
<1> SUFFICES ASSUME Init PROVE FlowInv
  OBVIOUS
<1>1. stack = <<>> /\ live = FALSE /\ Len(stack) = 0
  BY DEF Init
<1>2. \A i \in 1..Len(stack) : FALSE
  BY <1>1
<1>3. Pointed(stack, live, ins, Now, content)
  BY <1>1 DEF Pointed
<1>4. Claims(stack, FALSE, Now, content, live) /\ Chained(stack)
  BY <1>2 DEF Claims, Chained
<1>5. ~ live
  BY <1>1
<1>. QED BY <1>3, <1>4, <1>5 DEF FlowInv, Flows

LEMMA FlowStutter ==
  ASSUME FlowInv, UNCHANGED vars PROVE FlowInv'
<1>1. stack' = stack /\ live' = live /\ ins' = ins /\ fnOf' = fnOf /\ content' = content
  BY DEF vars
<1>2. Lit(fnOf', content') = Now
  BY <1>1 DEF Now
<1>3. Pointed(stack', live', ins', Now, content') /\ Flows(stack', FALSE, Now, content', live')
  BY <1>1 DEF FlowInv
<1>. QED BY <1>2, <1>3, FlowStepped

LEMMA FlowNext == BlocksInv /\ FlowInv /\ [Next]_vars => FlowInv'
<1> SUFFICES ASSUME BlocksInv, FlowInv, [Next]_vars PROVE FlowInv'
  OBVIOUS
<1>1. ASSUME NEW b \in BOOLEAN, visitInvokeable(b) PROVE FlowInv'
  BY <1>1, InvokeableFlows
<1>2. ASSUME NEW b \in BOOLEAN, conditional(b) PROVE FlowInv'
  BY <1>2, ConditionalFlows
<1>3. ASSUME NEW b \in BOOLEAN, selectCase(b) PROVE FlowInv'
  BY <1>3, SelectCaseFlows
<1>4. CASE endInvokeable
  BY <1>4, EndInvokeableFlows
<1>5. CASE TvisitStatement
  BY <1>5, StatementFlows
<1>6. CASE TvisitReturnStatement
  BY <1>6, ReturnFlows
<1>7. CASE TvisitBlock
  BY <1>7, BlockFlows
<1>8. CASE endBlock
  BY <1>8, EndBlockFlows
<1>9. CASE endThen
  BY <1>9, EndThenFlows, EndThenElseFlows
<1>10. CASE endElse
  BY <1>10, EndElseFlows
<1>11. CASE loop
  BY <1>11, LoopFlows
<1>12. CASE endLoop
  BY <1>12, EndLoopFlows
<1>13. CASE select
  BY <1>13, SelectFlows
<1>14. CASE match
  BY <1>14, MatchFlows
<1>15. CASE matchCase
  BY <1>15, MatchCaseFlows
<1>16. CASE endCase
  BY <1>16, EndCaseFlows
<1>17. CASE endAlternatives
  BY <1>17, EndAlternativesFlows
<1>18. CASE TvisitLambdaConstExpr
  BY <1>18, LambdaFlows
<1>19. CASE endLambda
  BY <1>19, EndLambdaFlows
<1>20. CASE logic
  BY <1>20, LogicFlows
<1>21. CASE operand
  BY <1>21, OperandFlows
<1>22. CASE nextOperand
  BY <1>22, NextOperandFlows
<1>23. CASE endLogic
  BY <1>23, EndLogicFlows
<1>24. CASE UNCHANGED vars
  BY <1>24, FlowStutter
<1>. QED
  BY <1>1, <1>2, <1>3, <1>4, <1>5, <1>6, <1>7, <1>8, <1>9, <1>10, <1>11, <1>12, <1>13,
     <1>14, <1>15, <1>16, <1>17, <1>18, <1>19, <1>20, <1>21, <1>22, <1>23, <1>24 DEF Next

LEMMA FlowInductive == Spec => [](BlocksInv /\ FlowInv)
<1>1. Init => BlocksInv /\ FlowInv
  BY BlocksInit, FlowInit
<1>2. BlocksInv /\ FlowInv /\ [Next]_vars => (BlocksInv /\ FlowInv)'
  BY BlocksNext, FlowNext
<1>. QED BY <1>1, <1>2, PTL DEF Spec

-----------------------------------------------------------------------------
(* The blocks that can be reached from the entry of a function.               *)

StepOf(S) == S \union UNION {Successors(b) : b \in S}

\* What the iteration that defines Reachable computes.
Reaches(g, f) == /\ g \in [0..MaxBlocks -> SUBSET Blocks] /\ g[0] = {f}
                 /\ \A k \in 1..MaxBlocks : g[k] = StepOf(g[k - 1])

LEMMA SuccessorsAre ==
  ASSUME NEW b
  PROVE  Successors(b) = Hops(content[b]) /\ Terminators(b) = Terms(content[b])
BY DEF Successors, Hops, Firsts, Terminators, Terms

LEMMA ReachableReaches ==
  ASSUME BlocksInv, NEW f \in Blocks
  PROVE  \E g : Reaches(g, f) /\ Reachable(f) = g[MaxBlocks]
<1> DEFINE X == SUBSET Blocks
           M == MaxBlocks
           F == [p \in (1..M) \X X |-> StepOf(p[2])]
           x == {f}
<1>1. \A b \in Blocks : Successors(b) \subseteq Blocks
  BY NowMade, SuccessorsAre, HopsTargets DEF GoInside
<1>2. \A S \in X : StepOf(S) \in X
  BY <1>1 DEF StepOf
<1>3. F \in Repeatable(X, M)
  BY <1>2 DEF Repeatable
<1>4. M \in Nat /\ {f} \in X /\ x \in X
  BY Bounds
<1> HIDE DEF X, M, F, x
<1>5. PICK g \in [0..M -> X] : Repeated(g, x, M, F)
  BY <1>3, <1>4, Iterates
<1> DEFINE Is(h) == h = [n \in 0..M |-> IF n = 0 THEN {f} ELSE StepOf(h[n - 1])]
           in == CHOOSE h : Is(h)
<1>6. Is(g)
  <2>1. ASSUME NEW n \in 0..M PROVE g[n] = IF n = 0 THEN {f} ELSE StepOf(g[n - 1])
    <3>1. n # 0 => n \in 1..M /\ n - 1 \in 0..M
      BY <1>4
    <3>2. n # 0 => g[n] = F[<<n, g[n - 1]>>] /\ g[n - 1] \in X
      BY <1>5, <3>1 DEF Repeated
    <3>3. g[0] = {f}
      BY <1>5 DEF Repeated, x
    <3>4. n # 0 => F[<<n, g[n - 1]>>] = StepOf(g[n - 1])
      BY <3>1, <3>2 DEF F
    <3>. QED BY <3>2, <3>3, <3>4
  <2>2. g = [n \in 0..M |-> g[n]]
    BY <1>5
  <2>. QED BY <2>1, <2>2
<1>7. Is(in)
  <2> HIDE DEF Is
  <2>. QED BY <1>6
<1>8. Reachable(f) = in[M]
  BY DEF Reachable, StepOf, M
<1> HIDE DEF in
<1>9. in[0] = {f} /\ \A k \in 1..M : in[k] = StepOf(in[k - 1])
  <2>1. 0 \in 0..M /\ \A k \in 1..M : k \in 0..M /\ k # 0
    BY <1>4
  <2>. QED BY <1>7, <2>1
<1>10. \A k \in 0..M : in[k] \in X
  <2>1. \A k \in 1..M : in[k - 1] \in X => in[k] \in X
    BY <1>2, <1>9
  <2>2. in[0] \in X
    BY <1>4, <1>9
  <2>. QED BY <1>4, <2>1, <2>2, Stays
<1>11. in \in [0..M -> X]
  <2>1. in = [k \in 0..M |-> in[k]]
    <3>1. in = [n \in 0..M |-> IF n = 0 THEN {f} ELSE StepOf(in[n - 1])]
      BY <1>7
    <3>2. DOMAIN in = 0..M
      BY <3>1
    <3>. QED BY <3>1, <3>2
  <2>. QED BY <1>10, <2>1
<1>. QED BY <1>8, <1>9, <1>11 DEF Reaches, X, M

\* MaxBlocks steps are enough: each one that adds nothing is the last, and there are no
\* more blocks to add.
LEMMA ReachableShut ==
  ASSUME BlocksInv, NEW f \in Blocks
  PROVE  f \in Reachable(f) /\ Reachable(f) \subseteq Blocks /\ Shut(Reachable(f), content)
<1> DEFINE M == MaxBlocks
<1>1. PICK g : Reaches(g, f) /\ Reachable(f) = g[M]
  BY ReachableReaches
<1>2. /\ M \in Nat /\ g[0] = {f} /\ (\A k \in 0..M : g[k] \in SUBSET Blocks)
      /\ \A k \in 1..M : g[k] = StepOf(g[k - 1])
  BY <1>1, Bounds DEF Reaches
<1>3. IsFiniteSet(Blocks) /\ Cardinality(Blocks) = M
  <2>1. 1 \in Int /\ M \in Int /\ (IF 1 > M THEN 0 ELSE M - 1 + 1) = M
    BY <1>2
  <2>2. Blocks = 1..M
    BY DEF Blocks
  <2> HIDE DEF M
  <2>3. IsFiniteSet(1..M) /\ Cardinality(1..M) = (IF 1 > M THEN 0 ELSE M - 1 + 1)
    BY <2>1, FS_Interval
  <2>. QED BY <2>1, <2>2, <2>3
<1> HIDE DEF M
<1>4. \A k \in 0..M : IsFiniteSet(g[k]) /\ Cardinality(g[k]) \in Nat /\ Cardinality(g[k]) <= M
  <2>1. ASSUME NEW k \in 0..M
        PROVE  IsFiniteSet(g[k]) /\ Cardinality(g[k]) \in Nat /\ Cardinality(g[k]) <= M
    <3>1. g[k] \in SUBSET Blocks
      BY <1>2
    <3>2. IsFiniteSet(g[k]) /\ Cardinality(g[k]) <= Cardinality(Blocks)
      BY <1>3, <3>1, FS_Subset
    <3>. QED BY <1>3, <3>2, FS_CardinalityType
  <2>. QED BY <2>1
<1>5. ASSUME NEW S PROVE (StepOf(S) = S <=> Shut(S, content)) /\ S \subseteq StepOf(S)
  BY SuccessorsAre DEF StepOf, Shut
<1> DEFINE Enough(k) == Shut(g[k], content) \/ k + 1 <= Cardinality(g[k])
           done == [k \in 0..M |-> Enough(k)]
           T == {TRUE}
<1>6. Enough(0)
  <2>1. Cardinality({f}) = 1
    BY FS_Singleton
  <2>. QED BY <1>2, <2>1
<1>7. ASSUME NEW k \in 1..M, Enough(k - 1) PROVE Enough(k)
  <2>1. k \in 0..M /\ k - 1 \in 0..M /\ g[k] = StepOf(g[k - 1]) /\ (k - 1) + 1 = k
    BY <1>2
  <2>2. CASE Shut(g[k - 1], content)
    <3>1. g[k] = g[k - 1]
      BY <1>5, <2>1, <2>2
    <3>. QED BY <2>2, <3>1
  <2>3. CASE ~ Shut(g[k - 1], content)
    <3>1. g[k - 1] \in SUBSET g[k] /\ g[k - 1] # g[k]
      BY <1>5, <2>1, <2>3
    <3>2. k <= Cardinality(g[k - 1])
      <4>1. (k - 1) + 1 <= Cardinality(g[k - 1])
        BY <1>7, <2>3
      <4>. QED BY <2>1, <4>1
    <3>3. Cardinality(g[k - 1]) <= Cardinality(g[k]) /\ Cardinality(g[k]) # Cardinality(g[k - 1])
      BY <1>4, <2>1, <3>1, FS_Subset
    <3>4. Cardinality(g[k]) \in Nat /\ Cardinality(g[k - 1]) \in Nat
      BY <1>4, <2>1
    <3>5. k + 1 <= Cardinality(g[k])
      BY <2>1, <3>2, <3>3, <3>4
    <3>. QED BY <3>5
  <2>. QED BY <2>2, <2>3
<1>8. Enough(M)
  <2>1. \A k \in 1..M : done[k - 1] \in T => done[k] \in T
    <3>1. ASSUME NEW k \in 1..M, done[k - 1] \in T PROVE done[k] \in T
      <4>1. k \in 0..M /\ k - 1 \in 0..M
        BY <1>2
      <4> HIDE DEF Enough
      <4>2. Enough(k - 1)
        BY <3>1, <4>1
      <4>3. Enough(k)
        BY <1>7, <4>2
      <4>. QED BY <4>1, <4>3
    <3> HIDE DEF done, T
    <3>. QED BY <3>1
  <2>2. 0 \in 0..M /\ M \in 0..M
    BY <1>2
  <2> HIDE DEF Enough
  <2>3. done[0] \in T
    BY <1>6, <2>2
  <2>4. \A k \in 0..M : done[k] \in T
    <3> HIDE DEF done, T
    <3>. QED BY <1>2, <2>1, <2>3, Stays
  <2>. QED BY <2>2, <2>4
<1>9. Shut(g[M], content)
  <2>1. M \in 0..M
    BY <1>2
  <2>2. Cardinality(g[M]) <= M /\ Cardinality(g[M]) \in Nat
    BY <1>4, <2>1
  <2>3. ~ (M + 1 <= Cardinality(g[M]))
    BY <1>2, <2>2
  <2>. QED BY <1>8, <2>3
<1>10. f \in g[M]
  <2> DEFINE S == {s \in SUBSET Blocks : f \in s}
  <2>1. g[0] \in S
    BY <1>2
  <2>2. \A k \in 1..M : g[k - 1] \in S => g[k] \in S
    <3>1. ASSUME NEW k \in 1..M, g[k - 1] \in S PROVE g[k] \in S
      <4>1. k \in 0..M
        BY <1>2
      <4>. QED BY <1>2, <3>1, <4>1 DEF StepOf
    <3>. QED BY <3>1
  <2>3. M \in 0..M
    BY <1>2
  <2>4. \A k \in 0..M : g[k] \in S
    <3> HIDE DEF S
    <3>. QED BY <1>2, <2>1, <2>2, Stays
  <2>. QED BY <2>3, <2>4
<1>11. M \in 0..M
  BY <1>2
<1>. QED BY <1>1, <1>2, <1>9, <1>10, <1>11

\* Nothing but what every closed set has.
LEMMA ReachableLeast ==
  ASSUME BlocksInv, NEW f \in Blocks, NEW S, f \in S, Shut(S, content)
  PROVE  Reachable(f) \subseteq S
<1>1. PICK g : Reaches(g, f) /\ Reachable(f) = g[MaxBlocks]
  BY ReachableReaches
<1> DEFINE M == MaxBlocks
           X == SUBSET S
<1>2. /\ M \in Nat /\ g[0] = {f}
      /\ \A k \in 1..M : g[k] = StepOf(g[k - 1])
  BY <1>1, Bounds DEF Reaches
<1>3. g[0] \in X
  BY <1>2
<1>4. ASSUME NEW Y \in X PROVE StepOf(Y) \in X
  BY SuccessorsAre DEF StepOf, Shut
<1>5. \A k \in 1..M : g[k - 1] \in X => g[k] \in X
  BY <1>2, <1>4
<1> HIDE DEF X, M
<1>6. \A k \in 0..M : g[k] \in X
  BY <1>2, <1>3, <1>5, Stays
<1>7. M \in 0..M
  BY <1>2
<1>. QED BY <1>1, <1>6, <1>7 DEF X, M

\* In a function that is being generated, what can be executed is reached from its entry.
LEMMA ReachableHere ==
  ASSUME BlocksInv, stack # <<>>
  PROVE  ins \in Now <=> ins \in Reachable(CurrentFn)
<1> DEFINE f == CurrentFn
           R == Reachable(f)
           S == R \union {b \in Blocks : fnOf[b] # f /\ ~ Waits(stack, b, f)}
<1>1. /\ f \in Blocks /\ f # NoBlock /\ fnOf[f] = f /\ ins \in Blocks /\ fnOf[ins] = f
      /\ Placed(stack, fnOf, made) /\ made \in Nat
  BY HereFacts DEF BlocksInv
<1> HIDE DEF f
<1>2. f \in R /\ R \subseteq Blocks /\ Shut(R, content)
  BY <1>1, ReachableShut
<1>3. /\ Shut(Now, content) /\ Roots(fnOf) \subseteq Now /\ GoInside(content)
  BY NowMade
<1>4. R \subseteq Now
  <2>1. f \in Now
    BY <1>1, <1>3 DEF Roots
  <2>. QED BY <1>1, <1>3, <2>1, ReachableLeast
<1> HIDE DEF R
<1>5. ASSUME NEW t, NEW h, Waits(stack, t, h)
      PROVE  fnOf[t] = NoBlock /\ (h # f => ~ Waits(stack, t, f))
  <2>1. PICK i \in DOMAIN stack : t \in Awaits(stack, i) /\ h = FnAt(stack, i)
    BY <1>5 DEF Waits
  <2>2. \A j \in DOMAIN stack : t \in Awaits(stack, j) => j = i
    BY <1>1, <2>1 DEF Placed
  <2>3. fnOf[t] = NoBlock
    BY <1>1, <2>1 DEF Placed
  <2>. QED BY <2>1, <2>2, <2>3 DEF Waits
<1>6. Roots(fnOf) \subseteq S
  <2>1. ASSUME NEW r \in Roots(fnOf), r # f PROVE r \in S
    <3>1. r \in Blocks /\ fnOf[r] = r /\ r # NoBlock
      BY DEF Roots, Blocks, NoBlock
    <3>. QED BY <1>5, <2>1, <3>1
  <2>. QED BY <1>2, <2>1
<1>7. ASSUME NEW b \in S PROVE Hops(content[b]) \subseteq S
  <2>1. CASE b \in R
    BY <1>2, <2>1 DEF Shut
  <2>2. CASE b \notin R
    <3>1. b \in Blocks /\ fnOf[b] # f
      BY <1>7, <2>2
    <3>2. ASSUME NEW t \in Hops(content[b]) PROVE t \in S
      <4>1. t \in Targets(content[b]) /\ t \in Blocks /\ content[b] # <<>>
        <5>1. t \in Targets(content[b]) /\ Terms(content[b]) # {}
          BY HopsTargets
        <5>. QED BY <1>3, <3>1, <5>1, NothingYet DEF GoInside
      <4>2. Goes(stack, fnOf, content[b], b)
        BY <3>1, <4>1 DEF BlocksInv, Filled
      <4>3. fnOf[t] = fnOf[b] \/ Waits(stack, t, fnOf[b])
        BY <4>1, <4>2 DEF Goes
      <4>4. fnOf[b] # NoBlock
        BY <3>1, <4>1 DEF BlocksInv, Filled
      <4>5. fnOf[t] # f /\ ~ Waits(stack, t, f)
        <5>1. CASE fnOf[t] = fnOf[b]
          BY <1>5, <3>1, <4>4, <5>1
        <5>2. CASE Waits(stack, t, fnOf[b])
          BY <1>1, <1>5, <3>1, <5>2
        <5>. QED BY <4>3, <5>1, <5>2
      <4>. QED BY <4>1, <4>5
    <3>. QED BY <3>2
  <2>. QED BY <2>1, <2>2
<1>8. Now \subseteq S
  <2>1. S \in SUBSET Blocks /\ Shut(S, content)
    BY <1>2, <1>7 DEF Shut
  <2> HIDE DEF S
  <2>. QED BY <1>3, <1>6, <2>1, LitLeast DEF Now
<1>9. ins \in Now => ins \in R
  BY <1>1, <1>8
<1>. QED BY <1>4, <1>9 DEF R, f

\* CodeFollowsSource: the code of a statement is executed exactly when the source says
\* that the statement can be reached, whatever returns, branches, loops and alternatives
\* were nested around it (visitBlock, the statements of CodegenVisitor.cpp).
THEOREM FlowFollows == Spec => []CodeFollowsSource
<1>1. BlocksInv /\ FlowInv => CodeFollowsSource
  <2> SUFFICES ASSUME BlocksInv, FlowInv, stack # <<>>, Top.kind \notin {"select", "match"}
               PROVE  live <=> ins \in Reachable(CurrentFn) /\ ~ Ends(ins)
    BY DEF CodeFollowsSource
  <2>1. live <=> Open(Now, content, ins)
    BY DEF FlowInv, Pointed, SettledAt, TopOf, Top
  <2>2. Ends(ins) <=> Terms(content[ins]) # {}
    BY SuccessorsAre DEF Ends
  <2>. QED BY <2>1, <2>2, ReachableHere DEF Open
<1>. QED BY <1>1, FlowInductive, PTL

-----------------------------------------------------------------------------
(* The phis of logical expressions.                                           *)

\* Instruction k of block b goes to block m, and tests an operand.
Enters(ct, m, b, k) == k \in DOMAIN ct[b] /\ m \in ct[b][k].to
TestOf(ct, b, k)    == ct[b][k].on

\* The first n operands of a logical expression were tested, each by one instruction,
\* and from the second on the edge of the phi comes from the block of that test.
Tested(ct, P, m, n) ==
  /\ \A b \in Blocks, k \in Nat : Enters(ct, m, b, k) => TestOf(ct, b, k) \in 1..n
  /\ \A v \in 1..n : \E b \in Blocks, k \in Nat :
        /\ Enters(ct, m, b, k) /\ TestOf(ct, b, k) = v
        /\ \A c \in Blocks, j \in Nat : Enters(ct, m, c, j) /\ TestOf(ct, c, j) = v => c = b /\ j = k
        /\ v >= 2 => <<b, v>> \in P

\* The phi has the values of the first n operands.
Valued(P, n) == {e[2] : e \in P} = 1..n
Whole(m, ct, P, n) == Valued(P, n) /\ Tested(ct, P, m, n)

\* The value of operand n is there, and code inserted in block i will test it.
Half(m, ct, P, n, i) == /\ n >= 1 /\ Valued(P, n) /\ Tested(ct, P, m, n - 1)
                        /\ n >= 2 => <<i, n>> \in P

\* The logical expressions that are being visited, and the bodies of the loops.
Kept(st, c) == {st[k] : k \in {j \in DOMAIN st : st[j].kind = c}}
Pending(st) == Kept(st, "logic")
Merges(st)  == {fr.merge : fr \in Pending(st)}
Bodies(st)  == {fr.body : fr \in Kept(st, "loop")}
Calm(st)    == \A fr \in Pending(st) : ~ fr.ready

Gathers(fr, ct, P, i) == IF fr.ready THEN Half(fr.merge, ct, P, fr.count, i)
                                     ELSE Whole(fr.merge, ct, P, fr.count)

Owned(st, fn, ph)   == \A b \in Blocks : ph[b] # {} => fn[b] # NoBlock \/ b \in Merges(st)
Gathered(st, ct, ph, i) == \A fr \in Pending(st) : Gathers(fr, ct, ph[fr.merge], i)
Joined(fn, ct, ph)  == \A b \in Blocks : fn[b] # NoBlock /\ ph[b] # {} =>
                          \E n \in Nat : Whole(b, ct, ph[b], n)

\* Only the innermost expression has a value that was not tested yet.
PhiInv == /\ Owned(stack, fnOf, phis)
          /\ \A b \in Bodies(stack) : phis[b] = {}
          /\ Gathered(stack, content, phis, ins)
          /\ stack # <<>> => Calm(Below)
          /\ Joined(fnOf, content, phis)

-----------------------------------------------------------------------------
(* What goes to a block.                                                      *)

SameEntries(ct, ct2, m) ==
  \A b \in Blocks, k \in Nat :
     /\ Enters(ct2, m, b, k) <=> Enters(ct, m, b, k)
     /\ Enters(ct, m, b, k) => TestOf(ct2, b, k) = TestOf(ct, b, k)

\* Instruction j of block i is new, and tests operand v.
OneMore(ct, ct2, m, i, j, v) ==
  /\ i \in Blocks /\ j \in Nat
  /\ Enters(ct2, m, i, j) /\ TestOf(ct2, i, j) = v /\ ~ Enters(ct, m, i, j)
  /\ \A b \in Blocks, k \in Nat : b # i \/ k # j =>
        /\ Enters(ct2, m, b, k) <=> Enters(ct, m, b, k)
        /\ Enters(ct, m, b, k) => TestOf(ct2, b, k) = TestOf(ct, b, k)

LEMMA TestedKept ==
  ASSUME NEW ct, NEW ct2, NEW m, SameEntries(ct, ct2, m), NEW P, NEW P2, P \subseteq P2,
         NEW n \in Nat, Tested(ct, P, m, n)
  PROVE  Tested(ct2, P2, m, n)
<1>1. \A b \in Blocks, k \in Nat : Enters(ct2, m, b, k) => TestOf(ct2, b, k) \in 1..n
  BY DEF SameEntries, Tested
<1>2. ASSUME NEW v \in 1..n
      PROVE  \E b \in Blocks, k \in Nat :
               /\ Enters(ct2, m, b, k) /\ TestOf(ct2, b, k) = v
               /\ \A c \in Blocks, j \in Nat :
                     Enters(ct2, m, c, j) /\ TestOf(ct2, c, j) = v => c = b /\ j = k
               /\ v >= 2 => <<b, v>> \in P2
  <2>1. PICK b \in Blocks, k \in Nat :
               /\ Enters(ct, m, b, k) /\ TestOf(ct, b, k) = v
               /\ \A c \in Blocks, j \in Nat :
                     Enters(ct, m, c, j) /\ TestOf(ct, c, j) = v => c = b /\ j = k
               /\ v >= 2 => <<b, v>> \in P
    BY DEF Tested
  <2>2. Enters(ct2, m, b, k) /\ TestOf(ct2, b, k) = v
    BY <2>1 DEF SameEntries
  <2>3. \A c \in Blocks, j \in Nat :
          Enters(ct2, m, c, j) /\ TestOf(ct2, c, j) = v => c = b /\ j = k
    BY <2>1 DEF SameEntries
  <2>. QED BY <2>1, <2>2, <2>3
<1>. QED BY <1>1, <1>2 DEF Tested

LEMMA TestAdded ==
  ASSUME NEW ct, NEW ct2, NEW m, NEW P, NEW n \in Nat, NEW i, NEW j,
         Half(m, ct, P, n, i), OneMore(ct, ct2, m, i, j, n)
  PROVE  Whole(m, ct2, P, n)
<1>1. /\ n >= 1 /\ n - 1 \in Nat /\ n \in 1..n
      /\ Tested(ct, P, m, n - 1) /\ (n >= 2 => <<i, n>> \in P) /\ Valued(P, n)
      /\ \A v \in 1..(n - 1) : v \in 1..n /\ v # n
      /\ \A v \in 1..n : v \in 1..(n - 1) \/ v = n
  BY DEF Half
<1>2. /\ i \in Blocks /\ j \in Nat
      /\ Enters(ct2, m, i, j) /\ TestOf(ct2, i, j) = n /\ ~ Enters(ct, m, i, j)
  BY DEF OneMore
<1>3. ASSUME NEW b \in Blocks, NEW k \in Nat, b # i \/ k # j
      PROVE  /\ Enters(ct2, m, b, k) <=> Enters(ct, m, b, k)
             /\ Enters(ct, m, b, k) => TestOf(ct2, b, k) = TestOf(ct, b, k)
  BY <1>3 DEF OneMore
<1>4. ASSUME NEW b \in Blocks, NEW k \in Nat, Enters(ct, m, b, k) PROVE b # i \/ k # j
  BY <1>2, <1>4
<1>5. \A b \in Blocks, k \in Nat : Enters(ct, m, b, k) => TestOf(ct, b, k) \in 1..(n - 1)
  BY <1>1 DEF Tested
<1>6. ASSUME NEW b \in Blocks, NEW k \in Nat, Enters(ct2, m, b, k), b # i \/ k # j
      PROVE  TestOf(ct2, b, k) \in 1..(n - 1)
  BY <1>3, <1>5, <1>6
<1>7. \A b \in Blocks, k \in Nat : Enters(ct2, m, b, k) => TestOf(ct2, b, k) \in 1..n
  BY <1>1, <1>2, <1>6
<1>8. ASSUME NEW v \in 1..n
      PROVE  \E b \in Blocks, k \in Nat :
               /\ Enters(ct2, m, b, k) /\ TestOf(ct2, b, k) = v
               /\ \A c \in Blocks, l \in Nat :
                     Enters(ct2, m, c, l) /\ TestOf(ct2, c, l) = v => c = b /\ l = k
               /\ v >= 2 => <<b, v>> \in P
  <2>1. CASE v = n
    <3>1. \A c \in Blocks, l \in Nat : Enters(ct2, m, c, l) /\ TestOf(ct2, c, l) = n => c = i /\ l = j
      BY <1>1, <1>6
    <3>. QED BY <1>1, <1>2, <2>1, <3>1
  <2>2. CASE v # n
    <3>1. v \in 1..(n - 1)
      BY <1>1, <2>2
    <3>2. PICK b \in Blocks, k \in Nat :
               /\ Enters(ct, m, b, k) /\ TestOf(ct, b, k) = v
               /\ \A c \in Blocks, l \in Nat :
                     Enters(ct, m, c, l) /\ TestOf(ct, c, l) = v => c = b /\ l = k
               /\ v >= 2 => <<b, v>> \in P
      BY <1>1, <3>1 DEF Tested
    <3>3. Enters(ct2, m, b, k) /\ TestOf(ct2, b, k) = v
      BY <1>3, <1>4, <3>2
    <3>4. ASSUME NEW c \in Blocks, NEW l \in Nat, Enters(ct2, m, c, l), TestOf(ct2, c, l) = v
          PROVE  c = b /\ l = k
      <4>1. c # i \/ l # j
        BY <1>2, <2>2, <3>4
      <4>2. Enters(ct, m, c, l) /\ TestOf(ct, c, l) = v
        BY <1>3, <3>4, <4>1
      <4>. QED BY <3>2, <4>2
    <3>. QED BY <3>2, <3>3, <3>4
  <2>. QED BY <2>1, <2>2
<1>9. Tested(ct2, P, m, n)
  BY <1>7, <1>8 DEF Tested
<1>. QED BY <1>1, <1>9 DEF Whole

\* The value of the next operand, from block c if it is the first.
Edge(n, c, i) == <<IF n = 0 THEN c ELSE i, n + 1>>

LEMMA OperandAdded ==
  ASSUME NEW ct, NEW ct2, NEW m, SameEntries(ct, ct2, m), NEW P, NEW n \in Nat,
         Whole(m, ct, P, n), NEW c, NEW i, NEW P2, P2 = P \union {Edge(n, c, i)}
  PROVE  Half(m, ct2, P2, n + 1, i)
<1>1. Tested(ct, P, m, n) /\ Valued(P, n) /\ P \subseteq P2
  BY DEF Whole
<1>2. Tested(ct2, P2, m, n)
  BY <1>1, TestedKept
<1>3. n + 1 >= 1 /\ (n + 1) - 1 = n /\ (n + 1 >= 2 => n # 0)
  OBVIOUS
<1>4. n # 0 => <<i, n + 1>> \in P2
  BY DEF Edge
<1>5. Valued(P2, n + 1)
  <2>1. Edge(n, c, i)[2] = n + 1
    BY DEF Edge
  <2>2. {e[2] : e \in P2} = {e[2] : e \in P} \union {n + 1}
    <3> DEFINE g == Edge(n, c, i)
    <3> HIDE DEF g
    <3>1. g[2] = n + 1 /\ P2 = P \union {g}
      BY <2>1 DEF g
    <3>. QED BY <3>1
  <2>3. (1..n) \union {n + 1} = 1..(n + 1)
    OBVIOUS
  <2>. QED BY <1>1, <2>2, <2>3 DEF Valued
<1>. QED BY <1>2, <1>3, <1>4, <1>5 DEF Half

LEMMA WholeKept ==
  ASSUME NEW ct, NEW ct2, NEW m, SameEntries(ct, ct2, m), NEW P, NEW n \in Nat,
         Whole(m, ct, P, n)
  PROVE  Whole(m, ct2, P, n)
BY TestedKept DEF Whole

LEMMA AppendOther ==
  ASSUME NEW S, NEW s \in Seq(S), NEW e \in S PROVE Append(s, e) # s
<1>1. Len(Append(s, e)) = Len(s) + 1 /\ Len(s) \in Nat
  BY AppendFacts
<1>2. Len(s) + 1 # Len(s)
  BY <1>1
<1>. QED BY <1>1, <1>2

\* What an insertion does to the entries of a block.
LEMMA InsertEntries ==
  ASSUME NEW m \in Nat, content \in [Blocks -> Seq(InstrOf(m))], ins \in Blocks,
         NEW e \in InstrOf(m), NEW ct2, ct2 = Insert(ins, e), NEW t
  PROVE  /\ t \notin e.to => SameEntries(content, ct2, t)
         /\ t \in e.to => OneMore(content, ct2, t, ins, Len(content[ins]) + 1, e.on)
<1> DEFINE S == InstrOf(m)
<1> HIDE DEF S
<1>1. content \in [Blocks -> Seq(S)] /\ e \in S
  BY DEF S
<1>2. /\ e # Code => ct2[ins] = Append(content[ins], e)
      /\ e = Code => ct2[ins] = content[ins] \/ ct2[ins] = Append(content[ins], e)
      /\ \A b \in Blocks : b # ins => ct2[b] = content[b]
  BY <1>1, InsertOther, InsertElsewhere
<1> DEFINE n == Len(content[ins])
<1>3. content[ins] \in Seq(S) /\ n \in Nat /\ DOMAIN content[ins] = 1..n /\ n + 1 \in Nat
      /\ n + 1 \notin 1..n
  BY <1>1
<1>4. e = Code => e.to = {}
  BY DEF Code
<1>5. CASE ct2[ins] = content[ins]
  <2>1. Append(content[ins], e) # content[ins]
    <3>1. content[ins] \in Seq(S) /\ e \in S
      BY <1>1
    <3>. QED BY <3>1, AppendOther
  <2>. e = Code
    BY <1>2, <1>5, <2>1
  <2>2. \A b \in Blocks : ct2[b] = content[b]
    BY <1>2, <1>5
  <2>. QED BY <1>4, <2>2 DEF SameEntries, Enters, TestOf
<1>6. CASE ct2[ins] = Append(content[ins], e)
  <2>1. /\ DOMAIN ct2[ins] = 1..(n + 1) /\ ct2[ins][n + 1] = e
        /\ \A k \in 1..n : ct2[ins][k] = content[ins][k]
    BY <1>3, <1>6
  <2>2. \A k \in Nat : k \in 1..(n + 1) <=> k \in 1..n \/ k = n + 1
    BY <1>3
  <2> HIDE DEF n
  <2>3. Enters(ct2, t, ins, n + 1) <=> t \in e.to
    BY <1>3, <2>1, <2>2 DEF Enters
  <2>4. ~ Enters(content, t, ins, n + 1)
    BY <1>3 DEF Enters
  <2>5. ASSUME NEW b \in Blocks, NEW k \in Nat, b # ins \/ k # n + 1
        PROVE  /\ Enters(ct2, t, b, k) <=> Enters(content, t, b, k)
               /\ Enters(content, t, b, k) => TestOf(ct2, b, k) = TestOf(content, b, k)
    <3>1. CASE b # ins
      BY <1>2, <3>1 DEF Enters, TestOf
    <3>2. CASE b = ins
      <4>1. k # n + 1
        BY <2>5, <3>2
      <4>. QED BY <1>3, <2>1, <2>2, <3>2, <4>1 DEF Enters, TestOf
    <3>. QED BY <3>1, <3>2
  <2>6. TestOf(ct2, ins, n + 1) = e.on
    BY <2>1 DEF TestOf
  <2>7. CASE t \in e.to
    BY <1>3, <2>3, <2>4, <2>5, <2>6, <2>7 DEF OneMore, n
  <2>8. CASE t \notin e.to
    <3>1. ASSUME NEW b \in Blocks, NEW k \in Nat
          PROVE  /\ Enters(ct2, t, b, k) <=> Enters(content, t, b, k)
                 /\ Enters(content, t, b, k) => TestOf(ct2, b, k) = TestOf(content, b, k)
      BY <2>3, <2>4, <2>5, <2>8
    <3>. QED BY <2>8, <3>1 DEF SameEntries
  <2>. QED BY <2>7, <2>8
<1>. QED BY <1>2, <1>5, <1>6

-----------------------------------------------------------------------------
(* The logical expressions on the stack.                                      *)

\* What one construct adds to them.
KeptOf(fr, c) == {x \in {fr} : x.kind = c}
LogicOf(fr)   == KeptOf(fr, "logic")
BodyOf(fr)    == {x.body : x \in KeptOf(fr, "loop")}

KeptOn(su, st, fr, c) == Kept(su, c) = Kept(st, c) \union KeptOf(fr, c)

LEMMA KeptPush ==
  ASSUME NEW S, NEW st \in Seq(S), NEW fr \in S, NEW su, su = Append(st, fr), NEW c
  PROVE  KeptOn(su, st, fr, c)
<1> DEFINE n == Len(st)
<1>1. /\ n \in Nat /\ DOMAIN st = 1..n /\ DOMAIN su = 1..(n + 1)
      /\ \A k \in 1..n : su[k] = st[k]
      /\ su[n + 1] = fr
  OBVIOUS
<1>2. /\ \A k \in 1..n : k \in 1..(n + 1)
      /\ n + 1 \in 1..(n + 1)
      /\ \A k \in 1..(n + 1) : k \in 1..n \/ k = n + 1
  BY <1>1
<1> HIDE DEF n
<1>3. ASSUME NEW x, x \in Kept(su, c) PROVE x \in Kept(st, c) \/ (x = fr /\ fr.kind = c)
  <2>1. PICK k \in 1..(n + 1) : su[k].kind = c /\ x = su[k]
    BY <1>1, <1>3 DEF Kept
  <2>. QED BY <1>1, <1>2, <2>1 DEF Kept
<1>4. ASSUME NEW x, x \in Kept(st, c) \/ (x = fr /\ fr.kind = c) PROVE x \in Kept(su, c)
  <2>1. CASE x \in Kept(st, c)
    <3>1. PICK k \in 1..n : st[k].kind = c /\ x = st[k]
      BY <1>1, <2>1 DEF Kept
    <3>2. k \in DOMAIN su /\ su[k] = x /\ su[k].kind = c
      BY <1>1, <1>2, <3>1
    <3>. QED BY <3>2 DEF Kept
  <2>2. CASE x = fr /\ fr.kind = c
    <3>1. n + 1 \in DOMAIN su /\ su[n + 1] = x /\ su[n + 1].kind = c
      BY <1>1, <1>2, <2>2
    <3>. QED BY <3>1 DEF Kept
  <2>. QED BY <1>4, <2>1, <2>2
<1>. QED BY <1>3, <1>4 DEF KeptOf, KeptOn

LEMMA PendingPush ==
  ASSUME NEW S, NEW st \in Seq(S), NEW fr \in S, NEW su, su = Append(st, fr)
  PROVE  Pending(su) = Pending(st) \union LogicOf(fr)
<1>1. KeptOn(su, st, fr, "logic")
  BY KeptPush
<1>. QED BY <1>1 DEF KeptOn, Pending, LogicOf

LEMMA BodiesPush ==
  ASSUME NEW S, NEW st \in Seq(S), NEW fr \in S, NEW su, su = Append(st, fr)
  PROVE  Bodies(su) = Bodies(st) \union BodyOf(fr)
<1>1. KeptOn(su, st, fr, "loop")
  BY KeptPush
<1>. QED BY <1>1 DEF KeptOn, Bodies, BodyOf

LEMMA NothingPending == Pending(<<>>) = {} /\ Bodies(<<>>) = {}
BY DEF Pending, Bodies, Kept

LEMMA PendingPop ==
  ASSUME NEW m \in Nat, NEW fn, NEW st, Placed(st, fn, m), st # <<>>
  PROVE  /\ Pending(st) = Pending(Under(st)) \union LogicOf(TopOf(st))
         /\ Bodies(st) = Bodies(Under(st)) \union BodyOf(TopOf(st))
<1>1. Under(st) \in Seq(FramesOf(m)) /\ TopOf(st) \in FramesOf(m)
      /\ st = Append(Under(st), TopOf(st))
  BY PlacedPop
<1>. QED BY <1>1, PendingPush, BodiesPush

LEMMA PendingAfter ==
  ASSUME NEW m \in Nat, NEW fn, NEW st, Placed(st, fn, m),
         st # <<>> => TopOf(st).kind \in Statements, NEW form \in Lasts
  PROVE  Pending(After(form, st)) = Pending(st) /\ Bodies(After(form, st)) = Bodies(st)
<1>1. CASE st = <<>>
  <2>1. After(form, st) = st
    BY <1>1 DEF After
  <2>. QED BY <2>1
<1>2. CASE st # <<>>
  <2> DEFINE o == TopOf(st)
             y == Told(o, form)
  <2>1. /\ After(form, st) = Append(Under(st), y) /\ y \in FramesOf(m)
        /\ y.kind = o.kind /\ Alike(o, y)
    BY <1>2, AfterIs
  <2>2. o.kind # "logic" /\ (o.kind = "loop" => y.body = o.body)
    BY <1>2, <2>1 DEF Statements, Alike
  <2>3. LogicOf(y) = LogicOf(o) /\ BodyOf(y) = BodyOf(o)
    BY <2>1, <2>2 DEF LogicOf, BodyOf, KeptOf
  <2>4. Under(st) \in Seq(FramesOf(m))
    BY <1>2, PlacedPop
  <2> HIDE DEF o, y
  <2>5. /\ Pending(After(form, st)) = Pending(Under(st)) \union LogicOf(y)
        /\ Bodies(After(form, st)) = Bodies(Under(st)) \union BodyOf(y)
    <3> DEFINE su == After(form, st)
    <3>1. su = Append(Under(st), y) /\ y \in FramesOf(m)
      BY <2>1
    <3> HIDE DEF su
    <3>2. Pending(su) = Pending(Under(st)) \union LogicOf(y)
      BY <2>4, <3>1, PendingPush
    <3>3. Bodies(su) = Bodies(Under(st)) \union BodyOf(y)
      BY <2>4, <3>1, BodiesPush
    <3>. QED BY <3>2, <3>3 DEF su
  <2>6. /\ Pending(st) = Pending(Under(st)) \union LogicOf(o)
        /\ Bodies(st) = Bodies(Under(st)) \union BodyOf(o)
    BY <1>2, PendingPop DEF o
  <2>. QED BY <2>3, <2>5, <2>6
<1>. QED BY <1>1, <1>2

\* What is known of a logical expression on the stack.
LEMMA PendingFacts ==
  ASSUME NEW m \in Nat, NEW fn, NEW st, Placed(st, fn, m), NEW fr \in Pending(st)
  PROVE  /\ fr \in FramesOf(m) /\ fr.kind = "logic" /\ fr.merge \in 1..m /\ fn[fr.merge] = NoBlock
         /\ fr.count \in Nat /\ fr.ready \in BOOLEAN /\ fr.current \in 1..m
         /\ Awaited(st, fr.merge)
<1>1. PICK k \in DOMAIN st : st[k].kind = "logic" /\ fr = st[k]
  BY DEF Pending, Kept
<1>2. fr \in FramesOf(m)
  BY <1>1 DEF Placed
<1>3. fr.merge \in Awaits(st, k)
  BY <1>1 DEF Awaits, AwaitsOf
<1> DEFINE t == fr.merge
<1> HIDE DEF t
<1>4. t \in Awaits(st, k)
  BY <1>3 DEF t
<1>5. fn[t] = NoBlock /\ Awaited(st, t)
  BY <1>4 DEF Placed, Awaited
<1>. QED BY <1>1, <1>2, <1>5, FrameFacts DEF t

\* No two of them have the same merge block.
LEMMA MergesApart ==
  ASSUME NEW m \in Nat, NEW fn, NEW st, Placed(st, fn, m), st # <<>>, TopOf(st).kind = "logic"
  PROVE  TopOf(st).merge \notin Merges(Under(st))
<1>1. /\ Under(st) \in Seq(FramesOf(m)) /\ TopOf(st) \in FramesOf(m)
      /\ Placed(Under(st), fn, m) /\ Joins(Under(st), TopOf(st), fn, m)
      /\ st = Append(Under(st), TopOf(st))
  BY PlacedPop, PlacedPush
<1> DEFINE b == Under(st)
           o == TopOf(st)
<1> HIDE DEF b, o
<1>2. CASE b = <<>>
  BY <1>2, NothingPending DEF Merges, b
<1>3. CASE b # <<>>
  <2>1. o.merge \in Brings(b, o)
    BY <1>3 DEF Brings, AwaitsOf, o
  <2>2. ~ Awaited(b, o.merge)
    BY <1>1, <2>1 DEF Joins, b, o
  <2>3. \A fr \in Pending(b) : Awaited(b, fr.merge)
    <3>1. Placed(b, fn, m)
      BY <1>1 DEF b
    <3>. QED BY <3>1, PendingFacts
  <2>. QED BY <2>2, <2>3 DEF Merges, b, o
<1>. QED BY <1>2, <1>3

-----------------------------------------------------------------------------
(* Blocks without a phi.                                                      *)

Phied(b) == phis[b] # {} \/ b \in Merges(stack)

LEMMA MergesAwaited ==
  ASSUME NEW m \in Nat, NEW fn, NEW st, Placed(st, fn, m), NEW b \in Merges(st)
  PROVE  b \in 1..m /\ fn[b] = NoBlock /\ Awaited(st, b)
<1>1. PICK fr \in Pending(st) : b = fr.merge
  BY DEF Merges
<1>. QED BY <1>1, PendingFacts

LEMMA FreshUnphied ==
  ASSUME BlocksInv, PhiInv, NEW b \in Blocks, b > made PROVE ~ Phied(b)
<1>1. fnOf[b] = NoBlock /\ b \notin 1..made
  BY FreshBlocks
<1>2. made \in Nat /\ Placed(stack, fnOf, made)
  BY Bounds DEF BlocksInv
<1>3. b \notin Merges(stack)
  BY <1>1, <1>2, MergesAwaited
<1>. QED BY <1>1, <1>3 DEF PhiInv, Owned, Phied

\* What the innermost construct adds to the logical expressions and the loops.
LEMMA PendingHere ==
  ASSUME BlocksInv, stack # <<>>
  PROVE  /\ Pending(stack) = Pending(Below) \union LogicOf(Top)
         /\ Bodies(stack) = Bodies(Below) \union BodyOf(Top)
<1>1. made \in Nat /\ Placed(stack, fnOf, made) /\ Top = TopOf(stack) /\ Below = Under(stack)
  BY HereFacts DEF BlocksInv
<1>. QED BY <1>1, PendingPop

LEMMA AwaitedUnphied ==
  ASSUME BlocksInv, PhiInv, stack # <<>>, Top.kind \notin {"fn", "logic"},
         NEW x \in Brings(Below, Top)
  PROVE  ~ Phied(x)
<1>1. x \in Blocks /\ fnOf[x] = NoBlock /\ ~ Awaited(Below, x)
  BY AwaitedHere
<1>2. made \in Nat /\ Placed(Below, fnOf, made)
  BY HereFacts, BelowFacts
<1>3. x \notin Merges(Below)
  BY <1>1, <1>2, MergesAwaited
<1>4. LogicOf(Top) = {}
  BY DEF LogicOf, KeptOf
<1>5. Pending(stack) = Pending(Below)
  BY <1>4, PendingHere
<1>6. x \notin Merges(stack)
  BY <1>3, <1>5 DEF Merges
<1>. QED BY <1>1, <1>6 DEF PhiInv, Owned, Phied

LEMMA AroundUnphied ==
  ASSUME BlocksInv, FlowInv, PhiInv, stack # <<>>, Top.kind = "case"
  PROVE  ~ Phied(TopOf(Below).merge)
<1> DEFINE a == TopOf(Below)
           U == Under(Below)
<1>1. /\ a.kind \in {"select", "match"} /\ Placed(U, fnOf, made) /\ a.merge \in Blocks
      /\ fnOf[a.merge] = NoBlock /\ ~ Awaited(U, a.merge)
  BY AroundFlows
<1>2. made \in Nat /\ Placed(Below, fnOf, made) /\ Below # <<>>
  BY HereFacts, BelowFacts
<1>3. a.merge \notin Merges(U)
  BY <1>1, <1>2, MergesAwaited
<1>4. Pending(Below) = Pending(U) \union LogicOf(a) /\ Pending(stack) = Pending(Below) \union LogicOf(Top)
  BY <1>2, PendingPop, PendingHere
<1>5. LogicOf(a) = {} /\ LogicOf(Top) = {}
  BY <1>1 DEF LogicOf, KeptOf
<1>6. a.merge \notin Merges(stack)
  BY <1>3, <1>4, <1>5 DEF Merges
<1>. QED BY <1>1, <1>6 DEF PhiInv, Owned, Phied

LEMMA BodyUnphied ==
  ASSUME BlocksInv, PhiInv, stack # <<>>, Top.kind = "loop"
  PROVE  ~ Phied(Top.body) /\ Top.body \in Blocks
<1>1. /\ made \in Nat /\ Placed(stack, fnOf, made) /\ Top = TopOf(stack) /\ CurrentFn # NoBlock
      /\ CurrentFn = FnAt(stack, Len(stack)) /\ made <= MaxBlocks /\ MaxBlocks \in Nat
  BY HereFacts, Bounds DEF BlocksInv
<1>2. Len(stack) \in DOMAIN stack
  <2>1. stack \in Seq(FramesOf(made))
    BY <1>1 DEF Placed
  <2>. QED BY <2>1
<1>3. fnOf[Top.body] = CurrentFn
  <2>1. Known(stack, fnOf, Len(stack)) /\ stack[Len(stack)] = Top
    BY <1>1, <1>2 DEF Placed, TopOf
  <2>. QED BY <1>1, <2>1 DEF Known
<1>4. Top.body \in 1..made
  <2>1. Top \in FramesOf(made)
    BY <1>1, PlacedPop
  <2>. QED BY <2>1, FrameFacts, <1>1
<1>5. Top.body \in Bodies(stack)
  <2>1. Top.body \in BodyOf(Top)
    BY DEF BodyOf, KeptOf
  <2>. QED BY <2>1, PendingHere
<1>6. Top.body \notin Merges(stack)
  BY <1>1, <1>3, MergesAwaited
<1>. QED BY <1>1, <1>4, <1>5, <1>6 DEF PhiInv, Phied, Blocks

-----------------------------------------------------------------------------
(* Steps that add no operand.                                                 *)

\* Blocks with a phi stay as they are and get no further entries.
Quiet == /\ phis' = phis
         /\ \A b \in Blocks : Phied(b) => SameEntries(content, content', b) /\ fnOf'[b] = fnOf[b]

\* Logical expressions and the bodies of loops afterwards.
Keeps(st) == /\ Pending(st) = Pending(stack)
             /\ \A b \in Bodies(st) : b \in Bodies(stack) \/ ~ Phied(b)

LEMMA PendingUnder ==
  ASSUME NEW m \in Nat, NEW fn, NEW st, Placed(st, fn, m), st # <<>>
  PROVE  Pending(Under(st)) \subseteq Pending(st)
BY PendingPop

LEMMA CalmHere ==
  ASSUME BlocksInv, PhiInv, stack # <<>> => Top.kind # "logic" \/ ~ Top.ready
  PROVE  Calm(stack)
<1>1. CASE stack = <<>>
  BY <1>1, NothingPending DEF Calm
<1>2. CASE stack # <<>>
  <2>1. Calm(Below) /\ Pending(stack) = Pending(Below) \union LogicOf(Top)
    BY <1>2, PendingHere DEF PhiInv
  <2>2. \A fr \in LogicOf(Top) : ~ fr.ready
    BY <1>2 DEF LogicOf, KeptOf
  <2>. QED BY <2>1, <2>2 DEF Calm
<1>. QED BY <1>1, <1>2

LEMMA QuietStep ==
  ASSUME BlocksInv, BlocksInv', PhiInv, Calm(stack), Quiet, Keeps(stack') PROVE PhiInv'
<1>1. made \in Nat /\ Placed(stack, fnOf, made) /\ made' \in Nat /\ Placed(stack', fnOf', made')
  BY Bounds DEF BlocksInv, TypeOK, Blocks
<1>2. Merges(stack') = Merges(stack)
  BY DEF Keeps, Merges
<1>3. \A b \in Blocks : phis[b] # {} => fnOf'[b] = fnOf[b] /\ SameEntries(content, content', b)
  BY DEF Quiet, Phied
<1>4. Owned(stack', fnOf', phis')
  BY <1>2, <1>3 DEF Owned, Quiet, PhiInv
<1>5. \A b \in Bodies(stack') : phis'[b] = {}
  BY DEF Keeps, Quiet, PhiInv, Phied
<1>6. ASSUME NEW fr \in Pending(stack') PROVE Gathers(fr, content', phis'[fr.merge], ins')
  <2>1. fr \in Pending(stack) /\ ~ fr.ready
    BY <1>6 DEF Keeps, Calm
  <2>2. Whole(fr.merge, content, phis[fr.merge], fr.count)
    BY <2>1 DEF PhiInv, Gathered, Gathers
  <2>3. fr.merge \in 1..made /\ fr.count \in Nat
    BY <1>1, <2>1, PendingFacts
  <2>4. fr.merge \in Blocks /\ Phied(fr.merge)
    <3>1. made <= MaxBlocks /\ MaxBlocks \in Nat
      BY Bounds DEF BlocksInv
    <3>. QED BY <1>1, <2>1, <2>3, <3>1 DEF Phied, Merges, Blocks
  <2>5. SameEntries(content, content', fr.merge) /\ phis' = phis
    BY <2>4 DEF Quiet
  <2>6. Whole(fr.merge, content', phis[fr.merge], fr.count)
    BY <2>2, <2>3, <2>5, WholeKept
  <2>. QED BY <2>1, <2>5, <2>6 DEF Gathers
<1>7. Calm(stack')
  BY DEF Keeps, Calm
<1>8. stack' # <<>> => Calm(Below')
  <2>1. stack' # <<>> => Pending(Under(stack')) \subseteq Pending(stack')
    BY <1>1, PendingUnder
  <2>2. Below' = Under(stack')
    BY DEF Below, Under
  <2>. QED BY <1>7, <2>1, <2>2 DEF Calm
<1>9. ASSUME NEW b \in Blocks, fnOf'[b] # NoBlock, phis'[b] # {}
      PROVE  \E n \in Nat : Whole(b, content', phis'[b], n)
  <2>1. phis' = phis /\ fnOf[b] # NoBlock /\ phis[b] # {} /\ SameEntries(content, content', b)
    BY <1>3, <1>9 DEF Quiet
  <2>2. PICK n \in Nat : Whole(b, content, phis[b], n)
    BY <2>1 DEF PhiInv, Joined
  <2>3. Whole(b, content', phis[b], n)
    BY <2>1, <2>2, WholeKept
  <2>. QED BY <2>1, <2>3
<1>10. Gathered(stack', content', phis', ins') /\ Joined(fnOf', content', phis')
  BY <1>6, <1>9 DEF Gathered, Joined
<1>. QED BY <1>4, <1>5, <1>8, <1>10 DEF PhiInv

KeepsPhied == \A b \in Blocks : Phied(b) => fnOf'[b] = fnOf[b]

LEMMA SameAttached ==
  ASSUME BlocksInv, NEW x, ~ Phied(x), NEW f, fnOf' = [fnOf EXCEPT ![x] = f] PROVE KeepsPhied
<1>1. fnOf \in [Blocks -> Blocks \union {NoBlock}]
  BY DEF BlocksInv, TypeOK
<1>. QED BY <1>1 DEF KeepsPhied

LEMMA QuietStay ==
  ASSUME content' = content, phis' = phis, KeepsPhied PROVE Quiet
BY DEF Quiet, KeepsPhied, SameEntries, TestOf

LEMMA QuietInsert ==
  ASSUME BlocksInv, stack # <<>>, NEW e \in InstrOf(MaxBlocks), \A t \in e.to : ~ Phied(t),
         content' = Insert(ins, e), phis' = phis, KeepsPhied
  PROVE  Quiet
<1>1. made \in Nat /\ MaxBlocks \in Nat /\ made <= MaxBlocks /\ ins \in Blocks
  BY HereFacts, Bounds DEF BlocksInv
<1>2. content \in [Blocks -> Seq(InstrOf(MaxBlocks))]
  <2>1. CodeTyped(content, MaxBlocks)
    BY <1>1, TypesHere, CodeWider
  <2>. QED BY <2>1 DEF CodeTyped
<1>3. ASSUME NEW b \in Blocks, Phied(b) PROVE SameEntries(content, content', b)
  <2>1. b \notin e.to
    BY <1>3
  <2> DEFINE ct == content'
  <2>2. ct = Insert(ins, e)
    OBVIOUS
  <2> HIDE DEF ct
  <2>3. SameEntries(content, ct, b)
    BY <1>1, <1>2, <2>1, <2>2, InsertEntries
  <2>. QED BY <2>3 DEF ct
<1>. QED BY <1>3 DEF Quiet, KeepsPhied

LEMMA InstrAny ==
  /\ Code \in InstrOf(MaxBlocks) /\ Code.to = {} /\ Ret \in InstrOf(MaxBlocks) /\ Ret.to = {}
  /\ \A b \in Blocks : Br(b) \in InstrOf(MaxBlocks) /\ Br(b).to = {b}
  /\ \A v \in Nat, b, c \in Blocks :
       CondBr(v, b, c) \in InstrOf(MaxBlocks) /\ CondBr(v, b, c).to = {b, c}
<1>1. MaxBlocks \in Nat /\ Code.to = {}
  BY Bounds DEF Code
<1>. QED BY <1>1, InstrHere DEF Blocks

LEMMA QuietBranch ==
  ASSUME BlocksInv, stack # <<>>, NEW b \in Blocks, ~ Phied(b), BranchUnlessReturn(b),
         phis' = phis, KeepsPhied
  PROVE  Quiet
<1>1. CASE content' = content
  BY <1>1, QuietStay
<1>2. CASE content' = Insert(ins, Br(b))
  <2> DEFINE e == Br(b)
  <2>1. e \in InstrOf(MaxBlocks) /\ \A t \in e.to : ~ Phied(t)
    BY InstrAny
  <2>2. content' = Insert(ins, e)
    BY <1>2
  <2> HIDE DEF e
  <2>. QED BY <2>1, <2>2, QuietInsert
<1>. QED BY <1>1, <1>2 DEF BranchUnlessReturn

-----------------------------------------------------------------------------
(* The stack after such a step.                                               *)

LEMMA KeepsItself == Keeps(stack)
BY DEF Keeps

LEMMA KeepsPush ==
  ASSUME NEW S, NEW st \in Seq(S), Keeps(st), NEW fr, fr.kind # "logic",
         fr.kind = "loop" => ~ Phied(fr.body), NEW su, su = Append(st, fr)
  PROVE  Keeps(su)
<1> DEFINE T == S \union {fr}
<1>1. st \in Seq(T) /\ fr \in T
  OBVIOUS
<1> HIDE DEF T
<1>2. Pending(su) = Pending(st) \union LogicOf(fr)
  BY <1>1, PendingPush
<1>4. Bodies(su) = Bodies(st) \union BodyOf(fr)
  BY <1>1, BodiesPush
<1>3. LogicOf(fr) = {} /\ \A b \in BodyOf(fr) : ~ Phied(b)
  BY DEF LogicOf, BodyOf, KeptOf
<1>. QED BY <1>2, <1>3, <1>4 DEF Keeps

LEMMA KeepsAfter ==
  ASSUME NEW m \in Nat, NEW fn, NEW st, Placed(st, fn, m), Keeps(st),
         st # <<>> => TopOf(st).kind \in Statements, NEW form \in Lasts
  PROVE  Keeps(After(form, st))
<1>1. Pending(After(form, st)) = Pending(st) /\ Bodies(After(form, st)) = Bodies(st)
  BY PendingAfter
<1>. QED BY <1>1 DEF Keeps

LEMMA KeepsBelow ==
  ASSUME BlocksInv, stack # <<>>, Top.kind # "logic"
  PROVE  Keeps(Below) /\ Placed(Below, fnOf, made) /\ made \in Nat /\ Below \in Seq(FramesOf(made))
<1>1. LogicOf(Top) = {}
  BY DEF LogicOf, KeptOf
<1>2. Placed(stack, fnOf, made) /\ made \in Nat /\ Below = Under(stack)
  BY HereFacts DEF BlocksInv
<1>3. Placed(Below, fnOf, made) /\ Below \in Seq(FramesOf(made))
  BY <1>2, PlacedPop
<1>. QED BY <1>1, <1>2, <1>3, PendingHere DEF Keeps

\* Back at the statement around a construct.
LEMMA KeepsOutside ==
  ASSUME BlocksInv, stack # <<>>, Top.kind # "logic", NEW form \in Lasts,
         Below # <<>> => TopOf(Below).kind \in Statements
  PROVE  Keeps(After(form, Below))
<1>1. Keeps(Below) /\ Placed(Below, fnOf, made) /\ made \in Nat
  BY KeepsBelow
<1>. QED BY <1>1, KeepsAfter

LEMMA KeepsHere ==
  ASSUME BlocksInv, stack # <<>>, Top.kind \in Statements, NEW form \in Lasts
  PROVE  Keeps(After(form, stack))
<1>1. Placed(stack, fnOf, made) /\ made \in Nat /\ Top = TopOf(stack)
  BY HereFacts DEF BlocksInv
<1>. QED BY <1>1, KeepsItself, KeepsAfter

LEMMA StackTyped == ASSUME BlocksInv PROVE stack \in Seq(FramesOf(made)) /\ Keeps(stack)
BY KeepsItself DEF BlocksInv, TypeOK

-----------------------------------------------------------------------------
(* Statements, branches and loops.                                            *)

LEMMA StatementPhis ==
  ASSUME BlocksInv, PhiInv, BlocksInv', TvisitStatement \/ TvisitReturnStatement PROVE PhiInv'
<1>1. /\ AtStatement
      /\ content' = Insert(ins, Code) \/ content' = Insert(ins, Ret)
      /\ stack' = After("statement", stack) \/ stack' = After("return", stack)
      /\ fnOf' = fnOf /\ phis' = phis
  BY DEF TvisitStatement, TvisitReturnStatement
<1>2. stack # <<>> /\ Top.kind \in Statements /\ Top.kind # "logic"
  BY <1>1, AtStatementFacts DEF Statements
<1>3. KeepsPhied
  BY <1>1 DEF KeepsPhied
<1>4. Quiet
  <2>1. /\ Code \in InstrOf(MaxBlocks) /\ \A t \in Code.to : ~ Phied(t)
        /\ Ret \in InstrOf(MaxBlocks) /\ \A t \in Ret.to : ~ Phied(t)
    BY InstrAny
  <2>. QED BY <1>1, <1>2, <1>3, <2>1, QuietInsert
<1>5. Keeps(stack')
  <2>1. "statement" \in Lasts /\ "return" \in Lasts
    BY DEF Lasts
  <2>. QED BY <1>1, <1>2, <2>1, KeepsHere
<1>. QED BY <1>2, <1>4, <1>5, CalmHere, QuietStep

LEMMA BlockPhis ==
  ASSUME BlocksInv, PhiInv, BlocksInv', TvisitBlock PROVE PhiInv'
<1> DEFINE fr == [kind |-> "block", last |-> "none"]
<1>1. /\ AtStatement /\ content' = content /\ stack' = Append(stack, fr)
      /\ fnOf' = fnOf /\ phis' = phis
  BY DEF TvisitBlock
<1>2. stack # <<>> /\ Top.kind # "logic" /\ fr.kind = "block"
  BY <1>1, AtStatementFacts DEF Statements
<1> HIDE DEF fr
<1>3. Quiet
  BY <1>1, QuietStay DEF KeepsPhied
<1>4. Keeps(stack')
  BY <1>1, <1>2, StackTyped, KeepsPush
<1>. QED BY <1>2, <1>3, <1>4, CalmHere, QuietStep

LEMMA EndBlockPhis ==
  ASSUME BlocksInv, PhiInv, BlocksInv', endBlock PROVE PhiInv'
<1>1. /\ stack # <<>> /\ Top.kind = "block" /\ content' = content /\ fnOf' = fnOf /\ phis' = phis
      /\ stack' = After("statement", Below) \/ stack' = After("return", Below)
  BY DEF endBlock
<1>2. TopOf(Below).kind \in Statements
  <2>1. Fits(TopOf(Below), Top)
    BY <1>1, BelowFacts
  <2>. QED BY <1>1, <2>1 DEF Fits, IsExpression
<1>3. Quiet
  BY <1>1, QuietStay DEF KeepsPhied
<1>4. Keeps(stack')
  <2>1. "statement" \in Lasts /\ "return" \in Lasts
    BY DEF Lasts
  <2>. QED BY <1>1, <1>2, <2>1, KeepsOutside
<1>. QED BY <1>1, <1>3, <1>4, CalmHere, QuietStep

LEMMA ConditionalPhis ==
  ASSUME BlocksInv, PhiInv, BlocksInv', NEW hasElse \in BOOLEAN, conditional(hasElse) PROVE PhiInv'
<1> DEFINE m2 == IF hasElse THEN made + 3 ELSE made + 2
           fr == [kind |-> "then", else |-> made + 2, rest |-> m2, was |-> live, last |-> "none"]
           e == CondBr(0, made + 1, made + 2)
<1>1. /\ AtStatement /\ made + (m2 - made) <= MaxBlocks
      /\ fnOf' = [fnOf EXCEPT ![made + 1] = CurrentFn] /\ content' = Insert(ins, e)
      /\ stack' = Append(stack, fr) /\ phis' = phis
  BY DEF conditional, Opens
<1>2. stack # <<>> /\ Top.kind # "logic" /\ fr.kind = "then"
  BY <1>1, AtStatementFacts DEF Statements
<1>3. /\ made + 1 \in Blocks /\ made + 2 \in Blocks /\ made + 1 > made /\ made + 2 > made
  <2>1. made \in Nat /\ MaxBlocks \in Nat /\ made + 2 <= m2 /\ m2 \in Nat
    BY TypesHere, Bounds
  <2>2. m2 <= MaxBlocks
    BY <1>1, <2>1
  <2>. QED BY <2>1, <2>2 DEF Blocks
<1>4. ~ Phied(made + 1) /\ ~ Phied(made + 2)
  BY <1>3, FreshUnphied
<1>5. e \in InstrOf(MaxBlocks) /\ \A t \in e.to : ~ Phied(t)
  BY <1>3, <1>4, InstrAny
<1> HIDE DEF fr, e
<1>6. KeepsPhied
  BY <1>1, <1>4, SameAttached
<1>7. Quiet
  BY <1>1, <1>2, <1>5, <1>6, QuietInsert
<1>8. Keeps(stack')
  BY <1>1, <1>2, StackTyped, KeepsPush
<1>. QED BY <1>2, <1>7, <1>8, CalmHere, QuietStep

LEMMA LoopPhis ==
  ASSUME BlocksInv, PhiInv, BlocksInv', loop PROVE PhiInv'
<1> DEFINE fr == [kind |-> "loop", body |-> made + 1, rest |-> made + 2, was |-> live, last |-> "none"]
           e == CondBr(0, made + 1, made + 2)
<1>1. /\ AtStatement /\ made + 2 <= MaxBlocks
      /\ fnOf' = [fnOf EXCEPT ![made + 1] = CurrentFn] /\ content' = Insert(ins, e)
      /\ stack' = Append(stack, fr) /\ phis' = phis
  BY DEF loop, Opens
<1>2. stack # <<>> /\ Top.kind # "logic" /\ fr.kind = "loop" /\ fr.body = made + 1
  BY <1>1, AtStatementFacts DEF Statements
<1>3. /\ made + 1 \in Blocks /\ made + 2 \in Blocks /\ made + 1 > made /\ made + 2 > made
  BY <1>1, TypesHere, Bounds DEF Blocks
<1>4. ~ Phied(made + 1) /\ ~ Phied(made + 2)
  BY <1>3, FreshUnphied
<1>5. e \in InstrOf(MaxBlocks) /\ \A t \in e.to : ~ Phied(t)
  BY <1>3, <1>4, InstrAny
<1> HIDE DEF fr, e
<1>6. KeepsPhied
  BY <1>1, <1>4, SameAttached
<1>7. Quiet
  BY <1>1, <1>2, <1>5, <1>6, QuietInsert
<1>8. Keeps(stack')
  BY <1>1, <1>2, <1>4, StackTyped, KeepsPush
<1>. QED BY <1>2, <1>7, <1>8, CalmHere, QuietStep

\* The innermost construct ends with a branch, or two, to blocks that it waits for.
LEMMA EndThenPhis ==
  ASSUME BlocksInv, PhiInv, BlocksInv', endThen PROVE PhiInv'
<1> DEFINE fr == [kind |-> "else", rest |-> Top.rest, out |-> live, last |-> "none"]
<1>1. /\ stack # <<>> /\ Top.kind = "then" /\ BranchUnlessReturn(Top.rest)
      /\ fnOf' = [fnOf EXCEPT ![Top.else] = CurrentFn] /\ phis' = phis
      /\ stack' = After("statement", Below) \/ stack' = Append(Below, fr)
  BY DEF endThen, Replace
<1>2. Brings(Below, Top) = {Top.else, Top.rest} /\ Fits(TopOf(Below), Top) /\ Below # <<>>
  BY <1>1, BelowFacts DEF AwaitsOf
<1>3. TopOf(Below).kind \in Statements /\ fr.kind = "else"
  BY <1>1, <1>2 DEF Fits, IsExpression
<1> HIDE DEF fr
<1>4. ~ Phied(Top.else) /\ ~ Phied(Top.rest) /\ Top.rest \in Blocks
  BY <1>1, <1>2, AwaitedUnphied, AwaitedHere
<1>5. KeepsPhied
  BY <1>1, <1>4, SameAttached
<1>6. Quiet
  BY <1>1, <1>4, <1>5, QuietBranch
<1>7. Keeps(stack')
  <2>1. "statement" \in Lasts /\ Below \in Seq(FramesOf(made)) /\ Keeps(Below)
    BY <1>1, KeepsBelow DEF Lasts
  <2>2. CASE stack' = After("statement", Below)
    BY <1>1, <1>3, <2>1, <2>2, KeepsOutside
  <2>3. CASE stack' = Append(Below, fr)
    BY <1>3, <2>1, <2>3, KeepsPush
  <2>. QED BY <1>1, <2>2, <2>3
<1>. QED BY <1>1, <1>6, <1>7, CalmHere, QuietStep

LEMMA EndElsePhis ==
  ASSUME BlocksInv, PhiInv, BlocksInv', endElse PROVE PhiInv'
<1>1. /\ stack # <<>> /\ Top.kind = "else" /\ BranchUnlessReturn(Top.rest)
      /\ fnOf' = [fnOf EXCEPT ![Top.rest] = CurrentFn] /\ phis' = phis
      /\ stack' = After("statement", Below)
  BY DEF endElse
<1>2. Brings(Below, Top) = {Top.rest} /\ Fits(TopOf(Below), Top) /\ Below # <<>>
  BY <1>1, BelowFacts DEF AwaitsOf
<1>3. TopOf(Below).kind \in Statements
  BY <1>1, <1>2 DEF Fits, IsExpression
<1>4. ~ Phied(Top.rest) /\ Top.rest \in Blocks
  BY <1>1, <1>2, AwaitedUnphied, AwaitedHere
<1>5. KeepsPhied
  BY <1>1, <1>4, SameAttached
<1>6. Quiet
  BY <1>1, <1>4, <1>5, QuietBranch
<1>7. Keeps(stack')
  <2>1. "statement" \in Lasts
    BY DEF Lasts
  <2>. QED BY <1>1, <1>3, <2>1, KeepsOutside
<1>. QED BY <1>1, <1>6, <1>7, CalmHere, QuietStep

LEMMA EndLoopPhis ==
  ASSUME BlocksInv, PhiInv, BlocksInv', endLoop PROVE PhiInv'
<1> DEFINE e == CondBr(0, Top.body, Top.rest)
<1>1. /\ stack # <<>> /\ Top.kind = "loop" /\ content' = Insert(ins, e)
      /\ fnOf' = [fnOf EXCEPT ![Top.rest] = CurrentFn] /\ phis' = phis
      /\ stack' = After("statement", Below)
  BY DEF endLoop
<1>2. Brings(Below, Top) = {Top.rest} /\ Fits(TopOf(Below), Top) /\ Below # <<>>
  BY <1>1, BelowFacts DEF AwaitsOf
<1>3. TopOf(Below).kind \in Statements
  BY <1>1, <1>2 DEF Fits, IsExpression
<1>4. ~ Phied(Top.rest) /\ Top.rest \in Blocks /\ ~ Phied(Top.body) /\ Top.body \in Blocks
  BY <1>1, <1>2, AwaitedUnphied, AwaitedHere, BodyUnphied
<1>5. e \in InstrOf(MaxBlocks) /\ \A t \in e.to : ~ Phied(t)
  BY <1>4, InstrAny
<1> HIDE DEF e
<1>6. KeepsPhied
  BY <1>1, <1>4, SameAttached
<1>7. Quiet
  BY <1>1, <1>5, <1>6, QuietInsert
<1>8. Keeps(stack')
  <2>1. "statement" \in Lasts
    BY DEF Lasts
  <2>. QED BY <1>1, <1>3, <2>1, KeepsOutside
<1>. QED BY <1>1, <1>7, <1>8, CalmHere, QuietStep

-----------------------------------------------------------------------------
(* Alternatives.                                                              *)

LEMMA SelectPhis ==
  ASSUME BlocksInv, PhiInv, BlocksInv', select PROVE PhiInv'
<1> DEFINE fr == [kind |-> "select", merge |-> made + 1, else |-> NoBlock, more |-> TRUE, was |-> live]
<1>1. /\ AtStatement /\ fnOf' = fnOf /\ content' = content /\ phis' = phis
      /\ stack' = Append(stack, fr)
  BY DEF select
<1>2. stack # <<>> /\ Top.kind # "logic" /\ fr.kind = "select"
  BY <1>1, AtStatementFacts DEF Statements
<1> HIDE DEF fr
<1>3. Quiet
  BY <1>1, QuietStay DEF KeepsPhied
<1>4. Keeps(stack')
  BY <1>1, <1>2, StackTyped, KeepsPush
<1>. QED BY <1>2, <1>3, <1>4, CalmHere, QuietStep

\* The alternatives stay in the construct, whatever is noted of them in its frame.
LEMMA KeepsCase ==
  ASSUME BlocksInv, stack # <<>>, Top.kind # "logic", NEW fr, fr.kind \in {"select", "match"},
         stack' = Append(Append(Below, fr), CaseFrame)
  PROVE  Keeps(stack')
<1> DEFINE S == FramesOf(made) \union {fr}
           b == Append(Below, fr)
<1>1. Below \in Seq(FramesOf(made)) /\ Keeps(Below)
  BY KeepsBelow
<1>2. b \in Seq(S)
  BY <1>1
<1>3. b = Append(Below, fr)
  OBVIOUS
<1> HIDE DEF b, S
<1>4. Keeps(b)
  BY <1>1, <1>3, KeepsPush
<1>5. CaseFrame.kind = "case"
  BY DEF CaseFrame
<1>6. stack' = Append(b, CaseFrame)
  BY <1>3
<1>. QED BY <1>2, <1>4, <1>5, <1>6, KeepsPush

LEMMA SelectCasePhis ==
  ASSUME BlocksInv, PhiInv, BlocksInv', NEW isLast \in BOOLEAN, selectCase(isLast) PROVE PhiInv'
<1> DEFINE else == IF isLast THEN Top.merge ELSE made + 2
           m2 == IF isLast THEN made + 1 ELSE made + 2
           fr == WithElse(Top, else, ~ isLast)
           e == CondBr(0, made + 1, else)
<1>1. /\ stack # <<>> /\ Top.kind = "select" /\ m2 <= MaxBlocks
      /\ fnOf' = [fnOf EXCEPT ![made + 1] = CurrentFn] /\ content' = Insert(ins, e)
      /\ stack' = Append(Append(Below, fr), CaseFrame) /\ phis' = phis
  BY DEF selectCase, Replace, CaseFrame, WithElse
<1>2. Brings(Below, Top) = {Top.merge}
  BY <1>1, BelowFacts DEF AwaitsOf
<1>3. Top.merge \in Blocks /\ ~ Phied(Top.merge)
  BY <1>1, <1>2, AwaitedHere, AwaitedUnphied
<1>4. made + 1 \in Blocks /\ made + 1 > made /\ (~ isLast => made + 2 \in Blocks /\ made + 2 > made)
  BY <1>1, TypesHere, Bounds DEF Blocks
<1>5. ~ Phied(made + 1) /\ (~ isLast => ~ Phied(made + 2))
  BY <1>4, FreshUnphied
<1>6. else \in Blocks /\ ~ Phied(else)
  BY <1>3, <1>4, <1>5
<1>7. fr.kind = "select"
  <2>1. Top \in FramesOf(made) /\ made \in Nat
    BY <1>1, HereFacts, BelowFacts
  <2>2. else \in 1..MaxBlocks /\ MaxBlocks \in Nat /\ made <= MaxBlocks
    BY <1>6, Bounds DEF Blocks, BlocksInv
  <2> HIDE DEF else
  <2> DEFINE more == ~ isLast
  <2>3. more \in BOOLEAN
    OBVIOUS
  <2> HIDE DEF more
  <2>4. WithElse(Top, else, more).kind = "select"
    BY <1>1, <2>1, <2>2, <2>3, SelectFrame
  <2>. QED BY <2>4 DEF more
<1> HIDE DEF else, fr
<1>8. e \in InstrOf(MaxBlocks) /\ \A t \in e.to : ~ Phied(t)
  BY <1>4, <1>5, <1>6, InstrAny
<1> HIDE DEF e
<1>9. KeepsPhied
  BY <1>1, <1>5, SameAttached
<1>10. Quiet
  BY <1>1, <1>8, <1>9, QuietInsert
<1>11. Keeps(stack')
  BY <1>1, <1>7, KeepsCase
<1>. QED BY <1>1, <1>10, <1>11, CalmHere, QuietStep

LEMMA MatchPhis ==
  ASSUME BlocksInv, PhiInv, BlocksInv', match PROVE PhiInv'
<1> DEFINE fr == [kind |-> "match", merge |-> made + 1, switch |-> ins, cases |-> 0, was |-> live]
           e == [op |-> "switch", to |-> {made + 1}, on |-> 0]
<1>1. /\ AtStatement /\ made + 2 <= MaxBlocks /\ fnOf' = fnOf /\ content' = Insert(ins, e)
      /\ stack' = Append(stack, fr) /\ phis' = phis
  BY DEF match, Opens
<1>2. stack # <<>> /\ Top.kind # "logic" /\ fr.kind = "match"
  BY <1>1, AtStatementFacts DEF Statements
<1>3. made + 1 \in Blocks /\ made + 1 > made
  BY <1>1, TypesHere, Bounds DEF Blocks
<1>4. ~ Phied(made + 1)
  BY <1>3, FreshUnphied
<1>5. e \in InstrOf(MaxBlocks) /\ \A t \in e.to : ~ Phied(t)
  BY <1>3, <1>4 DEF InstrOf, Blocks
<1> HIDE DEF fr, e
<1>6. Quiet
  BY <1>1, <1>2, <1>5, QuietInsert DEF KeepsPhied
<1>7. Keeps(stack')
  BY <1>1, <1>2, StackTyped, KeepsPush
<1>. QED BY <1>2, <1>6, <1>7, CalmHere, QuietStep

\* A case that is added to a switch changes nothing for other blocks.
LEMMA AddCaseEntries ==
  ASSUME NEW w, NEW x, NEW merge, NEW ct, NEW ct2, NEW b, b # x, w # x,
         ct[x] = <<>>, ct2[x] = <<Code>>, ct2[w] = AddCase(ct[w], merge, x),
         \A c \in Blocks : c # x /\ c # w => ct2[c] = ct[c]
  PROVE  SameEntries(ct, ct2, b)
<1>1. ASSUME NEW c \in Blocks, NEW k \in Nat
      PROVE  /\ Enters(ct2, b, c, k) <=> Enters(ct, b, c, k)
             /\ Enters(ct, b, c, k) => TestOf(ct2, c, k) = TestOf(ct, c, k)
  <2>1. CASE c = x
    <3>1. DOMAIN <<Code>> = {1} /\ <<Code>>[1] = Code /\ Code.to = {}
      BY DEF Code
    <3>2. ~ Enters(ct2, b, x, k) /\ ~ Enters(ct, b, x, k)
      BY <3>1 DEF Enters
    <3>. QED BY <2>1, <3>2
  <2>2. CASE c = w
    <3>1. DOMAIN ct2[w] = DOMAIN ct[w]
      BY DEF AddCase
    <3>2. ASSUME k \in DOMAIN ct[w]
          PROVE  /\ ct2[w][k] = ct[w][k] \/ ct2[w][k] = [ct[w][k] EXCEPT !.to = @ \union {x}]
      BY <3>2 DEF AddCase
    <3>3. ASSUME k \in DOMAIN ct[w], b \in ct2[w][k].to PROVE b \in ct[w][k].to
      <4>1. CASE ct2[w][k] = ct[w][k]
        BY <3>3, <4>1
      <4>2. CASE ct2[w][k] = [ct[w][k] EXCEPT !.to = @ \union {x}]
        BY <3>3, <4>2
      <4>. QED BY <3>2, <3>3, <4>1, <4>2
    <3>4. ASSUME k \in DOMAIN ct[w], b \in ct[w][k].to
          PROVE  b \in ct2[w][k].to /\ ct2[w][k].on = ct[w][k].on
      <4>1. CASE ct2[w][k] = ct[w][k]
        BY <3>4, <4>1
      <4>2. CASE ct2[w][k] = [ct[w][k] EXCEPT !.to = @ \union {x}]
        BY <3>4, <4>2
      <4>. QED BY <3>2, <3>4, <4>1, <4>2
    <3>. QED BY <2>2, <3>1, <3>3, <3>4 DEF Enters, TestOf
  <2>3. CASE c # x /\ c # w
    BY <2>3 DEF Enters, TestOf
  <2>. QED BY <2>1, <2>2, <2>3
<1>. QED BY <1>1 DEF SameEntries

LEMMA MatchCasePhis ==
  ASSUME BlocksInv, PhiInv, BlocksInv', matchCase PROVE PhiInv'
<1> DEFINE x == made + 1
           w == Top.switch
           new == AddCase(content[w], Top.merge, x)
           fr == WithCase(Top)
<1>1. /\ stack # <<>> /\ Top.kind = "match" /\ made < MaxBlocks
      /\ fnOf' = [fnOf EXCEPT ![x] = CurrentFn]
      /\ content' = [content EXCEPT ![w] = new, ![x] = <<Code>>]
      /\ stack' = Append(Append(Below, fr), CaseFrame) /\ phis' = phis
  BY DEF matchCase, Replace, CaseFrame, WithCase
<1>2. Top \in FramesOf(made) /\ made \in Nat /\ MaxBlocks \in Nat
  BY <1>1, HereFacts, BelowFacts, Bounds
<1>3. fr.kind = "match"
  BY <1>1, <1>2, MatchFrame
<1>4. w \in 1..made
  BY <1>1, <1>2, FrameFacts
<1>5. x \in Blocks /\ x > made /\ w \in Blocks /\ w # x
  BY <1>1, <1>2, <1>4 DEF Blocks
<1>6. ~ Phied(x) /\ content[x] = <<>>
  BY <1>5, FreshUnphied, FreshBlocks
<1> HIDE DEF x, w, fr
<1>7. /\ content'[x] = <<Code>> /\ content'[w] = new
      /\ \A c \in Blocks : c # x /\ c # w => content'[c] = content[c]
  <2>1. content \in [Blocks -> Seq(Instructions)]
    BY DEF BlocksInv, TypeOK
  <2> HIDE DEF new
  <2>. QED BY <1>1, <1>5, <2>1
<1>8. KeepsPhied
  BY <1>1, <1>6, SameAttached
<1>9. ASSUME NEW b \in Blocks, Phied(b) PROVE SameEntries(content, content', b)
  <2>1. b # x
    BY <1>6, <1>9
  <2> DEFINE ct == content'
  <2>2. /\ ct[x] = <<Code>> /\ ct[w] = AddCase(content[w], Top.merge, x)
        /\ \A c \in Blocks : c # x /\ c # w => ct[c] = content[c]
    BY <1>7
  <2> HIDE DEF ct
  <2>3. SameEntries(content, ct, b)
    BY <1>5, <1>6, <2>1, <2>2, AddCaseEntries
  <2>. QED BY <2>3 DEF ct
<1>10. Quiet
  BY <1>1, <1>8, <1>9 DEF Quiet, KeepsPhied
<1>11. Keeps(stack')
  BY <1>1, <1>3, KeepsCase
<1>. QED BY <1>1, <1>10, <1>11, CalmHere, QuietStep

LEMMA EndCasePhis ==
  ASSUME BlocksInv, FlowInv, PhiInv, BlocksInv', endCase PROVE PhiInv'
<1> DEFINE a == TopOf(Below)
<1>1. /\ stack # <<>> /\ Top.kind = "case" /\ BranchUnlessReturn(a.merge)
      /\ fnOf' = IF a.kind = "select" /\ a.more THEN [fnOf EXCEPT ![a.else] = CurrentFn] ELSE fnOf
      /\ stack' = Below /\ phis' = phis
  BY DEF endCase, TopOf
<1>2. ~ Phied(a.merge) /\ a.merge \in Blocks
  BY <1>1, AroundUnphied, AroundFlows
<1>3. KeepsPhied
  <2>1. CASE a.kind = "select" /\ a.more
    <3>1. ~ Phied(a.else)
      <4>1. a.else \in Brings(Below, Top)
        BY <1>1, <2>1, AroundFacts
      <4>. QED BY <1>1, <4>1, AwaitedUnphied
    <3>. QED BY <1>1, <2>1, <3>1, SameAttached
  <2>2. CASE ~ (a.kind = "select" /\ a.more)
    BY <1>1, <2>2 DEF KeepsPhied
  <2>. QED BY <2>1, <2>2
<1> HIDE DEF a
<1>4. Quiet
  BY <1>1, <1>2, <1>3, QuietBranch
<1>5. Keeps(stack')
  BY <1>1, KeepsBelow
<1>. QED BY <1>1, <1>4, <1>5, CalmHere, QuietStep

LEMMA EndAlternativesPhis ==
  ASSUME BlocksInv, PhiInv, BlocksInv', endAlternatives PROVE PhiInv'
<1>1. /\ stack # <<>> /\ Top.kind \in {"select", "match"} /\ content' = content
      /\ fnOf' = [fnOf EXCEPT ![Top.merge] = CurrentFn] /\ phis' = phis
      /\ stack' = After("statement", Below)
  BY DEF endAlternatives
<1>2. Brings(Below, Top) = {Top.merge} /\ Fits(TopOf(Below), Top) /\ Below # <<>>
  BY <1>1, BelowFacts DEF AwaitsOf
<1>3. TopOf(Below).kind \in Statements
  BY <1>1, <1>2 DEF Fits, IsExpression
<1>4. ~ Phied(Top.merge)
  BY <1>1, <1>2, AwaitedUnphied
<1>5. KeepsPhied
  BY <1>1, <1>4, SameAttached
<1>6. Quiet
  BY <1>1, <1>5, QuietStay
<1>7. Keeps(stack')
  <2>1. "statement" \in Lasts
    BY DEF Lasts
  <2>. QED BY <1>1, <1>3, <2>1, KeepsOutside
<1>. QED BY <1>1, <1>6, <1>7, CalmHere, QuietStep

-----------------------------------------------------------------------------
(* Functions and lambdas.                                                     *)

LEMMA EnterPhis ==
  ASSUME BlocksInv, PhiInv, BlocksInv', NEW proc \in BOOLEAN, NEW lambda \in BOOLEAN,
         EnterBody(proc, lambda), stack # <<>> => Top.kind # "logic" \/ ~ Top.ready
  PROVE  PhiInv'
<1> DEFINE fr == [kind |-> "fn", entry |-> made + 1, proc |-> proc, lambda |-> lambda,
                  saved |-> ins, was |-> live, last |-> "none"]
<1>1. /\ made < MaxBlocks /\ fnOf' = [fnOf EXCEPT ![made + 1] = made + 1] /\ content' = content
      /\ stack' = Append(stack, fr) /\ phis' = phis
  BY DEF EnterBody
<1>2. made + 1 \in Blocks /\ made + 1 > made
  BY <1>1, TypesHere, Bounds DEF Blocks
<1>3. ~ Phied(made + 1) /\ fr.kind = "fn"
  BY <1>2, FreshUnphied
<1> HIDE DEF fr
<1>4. KeepsPhied
  BY <1>1, <1>3, SameAttached
<1>5. Quiet
  BY <1>1, <1>4, QuietStay
<1>6. Keeps(stack')
  BY <1>1, <1>3, StackTyped, KeepsPush
<1>. QED BY <1>5, <1>6, CalmHere, QuietStep

LEMMA InvokeablePhis ==
  ASSUME BlocksInv, PhiInv, BlocksInv', NEW proc \in BOOLEAN, visitInvokeable(proc) PROVE PhiInv'
<1>1. (stack = <<>> \/ AtStatement) /\ EnterBody(proc, FALSE)
  BY DEF visitInvokeable
<1>2. stack # <<>> => Top.kind # "logic"
  BY <1>1, AtStatementFacts DEF Statements
<1>. QED BY <1>1, <1>2, EnterPhis

LEMMA LambdaPhis ==
  ASSUME BlocksInv, PhiInv, BlocksInv', TvisitLambdaConstExpr PROVE PhiInv'
<1>1. AtExpression /\ EnterBody(FALSE, TRUE)
  BY DEF TvisitLambdaConstExpr
<1>2. stack # <<>> => Top.kind # "logic" \/ ~ Top.ready
  BY <1>1 DEF AtExpression, AtStatement
<1>. QED BY <1>1, <1>2, EnterPhis

LEMMA EndLambdaPhis ==
  ASSUME BlocksInv, PhiInv, BlocksInv', endLambda PROVE PhiInv'
<1>1. /\ stack # <<>> /\ Top.kind = "fn" /\ stack' = Below
      /\ fnOf' = fnOf /\ content' = content /\ phis' = phis
  BY DEF endLambda
<1>2. Quiet /\ Keeps(stack')
  BY <1>1, QuietStay, KeepsBelow DEF KeepsPhied
<1>. QED BY <1>1, <1>2, CalmHere, QuietStep

LEMMA EndInvokeablePhis ==
  ASSUME BlocksInv, PhiInv, BlocksInv', endInvokeable PROVE PhiInv'
<1>1. /\ stack # <<>> /\ Top.kind = "fn" /\ ~ Top.lambda /\ stack' = After("statement", Below)
      /\ content' = content \/ content' = Insert(ins, Ret)
      /\ fnOf' = fnOf /\ phis' = phis
  BY DEF endInvokeable
<1>2. KeepsPhied
  BY <1>1 DEF KeepsPhied
<1>3. Quiet
  <2>1. Ret \in InstrOf(MaxBlocks) /\ \A t \in Ret.to : ~ Phied(t)
    BY InstrAny
  <2>. QED BY <1>1, <1>2, <2>1, QuietStay, QuietInsert
<1>4. Below # <<>> => TopOf(Below).kind \in Statements
  <2>1. StandsOn(Below, Top)
    BY <1>1, LeftFacts
  <2>. QED BY <1>1, <2>1 DEF StandsOn, Fits, IsExpression, TopOf
<1>5. Keeps(stack')
  <2>1. "statement" \in Lasts
    BY DEF Lasts
  <2>. QED BY <1>1, <1>4, <2>1, KeepsOutside
<1>. QED BY <1>1, <1>3, <1>5, CalmHere, QuietStep

-----------------------------------------------------------------------------
(* Logical expressions.                                                       *)

LEMMA BodiesAttached ==
  ASSUME NEW m \in Nat, NEW fn, NEW st, Placed(st, fn, m), NEW b \in Bodies(st)
  PROVE  b \in 1..m /\ fn[b] # NoBlock
<1>1. PICK k \in DOMAIN st : st[k].kind = "loop" /\ b = st[k].body
  BY DEF Bodies, Kept
<1>2. st \in Seq(FramesOf(m)) /\ Known(st, fn, k)
  BY <1>1 DEF Placed
<1>3. k \in 1..Len(st) /\ st[k] \in FramesOf(m)
  BY <1>1, <1>2
<1>4. FnAt(st, k) \in 1..m
  BY <1>3, FnAtIn
<1>5. fn[b] = FnAt(st, k)
  BY <1>1, <1>2 DEF Known
<1>6. b \in 1..m
  BY <1>1, <1>3, FrameFacts
<1>. QED BY <1>4, <1>5, <1>6 DEF NoBlock

\* The expressions around the one that gets an operand.
LEMMA GatheredKept ==
  ASSUME BlocksInv, PhiInv, NEW st, Pending(st) \subseteq Pending(stack), Calm(st),
         NEW ct2, NEW ph2, NEW i2,
         \A b \in Merges(st) : SameEntries(content, ct2, b) /\ ph2[b] = phis[b]
  PROVE  Gathered(st, ct2, ph2, i2)
<1>1. made \in Nat /\ Placed(stack, fnOf, made)
  BY Bounds DEF BlocksInv
<1>2. ASSUME NEW fr \in Pending(st) PROVE Gathers(fr, ct2, ph2[fr.merge], i2)
  <2>1. fr \in Pending(stack) /\ ~ fr.ready /\ fr.merge \in Merges(st)
    BY <1>2 DEF Calm, Merges
  <2>2. Whole(fr.merge, content, phis[fr.merge], fr.count)
    BY <2>1 DEF PhiInv, Gathered, Gathers
  <2>3. fr.count \in Nat
    BY <1>1, <2>1, PendingFacts
  <2>4. SameEntries(content, ct2, fr.merge) /\ ph2[fr.merge] = phis[fr.merge]
    BY <2>1
  <2>5. Whole(fr.merge, ct2, phis[fr.merge], fr.count)
    BY <2>2, <2>3, <2>4, WholeKept
  <2>. QED BY <2>1, <2>4, <2>5 DEF Gathers
<1>. QED BY <1>2 DEF Gathered

\* The expressions that ended.
LEMMA JoinedKept ==
  ASSUME PhiInv, NEW fn2, NEW ct2, NEW ph2,
         \A b \in Blocks : fn2[b] # NoBlock /\ ph2[b] # {} =>
            \/ fnOf[b] # NoBlock /\ ph2[b] = phis[b] /\ SameEntries(content, ct2, b)
            \/ \E n \in Nat : Whole(b, ct2, ph2[b], n)
  PROVE  Joined(fn2, ct2, ph2)
<1>1. ASSUME NEW b \in Blocks, fnOf[b] # NoBlock, ph2[b] = phis[b], ph2[b] # {},
             SameEntries(content, ct2, b)
      PROVE  \E n \in Nat : Whole(b, ct2, ph2[b], n)
  <2>1. PICK n \in Nat : Whole(b, content, phis[b], n)
    BY <1>1 DEF PhiInv, Joined
  <2>2. Whole(b, ct2, phis[b], n)
    BY <1>1, <2>1, WholeKept
  <2>. QED BY <1>1, <2>2
<1>. QED BY <1>1 DEF Joined

\* The phi when an expression gets an operand.
LEMMA EdgeAdded ==
  ASSUME PhisTyped(phis), NEW fr, fr.merge \in Blocks, NEW b
  PROVE  /\ PhiOf(fr, b)[fr.merge] = phis[fr.merge] \union {Edge(fr.count, fr.current, b)}
         /\ \A c \in Blocks : c # fr.merge => PhiOf(fr, b)[c] = phis[c]
BY DEF PhisTyped, PhiOf, Edge

\* The frame of an expression is put on st.
LogicOn(su, st, y) ==
  /\ Pending(su) = Pending(st) \union {y} /\ Bodies(su) = Bodies(st)
  /\ Merges(su) = Merges(st) \union {y.merge} /\ Under(su) = st

LEMMA LogicPut ==
  ASSUME NEW S, NEW st, st \in Seq(S), NEW y, y \in S, y.kind = "logic", NEW su, su = Append(st, y)
  PROVE  LogicOn(su, st, y)
<1>1. LogicOf(y) = {y} /\ BodyOf(y) = {}
  BY DEF LogicOf, BodyOf, KeptOf
<1>2. Pending(su) = Pending(st) \union LogicOf(y)
  BY PendingPush
<1>3. Bodies(su) = Bodies(st) \union BodyOf(y)
  BY BodiesPush
<1>4. Under(su) = st
  BY AppendFacts DEF Under
<1>5. Pending(su) = Pending(st) \union {y} /\ Bodies(su) = Bodies(st)
  BY <1>1, <1>2, <1>3
<1>. QED BY <1>4, <1>5 DEF Merges, LogicOn

LEMMA LogicFramePut ==
  ASSUME NEW m, NEW st, st \in Seq(FramesOf(m)), NEW y, y \in FramesOf(m), y.kind = "logic",
         NEW su, su = Append(st, y)
  PROVE  LogicOn(su, st, y)
<1> DEFINE S == FramesOf(m)
<1>1. st \in Seq(S) /\ y \in S
  OBVIOUS
<1> HIDE DEF S
<1>. QED BY <1>1, LogicPut

LEMMA LogicTop ==
  ASSUME BlocksInv, PhiInv, stack # <<>>, Top.kind = "logic"
  PROVE  /\ made \in Nat /\ made <= MaxBlocks /\ MaxBlocks \in Nat /\ ins \in Blocks
         /\ Below # <<>> /\ Placed(Below, fnOf, made) /\ Below \in Seq(FramesOf(made))
         /\ Top \in FramesOf(made) /\ Top.merge \in Blocks /\ fnOf[Top.merge] = NoBlock
         /\ Top.count \in Nat /\ Top.current \in Blocks
         /\ Pending(stack) = Pending(Below) \union {Top} /\ Bodies(stack) = Bodies(Below)
         /\ Merges(stack) = Merges(Below) \union {Top.merge} /\ Top.merge \notin Merges(Below)
         /\ Calm(Below) /\ Gathers(Top, content, phis[Top.merge], ins)
         /\ content \in [Blocks -> Seq(InstrOf(MaxBlocks))] /\ PhisTyped(phis)
<1>1. /\ made \in Nat /\ made <= MaxBlocks /\ MaxBlocks \in Nat /\ ins \in Blocks
      /\ Top = TopOf(stack) /\ Below = Under(stack) /\ Placed(stack, fnOf, made)
  BY HereFacts, Bounds DEF BlocksInv
<1>2. Below # <<>> /\ Placed(Below, fnOf, made)
  BY BelowFacts
<1>3. Below \in Seq(FramesOf(made)) /\ Top \in FramesOf(made) /\ stack = Append(Below, Top)
  BY <1>1, PlacedPop
<1>4. /\ Pending(stack) = Pending(Below) \union {Top} /\ Bodies(stack) = Bodies(Below)
      /\ Merges(stack) = Merges(Below) \union {Top.merge}
  <2>1. LogicOn(stack, Below, Top)
    BY <1>3, LogicFramePut
  <2>. QED BY <2>1 DEF LogicOn
<1>5. Top.merge \notin Merges(Below)
  BY <1>1, MergesApart
<1>6. /\ Top.merge \in 1..made /\ fnOf[Top.merge] = NoBlock /\ Top.count \in Nat
      /\ Top.current \in 1..made
  <2>1. Top \in Pending(stack)
    BY <1>4
  <2>. QED BY <1>1, <2>1, PendingFacts
<1>7. Top.merge \in Blocks /\ Top.current \in Blocks
  BY <1>1, <1>6 DEF Blocks
<1>8. Calm(Below) /\ Gathers(Top, content, phis[Top.merge], ins)
  BY <1>4 DEF PhiInv, Gathered
<1>9. content \in [Blocks -> Seq(InstrOf(MaxBlocks))] /\ PhisTyped(phis)
  <2>1. CodeTyped(content, MaxBlocks)
    BY <1>1, TypesHere, CodeWider
  <2>. QED BY <2>1, TypesHere DEF CodeTyped
<1>. QED BY <1>1, <1>2, <1>3, <1>4, <1>5, <1>6, <1>7, <1>8, <1>9

LEMMA LogicPhis ==
  ASSUME BlocksInv, PhiInv, logic PROVE PhiInv'
<1> DEFINE fr == [kind |-> "logic", merge |-> made + 1, current |-> ins, count |-> 0, ready |-> FALSE]
<1>1. /\ AtExpression /\ stack' = Append(stack, fr) /\ made + 2 <= MaxBlocks
      /\ fnOf' = fnOf /\ content' = content /\ phis' = phis /\ ins' = ins
  BY DEF logic, Opens
<1>2. made + 1 \in Blocks /\ made + 1 > made /\ made \in Nat
  BY <1>1, TypesHere, Bounds DEF Blocks
<1>3. phis[made + 1] = {}
  BY <1>2, FreshUnphied DEF Phied
<1>4. fr.kind = "logic" /\ fr.merge = made + 1 /\ fr.count = 0 /\ ~ fr.ready
  OBVIOUS
<1> HIDE DEF fr
<1>5. /\ Pending(stack') = Pending(stack) \union {fr} /\ Bodies(stack') = Bodies(stack)
      /\ Merges(stack') = Merges(stack) \union {made + 1} /\ Under(stack') = stack
  <2> DEFINE S == FramesOf(made) \union {fr}
             su == stack'
  <2>1. stack \in Seq(S) /\ fr \in S /\ su = Append(stack, fr)
    BY <1>1, StackTyped
  <2> HIDE DEF S, su
  <2>2. LogicOn(su, stack, fr)
    BY <1>4, <2>1, LogicPut
  <2>. QED BY <1>4, <2>2 DEF su, LogicOn
<1>6. Calm(stack)
  <2>1. stack # <<>> => Top.kind # "logic" \/ ~ Top.ready
    BY <1>1, AtStatementFacts DEF AtExpression, Statements
  <2>. QED BY <2>1, CalmHere
<1>7. Whole(made + 1, content, {}, 0)
  <2>1. ASSUME NEW b \in Blocks, NEW k \in Nat, Enters(content, made + 1, b, k) PROVE FALSE
    <3>1. made + 1 \in Targets(content[b])
      BY <2>1 DEF Enters, Targets
    <3>2. Targets(content[b]) \subseteq 1..made
      BY TargetsIn DEF BlocksInv
    <3>3. made + 1 \notin 1..made
      BY <1>2
    <3>. QED BY <3>1, <3>2, <3>3
  <2>2. 1..0 = {} /\ {e[2] : e \in {}} = {}
    OBVIOUS
  <2>. QED BY <2>1, <2>2 DEF Whole, Valued, Tested
<1>8. Gathered(stack', content', phis', ins')
  <2>1. \A x \in Pending(stack) : Gathers(x, content, phis[x.merge], ins)
    BY DEF PhiInv, Gathered
  <2>2. Gathers(fr, content, phis[fr.merge], ins)
    BY <1>3, <1>4, <1>7 DEF Gathers
  <2>. QED BY <1>1, <1>5, <2>1, <2>2 DEF Gathered
<1>9. Owned(stack', fnOf', phis') /\ Joined(fnOf', content', phis')
      /\ \A b \in Bodies(stack') : phis'[b] = {}
  BY <1>1, <1>5 DEF PhiInv, Owned, Joined
<1>10. Calm(Below')
  <2>1. Below' = Under(stack')
    BY DEF Below, Under
  <2>. QED BY <1>5, <1>6, <2>1
<1>. QED BY <1>8, <1>9, <1>10 DEF PhiInv

\* The expression has an operand more, or what tests it comes next.
LEMMA LogicTold ==
  ASSUME NEW m \in Nat, NEW fr \in FramesOf(m), fr.kind = "logic"
  PROVE  /\ [fr EXCEPT !.ready = FALSE].merge = fr.merge
         /\ [fr EXCEPT !.ready = FALSE].count = fr.count
         /\ ~ [fr EXCEPT !.ready = FALSE].ready
         /\ WithOperand(fr).merge = fr.merge /\ WithOperand(fr).count = fr.count + 1
         /\ WithOperand(fr).ready
<1>1. fr \in [kind : {"logic"}, merge : 1..m, current : 1..m, count : Nat, ready : BOOLEAN]
  BY DEF FramesOf
<1>. QED BY <1>1 DEF WithOperand

LEMMA OperandPhis ==
  ASSUME BlocksInv, PhiInv, operand PROVE PhiInv'
<1> DEFINE y == WithOperand(Top)
           z == Top.merge
           n == Top.count
           ct == content'
<1>1. /\ stack # <<>> /\ Top.kind = "logic" /\ ~ Top.ready /\ ct = Insert(ins, Code)
      /\ stack' = Append(Below, y) /\ phis' = PhiOf(Top, ins) /\ fnOf' = fnOf /\ ins' = ins
  BY DEF operand, Replace
<1>2. /\ made \in Nat /\ MaxBlocks \in Nat /\ ins \in Blocks /\ Placed(Below, fnOf, made)
      /\ Below \in Seq(FramesOf(made)) /\ Top \in FramesOf(made)
      /\ z \in Blocks /\ fnOf[z] = NoBlock /\ n \in Nat
      /\ Bodies(stack) = Bodies(Below) /\ Pending(Below) \subseteq Pending(stack)
      /\ Merges(stack) = Merges(Below) \union {z} /\ z \notin Merges(Below)
      /\ Calm(Below) /\ PhisTyped(phis) /\ content \in [Blocks -> Seq(InstrOf(MaxBlocks))]
  BY <1>1, LogicTop
<1>3. Whole(z, content, phis[z], n)
  <2>1. Gathers(Top, content, phis[Top.merge], ins)
    BY <1>1, LogicTop
  <2>. QED BY <1>1, <2>1 DEF Gathers
<1>4. y \in FramesOf(made) /\ y.kind = "logic" /\ y.merge = z /\ y.count = n + 1 /\ y.ready
  BY <1>1, <1>2, LogicFrame, LogicTwins, LogicTold
<1>5. /\ phis'[z] = phis[z] \union {Edge(n, Top.current, ins)}
      /\ \A c \in Blocks : c # z => phis'[c] = phis[c]
  BY <1>1, <1>2, EdgeAdded
<1> HIDE DEF y, z, n
<1>6. /\ Pending(stack') = Pending(Below) \union {y} /\ Bodies(stack') = Bodies(Below)
      /\ Merges(stack') = Merges(Below) \union {z} /\ Below' = Below
  <2> DEFINE su == stack'
  <2>1. su = Append(Below, y) /\ Below' = Under(su)
    BY <1>1 DEF Below, Under
  <2> HIDE DEF su
  <2>2. LogicOn(su, Below, y)
    BY <1>2, <1>4, <2>1, LogicFramePut
  <2>. QED BY <1>4, <2>1, <2>2 DEF su, LogicOn
<1> HIDE DEF ct
<1>7. ASSUME NEW t PROVE SameEntries(content, ct, t)
  <2> DEFINE e == Code
  <2>1. e \in InstrOf(MaxBlocks) /\ t \notin e.to /\ ct = Insert(ins, e)
    BY <1>1, InstrAny
  <2> HIDE DEF e
  <2>. QED BY <1>2, <2>1, InsertEntries
<1>8. Half(z, ct, phis'[z], n + 1, ins)
  <2> DEFINE P == phis[z]
             P2 == phis'[z]
             c == Top.current
  <2>1. P2 = P \union {Edge(n, c, ins)} /\ Whole(z, content, P, n) /\ SameEntries(content, ct, z)
    BY <1>3, <1>5, <1>7
  <2> HIDE DEF P, P2, c
  <2>2. Half(z, ct, P2, n + 1, ins)
    BY <1>2, <2>1, OperandAdded
  <2>. QED BY <2>2 DEF P2
<1>9. Gathered(stack', ct, phis', ins')
  <2>1. Merges(Below) \subseteq Blocks
    <3>1. \A b \in Merges(Below) : b \in 1..made
      BY <1>2, MergesAwaited
    <3>. QED BY <3>1, Bounds DEF BlocksInv, Blocks
  <2>2. Gathered(Below, ct, phis', ins')
    <3> DEFINE ph == phis'
               i == ins'
    <3>1. \A b \in Merges(Below) : SameEntries(content, ct, b) /\ ph[b] = phis[b]
      BY <1>2, <1>5, <1>7, <2>1
    <3> HIDE DEF ph, i
    <3>2. Gathered(Below, ct, ph, i)
      BY <1>2, <3>1, GatheredKept
    <3>. QED BY <3>2 DEF ph, i
  <2>3. Gathers(y, ct, phis'[z], ins')
    BY <1>1, <1>4, <1>8 DEF Gathers
  <2>. QED BY <1>4, <1>6, <2>2, <2>3 DEF Gathered
<1>10. Owned(stack', fnOf', phis')
  BY <1>1, <1>2, <1>5, <1>6 DEF PhiInv, Owned
<1>11. \A b \in Bodies(stack') : phis'[b] = {}
  <2>1. ASSUME NEW b \in Bodies(Below) PROVE phis'[b] = {}
    <3>1. b \in 1..made /\ fnOf[b] # NoBlock
      BY <1>2, BodiesAttached
    <3>2. b \in Blocks /\ b # z
      BY <1>2, <3>1, Bounds DEF BlocksInv, Blocks
    <3>3. phis[b] = {}
      BY <1>2 DEF PhiInv
    <3>. QED BY <1>5, <3>2, <3>3
  <2>. QED BY <1>6, <2>1
<1>12. Joined(fnOf', ct, phis')
  <2> DEFINE ph == phis'
             fn2 == fnOf'
  <2>1. \A b \in Blocks : fn2[b] # NoBlock /\ ph[b] # {} =>
           fnOf[b] # NoBlock /\ ph[b] = phis[b] /\ SameEntries(content, ct, b)
    BY <1>1, <1>2, <1>5, <1>7
  <2> HIDE DEF ph, fn2
  <2>2. Joined(fn2, ct, ph)
    BY <2>1, JoinedKept
  <2>. QED BY <2>2 DEF ph, fn2
<1>. QED BY <1>2, <1>6, <1>9, <1>10, <1>11, <1>12 DEF PhiInv, ct

LEMMA NextOperandPhis ==
  ASSUME BlocksInv, PhiInv, nextOperand PROVE PhiInv'
<1> DEFINE y == [Top EXCEPT !.ready = FALSE]
           x == made + 1
           z == Top.merge
           n == Top.count
           e == CondBr(n, x, z)
           ct == content'
<1>1. /\ stack # <<>> /\ Top.kind = "logic" /\ Top.ready /\ made < MaxBlocks /\ ct = Insert(ins, e)
      /\ stack' = Append(Below, y) /\ phis' = phis /\ fnOf' = [fnOf EXCEPT ![x] = CurrentFn]
  BY DEF nextOperand, Replace
<1>2. /\ made \in Nat /\ MaxBlocks \in Nat /\ ins \in Blocks /\ Placed(Below, fnOf, made)
      /\ Below \in Seq(FramesOf(made)) /\ Top \in FramesOf(made)
      /\ z \in Blocks /\ fnOf[z] = NoBlock /\ n \in Nat
      /\ Bodies(stack) = Bodies(Below) /\ Pending(Below) \subseteq Pending(stack)
      /\ Merges(stack) = Merges(Below) \union {z} /\ z \notin Merges(Below)
      /\ Calm(Below) /\ content \in [Blocks -> Seq(InstrOf(MaxBlocks))]
  BY <1>1, LogicTop
<1>3. Half(z, content, phis[z], n, ins)
  <2>1. Gathers(Top, content, phis[Top.merge], ins)
    BY <1>1, LogicTop
  <2>. QED BY <1>1, <2>1 DEF Gathers
<1>4. y \in FramesOf(made) /\ y.kind = "logic" /\ y.merge = z /\ y.count = n /\ ~ y.ready
  BY <1>1, <1>2, LogicFrame, LogicTwins, LogicTold
<1>5. x \in Blocks /\ x > made
  BY <1>1, <1>2 DEF Blocks
<1> HIDE DEF y, x, z, n
<1>6. phis[x] = {} /\ x \notin Merges(stack)
  BY <1>5, FreshUnphied DEF Phied
<1>7. e \in InstrOf(MaxBlocks) /\ e.to = {x, z} /\ e.on = n
  BY <1>2, <1>5, InstrAny DEF CondBr
<1>8. /\ Pending(stack') = Pending(Below) \union {y} /\ Bodies(stack') = Bodies(Below)
      /\ Merges(stack') = Merges(Below) \union {z} /\ Below' = Below
  <2> DEFINE su == stack'
  <2>1. su = Append(Below, y) /\ Below' = Under(su)
    BY <1>1 DEF Below, Under
  <2> HIDE DEF su
  <2>2. LogicOn(su, Below, y)
    BY <1>2, <1>4, <2>1, LogicFramePut
  <2>. QED BY <1>4, <2>1, <2>2 DEF su, LogicOn
<1> HIDE DEF ct, e
<1>9. ASSUME NEW t, t \notin {x, z} PROVE SameEntries(content, ct, t)
  BY <1>1, <1>2, <1>7, <1>9, InsertEntries
<1>10. Whole(z, ct, phis[z], n)
  <2> DEFINE j == Len(content[ins]) + 1
             P == phis[z]
  <2>1. OneMore(content, ct, z, ins, j, e.on)
    BY <1>1, <1>2, <1>7, InsertEntries
  <2>2. OneMore(content, ct, z, ins, j, n) /\ Half(z, content, P, n, ins)
    BY <1>3, <1>7, <2>1
  <2> HIDE DEF j, P
  <2>3. Whole(z, ct, P, n)
    BY <1>2, <2>2, TestAdded
  <2>. QED BY <2>3 DEF P
<1>11. Gathered(stack', ct, phis', ins')
  <2>1. \A b \in Merges(Below) : b \notin {x, z}
    BY <1>2, <1>6
  <2>2. Gathered(Below, ct, phis', ins')
    <3> DEFINE ph == phis'
               i == ins'
    <3>1. \A b \in Merges(Below) : SameEntries(content, ct, b) /\ ph[b] = phis[b]
      BY <1>1, <1>9, <2>1
    <3> HIDE DEF ph, i
    <3>2. Gathered(Below, ct, ph, i)
      BY <1>2, <3>1, GatheredKept
    <3>. QED BY <3>2 DEF ph, i
  <2>3. Gathers(y, ct, phis'[z], ins')
    BY <1>1, <1>4, <1>10 DEF Gathers
  <2>. QED BY <1>4, <1>8, <2>2, <2>3 DEF Gathered
<1>12. ASSUME NEW b \in Blocks, phis[b] # {} PROVE b # x /\ fnOf'[b] = fnOf[b]
  <2>1. fnOf \in [Blocks -> Blocks \union {NoBlock}]
    BY DEF BlocksInv, TypeOK
  <2>. QED BY <1>1, <1>6, <1>12, <2>1
<1>13. Owned(stack', fnOf', phis')
  BY <1>1, <1>2, <1>8, <1>12 DEF PhiInv, Owned
<1>14. \A b \in Bodies(stack') : phis'[b] = {}
  BY <1>1, <1>2, <1>8 DEF PhiInv
<1>15. Joined(fnOf', ct, phis')
  <2> DEFINE ph == phis'
             fn2 == fnOf'
  <2>1. \A b \in Blocks : fn2[b] # NoBlock /\ ph[b] # {} =>
           fnOf[b] # NoBlock /\ ph[b] = phis[b] /\ SameEntries(content, ct, b)
    BY <1>1, <1>2, <1>9, <1>12
  <2> HIDE DEF ph, fn2
  <2>2. Joined(fn2, ct, ph)
    BY <2>1, JoinedKept
  <2>. QED BY <2>2 DEF ph, fn2
<1>. QED BY <1>2, <1>8, <1>11, <1>13, <1>14, <1>15 DEF PhiInv, ct

\* A logical expression that ends: its merge block has all its entries, and the phi
\* of what is around it is not touched yet.
LEMMA LogicEnded ==
  ASSUME BlocksInv, PhiInv, endLogic
  PROVE  /\ \A t : t # Top.merge => SameEntries(content, content', t)
         /\ Whole(Top.merge, content', phis[Top.merge], Top.count)
         /\ \A b \in Blocks : fnOf'[b] # NoBlock => b = Top.merge \/ fnOf[b] # NoBlock
         /\ \A b \in Blocks : fnOf[b] # NoBlock \/ b = Top.merge => fnOf'[b] # NoBlock
<1> DEFINE z == Top.merge
           n == Top.count
           e == [Br(z) EXCEPT !.on = n]
           ct == content'
           fn2 == fnOf'
<1>1. /\ stack # <<>> /\ Top.kind = "logic" /\ Top.ready /\ ct = Insert(ins, e)
      /\ fn2 = [fnOf EXCEPT ![z] = CurrentFn]
  BY DEF endLogic
<1>2. /\ MaxBlocks \in Nat /\ ins \in Blocks /\ z \in Blocks /\ fnOf[z] = NoBlock /\ n \in Nat
      /\ content \in [Blocks -> Seq(InstrOf(MaxBlocks))]
  BY <1>1, LogicTop
<1>3. Half(z, content, phis[z], n, ins)
  <2>1. Gathers(Top, content, phis[Top.merge], ins)
    BY <1>1, LogicTop
  <2>. QED BY <1>1, <2>1 DEF Gathers
<1>4. CurrentFn # NoBlock /\ fnOf \in [Blocks -> Blocks \union {NoBlock}]
  BY <1>1, HereFacts DEF BlocksInv, TypeOK
<1> HIDE DEF z, n
<1>5. e \in InstrOf(MaxBlocks) /\ e.to = {z} /\ e.on = n
  BY <1>2 DEF InstrOf, Br, Blocks
<1> HIDE DEF e, ct, fn2
<1>6. ASSUME NEW t, t # z PROVE SameEntries(content, ct, t)
  <2>1. t \notin e.to
    BY <1>5, <1>6
  <2>. QED BY <1>1, <1>2, <1>5, <2>1, InsertEntries
<1>7. Whole(z, ct, phis[z], n)
  <2> DEFINE j == Len(content[ins]) + 1
             P == phis[z]
  <2>1. OneMore(content, ct, z, ins, j, e.on)
    BY <1>1, <1>2, <1>5, InsertEntries
  <2>2. OneMore(content, ct, z, ins, j, n) /\ Half(z, content, P, n, ins)
    BY <1>3, <1>5, <2>1
  <2> HIDE DEF j, P
  <2>3. Whole(z, ct, P, n)
    BY <1>2, <2>2, TestAdded
  <2>. QED BY <2>3 DEF P
<1>8. \A b \in Blocks : fn2[b] # NoBlock => b = z \/ fnOf[b] # NoBlock
  BY <1>1, <1>4
<1>9. \A b \in Blocks : fnOf[b] # NoBlock \/ b = z => fn2[b] # NoBlock
  BY <1>1, <1>2, <1>4
<1>. QED BY <1>6, <1>7, <1>8, <1>9 DEF z, n, ct, fn2

LEMMA EndLogicPhis ==
  ASSUME BlocksInv, PhiInv, endLogic PROVE PhiInv'
<1> DEFINE a == TopOf(Below)
           U == Under(Below)
           z == Top.merge
           n == Top.count
           ct == content'
           fn2 == fnOf'
           ph == phis'
           i == ins'
<1>1. /\ stack # <<>> /\ Top.kind = "logic" /\ i = z
      /\ IF a.kind = "logic"
           THEN ph = PhiOf(a, z) /\ stack' = Append(U, WithOperand(a))
           ELSE stack' = Below /\ ph = phis
  BY DEF endLogic, TopOf, Under
<1>2. /\ made \in Nat /\ made <= MaxBlocks /\ MaxBlocks \in Nat /\ Below # <<>>
      /\ Placed(Below, fnOf, made) /\ z \in Blocks /\ fnOf[z] = NoBlock /\ n \in Nat
      /\ Bodies(stack) = Bodies(Below) /\ Pending(Below) \subseteq Pending(stack)
      /\ Merges(stack) = Merges(Below) \union {z} /\ z \notin Merges(Below)
      /\ Calm(Below) /\ PhisTyped(phis)
  BY <1>1, LogicTop
<1>3. /\ \A t : t # z => SameEntries(content, ct, t)
      /\ Whole(z, ct, phis[z], n)
      /\ \A b \in Blocks : fn2[b] # NoBlock => b = z \/ fnOf[b] # NoBlock
      /\ \A b \in Blocks : fnOf[b] # NoBlock \/ b = z => fn2[b] # NoBlock
  BY LogicEnded
<1>4. /\ Placed(U, fnOf, made) /\ U \in Seq(FramesOf(made)) /\ a \in FramesOf(made)
      /\ Below = Append(U, a) /\ Pending(U) \subseteq Pending(Below)
  BY <1>2, PlacedPop, PendingUnder
<1>5. Calm(U)
  BY <1>2, <1>4 DEF Calm
<1>6. Below' = Under(stack')
  BY DEF Below, Under
<1> HIDE DEF a, U, z, n, ct, fn2, ph, i
<1>7. ASSUME a.kind # "logic"
      PROVE  /\ Owned(stack', fn2, ph) /\ Gathered(stack', ct, ph, i) /\ Calm(Below')
             /\ Joined(fn2, ct, ph) /\ \A b \in Bodies(stack') : ph[b] = {}
  <2>1. stack' = Below /\ ph = phis /\ Below' = U
    BY <1>1, <1>6, <1>7 DEF U
  <2>2. Owned(Below, fn2, phis)
    BY <1>2, <1>3 DEF PhiInv, Owned
  <2>3. Gathered(Below, ct, ph, i)
    <3>1. \A b \in Merges(Below) : SameEntries(content, ct, b) /\ ph[b] = phis[b]
      BY <1>2, <1>3, <2>1
    <3>. QED BY <1>2, <3>1, GatheredKept
  <2>4. Joined(fn2, ct, ph)
    <3>1. \A b \in Blocks : fn2[b] # NoBlock /\ ph[b] # {} =>
             \/ fnOf[b] # NoBlock /\ ph[b] = phis[b] /\ SameEntries(content, ct, b)
             \/ \E k \in Nat : Whole(b, ct, ph[b], k)
      BY <1>2, <1>3, <2>1
    <3>. QED BY <3>1, JoinedKept
  <2>5. \A b \in Bodies(Below) : phis[b] = {}
    BY <1>2 DEF PhiInv
  <2>. QED BY <1>5, <2>1, <2>2, <2>3, <2>4, <2>5
<1>8. ASSUME a.kind = "logic"
      PROVE  /\ Owned(stack', fn2, ph) /\ Gathered(stack', ct, ph, i) /\ Calm(Below')
             /\ Joined(fn2, ct, ph) /\ \A b \in Bodies(stack') : ph[b] = {}
  <2> DEFINE y == WithOperand(a)
             x == a.merge
             v == a.count
  <2>1. ph = PhiOf(a, z) /\ stack' = Append(U, y)
    BY <1>1, <1>8
  <2>2. /\ Pending(Below) = Pending(U) \union {a} /\ Bodies(Below) = Bodies(U)
        /\ Merges(Below) = Merges(U) \union {x}
    <3>1. LogicOn(Below, U, a)
      BY <1>4, <1>8, LogicFramePut
    <3>. QED BY <3>1 DEF LogicOn
  <2>3. x \in 1..made /\ fnOf[x] = NoBlock /\ v \in Nat /\ a \in Pending(Below)
    <3>1. a \in Pending(Below)
      BY <2>2
    <3>. QED BY <1>2, <3>1, PendingFacts
  <2>4. x \in Blocks /\ x # z /\ x \notin Merges(U)
    <3>1. TopOf(Below).merge \notin Merges(Under(Below))
      BY <1>2, <1>8, MergesApart DEF a
    <3>2. x \in Blocks
      BY <1>2, <2>3 DEF Blocks
    <3>. QED BY <1>2, <2>2, <3>1, <3>2 DEF a, U
  <2>5. y \in FramesOf(made) /\ y.kind = "logic" /\ y.merge = x /\ y.count = v + 1 /\ y.ready
    BY <1>2, <1>4, <1>8, LogicFrame, LogicTwins, LogicTold
  <2>6. Whole(x, content, phis[x], v)
    <3>1. a \in Pending(stack) /\ ~ a.ready
      BY <1>2, <2>3 DEF Calm
    <3>. QED BY <3>1 DEF PhiInv, Gathered, Gathers
  <2>7. /\ ph[x] = phis[x] \union {Edge(v, a.current, z)}
        /\ \A c \in Blocks : c # x => ph[c] = phis[c]
    <3>1. a.merge \in Blocks
      BY <2>4
    <3>2. PhiOf(a, z)[a.merge] = phis[a.merge] \union {Edge(a.count, a.current, z)}
      BY <1>2, <3>1 DEF PhisTyped, PhiOf, Edge
    <3>3. \A c \in Blocks : c # a.merge => PhiOf(a, z)[c] = phis[c]
      BY <1>2, <3>1 DEF PhisTyped, PhiOf
    <3>. QED BY <2>1, <3>2, <3>3
  <2> HIDE DEF y, x, v
  <2>8. /\ Pending(stack') = Pending(U) \union {y} /\ Bodies(stack') = Bodies(U)
        /\ Merges(stack') = Merges(U) \union {x} /\ Below' = U
    <3> DEFINE su == stack'
    <3>1. su = Append(U, y) /\ Below' = Under(su)
      BY <1>6, <2>1
    <3> HIDE DEF su
    <3>2. LogicOn(su, U, y)
      BY <1>4, <2>5, <3>1, LogicFramePut
    <3>. QED BY <2>5, <3>1, <3>2 DEF su, LogicOn
  <2>9. Half(x, ct, ph[x], v + 1, z)
    <3> DEFINE P == phis[x]
               P2 == ph[x]
               c == a.current
    <3>1. P2 = P \union {Edge(v, c, z)} /\ Whole(x, content, P, v) /\ SameEntries(content, ct, x)
      BY <1>3, <2>4, <2>6, <2>7
    <3> HIDE DEF P, P2, c
    <3>2. Half(x, ct, P2, v + 1, z)
      BY <2>3, <3>1, OperandAdded
    <3>. QED BY <3>2 DEF P2
  <2>10. Gathered(stack', ct, ph, i)
    <3>1. \A b \in Merges(U) : b \in Blocks
      <4>1. \A b \in Merges(U) : b \in 1..made
        BY <1>2, <1>4, MergesAwaited
      <4>. QED BY <1>2, <4>1 DEF Blocks
    <3>2. \A b \in Merges(U) : SameEntries(content, ct, b) /\ ph[b] = phis[b]
      BY <1>2, <1>3, <2>2, <2>4, <2>7, <3>1
    <3>3. Gathered(U, ct, ph, i)
      <4>1. Pending(U) \subseteq Pending(stack)
        BY <1>2, <1>4
      <4>. QED BY <1>5, <3>2, <4>1, GatheredKept
    <3>4. Gathers(y, ct, ph[x], i)
      BY <1>1, <2>5, <2>9 DEF Gathers
    <3>. QED BY <2>5, <2>8, <3>3, <3>4 DEF Gathered
  <2>11. Owned(stack', fn2, ph)
    <3>1. ASSUME NEW b \in Blocks, ph[b] # {} PROVE fn2[b] # NoBlock \/ b \in Merges(stack')
      <4>1. CASE b = x
        BY <2>8, <4>1
      <4>2. CASE b # x
        <5>1. phis[b] # {}
          BY <2>7, <3>1, <4>2
        <5>2. fnOf[b] # NoBlock \/ b = z \/ b \in Merges(U)
          BY <1>2, <2>2, <4>2, <5>1 DEF PhiInv, Owned
        <5>. QED BY <1>3, <2>8, <5>2
      <4>. QED BY <4>1, <4>2
    <3>. QED BY <3>1 DEF Owned
  <2>12. Joined(fn2, ct, ph)
    <3>1. ASSUME NEW b \in Blocks, fn2[b] # NoBlock, b # z
          PROVE  fnOf[b] # NoBlock /\ ph[b] = phis[b] /\ SameEntries(content, ct, b)
      <4>1. fnOf[b] # NoBlock /\ SameEntries(content, ct, b)
        BY <1>3, <3>1
      <4>2. b # x
        BY <2>3, <4>1
      <4>. QED BY <2>7, <4>1, <4>2
    <3>2. ph[z] = phis[z]
      BY <1>2, <2>4, <2>7
    <3>3. Whole(z, ct, ph[z], n)
      BY <1>3, <3>2
    <3>4. \A b \in Blocks : fn2[b] # NoBlock /\ ph[b] # {} =>
             \/ fnOf[b] # NoBlock /\ ph[b] = phis[b] /\ SameEntries(content, ct, b)
             \/ \E k \in Nat : Whole(b, ct, ph[b], k)
      BY <1>2, <3>1, <3>3
    <3>. QED BY <3>4, JoinedKept
  <2>13. \A b \in Bodies(stack') : ph[b] = {}
    <3>1. ASSUME NEW b \in Bodies(stack') PROVE ph[b] = {}
      <4>1. b \in Bodies(Below) /\ b \in Bodies(stack)
        BY <1>2, <2>2, <2>8, <3>1
      <4>2. b \in 1..made /\ fnOf[b] # NoBlock
        BY <1>2, <4>1, BodiesAttached
      <4>3. b \in Blocks /\ b # x /\ phis[b] = {}
        BY <1>2, <2>3, <4>1, <4>2 DEF PhiInv, Blocks
      <4>. QED BY <2>7, <4>3
    <3>. QED BY <3>1
  <2>. QED BY <1>5, <2>8, <2>10, <2>11, <2>12, <2>13
<1>. QED BY <1>7, <1>8 DEF PhiInv, ct, fn2, ph, i

-----------------------------------------------------------------------------
(* The invariant is kept.                                                     *)

LEMMA PhiInit == Init => PhiInv
<1> SUFFICES ASSUME Init PROVE PhiInv
  OBVIOUS
<1>1. stack = <<>> /\ phis = [b \in Blocks |-> {}]
  BY DEF Init
<1>2. Pending(stack) = {} /\ Bodies(stack) = {}
  BY <1>1, NothingPending
<1>. QED BY <1>1, <1>2 DEF PhiInv, Owned, Gathered, Joined

LEMMA PhiStutter ==
  ASSUME PhiInv, UNCHANGED vars PROVE PhiInv'
<1>1. stack' = stack /\ fnOf' = fnOf /\ content' = content /\ phis' = phis /\ ins' = ins
  BY DEF vars
<1>2. Below' = Below
  BY <1>1 DEF Below
<1>. QED BY <1>1, <1>2 DEF PhiInv

LEMMA PhiNext == BlocksInv /\ FlowInv /\ PhiInv /\ [Next]_vars => PhiInv'
<1> SUFFICES ASSUME BlocksInv, FlowInv, PhiInv, [Next]_vars PROVE PhiInv'
  OBVIOUS
<1>. BlocksInv'
  BY BlocksNext
<1>1. ASSUME NEW b \in BOOLEAN, visitInvokeable(b) PROVE PhiInv'
  BY <1>1, InvokeablePhis
<1>2. ASSUME NEW b \in BOOLEAN, conditional(b) PROVE PhiInv'
  BY <1>2, ConditionalPhis
<1>3. ASSUME NEW b \in BOOLEAN, selectCase(b) PROVE PhiInv'
  BY <1>3, SelectCasePhis
<1>4. CASE endInvokeable
  BY <1>4, EndInvokeablePhis
<1>5. CASE TvisitStatement \/ TvisitReturnStatement
  BY <1>5, StatementPhis
<1>6. CASE TvisitBlock
  BY <1>6, BlockPhis
<1>7. CASE endBlock
  BY <1>7, EndBlockPhis
<1>8. CASE endThen
  BY <1>8, EndThenPhis
<1>9. CASE endElse
  BY <1>9, EndElsePhis
<1>10. CASE loop
  BY <1>10, LoopPhis
<1>11. CASE endLoop
  BY <1>11, EndLoopPhis
<1>12. CASE select
  BY <1>12, SelectPhis
<1>13. CASE match
  BY <1>13, MatchPhis
<1>14. CASE matchCase
  BY <1>14, MatchCasePhis
<1>15. CASE endCase
  BY <1>15, EndCasePhis
<1>16. CASE endAlternatives
  BY <1>16, EndAlternativesPhis
<1>17. CASE TvisitLambdaConstExpr
  BY <1>17, LambdaPhis
<1>18. CASE endLambda
  BY <1>18, EndLambdaPhis
<1>19. CASE logic
  BY <1>19, LogicPhis
<1>20. CASE operand
  BY <1>20, OperandPhis
<1>21. CASE nextOperand
  BY <1>21, NextOperandPhis
<1>22. CASE endLogic
  BY <1>22, EndLogicPhis
<1>23. CASE UNCHANGED vars
  BY <1>23, PhiStutter
<1>. QED
  BY <1>1, <1>2, <1>3, <1>4, <1>5, <1>6, <1>7, <1>8, <1>9, <1>10, <1>11, <1>12, <1>13,
     <1>14, <1>15, <1>16, <1>17, <1>18, <1>19, <1>20, <1>21, <1>22, <1>23 DEF Next

LEMMA PhiInductive == Spec => [](BlocksInv /\ FlowInv /\ PhiInv)
<1>1. Init => BlocksInv /\ FlowInv /\ PhiInv
  BY BlocksInit, FlowInit, PhiInit
<1>2. BlocksInv /\ FlowInv /\ PhiInv /\ [Next]_vars => (BlocksInv /\ FlowInv /\ PhiInv)'
  BY BlocksNext, FlowNext, PhiNext
<1>. QED BY <1>1, <1>2, PTL DEF Spec

LEMMA WholeFollows == BlocksInv /\ PhiInv => PhiFollowsOperands
<1> DEFINE Ins(m) == {p \in UNION {{b} \X Terminators(b) : b \in Blocks} :
                        m \in content[p[1]][p[2]].to}
           Held(m, v) == \E p \in Ins(m) :
                            /\ content[p[1]][p[2]].on = v
                            /\ \A q \in Ins(m) : content[q[1]][q[2]].on = v => q = p
                            /\ v >= 2 => <<p[1], v>> \in phis[m]
           Knows(m, p) == \E e \in phis[m] : e[2] = content[p[1]][p[2]].on
<1> SUFFICES ASSUME BlocksInv, PhiInv, NEW m \in Blocks, phis[m] # {}, fnOf[m] # NoBlock
             PROVE  /\ \A v \in {e[2] : e \in phis[m]} : Held(m, v)
                    /\ \A p \in Ins(m) : Knows(m, p)
  BY DEF PhiFollowsOperands
<1> DEFINE enters == Ins(m)
<1>1. PICK n \in Nat : Valued(phis[m], n) /\ Tested(content, phis[m], m, n)
  BY DEF PhiInv, Joined, Whole
<1>2. ASSUME NEW b \in Blocks, NEW k \in Nat, Enters(content, m, b, k)
      PROVE  /\ <<b, k>> \in enters
             /\ content[<<b, k>>[1]][<<b, k>>[2]].on = TestOf(content, b, k)
  <2>1. k \in Terminators(b)
    BY <1>2 DEF Enters, Terminators, Code
  <2>. QED BY <1>2, <2>1 DEF Enters, TestOf
<1>3. ASSUME NEW p \in enters
      PROVE  /\ p[1] \in Blocks /\ p[2] \in Nat /\ p = <<p[1], p[2]>>
             /\ Enters(content, m, p[1], p[2])
             /\ content[p[1]][p[2]].on = TestOf(content, p[1], p[2])
  <2>1. PICK b \in Blocks : p \in {b} \X Terminators(b)
    OBVIOUS
  <2>2. p = <<p[1], p[2]>> /\ p[1] = b /\ p[2] \in Terminators(b)
    BY <2>1
  <2>3. content[b] \in Seq(Instructions)
    BY DEF BlocksInv, TypeOK
  <2>4. p[2] \in DOMAIN content[b] /\ p[2] \in Nat
    BY <2>2, <2>3 DEF Terminators
  <2>. QED BY <2>2, <2>4 DEF Enters, TestOf
<1> HIDE DEF Ins
<1>4. ASSUME NEW v \in {e[2] : e \in phis[m]}
      PROVE  Held(m, v)
  <2>1. v \in 1..n
    BY <1>1, <1>4 DEF Valued
  <2>2. PICK b \in Blocks, k \in Nat :
          /\ Enters(content, m, b, k) /\ TestOf(content, b, k) = v
          /\ \A c \in Blocks, j \in Nat :
                Enters(content, m, c, j) /\ TestOf(content, c, j) = v => c = b /\ j = k
          /\ v >= 2 => <<b, v>> \in phis[m]
    BY <1>1, <2>1 DEF Tested
  <2> DEFINE p == <<b, k>>
  <2>3. p \in enters /\ content[p[1]][p[2]].on = v /\ p[1] = b
    BY <1>2, <2>2
  <2>4. ASSUME NEW q \in enters, content[q[1]][q[2]].on = v PROVE q = p
    <3>1. q[1] = b /\ q[2] = k
      BY <1>3, <2>2, <2>4
    <3>. QED BY <1>3, <3>1
  <2> HIDE DEF p
  <2>. QED BY <2>2, <2>3, <2>4
<1>5. ASSUME NEW p \in enters PROVE Knows(m, p)
  <2>1. content[p[1]][p[2]].on \in 1..n
    BY <1>1, <1>3 DEF Tested
  <2>. QED BY <1>1, <2>1 DEF Valued
<1>. QED BY <1>4, <1>5

\* Every operand of a logical expression that was generated is tested by exactly one
\* instruction that goes to the merge block, and from the second operand on the phi takes
\* its value from the block of that instruction, whatever blocks the operand made of its
\* own: PhiFollowsOperands, for any number of operands and any depth of expressions,
\* lambdas and statements.
THEOREM PhisFollow == Spec => []PhiFollowsOperands
<1>. QED BY PhiInductive, WholeFollows, PTL
=============================================================================
