------------------------------- MODULE Codegen -------------------------------
(***************************************************************************)
(* The basic blocks that code generation makes (src/src/codegen): which    *)
(* blocks the statements of a function create, where the builder's         *)
(* insertion point stands, and which terminators end up in which block.    *)
(*                                                                         *)
(* The visitor walks a parse tree that the semantic pass accepted; the     *)
(* tree is generated here while it is walked, so a behaviour is the walk   *)
(* of one program and every program within the bounds is walked.  The      *)
(* construct being visited and those around it are the frames of `stack`.  *)
(* Straight-line code is one item whatever it does.                        *)
(***************************************************************************)
EXTENDS Integers, Sequences, FiniteSets

CONSTANTS MaxBlocks,   \* bound on basic blocks
          MaxFunctions, \* bound on functions and lambdas
          MaxDepth,    \* bound on nesting
          MaxContent,  \* bound on what a statement may be added to
          Constructs   \* constructs the programs of this instance use

ASSUME BoundsAssumption == {MaxBlocks, MaxFunctions, MaxDepth, MaxContent} \subseteq Nat
ASSUME ConstructsAssumption ==
  Constructs \subseteq {"if", "while", "select", "match", "block", "nested", "logic"}

VARIABLES made,      \* blocks created: 1..made
          fnOf,      \* the function a block is attached to, named by its entry
                     \* block; NoBlock while it is attached to none
          content,   \* what was inserted into each block, in order
          phis,      \* incoming edges of the phi of each block: <<block, operand>>
          ins,       \* builder->GetInsertBlock()
          stack,     \* constructs being visited, innermost last
          live,      \* history: the source point being visited can be reached
          buried     \* history: functions where a return ended a bare block or
                     \* the body of a loop

vars == <<made, fnOf, content, phis, ins, stack, live, buried>>

Blocks  == 1..MaxBlocks
NoBlock == 0

Init == /\ made = 0
        /\ fnOf = [b \in Blocks |-> NoBlock]
        /\ content = [b \in Blocks |-> <<>>]
        /\ phis = [b \in Blocks |-> {}]
        /\ ins = NoBlock
        /\ stack = <<>>
        /\ live = FALSE
        /\ buried = {}

-----------------------------------------------------------------------------
(* Instructions.  A terminator names the blocks it can go to, and the operand *)
(* of a logical expression it tests (0: another condition).                    *)

Code           == [op |-> "code", to |-> {}, on |-> 0]
Ret            == [op |-> "ret", to |-> {}, on |-> 0]
Br(b)          == [op |-> "br", to |-> {b}, on |-> 0]
CondBr(v, b, c) == [op |-> "br", to |-> {b, c}, on |-> v]

\* IRBuilder inserts at the end of the block; runs of straight-line code are one.
Insert(b, i) ==
  [content EXCEPT ![b] = IF i = Code /\ @ # <<>> /\ @[Len(@)] = Code
                           THEN @ ELSE Append(@, i)]

Top      == stack[Len(stack)]
Below    == SubSeq(stack, 1, Len(stack) - 1)
Replace(fr) == Append(Below, fr)

Functions == {f \in Blocks : fnOf[f] = f}

\* The function being generated.
CurrentFn == LET k == CHOOSE i \in 1..Len(stack) :
                        /\ stack[i].kind = "fn"
                        /\ \A j \in (i + 1)..Len(stack) : stack[j].kind # "fn"
             IN  stack[k].entry

\* The visitor is at a statement of the innermost block.  The semantic pass lets
\* nothing follow a return (safeVisitBlock); an alternative is one statement.
AtStatement == /\ stack # <<>>
               /\ Top.kind \in {"fn", "then", "else", "loop", "block", "case"}
               /\ Top.last \in {"none", "statement"}
               /\ Top.kind = "case" => Top.last = "none"
               /\ Len(content[ins]) < MaxContent

\* Construct c may be opened here and needs n more blocks.
Opens(c, n) == /\ c \in Constructs
               /\ made + n <= MaxBlocks
               /\ Len(stack) < MaxDepth

\* The statement that ends is of this form, for the block around it.
\* CodegenVisitor::blockEndsInReturn looks at nothing but the last one.
After(form, st) == IF st = <<>> THEN st
                   ELSE [st EXCEPT ![Len(st)].last = form]

-----------------------------------------------------------------------------
(* Functions.                                                                 *)

\* The entry block of a new function, up to the first statement of its body.
EnterBody(proc, lambda) ==
  /\ made < MaxBlocks
  /\ Cardinality(Functions) < MaxFunctions
  /\ made' = made + 1
  /\ fnOf' = [fnOf EXCEPT ![made + 1] = made + 1]
  /\ ins' = made + 1
  /\ stack' = Append(stack, [kind |-> "fn", entry |-> made + 1, proc |-> proc,
                             lambda |-> lambda, saved |-> ins, was |-> live,
                             last |-> "none"])
  /\ live' = TRUE
  /\ UNCHANGED <<content, phis, buried>>

\* At the top level there is no insertion point to come back to.  No alternative
\* is a definition.
visitInvokeable(proc) ==
  /\ stack = <<>> \/ (AtStatement /\ Top.kind # "case" /\ Opens("nested", 1))
  /\ EnterBody(proc, FALSE)

\* Mutant: the insertion point is not given back.
endInvokeable_StaysInside ==
  /\ stack # <<>> /\ Top.kind = "fn" /\ ~ Top.lambda
  /\ Top.proc \/ Top.last = "return"
  /\ content' = IF Top.last = "return" THEN content ELSE Insert(ins, Ret)
  /\ live' = Top.was
  /\ stack' = After("statement", Below)
  /\ UNCHANGED <<made, fnOf, phis, ins, buried>>

\* The end of the body.  A FUNC was refused by the semantic pass unless it ends in
\* a return; a PROC is given one.
endInvokeable ==
  /\ stack # <<>> /\ Top.kind = "fn" /\ ~ Top.lambda
  /\ Top.proc \/ Top.last = "return"
  /\ content' = IF Top.last = "return" THEN content ELSE Insert(ins, Ret)
  /\ ins' = Top.saved
  /\ live' = Top.was
  /\ stack' = After("statement", Below)
  /\ UNCHANGED <<made, fnOf, phis, buried>>

-----------------------------------------------------------------------------
(* Statements without blocks.                                                 *)

\* Declarations, assignments, calls.
TvisitStatement ==
  /\ AtStatement
  /\ content' = Insert(ins, Code)
  /\ stack' = After("statement", stack)
  /\ UNCHANGED <<made, fnOf, phis, ins, live, buried>>

TvisitReturnStatement ==
  /\ AtStatement
  /\ content' = Insert(ins, Ret)
  /\ live' = FALSE
  /\ stack' = After("return", stack)
  /\ UNCHANGED <<made, fnOf, phis, ins, buried>>

\* A bare block gets no basic block of its own.
TvisitBlock ==
  /\ AtStatement /\ Opens("block", 0)
  /\ stack' = Append(stack, [kind |-> "block", last |-> "none"])
  /\ UNCHANGED <<made, fnOf, content, phis, ins, live, buried>>

\* As an alternative of a select or a match its last statement is looked at.
endBlock ==
  /\ stack # <<>> /\ Top.kind = "block"
  /\ LET inCase == Below[Len(Below)].kind = "case"
     IN  /\ stack' = After(IF inCase /\ Top.last = "return"
                             THEN "return" ELSE "statement", Below)
         /\ buried' = IF ~ inCase /\ Top.last = "return"
                        THEN buried \union {CurrentFn} ELSE buried
  /\ UNCHANGED <<made, fnOf, content, phis, ins, live>>

-----------------------------------------------------------------------------
(* TvisitConditionalStatement.  Without an else branch the else block is the  *)
(* rest.                                                                      *)

conditional(hasElse) ==
  LET then == made + 1
      else == made + 2
      rest == IF hasElse THEN made + 3 ELSE else
  IN  /\ AtStatement /\ Opens("if", rest - made)
      /\ made' = rest
      /\ fnOf' = [fnOf EXCEPT ![then] = CurrentFn]
      /\ content' = Insert(ins, CondBr(0, then, else))
      /\ ins' = then
      /\ stack' = Append(stack, [kind |-> "then", else |-> else, rest |-> rest,
                                 was |-> live, last |-> "none"])
      /\ UNCHANGED <<phis, live, buried>>

\* The branch to the rest, "unless the block ends in a return".
BranchUnlessReturn(b) ==
  content' = IF Top.last = "return" THEN content ELSE Insert(ins, Br(b))

\* Mutant: the then branch goes on with the else branch.
endThen_FallsThrough ==
  /\ stack # <<>> /\ Top.kind = "then"
  /\ BranchUnlessReturn(Top.else)
  /\ fnOf' = [fnOf EXCEPT ![Top.else] = CurrentFn]
  /\ ins' = Top.else
  /\ live' = Top.was
  /\ stack' = IF Top.else = Top.rest
                THEN After("statement", Below)
                ELSE Replace([kind |-> "else", rest |-> Top.rest,
                              out |-> live, last |-> "none"])
  /\ UNCHANGED <<made, phis, buried>>

endThen ==
  /\ stack # <<>> /\ Top.kind = "then"
  /\ BranchUnlessReturn(Top.rest)
  /\ fnOf' = [fnOf EXCEPT ![Top.else] = CurrentFn]
  /\ ins' = Top.else
  /\ live' = Top.was
  /\ stack' = IF Top.else = Top.rest
                THEN After("statement", Below)
                ELSE Replace([kind |-> "else", rest |-> Top.rest,
                              out |-> live, last |-> "none"])
  /\ UNCHANGED <<made, phis, buried>>

\* Mutant: the rest is not attached to the function.
endElse_RestDetached ==
  /\ stack # <<>> /\ Top.kind = "else"
  /\ BranchUnlessReturn(Top.rest)
  /\ ins' = Top.rest
  /\ live' = (live \/ Top.out)
  /\ stack' = After("statement", Below)
  /\ UNCHANGED <<made, fnOf, phis, buried>>

endElse ==
  /\ stack # <<>> /\ Top.kind = "else"
  /\ BranchUnlessReturn(Top.rest)
  /\ fnOf' = [fnOf EXCEPT ![Top.rest] = CurrentFn]
  /\ ins' = Top.rest
  /\ live' = (live \/ Top.out)
  /\ stack' = After("statement", Below)
  /\ UNCHANGED <<made, phis, buried>>

-----------------------------------------------------------------------------
(* TvisitLoopStatement.                                                       *)

loop ==
  LET body == made + 1
      rest == made + 2
  IN  /\ AtStatement /\ Opens("while", 2)
      /\ made' = rest
      /\ fnOf' = [fnOf EXCEPT ![body] = CurrentFn]
      /\ content' = Insert(ins, CondBr(0, body, rest))
      /\ ins' = body
      /\ stack' = Append(stack, [kind |-> "loop", body |-> body, rest |-> rest,
                                 was |-> live, last |-> "none"])
      /\ UNCHANGED <<phis, live, buried>>

\* The condition is generated again and branched on, whatever the body ends in.
endLoop ==
  /\ stack # <<>> /\ Top.kind = "loop"
  /\ content' = Insert(ins, CondBr(0, Top.body, Top.rest))
  /\ fnOf' = [fnOf EXCEPT ![Top.rest] = CurrentFn]
  /\ ins' = Top.rest
  /\ live' = Top.was
  /\ buried' = IF Top.last = "return" THEN buried \union {CurrentFn} ELSE buried
  /\ stack' = After("statement", Below)
  /\ UNCHANGED <<made, phis>>

-----------------------------------------------------------------------------
(* TvisitSelectStatement and TvisitMatchStatement.  Frame "select" or "match"  *)
(* stands between two alternatives, frame "case" in one.                       *)

select ==
  /\ AtStatement /\ Opens("select", 2)
  /\ made' = made + 1
  /\ stack' = Append(stack, [kind |-> "select", merge |-> made + 1, else |-> NoBlock,
                             more |-> TRUE, was |-> live])
  /\ UNCHANGED <<fnOf, content, phis, ins, live, buried>>

\* Mutant: the last alternative has an else block like the others.
selectCase_AlwaysElse(isLast) ==
  /\ stack # <<>> /\ Top.kind = "select" /\ Top.more
  /\ Len(stack) < MaxDepth
  /\ made' = IF isLast THEN made + 1 ELSE made + 2
  /\ made' <= MaxBlocks
  /\ fnOf' = [fnOf EXCEPT ![made + 1] = CurrentFn]
  /\ content' = Insert(ins, CondBr(0, made + 1, made + 2))
  /\ ins' = made + 1
  /\ live' = Top.was
  /\ stack' = Append(Replace([Top EXCEPT !.else = made + 2, !.more = ~ isLast]),
                     [kind |-> "case", last |-> "none"])
  /\ UNCHANGED <<phis, buried>>

\* An alternative: its check, then blocks as for an if.  The last one goes on to
\* the merge block.
selectCase(isLast) ==
  LET then == made + 1
      else == IF isLast THEN Top.merge ELSE made + 2
  IN  /\ stack # <<>> /\ Top.kind = "select" /\ Top.more
      /\ Len(stack) < MaxDepth
      /\ made' = IF isLast THEN then ELSE made + 2
      /\ made' <= MaxBlocks
      /\ fnOf' = [fnOf EXCEPT ![then] = CurrentFn]
      /\ content' = Insert(ins, CondBr(0, then, else))
      /\ ins' = then
      /\ live' = Top.was
      /\ stack' = Append(Replace([Top EXCEPT !.else = else, !.more = ~ isLast]),
                         [kind |-> "case", last |-> "none"])
      /\ UNCHANGED <<phis, buried>>

match ==
  /\ AtStatement /\ Opens("match", 2)
  /\ made' = made + 1
  /\ content' = Insert(ins, [op |-> "switch", to |-> {made + 1}, on |-> 0])
  /\ stack' = Append(stack, [kind |-> "match", merge |-> made + 1, switch |-> ins,
                             cases |-> 0, was |-> live])
  /\ UNCHANGED <<fnOf, phis, ins, live, buried>>

\* switchInst->addCase: the switch stays where it was inserted.
AddCase(code, merge, b) ==
  [k \in DOMAIN code |-> IF code[k].op = "switch" /\ merge \in code[k].to
                           THEN [code[k] EXCEPT !.to = @ \union {b}] ELSE code[k]]

matchCase ==
  /\ stack # <<>> /\ Top.kind = "match"
  /\ made < MaxBlocks /\ Len(stack) < MaxDepth
  /\ made' = made + 1
  /\ fnOf' = [fnOf EXCEPT ![made + 1] = CurrentFn]
  /\ content' =
       [content EXCEPT ![Top.switch] = AddCase(@, Top.merge, made + 1),
                       ![made + 1] = <<Code>>]
  /\ ins' = made + 1
  /\ live' = Top.was
  /\ stack' = Append(Replace([Top EXCEPT !.cases = @ + 1]),
                     [kind |-> "case", last |-> "none"])
  /\ UNCHANGED <<phis, buried>>

\* Mutant: what the alternative ends in is not looked at.
endCase_AlwaysBranches ==
  /\ stack # <<>> /\ Top.kind = "case" /\ Top.last # "none"
  /\ LET around == Below[Len(Below)]
         toElse == around.kind = "select" /\ around.more
     IN  /\ content' = Insert(ins, Br(around.merge))
         /\ fnOf' = IF toElse THEN [fnOf EXCEPT ![around.else] = CurrentFn] ELSE fnOf
         /\ ins' = IF toElse THEN around.else ELSE ins
         /\ live' = around.was
  /\ stack' = Below
  /\ UNCHANGED <<made, phis, buried>>

\* The end of an alternative: a return, a block that ends in one, or anything else.
endCase ==
  /\ stack # <<>> /\ Top.kind = "case" /\ Top.last # "none"
  /\ LET around == Below[Len(Below)]
         toElse == around.kind = "select" /\ around.more
     IN  /\ BranchUnlessReturn(around.merge)
         /\ fnOf' = IF toElse THEN [fnOf EXCEPT ![around.else] = CurrentFn] ELSE fnOf
         /\ ins' = IF toElse THEN around.else ELSE ins
         /\ live' = around.was
  /\ stack' = Below
  /\ UNCHANGED <<made, phis, buried>>

\* A match has all the cases of its sum.
endAlternatives ==
  /\ stack # <<>>
  /\ \/ Top.kind = "select" /\ ~ Top.more
     \/ Top.kind = "match" /\ Top.cases >= 1
  /\ fnOf' = [fnOf EXCEPT ![Top.merge] = CurrentFn]
  /\ ins' = Top.merge
  /\ stack' = After("statement", Below)
  /\ UNCHANGED <<made, content, phis, live, buried>>

-----------------------------------------------------------------------------
(* Expressions that make blocks, wherever an expression is generated: in a     *)
(* statement, in the check of an alternative, in the condition a loop          *)
(* generates after its body, as an operand.                                    *)

AtExpression == \/ AtStatement
                \/ stack # <<>> /\ Top.kind = "loop"
                \/ stack # <<>> /\ Top.kind = "select" /\ Top.more
                \/ stack # <<>> /\ Top.kind = "logic" /\ ~ Top.ready

\* A lambda is generated where its value is needed.  It was refused unless it ends
\* in a return.
TvisitLambdaConstExpr ==
  /\ AtExpression /\ Opens("nested", 1)
  /\ EnterBody(FALSE, TRUE)

endLambda ==
  /\ stack # <<>> /\ Top.kind = "fn" /\ Top.lambda /\ Top.last = "return"
  /\ ins' = Top.saved
  /\ live' = Top.was
  /\ stack' = Below
  /\ UNCHANGED <<made, fnOf, content, phis, buried>>

\* TvisitLogAndExpr, TvisitLogOrExpr: the block the expression begins in is
\* remembered for the phi.
logic ==
  /\ AtExpression /\ Opens("logic", 2)
  /\ made' = made + 1
  /\ stack' = Append(stack, [kind |-> "logic", merge |-> made + 1, current |-> ins,
                             count |-> 0, ready |-> FALSE])
  /\ UNCHANGED <<fnOf, content, phis, ins, live, buried>>

\* The value of the next operand is there, computed in block b: the frame and the
\* phi afterwards.
WithOperand(fr) == [fr EXCEPT !.count = @ + 1, !.ready = TRUE]

\* Mutant: every value comes from the block the expression began in.
PhiOf_Current(fr, b) ==
  [phis EXCEPT ![fr.merge] = @ \union {<<fr.current, fr.count + 1>>}]

PhiOf(fr, b) ==
  [phis EXCEPT ![fr.merge] =
     @ \union {<<IF fr.count = 0 THEN fr.current ELSE b, fr.count + 1>>}]

operand ==
  /\ stack # <<>> /\ Top.kind = "logic" /\ ~ Top.ready
  /\ content' = Insert(ins, Code)
  /\ phis' = PhiOf(Top, ins)
  /\ stack' = Replace(WithOperand(Top))
  /\ UNCHANGED <<made, fnOf, ins, live, buried>>

\* Which of the two targets is taken when depends on the operator; both are there.
nextOperand ==
  /\ stack # <<>> /\ Top.kind = "logic" /\ Top.ready
  /\ made < MaxBlocks
  /\ made' = made + 1
  /\ fnOf' = [fnOf EXCEPT ![made + 1] = CurrentFn]
  /\ content' = Insert(ins, CondBr(Top.count, made + 1, Top.merge))
  /\ ins' = made + 1
  /\ stack' = Replace([Top EXCEPT !.ready = FALSE])
  /\ UNCHANGED <<phis, live, buried>>

endLogic ==
  /\ stack # <<>> /\ Top.kind = "logic" /\ Top.ready /\ Top.count >= 2
  /\ content' = Insert(ins, [Br(Top.merge) EXCEPT !.on = Top.count])
  /\ fnOf' = [fnOf EXCEPT ![Top.merge] = CurrentFn]
  /\ ins' = Top.merge
  /\ LET around == Below[Len(Below)]
     IN  IF around.kind = "logic"
           THEN /\ phis' = PhiOf(around, Top.merge)
                /\ stack' = Append(SubSeq(Below, 1, Len(Below) - 1), WithOperand(around))
           ELSE stack' = Below /\ UNCHANGED phis
  /\ UNCHANGED <<made, live, buried>>

Next == \/ \E b \in BOOLEAN : visitInvokeable(b) \/ conditional(b) \/ selectCase(b)
        \/ endInvokeable
        \/ TvisitStatement \/ TvisitReturnStatement \/ TvisitBlock \/ endBlock
        \/ endThen \/ endElse
        \/ loop \/ endLoop
        \/ select \/ match \/ matchCase \/ endCase \/ endAlternatives
        \/ TvisitLambdaConstExpr \/ endLambda
        \/ logic \/ operand \/ nextOperand \/ endLogic

Spec == Init /\ [][Next]_vars

-----------------------------------------------------------------------------
Instructions ==
  [op : {"code", "ret", "br", "switch"}, to : SUBSET (1..made), on : Nat]

Lasts == {"none", "statement", "return"}

\* The constructs that can be visited when m blocks were made.
FramesOf(m) ==
  [kind : {"fn"}, entry : 1..m, proc : BOOLEAN, lambda : BOOLEAN, saved : 0..m,
   was : BOOLEAN, last : Lasts] \union
  [kind : {"then"}, else : 1..m, rest : 1..m, was : BOOLEAN, last : Lasts] \union
  [kind : {"else"}, rest : 1..m, out : BOOLEAN, last : Lasts] \union
  [kind : {"loop"}, body : 1..m, rest : 1..m, was : BOOLEAN, last : Lasts] \union
  [kind : {"block", "case"}, last : Lasts] \union
  [kind : {"select"}, merge : 1..m, else : 0..m, more : BOOLEAN, was : BOOLEAN] \union
  [kind : {"match"}, merge : 1..m, switch : 1..m, cases : Nat, was : BOOLEAN] \union
  [kind : {"logic"}, merge : 1..m, current : 1..m, count : Nat, ready : BOOLEAN]

\* A block is attached to a function, and what is in it goes to blocks that exist.
TypeOK == /\ made \in 0..MaxBlocks
          /\ fnOf \in [Blocks -> Blocks \union {NoBlock}]
          /\ content \in [Blocks -> Seq(Instructions)]
          /\ phis \in [Blocks -> SUBSET (Blocks \X (Nat \ {0}))]
          /\ ins \in 0..made
          /\ stack \in Seq(FramesOf(made))
          /\ live \in BOOLEAN
          /\ buried \subseteq 1..made
          /\ \A b \in Blocks : b > made => fnOf[b] = NoBlock /\ content[b] = <<>>

Attached(f)    == {b \in Blocks : fnOf[b] = f}
BeingVisited   == {stack[i].entry : i \in {j \in DOMAIN stack : stack[j].kind = "fn"}}
Finished       == Functions \ BeingVisited
Terminators(b) == {k \in DOMAIN content[b] : content[b][k] # Code}
Ends(b)        == Terminators(b) # {}

\* Where a block goes: nothing after its first terminator is executed.
Successors(b) ==
  UNION {content[b][k].to : k \in {j \in Terminators(b) :
                                     \A i \in Terminators(b) : j <= i}}

Reachable(f) ==
  LET Step(S) == S \union UNION {Successors(b) : b \in S}
      in[n \in 0..MaxBlocks] == IF n = 0 THEN {f} ELSE Step(in[n - 1])
  IN  in[MaxBlocks]

\* Code is inserted into the function whose body is being visited, and nested
\* functions and lambdas give the insertion point back.
InsertsInFunction ==
  IF stack = <<>> THEN ins = NoBlock
                  ELSE ins # NoBlock /\ fnOf[ins] = CurrentFn

\* Every block of a finished function ends somehow, and only goes to blocks that
\* were attached to the same function.
FinishedFunctionsEnd ==
  \A f \in Finished : \A b \in Attached(f) :
     /\ Ends(b)
     /\ \A k \in Terminators(b) : content[b][k].to \subseteq Attached(f)

\* The graph of blocks does what the source says: the code of a statement is
\* executed exactly when the statement can be reached, through returns, branches,
\* loops and alternatives nested in any way.
CodeFollowsSource ==
  stack # <<>> /\ Top.kind \notin {"select", "match"} =>
     (live <=> ins \in Reachable(CurrentFn) /\ ~ Ends(ins))

\* In a function where no return ended a bare block or the body of a loop, every
\* block has one terminator, at its end: what the LLVM verifier demands.
OneTerminator ==
  \A f \in Finished \ buried : \A b \in Attached(f) :
     Terminators(b) = {Len(content[b])}

\* A merge block of a logical expression is entered once for each operand, and
\* from the second on its phi takes the operand's value from the block that tests
\* it, whatever blocks the operand itself was made of.
PhiFollowsOperands ==
  \A m \in Blocks : phis[m] # {} /\ fnOf[m] # NoBlock =>
     LET enters == {p \in UNION {{b} \X Terminators(b) : b \in Blocks} :
                      m \in content[p[1]][p[2]].to}
     IN  /\ \A v \in {e[2] : e \in phis[m]} :
               \E p \in enters : /\ content[p[1]][p[2]].on = v
                                 /\ \A q \in enters : content[q[1]][q[2]].on = v => q = p
                                 /\ v >= 2 => <<p[1], v>> \in phis[m]
         /\ \A p \in enters : \E e \in phis[m] : e[2] = content[p[1]][p[2]].on

\* "PHI node to merge both sides back together" (CodegenVisitor.cpp:624): the phi
\* has one incoming value for each block that branches to it.
PhiMergesSides ==
  \A m \in Blocks : phis[m] # {} /\ fnOf[m] # NoBlock =>
     {e[1] : e \in phis[m]} =
       {b \in Blocks : \E k \in Terminators(b) : m \in content[b][k].to}

\* "we ensure no following code due to how block visitors work in semantic
\* analysis" (CodegenVisitor.cpp:1470): nothing follows a return in its block.
NothingFollowsReturn ==
  \A b \in Blocks : \A k \in DOMAIN content[b] :
     content[b][k].op = "ret" => k = Len(content[b])
=============================================================================
