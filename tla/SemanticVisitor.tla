--------------------------- MODULE SemanticVisitor ---------------------------
(***************************************************************************)
(* The semantic pass (src/src/semantic): how it walks a compilation unit   *)
(* with one symbol table, declares functions before it visits them, tells  *)
(* declarations from definitions by a flag of the type object they share,  *)
(* and which shapes of program it accepts.  It goes on after an error.     *)
(*                                                                         *)
(* What is below the top level of the unit is generated while it is        *)
(* walked, so a behaviour is the walk of one program.  The handlers in     *)
(* progress are the entries of `stack`.  The symbol table is used as       *)
(* LexicalScoping describes it, which STManager was shown to implement.    *)
(***************************************************************************)
EXTENDS Integers, Sequences, FiniteSets

CONSTANTS Names,       \* identifiers of the programs
          Return,      \* "@RETURN", which is not one of them
          Main,        \* "main"
          Program,     \* "program"
          Absent,      \* no symbol
          Headings,    \* headings of functions below the top level
          Declarators, \* lists of names that a declaration declares at once
          Units,       \* the top levels of the programs
          NoRuntime,   \* CompilerFlags::NO_RUNTIME
          SumCases,    \* cases of the sum that matches are about
          Denoted,     \* types an alternative of a match can name
          Shared,      \* those that are one object wherever they are named
          MaxScopes,   \* bound on the scopes ever entered
          MaxDepth     \* bound on nesting

ASSUME NamesAssumption == Return \notin Names \union {Main, Program}
ASSUME BoundsAssumption == MaxScopes \in Nat \ {0} /\ MaxDepth \in Nat
ASSUME HeadingsAssumption ==
  Headings \subseteq [name : Names, params : Seq(Names), returns : BOOLEAN]
ASSUME UnitsAssumption ==
  LET AnyHeading == [name : Names, params : Seq(Names), returns : BOOLEAN]
  IN  Units \subseteq [defs   : Seq(Names),
                      extens : Seq(AnyHeading),
                      stmts  : Seq([kind : {"var"}] \union
                                   [kind : {"func"}, heading : AnyHeading])]
ASSUME DeclaratorsAssumption == Declarators \subseteq Seq(Names)
ASSUME CasesAssumption == /\ SumCases \union Shared \subseteq Denoted
                          /\ IsFiniteSet(SumCases)
ASSUME FlagAssumption == NoRuntime \in BOOLEAN

VARIABLES unit,     \* the top level: types, externs and statements, in lists
          phase,    \* the list of the unit that is being visited
          next,     \* the position in it
          table,    \* stmgr: open scopes, outermost first
          opened,   \* scopes entered so far; the id of the next one
          types,    \* TypeInvoke objects
          stack,    \* handlers in progress, innermost last
          errors,   \* errorHandler.hasErrors(0)
          bodies,   \* history: functions of the unit whose bodies were visited
          slips     \* history: what was let pass while there was no error

vars == <<unit, phase, next, table, opened, types, stack, errors, bodies, slips>>
past == <<bodies, slips>>

Ids   == Names \union {Return, Main, Program}
Flags == [type : Nat, isDefinition : BOOLEAN, isGlobal : BOOLEAN]

ASSUME AbsentAssumption == Absent \notin Flags

Table(t) == INSTANCE LexicalScoping WITH frames <- t, answer <- Absent

-----------------------------------------------------------------------------
(* The symbol table.                                                          *)

\* Mutant: scopes are numbered after they are counted.
NewScope_CountedFirst(isBody, tb) == [id     |-> opened + 1,
                                      fenced |-> isBody /\ tb # <<>>,
                                      binds  |-> [x \in Ids |-> Absent]]

\* Mutant: a body is a scope like any other.
NewScope_NoFence(isBody, tb) == [id     |-> opened,
                                 fenced |-> FALSE,
                                 binds  |-> [x \in Ids |-> Absent]]

NewScope(isBody, tb) == [id     |-> opened,
                         fenced |-> isBody /\ tb # <<>>,
                         binds  |-> [x \in Ids |-> Absent]]

Lookup(tb, x) ==
  IF \E i \in DOMAIN tb : Table(tb)!Resolves(i, x)
    THEN tb[CHOOSE i \in DOMAIN tb : Table(tb)!Resolves(i, x)].binds[x]
    ELSE Absent

LookupInCurrentScope(tb, x) == tb[Len(tb)].binds[x]

AddSymbol(tb, x, s) ==
  IF LookupInCurrentScope(tb, x) # Absent THEN tb
  ELSE [tb EXCEPT ![Len(tb)].binds[x] = s]

ExitScope(tb) == SubSeq(tb, 1, Len(tb) - 1)

isGlobalScope == table[Len(table)].id = 0

\* Symbols of functions, and of variables and parameters.  The type of a symbol is
\* the TypeInvoke object it is, or 0 when it is no function.
Definition(t, g) == [type |-> t, isDefinition |-> TRUE, isGlobal |-> g]
Variable(t, g)   == [type |-> t, isDefinition |-> FALSE, isGlobal |-> g]

\* The types after one was made for heading h, or was given its definition.
TypeInvoke(h, defined, item) ==
  Append(types, [params |-> h.params, returns |-> h.returns,
                 defined |-> defined, item |-> item])
define(t) == [types EXCEPT ![t].defined = TRUE]

-----------------------------------------------------------------------------
(* Handlers.                                                                  *)

Top      == stack[Len(stack)]
Below    == SubSeq(stack, 1, Len(stack) - 1)
Bodies   == {i \in DOMAIN stack : stack[i].kind = "fn"}
Innermost == CHOOSE i \in Bodies : \A j \in Bodies : j <= i

\* The innermost handler is of this kind, and still runs.
In(kind) == phase = "stmts" /\ stack # <<>> /\ Top.kind = kind

\* At a statement of a block or at the one statement of an alternative.  Nothing is
\* visited after the first statement that follows a return.
AtStatement == /\ phase = "stmts" /\ stack # <<>>
               /\ Top.kind \in {"fn", "block", "case"}
               /\ Top.last # "dead"
               /\ Top.kind = "case" => Top.last = "none"

\* safeVisitBlock, after a statement of this form was visited: the statement that
\* follows a return is dead code.
Finishes(form, st, bad) ==
  LET dead == st # <<>> /\ st[Len(st)].last = "return"
  IN  /\ stack' = IF st = <<>> THEN st
                  ELSE [st EXCEPT ![Len(st)].last = IF dead THEN "dead" ELSE form]
      /\ next' = IF st = <<>> THEN next + 1 ELSE next
      /\ errors' = (errors \/ bad \/ dead)

\* A handler that visits children inside a scope of its own.
Visits(handler, tb, isBody, bad) ==
  /\ opened < MaxScopes /\ Len(stack) < MaxDepth
  /\ table' = Append(tb, NewScope(isBody, tb))
  /\ opened' = opened + 1
  /\ stack' = Append(stack, handler)
  /\ errors' = (errors \/ bad)
  /\ UNCHANGED next

Init == /\ unit \in Units
        /\ phase = "defs" /\ next = 1
        /\ table = <<[id |-> 0, fenced |-> FALSE, binds |-> [x \in Ids |-> Absent]]>>
        /\ opened = 1
        /\ types = <<>> /\ stack = <<>> /\ errors = FALSE
        /\ bodies = {} /\ slips = {}

-----------------------------------------------------------------------------
(* The lists of the unit.                                                     *)

After == [defs |-> "extens", extens |-> "forward", forward |-> "stmts"]
List  == IF phase = "forward" THEN unit.stmts ELSE unit[phase]
At(p) == phase = p /\ next <= Len(List) /\ stack = <<>>

endOfList ==
  /\ phase \in DOMAIN After /\ next > Len(List)
  /\ phase' = After[phase] /\ next' = 1
  /\ UNCHANGED <<unit, table, opened, types, stack, errors, past>>

\* define enum, define struct; ok when its cases or fields differ.
defineType(ok) ==
  /\ At("defs")
  /\ LET name == unit.defs[next]
         fine == ok /\ Lookup(table, name) = Absent
     IN  /\ table' = IF fine THEN AddSymbol(table, name, Definition(0, TRUE)) ELSE table
         /\ errors' = (errors \/ ~ fine)
  /\ next' = next + 1
  /\ UNCHANGED <<unit, phase, opened, types, stack, past>>

\* visitCtx(ParameterListContext *): a name is used twice.
Repeats(params) == \E i, j \in DOMAIN params : i # j /\ params[i] = params[j]

\* The symbol of a heading at the top level, of an extern or of a function to come.
Declare(h, defined, item) ==
  /\ types' = TypeInvoke(h, defined, item)
  /\ table' = AddSymbol(table, h.name, Definition(Len(types) + 1, TRUE))
  /\ errors' = (errors \/ Lookup(table, h.name) # Absent \/ Repeats(h.params))
  /\ next' = next + 1
  /\ UNCHANGED <<unit, phase, opened, stack, past>>

externStatement == At("extens") /\ Declare(unit.extens[next], TRUE, 0)

forwardDeclare ==
  /\ At("forward")
  /\ IF unit.stmts[next].kind = "func"
       THEN Declare(unit.stmts[next].heading, FALSE, next)
       ELSE next' = next + 1
            /\ UNCHANGED <<unit, phase, table, opened, types, stack, errors, past>>

-----------------------------------------------------------------------------
(* Functions and lambdas.                                                     *)

\* Into the scope of a body: @RETURN has the result type of function type t, and
\* there is a symbol for each parameter.
EnterBody(tb, t, h, item, isLambda, bad) ==
  LET scope  == NewScope(TRUE, tb)
      binds  == [x \in Ids |-> IF x = Return THEN Variable(t, FALSE)
                               ELSE IF \E i \in DOMAIN h.params : h.params[i] = x
                               THEN Variable(0, FALSE) ELSE Absent]
  IN  /\ opened < MaxScopes /\ Len(stack) < MaxDepth
      /\ table' = Append(tb, [scope EXCEPT !.binds = binds])
      /\ opened' = opened + 1
      /\ stack' = Append(stack, [kind |-> "fn", type |-> t, returns |-> h.returns,
                                 item |-> item, lambda |-> isLambda, last |-> "none"])
      /\ errors' = (errors \/ bad)
      /\ UNCHANGED <<unit, phase, next, past>>

\* program() has a signature of its own.
Misfit(h, params, returns) == h.name = Program /\ (params # <<>> \/ ~ returns)

\* The name is new in this scope: a type for the heading, defined from the start.
defineFunction(h, item) ==
  /\ LookupInCurrentScope(table, h.name) = Absent
  /\ types' = TypeInvoke(h, TRUE, item)
  /\ EnterBody(AddSymbol(table, h.name, Definition(Len(types) + 1, FALSE)),
               Len(types) + 1, h, item, FALSE,
               Repeats(h.params) \/ Misfit(h, h.params, h.returns))

\* Mutant: whether the function type has a definition is not asked.
IsDeclared_AnyFunction(s) == s # Absent /\ s.type # 0

\* A symbol of a function type that has no definition yet.
IsDeclared(s) == s # Absent /\ s.type # 0 /\ ~ types[s.type].defined

\* The name has a function type here: that type is taken for the type of this
\* heading, whose own parameters are not looked at.  It must not be defined yet.
defineDeclared(h, item) ==
  LET s == LookupInCurrentScope(table, h.name)
  IN  /\ IsDeclared(s)
      /\ types' = define(s.type)
      /\ IF Len(h.params) <= Len(types[s.type].params)
           THEN EnterBody(table, s.type, h, item, FALSE,
                          Misfit(h, types[s.type].params, types[s.type].returns))
           ELSE \* getParamTypes().at(i) throws, and nothing catches it
                /\ phase' = "aborted"
                /\ UNCHANGED <<unit, next, table, opened, stack, errors, past>>

\* Mutant: a scope is entered before the redeclaration is found.
redeclared_InScope(h, item) ==
  LET s == LookupInCurrentScope(table, h.name)
  IN  /\ s # Absent /\ ~ IsDeclared(s)
      /\ table' = Append(table, NewScope(TRUE, table))
      /\ Finishes("definition", stack, TRUE)
      /\ UNCHANGED <<unit, phase, opened, types, past>>

\* The name is a variable here, or a function that is defined.
redeclared(h, item) ==
  LET s == LookupInCurrentScope(table, h.name)
  IN  /\ s # Absent /\ ~ IsDeclared(s)
      /\ Finishes("definition", stack, TRUE)
      /\ UNCHANGED <<unit, phase, table, opened, types, past>>

visitInvokeable(h, item) ==
  defineFunction(h, item) \/ defineDeclared(h, item) \/ redeclared(h, item)

visitFuncDef == \/ /\ At("stmts") /\ unit.stmts[next].kind = "func"
                   /\ visitInvokeable(unit.stmts[next].heading, next)
                \/ AtStatement /\ \E h \in Headings : visitInvokeable(h, 0)

\* A lambda has parameters and a result.  It stands in a statement that calls it.
visitLambda(h) ==
  /\ AtStatement /\ h.params # <<>> /\ h.returns
  /\ types' = TypeInvoke(h, TRUE, 0)
  /\ EnterBody(table, Len(types) + 1, h, 0, TRUE, Repeats(h.params))

\* The program goes on to code generation with this in it, unless it has an error.
LetsPass(slip, happens) ==
  slips' = IF happens /\ ~ errors' THEN slips \union {slip} ELSE slips

Unfinished == Top.returns /\ Top.last # "return"

EndsBody(bad) ==
  /\ In("fn")
  /\ table' = ExitScope(table)
  /\ bodies' = bodies \union {Top.item}
  /\ Finishes(IF Top.lambda THEN "statement" ELSE "definition", Below, bad)
  /\ IF Unfinished THEN LetsPass("unfinished", TRUE)
                   ELSE LetsPass("foreign", types[Top.type].item # Top.item)
  /\ UNCHANGED <<unit, phase, opened, types>>

\* Mutant: only the functions at the top level must end in a return.
endBody_NestedUnchecked == EndsBody(Unfinished /\ Top.item # 0)

\* Function must end in return statement; lambda must, too.
endBody == EndsBody(Unfinished)

-----------------------------------------------------------------------------
(* Statements.                                                                *)

\* x <- e; ok when e and x have types that agree.
assignStatement(x, ok) ==
  /\ AtStatement
  /\ Finishes("statement", stack, ~ ok \/ Lookup(table, x) = Absent)
  /\ UNCHANGED <<unit, phase, table, opened, types, past>>

\* x(...); ok when the arguments are those that the function needs.
invocation(x, ok) ==
  /\ AtStatement
  /\ LET s == Lookup(table, x)
     IN  Finishes("statement", stack, s = Absent \/ s.type = 0 \/ ~ ok)
  /\ UNCHANGED <<unit, phase, table, opened, types, past>>

\* Mutant: the value is not compared with what @RETURN says.
returnStatement_AnyValue(value) ==
  /\ AtStatement
  /\ Finishes("return", stack, Lookup(table, Return) = Absent)
  /\ LetsPass("return", stack[Innermost].returns # value)
  /\ UNCHANGED <<unit, phase, table, opened, types, bodies>>

returnStatement(value) ==
  /\ AtStatement
  /\ LET s == Lookup(table, Return)
     IN  Finishes("return", stack, s = Absent \/ types[s.type].returns # value)
  /\ LetsPass("return", stack[Innermost].returns # value)
  /\ UNCHANGED <<unit, phase, table, opened, types, bodies>>

\* A bare block, the body of a loop, or the branches of a conditional; ok when the
\* condition is a BOOL.
visitBlock(hasElse, ok) ==
  /\ AtStatement
  /\ Visits([kind |-> "block", else |-> hasElse, last |-> "none"], table, FALSE, ~ ok)
  /\ UNCHANGED <<unit, phase, types, past>>

endBlock ==
  /\ In("block")
  /\ IF Top.else
       THEN /\ opened < MaxScopes
            /\ table' = Append(ExitScope(table), NewScope(FALSE, ExitScope(table)))
            /\ opened' = opened + 1
            /\ stack' = Append(Below, [kind |-> "block", else |-> FALSE, last |-> "none"])
            /\ UNCHANGED <<next, errors>>
       ELSE /\ table' = ExitScope(table)
            /\ Finishes("statement", Below, FALSE)
            /\ UNCHANGED opened
  /\ UNCHANGED <<unit, phase, types, past>>

select ==
  /\ AtStatement /\ Len(stack) < MaxDepth
  /\ stack' = Append(stack, [kind |-> "select", cases |-> 0])
  /\ UNCHANGED <<unit, phase, next, table, opened, types, errors, past>>

selectAlternative ==
  /\ In("select") /\ Top.cases < 2
  /\ opened < MaxScopes /\ Len(stack) < MaxDepth
  /\ table' = Append(table, NewScope(FALSE, table))
  /\ opened' = opened + 1
  /\ stack' = Append(Append(Below, [Top EXCEPT !.cases = @ + 1]),
                     [kind |-> "case", last |-> "none"])
  /\ UNCHANGED <<unit, phase, next, types, errors, past>>

\* A match on something else than a sum is an error and its cases are not visited.
match(ok) ==
  /\ AtStatement
  /\ IF ok THEN /\ Len(stack) < MaxDepth
                /\ stack' = Append(stack, [kind |-> "match", named |-> {}, found |-> 0,
                                           again |-> FALSE])
                /\ UNCHANGED <<next, errors>>
           ELSE Finishes("statement", stack, TRUE)
  /\ UNCHANGED <<unit, phase, table, opened, types, past>>

\* Mutant: a repeated case is not looked for.
Found_Counts(m, c) == [found |-> m.found + 1, duplicate |-> FALSE]

\* foundCaseTypes holds addresses: a type that is made anew each time it is named
\* is never found in it.
Found(m, c) == LET duplicate == c \in Shared /\ c \in m.named
               IN  [found     |-> IF duplicate THEN m.found ELSE m.found + 1,
                    duplicate |-> duplicate]

\* The alternative for type c, which names the value y.
matchAlternative(c, y) ==
  /\ In("match") /\ Top.found <= Cardinality(SumCases)
  /\ opened < MaxScopes /\ Len(stack) < MaxDepth
  /\ LET scope == NewScope(FALSE, table)
         entry == Found(Top, c)
         m     == [kind |-> "match", named |-> Top.named \union {c},
                   found |-> entry.found, again |-> Top.again \/ (c \in Top.named \ Shared)]
     IN  /\ table' = Append(table, [scope EXCEPT !.binds[y] = Variable(0, FALSE)])
         /\ stack' = Append(Append(Below, m), [kind |-> "case", last |-> "none"])
         /\ errors' = (errors \/ entry.duplicate \/ c \notin SumCases)
  /\ opened' = opened + 1
  /\ UNCHANGED <<unit, phase, next, types, past>>

\* A definition alone in an alternative is an error; ok when the check of a select
\* alternative, visited after it, is a BOOL.
endAlternative(ok) ==
  /\ In("case") /\ Top.last # "none"
  /\ table' = ExitScope(table)
  /\ stack' = Below
  /\ errors' = (errors \/ Top.last = "definition"
                       \/ (Below[Len(Below)].kind = "select" /\ ~ ok))
  /\ UNCHANGED <<unit, phase, next, opened, types, past>>

endSelect ==
  /\ In("select")
  /\ Finishes("statement", Below, Top.cases = 0)
  /\ UNCHANGED <<unit, phase, table, opened, types, past>>

endMatch ==
  /\ In("match")
  /\ Finishes("statement", Below, Top.found # Cardinality(SumCases))
  /\ LetsPass("uncovered", Top.named # SumCases /\ ~ Top.again)
  /\ UNCHANGED <<unit, phase, table, opened, types, bodies>>

-----------------------------------------------------------------------------
(* Declarations.  A declaration d has a plain type, or the type of the name       *)
(* d.from: as the initializer of a var, or because the name is used as a type.    *)

\* The type that is visited, and whether it is an error.
TypeOf(tb, d) ==
  LET s == Lookup(tb, d.from)
      unusable == s = Absent \/ (d.how = "as" /\ ~ s.isDefinition)
  IN  IF d.how = "plain" THEN [type |-> 0, bad |-> FALSE]
      ELSE [type |-> IF unusable THEN 0 ELSE s.type, bad |-> unusable]

\* The declaration is visited once for its check, and its type or initializer again
\* for each of its names, when the names before it are declared.
DeclareEach(names, d) ==
  LET each[i \in 0..Len(names)] ==
        IF i = 0 THEN [table |-> table, bad |-> TypeOf(table, d).bad]
        ELSE LET tb == each[i - 1].table
                 s  == Variable(TypeOf(tb, d).type, isGlobalScope)
             IN  IF LookupInCurrentScope(tb, names[i]) # Absent
                   THEN [table |-> tb, bad |-> TRUE]
                   ELSE [table |-> AddSymbol(tb, names[i], s),
                         bad   |-> each[i - 1].bad \/ TypeOf(tb, d).bad]
  IN  each[Len(names)]

Declarations == [how : {"plain"}, from : {Absent}] \union
                [how : {"var", "as"}, from : Names]

\* A global is initialized by nothing but a constant; ok when the initializer has
\* the type declared.
varDecl(names, d, ok) ==
  /\ AtStatement \/ (At("stmts") /\ unit.stmts[next].kind = "var")
  /\ LET declared == DeclareEach(names, d)
     IN  /\ table' = declared.table
         /\ Finishes("definition", stack,
                     declared.bad \/ ~ ok \/ (isGlobalScope /\ d.how = "var"))
  /\ UNCHANGED <<unit, phase, opened, types, past>>

-----------------------------------------------------------------------------
\* With NO_RUNTIME the unit must have a program() and no main.
NoEntry ==
  NoRuntime /\ LET s == Lookup(table, Program)
               IN  \/ Lookup(table, Main) # Absent
                   \/ s = Absent
                   \/ s.type = 0
                   \/ types[s.type].params # <<>> \/ ~ types[s.type].returns

endUnit ==
  /\ phase = "stmts" /\ next > Len(unit.stmts)
  /\ phase' = "done"
  /\ errors' = (errors \/ NoEntry)
  /\ UNCHANGED <<unit, next, table, opened, types, stack, past>>

Next == \/ endOfList \/ externStatement \/ forwardDeclare \/ endUnit
        \/ visitFuncDef \/ endBody \/ endBlock
        \/ select \/ selectAlternative \/ endSelect \/ endMatch
        \/ \E ok \in BOOLEAN :
              \/ defineType(ok) \/ match(ok) \/ endAlternative(ok) \/ returnStatement(ok)
              \/ \E hasElse \in BOOLEAN : visitBlock(hasElse, ok)
              \/ \E x \in Names : assignStatement(x, ok) \/ invocation(x, ok)
              \/ \E names \in Declarators, d \in Declarations : varDecl(names, d, ok)
        \/ \E h \in Headings : visitLambda(h)
        \/ \E c \in Denoted, y \in Names : matchAlternative(c, y)

Spec == Init /\ [][Next]_vars

-----------------------------------------------------------------------------
Forms == {"none", "statement", "definition", "return", "dead"}

Handlers ==
  [kind : {"fn"}, type : Nat \ {0}, returns : BOOLEAN, item : Nat, lambda : BOOLEAN,
   last : Forms] \union
  [kind : {"block"}, else : BOOLEAN, last : Forms] \union
  [kind : {"case"}, last : Forms] \union
  [kind : {"select"}, cases : 0..2] \union
  [kind : {"match"}, named : SUBSET Denoted, found : Nat, again : BOOLEAN]

TypeOK == /\ unit \in Units
          /\ phase \in {"defs", "extens", "forward", "stmts", "done", "aborted"}
          /\ next \in Nat \ {0}
          /\ table \in Seq([id : 0..(opened - 1), fenced : BOOLEAN,
                            binds : [Ids -> Flags \union {Absent}]])
          /\ opened \in 1..MaxScopes
          /\ types \in Seq([params : Seq(Names), returns : BOOLEAN,
                            defined : BOOLEAN, item : Nat])
          /\ stack \in Seq(Handlers)
          /\ errors \in BOOLEAN
          /\ bodies \subseteq Nat
          /\ slips \subseteq {"unfinished", "foreign", "return", "uncovered"}

Accepted == phase = "done" /\ ~ errors

\* The handlers that entered a scope, and the scope that handler i entered: the first
\* is that of the unit.
Scoped == {i \in DOMAIN stack : stack[i].kind \in {"fn", "block", "case"}}
ScopeOf(i) == table[1 + Cardinality({j \in Scoped : j <= i})]

\* The open scopes are that of the unit and one for each handler that entered one,
\* in the same order, and the scopes of bodies, and only they, are fences that hold
\* an @RETURN: that of the function whose body it is.  Also after errors, where
\* handlers return early.
ScopesFollowHandlers ==
  /\ Len(table) = 1 + Cardinality(Scoped)
  /\ table[1].binds[Return] = Absent
  /\ \A i \in Scoped :
        /\ ScopeOf(i).fenced = (stack[i].kind = "fn")
        /\ ScopeOf(i).binds[Return] = IF stack[i].kind = "fn"
                                        THEN Variable(stack[i].type, FALSE) ELSE Absent

\* What code generation takes for granted of the programs it gets: a FUNC or lambda
\* ends in a return, and no statement follows a return in the same block.
BodiesEnd ==
  ~ errors => /\ \A i \in Scoped : stack[i].last # "dead"
              /\ "unfinished" \notin slips

\* In a program that is accepted every return, in whatever blocks and alternatives it
\* is nested, has a value if and only if the function it returns from is a FUNC.
\* While the program is visited that need not be so: a body that was visited with
\* the type of another function is only found out when that one is defined.
ReturnsAgree == Accepted => "return" \notin slips

\* In a program that is accepted, each function declared ahead has a body, and each
\* body was visited with the type of its own heading: its symbol was not taken for
\* that of a variable that has the type, nor its type for defined by another.
DefinitionsAreOwn ==
  Accepted => /\ "foreign" \notin slips
              /\ \A i \in DOMAIN unit.stmts : unit.stmts[i].kind = "func" => i \in bodies

\* A match that is accepted has an alternative for every case of the sum, if it does
\* not name a case twice whose type is made anew each time it is named.
MatchCovers == Accepted => "uncovered" \notin slips
=============================================================================
