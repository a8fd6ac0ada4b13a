------------------------------- MODULE Naming -------------------------------
(***************************************************************************)
(* The two passes together.  The semantic pass binds the nodes of the tree *)
(* to symbols; code generation walks the same tree again and knows nothing *)
(* but these bindings.  What it makes for a symbol it finds again in three *)
(* ways: the allocation it left in Symbol::val, the LLVM name it left in   *)
(* the TypeInvoke object, and, for a global, the name in the source.  The  *)
(* first two are written by whoever comes first and shared by all who hold *)
(* the object; names of LLVM are flat, where scopes are nested.            *)
(*                                                                         *)
(* A behaviour is the analysis of a program without errors, which records  *)
(* the nodes that have bindings, and then the generation of its code.      *)
(***************************************************************************)
EXTENDS SemanticVisitor

CONSTANTS MaxTree  \* bound on the nodes of a program

ASSUME TreeAssumption == MaxTree \in Nat

VARIABLES tree,    \* nodes with their bindings, in the order of the source
          pass,    \* what is being done, and its list of the unit
          at,      \* the position in the list, or in the tree
          module,  \* functions and variables of the LLVM module, in order
          nameOf,  \* TypeInvoke::name of the types that have one
          valOf,   \* Symbol::val: the function the allocation is in
          current, \* functions that code is inserted in, innermost last
          reached  \* what the name generated last was found to be

generation == <<pass, at, module, nameOf, valOf, current, reached>>
allVars    == <<vars, tree, generation>>

-----------------------------------------------------------------------------
(* Analysis.  A symbol is identified by the scope that it is in and its name.     *)

Site(tb, x) == <<tb[CHOOSE i \in DOMAIN tb : Table(tb)!Resolves(i, x)].id, x>>

ScopeId(tb) == tb[Len(tb)].id

\* At least as many nodes are to come: the ends of the open bodies, and of each
\* statement of the unit that was not visited a start and an end.
Owed == LET left == Len(unit.stmts) - next + (IF stack = <<>> THEN 1 ELSE 0)
        IN  Cardinality(Bodies) + 2 * (CASE phase = "done"  -> 0
                                         [] phase = "stmts" -> left
                                         [] OTHER           -> Len(unit.stmts))

Records(nodes) == /\ pass = "semantic" /\ ~ errors'
                  /\ Len(tree) + Len(nodes) + Owed' <= MaxTree
                  /\ tree' = tree \o nodes
                  /\ UNCHANGED generation

Use(tb, x, way) == [node |-> "use", site |-> Site(tb, x), symbol |-> Lookup(tb, x),
                    way |-> way]

analyseLists == /\ endOfList \/ externStatement \/ forwardDeclare \/ endUnit
                /\ Records(<<>>)

analyseFunction(h, item) ==
  /\ \/ /\ At("stmts") /\ unit.stmts[next].kind = "func"
        /\ h = unit.stmts[next].heading /\ item = next
     \/ AtStatement /\ h \in Headings /\ item = 0
  /\ visitInvokeable(h, item)
  /\ phase' = "stmts" /\ Len(stack') > Len(stack)
  /\ Records(<<[node |-> "func", site |-> <<ScopeId(table), h.name>>,
                type |-> stack'[Len(stack')].type, item |-> item,
                params |-> h.params, scope |-> ScopeId(table')]>>)

analyseLambda(h) ==
  /\ visitLambda(h)
  /\ Records(<<[node |-> "lambda", params |-> h.params, scope |-> ScopeId(table')]>>)

analyseEnd    == endBody /\ Records(<<[node |-> "end"]>>)
analyseBlock  == (visitBlock(FALSE, TRUE) \/ endBlock) /\ Records(<<>>)
analyseReturn == returnStatement(stack[Innermost].returns) /\ Records(<<>>)

analyseName(x, call) ==
  /\ IF call THEN invocation(x, TRUE) ELSE assignStatement(x, TRUE)
  /\ Records(<<Use(table, x, IF call THEN "call" ELSE "assign")>>)

\* The initializer keeps the binding of its last evaluation, which for one name is
\* that of the scope before the name is declared.
analyseDeclaration(x, d) ==
  /\ varDecl(<<x>>, d, TRUE)
  /\ Records((IF d.how = "var" THEN <<Use(table, d.from, "read")>> ELSE <<>>)
             \o <<[node |-> "decl", site |-> <<ScopeId(table), x>>,
                   isGlobal |-> isGlobalScope]>>)

-----------------------------------------------------------------------------
(* The LLVM module.  A name is a text and the number LLVM adds to tell it from    *)
(* names that are taken, 0 for none.                                              *)

Unique(text) == <<text, Cardinality({i \in DOMAIN module : module[i].name[1] = text})>>

Value(kind, text, site, public) ==
  [kind |-> kind, name |-> Unique(text), site |-> site, public |-> public, bodies |-> 0]

\* module->getFunction and module->getNamedGlobal; 0 for none.
Named(kind, name) ==
  IF \E i \in DOMAIN module : module[i].kind = kind /\ module[i].name = name
    THEN CHOOSE i \in DOMAIN module : module[i].kind = kind /\ module[i].name = name
    ELSE 0

\* f, with every member of X mapped to v.
With(f, X, v) == [y \in DOMAIN f \union X |-> IF y \in X THEN v ELSE f[y]]

\* Mutant: the type is given the name in the source.
setName_OfSource(type, value) == With(nameOf, {type}, <<value.site[2], 0>>)

\* TypeInvoke::setName, for a type that has no name.
setName(type, value) == With(nameOf, {type}, value.name)

Starts == [semantic |-> "extens", extens |-> "forward", forward |-> "tree"]

nextList ==
  /\ \/ pass = "semantic" /\ Accepted
     \/ pass = "extens" /\ at > Len(unit.extens)
     \/ pass = "forward" /\ at > Len(unit.stmts)
  /\ pass' = Starts[pass] /\ at' = 1
  /\ UNCHANGED <<vars, tree, module, nameOf, valOf, current, reached>>

\* Function::Create with external linkage.
Predeclare(site, type) ==
  LET value == Value("fn", site[2], site, TRUE)
  IN  /\ module' = Append(module, value)
      /\ nameOf' = setName(type, value)

TvisitExternStatement ==
  /\ pass = "extens" /\ at <= Len(unit.extens)
  /\ Predeclare(<<0, unit.extens[at].name>>, at)
  /\ at' = at + 1
  /\ UNCHANGED <<vars, tree, pass, valOf, current, reached>>

\* Mutant: a function gets its name when it is generated.
predeclare_Late ==
  /\ pass = "forward" /\ at <= Len(unit.stmts)
  /\ at' = at + 1
  /\ UNCHANGED <<vars, tree, pass, module, nameOf, valOf, current, reached>>

\* All functions of the unit are pre-declared.
predeclare ==
  /\ pass = "forward" /\ at <= Len(unit.stmts)
  /\ IF unit.stmts[at].kind = "func"
       THEN LET own == CHOOSE i \in DOMAIN tree : /\ tree[i].node = "func"
                                                  /\ tree[i].item = at
            IN  Predeclare(tree[own].site, tree[own].type)
       ELSE UNCHANGED <<module, nameOf>>
  /\ at' = at + 1
  /\ UNCHANGED <<vars, tree, pass, valOf, current, reached>>

-----------------------------------------------------------------------------
(* Generation of the nodes.                                                       *)

Node == tree[at]
Here == current[Len(current)]

AtNode(kind) == /\ pass = "tree" /\ at <= Len(tree) /\ Node.node = kind
                /\ at' = at + 1
                /\ UNCHANGED <<vars, tree>>

\* Into the body of a function: its parameters have their allocations in it.
Enters(fn) ==
  /\ current' = Append(current, fn)
  /\ valOf' = With(valOf, {Node.scope} \X {Node.params[i] : i \in DOMAIN Node.params}, fn)

\* Mutant: a nested function is taken to be pre-declared as well.
visitInvokeableCode_OnlyPredeclared ==
  /\ AtNode("func")
  /\ LET fn == IF Node.type \in DOMAIN nameOf THEN Named("fn", nameOf[Node.type]) ELSE 0
     IN  /\ module' = [i \in DOMAIN module |->
                         IF i = fn THEN [module[i] EXCEPT !.bodies = @ + 1] ELSE module[i]]
         /\ Enters(fn)
  /\ UNCHANGED <<pass, nameOf, reached>>

\* visitInvokeable: the function of the name the type has, or a private one.
visitInvokeableCode ==
  /\ AtNode("func")
  /\ LET known == Node.type \in DOMAIN nameOf
         value == Value("fn", Node.site[2], Node.site, FALSE)
         fn    == IF known THEN Named("fn", nameOf[Node.type]) ELSE Len(module) + 1
         made  == IF known THEN module ELSE Append(module, value)
     IN  /\ module' = [made EXCEPT ![fn].bodies = @ + 1]
         /\ nameOf' = IF known THEN nameOf ELSE setName(Node.type, value)
         /\ Enters(fn)
  /\ UNCHANGED <<pass, reached>>

TvisitLambdaConstExpr ==
  /\ AtNode("lambda")
  /\ module' = Append(module, [Value("fn", "LAM", <<Node.scope, "LAM">>, FALSE)
                                 EXCEPT !.bodies = 1])
  /\ Enters(Len(module) + 1)
  /\ UNCHANGED <<pass, nameOf, reached>>

endOfBody == /\ AtNode("end")
             /\ current' = SubSeq(current, 1, Len(current) - 1)
             /\ UNCHANGED <<pass, module, nameOf, valOf, reached>>

\* visitVariable, for calls and initializers, and TvisitAssignStatement: the value of
\* the module, or the function that the allocation is in; 0 for none.
Denotes(n) ==
  LET s == n.symbol
  IN  IF n.way = "assign" /\ s.isGlobal THEN Named("var", <<n.site[2], 0>>)
      ELSE IF n.site \in DOMAIN valOf THEN valOf[n.site]
      ELSE IF n.way = "assign" THEN 0
      ELSE IF s.type # 0
        THEN IF s.type \in DOMAIN nameOf THEN Named("fn", nameOf[s.type]) ELSE 0
      ELSE IF s.isGlobal THEN Named("var", <<n.site[2], 0>>) ELSE 0

use == /\ AtNode("use")
       /\ reached' = [node |-> Node, value |-> Denotes(Node), inside |-> Here]
       /\ UNCHANGED <<pass, module, nameOf, valOf, current>>

\* A global is asked for by its name right after it was inserted; when a function
\* has the name there is none, and the compiler crashes.
TvisitVarDeclStatement ==
  /\ AtNode("decl")
  /\ IF Node.isGlobal
       THEN LET value == Value("var", Node.site[2], Node.site, TRUE)
            IN  /\ module' = Append(module, value)
                /\ pass' = IF value.name[2] = 0 THEN pass ELSE "crashed"
                /\ UNCHANGED valOf
       ELSE /\ valOf' = With(valOf, {Node.site}, Here)
            /\ UNCHANGED <<module, pass>>
  /\ UNCHANGED <<nameOf, current, reached>>

\* With NO_RUNTIME a main is made that calls program().
finish ==
  /\ pass = "tree" /\ at > Len(tree)
  /\ pass' = "end"
  /\ IF NoRuntime
       THEN LET main == Value("fn", Main, <<0, Main>>, TRUE)
                call == Use(table, Program, "call")
            IN  /\ module' = Append(module, [main EXCEPT !.bodies = 1])
                /\ reached' = [node |-> call, value |-> Named("fn", <<Program, 0>>),
                               inside |-> Len(module) + 1]
       ELSE UNCHANGED <<module, reached>>
  /\ UNCHANGED <<vars, tree, at, nameOf, valOf, current>>

NamingInit == /\ Init
              /\ tree = <<>> /\ pass = "semantic" /\ at = 1
              /\ module = <<>> /\ nameOf = <<>> /\ valOf = <<>> /\ current = <<>>
              /\ reached = Absent

NamingNext ==
  \/ analyseLists \/ analyseEnd \/ analyseBlock \/ analyseReturn
  \/ \E h \in Headings \union {unit.stmts[i].heading : i \in
                               {j \in DOMAIN unit.stmts : unit.stmts[j].kind = "func"}} :
        \E item \in 0..Len(unit.stmts) : analyseFunction(h, item)
  \/ \E h \in Headings : analyseLambda(h)
  \/ \E x \in Names, call \in BOOLEAN : analyseName(x, call)
  \/ \E x \in Names, d \in Declarations : <<x>> \in Declarators /\ analyseDeclaration(x, d)
  \/ nextList \/ TvisitExternStatement \/ predeclare
  \/ visitInvokeableCode \/ TvisitLambdaConstExpr \/ endOfBody
  \/ use \/ TvisitVarDeclStatement \/ finish

NamingSpec == NamingInit /\ [][NamingNext]_allVars

-----------------------------------------------------------------------------
NamingTypeOK ==
  /\ TypeOK
  /\ pass \in {"semantic", "extens", "forward", "tree", "end", "crashed"}
  /\ at \in Nat \ {0}
  /\ \A i \in DOMAIN module : /\ module[i].kind \in {"fn", "var"}
                              /\ module[i].name \in (Ids \union {"LAM"}) \X Nat
                              /\ module[i].public \in BOOLEAN /\ module[i].bodies \in Nat
  /\ DOMAIN nameOf \subseteq 1..Len(types)
  /\ \A s \in DOMAIN valOf : valOf[s] \in DOMAIN module
  /\ \A i \in DOMAIN current : /\ current[i] \in DOMAIN module
                               /\ module[current[i]].kind = "fn"
  /\ reached = Absent \/ reached.value \in 0..Len(module)

Heads == {unit.extens[i] : i \in DOMAIN unit.extens} \union
         {unit.stmts[i].heading : i \in {j \in DOMAIN unit.stmts : unit.stmts[j].kind = "func"}}

\* Other programs link against the functions and externs of a unit: each has exactly
\* its name in the source, whatever nested functions and lambdas are called.
TopLevelKeepsNames ==
  pass \in {"tree", "end", "crashed"} =>
    \A h \in Heads : \E v \in {module[i] : i \in DOMAIN module} :
      v.kind = "fn" /\ v.name = <<h.name, 0>> /\ v.public /\ v.site = <<0, h.name>>

\* A call of a name that is a function by its declaration reaches the function that
\* was made for the declaration the name is resolved to, also when functions of
\* several scopes have that name, before the function is generated and in itself.
CallsReachTheirFunction ==
  reached # Absent /\ reached.node.way = "call" /\ reached.node.symbol.isDefinition =>
    /\ reached.value # 0
    /\ module[reached.value].kind = "fn"
    /\ module[reached.value].site = reached.node.site

\* A local variable or parameter has its allocation by the time it is used, and in
\* the function that uses it; a global has its variable, and not that of another.
\* Globals that have the type of a function are left out: they denote the function.
StorageIsOwn ==
  reached # Absent /\ ~ reached.node.symbol.isDefinition =>
    IF ~ reached.node.symbol.isGlobal
      THEN reached.value # 0 /\ reached.value = reached.inside
      ELSE reached.node.symbol.type = 0 =>
             reached.value # 0 /\ module[reached.value].site = reached.node.site

\* When the code is complete every function of the program has one body; externs
\* have none.
BodiesOnce ==
  pass = "end" =>
    \A i \in DOMAIN module : module[i].kind = "fn" =>
      module[i].bodies = IF i <= Len(unit.extens) THEN 0 ELSE 1
=============================================================================
