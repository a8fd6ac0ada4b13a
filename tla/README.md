# A verification of the WPL compiler

WPL is a small imperative language with functions, lambdas, `var` inference, sum types (enums) and
structures. The compiler (`src/src`) parses a file with ANTLR, checks it with `SemanticVisitor`, which
fills a symbol table and binds tree nodes to symbols, generates LLVM IR with `CodegenVisitor`, and
writes IR, objects and executables from `wplc.cpp`. This directory holds TLA+ modules of its stateful
parts, TLC configurations that check them on small instances, and TLAPS proofs for every instance.

To check: `tlc -workers 2 -config Codegen.cfg Codegen.tla` and so on for the pairs in the table of
runs below; `tlapm STManager_proofs.tla` and so on for the proofs.

## The system

| Component | Source | State it keeps | Operations |
|---|---|---|---|
| Symbol table | `symbol/STManager`, `Scope`, `Symbol` | heap of scopes with parent pointers, vector of open scopes, current scope, stack of "stops" (where a function body begins) | enter and exit a scope, declare, look up |
| Types and inference | `symbol/include/Type.h`, `Type.cpp` | for each `var` a cell: inferred type, cells it depends on; function types: name, "defined" flag | `isSubtype`, which infers as a side effect; `define`, `setName` |
| Semantic visitor | `semantic/SemanticVisitor` | symbol table, bindings, list of errors, the handlers in progress (the stack of the C++ program) | one handler for each construct; forward declaration of functions, checks of types, returns, dead code |
| Property manager | `semantic/include/PropertyManager.h` | tree node to symbol | bind, get |
| Code generation | `codegen/CodegenVisitor` | LLVM module, insertion point of one builder, allocas in symbols | one handler for each construct |
| Driver | `wplc.cpp` | inputs, `isValid`, files on disk | read, analyse, generate, write, link |
| LinkedMap, errors, runtime, grammar | `utility`, `runtime`, `lexparse` | ordered map of fields; error list; argv; none | insert, lookup; add; get an argument |

The semantic pass drives the symbol table and compares types; the comparison writes cells that
other symbols share. Symbols, reached from tree nodes through the bindings, are the only thing the two passes share: code
generation reads their types, writes their storage, and writes the LLVM name of a function into its type. The driver makes fresh objects for each input; its inputs meet only in `isValid`,
on disk and in the command for the linker. All of it is one thread. What is hard is therefore
not interleaving but order and nesting: state that is pushed and popped along a tree (scopes, stops, the
insertion point), facts that become known after they were used (`var`), blocks that are attached long after
they are made, decisions taken at one place and relied on at another (returns, tags), and errors in the
middle of a handler or of the list of inputs. Recovery after a crash and concurrency do not arise: nothing is
persisted but the outputs. Where the compiler itself stops with an exception or a null pointer, the models that reach
the place end there (`aborted` in `SemanticVisitor`, `crashed` in `Naming`).

What makes each component correct:

* symbol table: a lookup gives what lexical scoping gives; declarations are kept; lookups return;
* inference: a variable has one type, which fits everything it was compared with, earlier and later;
* sum types and structures: a tag says which case the data is, and a position which field, through every
  conversion the checker accepts;
* semantic visitor: scopes stay in step with the handlers, also after errors; an accepted program has one body for
  each function, checked under its own heading, that returns what it should, and covers its matches;
* names: what a name was resolved to is what the generated code reaches; exported names are those of the source;
* code generation: blocks end, once, and go where the source goes, in the right function; phis name
  the blocks that enter them; every variable has storage;
* driver: outputs and executables come from valid inputs only, and no input is passed over in silence.

## Modules

| Module | Models | How its state and actions correspond to the code |
|---|---|---|
| `LexicalScoping` | nothing: an abstract specification | A list of frames, some of them fences; a name resolves to the innermost frame that declares it, if that is usable from inside the fence. `Open`, `Close`, declarations and lookups that answer in one step. |
| `STManager` | `STManager.cpp`, `Scope.cpp` | The variables are the fields of `STManager` and, by scope id, those of `Scope`. `enterScope`, `exitScope`, `addSymbol` are the functions (with an action of its own for each early return); `lookup` starts a lookup and `lookupStep` is one iteration of its loop, on the locals kept in `walk`. |
| `TypeInference` | `TypeInfer` in `Type.h`, `Type::isSubtype`, the handlers that call it | A cell is the address of a `TypeInfer`: `value` and `links` are its fields. `inferSupertypeFor`, `setValue` and `link` return the heap after a call and its answer. The actions are statements: declarations with and without type and initializer, assignments, uses where a type is expected, and the end of the scope. `demands` is a history of comparisons that were answered true. Types are opaque, with a given relation `Subtype`. |
| `SumTypes` | `TypeSum` and `TypeStruct` in `Type.h`; the handlers of declarations, assignments, invocations, initializations, field accesses, returns and matches, in both passes | A straight-line program executed as it is generated. `isSubtype` and `getIndex` are the functions of the checker and of the generator; `Coerce` is the wrapping that five handlers repeat; `ValueAt` follows a path of fields as the generated loads do, by position, where `Meaning` follows it by name. `mem` holds tagged values and structures, `said` is a history of what the program meant. |
| `LinkedMap` | `LinkedMap.h` | Operators: a map is its two fields, `indexes` and `values`. `SumTypes` keeps the fields of structures in them. |
| `SemanticVisitor` | `CompilationUnit`, `visitInvokeable` and the handlers of statements in `SemanticVisitor`, `TypeInvoke` in `Type.h` | A behaviour is the walk of one program: the lists of the unit are given, what is in bodies is generated on the way. `stack` is the handlers in progress; one that visits children is split where it does (`visitBlock`, `endBlock`). `table` is the symbol table as `LexicalScoping` describes it, which `STManager` implements. `types` are the `TypeInvoke` objects, by identity, as their flag is shared. Whether an expression has the type it must have is the choice `ok`. `slips` is a history of what an error-free walk let pass. |
| `Naming` | bindings (`PropertyManager`), `visitInvokeable`, `visitVariable`, and the handlers of `CodegenVisitor` that make or look up functions and variables | Composes the passes. `tree` is the list of nodes of the program, each with its binding, which an error-free walk of `SemanticVisitor` leaves behind; then `pass` goes through the lists as `TvisitCompilationUnit` does and through `tree`. `module` is the LLVM module, `nameOf` is `TypeInvoke::name`, `valOf` is `Symbol::val`. |
| `Codegen` | the handlers of `CodegenVisitor` that make basic blocks | A behaviour walks one program and generates blocks: `content` is what is in a block, `fnOf` the function it is attached to, `ins` the insertion point, `stack` the handlers in progress with their locals. Handlers that visit children are split where they do (`conditional`, `endThen`, `endElse`). Straight-line code is one item. `live` is a history of whether the source can reach the point visited. |
| `Driver` | `main` of `wplc.cpp` | The variables are its locals and the disk; an action is an iteration of the loop that ends in one way, or what comes before and after the loop. What the passes find in a file is its kind. |
| `MCSTManager`, `MCTypeInference`, `MCSumTypes`, `MCSemanticVisitor`, `MCNaming` | | constants for TLC |
| `STManager_proofs`, `TypeInference_proofs`, `Driver_proofs`, `LinkedMap_proofs`, `SemanticVisitor_proofs`, `Naming_proofs`, `Codegen_proofs` | | theorems and proofs |
| `SequenceFacts` | | lemmas about stacks: what the last element and the rest are after a push, a pop or an update of the top; how many members of a set of positions come before one; what an iteration keeps |

Operators named after a definition with a suffix (`exitScope_KeepsStop`) are mutants: plausible bugs
which the properties must find. They stand before the definition they are a variant of, and no
specification uses them.

## Runs

| Run | Instance | Shows |
|---|---|---|
| `STManager` | 1 name, 3 kinds of symbols, 4 scopes | the table is consistent (`ChainMatchesVector`, `StopsAreLive`, `WalkInStep`), keeps declarations, returns from lookups, and implements `LexicalScoping` |
| `TypeInference_base` | 3 variables, 3 cells, 2 types | linked cells are inferred together, once, and every comparison answered true holds at the end of an accepted scope |
| `SumTypes` | 2 variables, 3 base types, an enum, an anonymous sum of its cases, an enum that nests it, a structure with the enum in it and a structure with that in it | storage holds values of its declared type (`ContentsTyped`), and those that the program means: the case a match takes is the one the value was put in, and a field is the one that was named (`MeaningKept`) |
| `SemanticVisitor` | 3 units of 1 or 2 definitions, 2 names, 4 scopes, 4 levels | scopes follow the handlers; of what is accepted, bodies end in returns, returns agree with the heading, every body was checked with its own heading and every match has all cases |
| `Naming` | 4 units, 2 names of which one is `program`, 6 nodes, `NO_RUNTIME` | exported functions keep their names, calls reach the function their name was resolved to, variables are used in the function that has their storage, every function gets one body |
| `Codegen` | 6 blocks, 2 functions, 4 levels, all constructs | insertion points are given back; blocks are attached and end; code is executed exactly when the source reaches it; one terminator where the checker guarantees it; phis follow their operands |
| `Driver` | up to 3 inputs with 2 names, all kinds and modes | outputs of valid inputs only, links exactly what this run compiled, the last input with each name; all errors reported |

Runs that find the code in disagreement with what it says of itself:

| Run | Claim | What happens |
|---|---|---|
| `TypeInference_sum` | an inferred type is checked to be "a subtype of other" (`Type.h:626`) | it is checked the other way round: a variable inferred to be a sum is accepted where a case is expected |
| `Codegen_return` | "we ensure no following code" after a return (`CodegenVisitor.cpp:1470`) | a loop puts its condition and a branch after a body that ends in a return; a bare block hides its return from the block around it |
| `Codegen_phi` | "PHI node to merge both sides back together" (`CodegenVisitor.cpp:624`) | for `(a \| b) & c` the phi names the block the expression began in, which does not enter the merge block |
| `SumTypes_decl` | "For each of the variabes being assigned to that value" (`CodegenVisitor.cpp:1106`) | after a copy of a sum the handler returns and later variables of the declaration have no storage |
| `SumTypes_nested` | data is cast "to the proper type based on the tag" (`Journal.md:63`) | `{ A, bool }` is accepted as `A = { int, str }` and copied with its tags |

The properties of the passing runs are stated so that they hold of what the code does get right: in
`Codegen`, `OneTerminator` leaves out the functions in which a return ended a bare block or a loop body
(the history `buried`), and `PhiFollowsOperands` speaks of operands from the second on. `FlowsHold` speaks
of the comparison that was made, in the direction in which the code makes it. `SumTypes` uses sums
in which no two of the same size differ by nesting. `ReturnsAgree` and `DefinitionsAreOwn` speak of programs that
are accepted: in between, a body can be visited under the type of another function, which is found out when that one is
defined. `MatchCovers` leaves out matches that name the same case twice with a type that is made anew each time (an array,
an anonymous sum), as those are counted twice. `StorageIsOwn` leaves out globals whose type is the name of a function: they
denote that function, whatever is assigned to them.

Two more disagreements were met and have no run: a `var` initialized by the call of a PROC is accepted, where
`SemanticVisitor.cpp:825` says that nothing takes the type UNDEFINED; and `-nocode` with a mode of linking writes the object
file, where `wplc.cpp:64` says that none is.

### Bounds, and why they are enough

* `STManager`: four scopes give a function within a block within a function, with a scope entered
  after another was left, which is where stops and depths go wrong; names do not interact, so one is enough.
* `TypeInference`: three variables give a chain whose middle is inferred last, a cycle of links, and the
  disagreement of two neighbours. Two types tell agreement from conflict. The cells, the names and the types are symmetric.
* `SumTypes`: two variables give the value and the sum or structure around it; calls, initializations, fields and
  paths of two fields add more conversions in one step, and a structure in a structure holds a sum with a tag. Three variables
  are needed where a declaration goes on after a copy (`SumTypes_decl`) and for a copy of a copy (`SumTypes_nested`); there
  are no structures in these.
* `SemanticVisitor`: four scopes are the unit, a function, and two more inside or after it: a block in a nested function, an
  else after a then, a lambda in an alternative. Two names are enough for a nested function that hides a variable, a
  parameter or the function around it, and for a variable that takes the type of a function that is declared ahead.
* `Naming`: six nodes (`MaxTree`) are two functions of the top level with a use in one of them, or `program` with a nested
  function and two uses or declarations, of which one can be of a name the other has. Nodes for the ends of bodies that are
  still open are kept free (`Owed`), so that every program that is begun can be completed. `program` is one of the names
  that nested functions can take, as code generation looks it up by its text.
* `Codegen`: six blocks give an if with else inside a loop, a select with two cases, two levels
  of logical expressions, or a lambda in any of them. A block with a statement in it (`MaxContent`) takes no further
  statement: code before a branch changes nothing about the branch.
* `Driver`: the third input comes after one that was skipped and one that was compiled; two names for three
  inputs let outputs collide, also when an input of the other name was compiled in between.

`CHECK_DEADLOCK FALSE` stands where the system stops: a scope that was left, a program at its bounds,
a unit that was visited, a `main` that returned. `STManager` never stops, as a lookup is always possible.

### Fairness

`STManager!FairSpec` has weak fairness of `lookupStep`: a lookup that was called runs, as the compiler
is one thread. Nothing else is assumed, and no other module has liveness properties.

## Proofs

Every theorem holds for all values of the constants that meet the assumptions of the module. The assumptions say what the
constants are (bounds are numbers, units are lists of headings, `@RETURN` is no identifier of a program, the cases of a
sum are a finite set); the one that restricts the program is `Flat` in `FlowsCorrect`. The pattern is the same
throughout: an inductive invariant, a lemma for each action that it is kept, and theorems that follow from it by temporal logic.

`STManager_proofs`, for any identifiers, symbols and bound:

* `TypeCorrect`: `TypeOK` is inductive.
* `ChainCorrect`: `ChainMatchesVector`. Inductive with `TypeOK`; that ids grow inwards is what
  makes a new scope different from all open ones.
* `StopsCorrect`: `StopsAreLive`. It rests on the chain; a stop above 0 can only equal the depth that is left when
  it is the last, because the stack is sorted.
* `DeclarationsCorrect`: the action property `DeclarationsPersist`, from the chain.
* `Refinement`: `Spec => ImplementsLexicalScoping`. Besides the invariants above it needs that scopes not yet allocated
  hold no symbols (`FreshScopesAreEmpty`), as frames open empty, and `WalkInStep`, the loop invariant of `lookup`, which
  is a theorem of its own (`WalkCorrect`): the scope looked at is the one at `depth`, and no scope further in declares the name.
  Then the answer at the end of the walk is the one of a single step, and `depth >= stop` is the same as "no fence in between".

`TypeInference_proofs`, for any names, cells, types and subtype relation:

* `CellsTyped`: `TypeOK`.
* `LinksCorrect`: `LinksAgree`, with the facts about `Reach` (it contains its start, is closed under links of cells
  without type, and holds no cell that has one) as lemmas, and `FreshCells`.
* `InferredOnceCorrect`: the action property `InferredOnce`.
* `FlowsCorrect`: `FlowsHold` when `Subtype` is reflexive and symmetric on `Types` (assumption `Flat`), which
  is so for base types. Without symmetry it does not hold of what programmers expect: see `TypeInference_sum`.
  The invariant adds that a comparison between cells without types left them linked.

`Driver_proofs`, for any paths, flags and bound on the inputs (`MaxFilesAssumption` is the only assumption used):

* `DriverTyped`: `TypeOK`.
* `OutputsCorrect`, `LinkingCorrect`, `InputsCorrect`: `OutputsAreValid`, `LinksWhatItCompiled` and `EveryInputDealtWith`.
  The last two only speak of the end of `main`; `LoopInv` is what makes them inductive: while the loop runs, nothing
  is linked, files name inputs that exist, and each input before `next` was reported or has its object, and was valid if
  `isValid` still holds.
* `LinkedIsNewest`: `LinksNewest`. `Newest` is its form while the loop runs: an object is of an input with its name,
  and no valid input after it, up to the one the loop is at, has that name. Then the object of the last input is
  written over the others, and what is linked when all inputs were valid is of the last.

`LinkedMap_proofs`, for any keys and values (no assumptions): `EmptyIsMap` and `InsertMakesMap` say that every map the
program builds is in `Maps`, where each position belongs to one key; `LookupFindsInserted`, `OtherKeysStay` and
`ElementsAgree` that a key is found under its position, that positions do not move, and that the element at the position of
a key is that key with its value. This is the part of `MeaningKept` that a map of any size needs.

`SemanticVisitor_proofs`, for every unit, any names, headings, declarators, cases and bounds. Two invariants:

* `Structure` gives `TypeCorrect`, `ScopesInStep` (`ScopesFollowHandlers`), `BodiesAreFinished` (`BodiesEnd`) and
  `MatchesCover` (`MatchCovers`). Its parts are the types, with every function type that a scope or a handler refers to among those
  made (`Scalars`, `Frames`); which handler can stand in which, and that scopes and handlers run in parallel (`Follows`: the scope of
  a handler is found by counting the handlers with scopes up to it); that the lists before `stmts` are visited with no handler
  open (`Listed`); and, while there is no error, that no handler has seen dead code and that each match has counted the
  different cases it was given (`Unsoiled`). `MatchesCover` follows as a set of cases with as many members as the finite
  `SumCases` is all of it.
* `Definitions` gives `DefinitionsOwned` (`DefinitionsAreOwn`) and `ReturnsFit` (`ReturnsAgree`). That a body is visited
  with the type of its own heading is not invariant: a variable can have the type of a function that is declared ahead, and a nested
  function with its name then takes that type and defines it. What is invariant is that either nothing of the
  kind has happened, or a function that is still to come has a type that is defined already (`TakenAhead`), so that its own
  turn ends in an error. It needs that each function declared ahead has one type, whose name still denotes it in
  the outermost scope (`DeclaredAhead`), and that those visited are defined and have a body (`VisitedDefined`). For a return it is added
  that the lookup of `@RETURN` finds that of the innermost body (`LookupReturn`, from `Structure`).

The declarations of a list of names are a recursive function (`DeclareEach`); what it keeps is proved with the iteration lemmas
of `SequenceFacts`, from a least position at which it would fail.

`Codegen_proofs`, for any bounds and set of constructs: `CodegenTyped` (`TypeOK`), `InsertionFollows`
(`InsertsInFunction`), `FunctionsEnd` (`FinishedFunctionsEnd`) and `BlocksEndOnce` (`OneTerminator`), all from `BlocksInv`:

* `Placed`: which construct can stand in which (`Nests`); the blocks that a construct was made with and has still to attach (`Awaits`:
  `else` and `rest` of a conditional, `rest` of a loop, `merge`, the `else` of the alternative of a select) are in no
  function yet, and no two constructs wait for the same block; the blocks a construct goes back to, and the insertion points
  that nested functions saved, are of the function around it (`Known`).
* `Inserting`: `InsertsInFunction`.
* `Filled`: a block that is in no function is empty. One that is in a function goes to blocks of that function or to such as a
  construct of it waits for (`Goes`), and has a terminator, or is the insertion point, or was saved by a nested function
  (`Finishes`). If no return was buried in its function (a `loop` being visited counts once its body ended in a return), its
  only terminator is at its end, and it has none if code is still inserted in it (`EndsOnce`).

When a function is finished nothing waits in it and nothing is inserted or saved in it (`FinishedFacts`), and `Filled` becomes the
theorems. A step of the stack that replaces the innermost construct, pushes one or pops one is reasoned about once
(`Opened`, `Done`, `Staying`, `Swap`), a step of the blocks once for each way of using the insertion point (`Terminate`, `GoOn`, `LeaveStep`).

`FlowFollows` (`CodeFollowsSource`), also for any bounds, rests on a second invariant, `FlowInv`, on top of `BlocksInv`. `live` is what the source
says of one place; the invariant says what it means for the blocks of every construct around that place.

* `Now` is the least set with the entries of all functions and every block that the first terminator of one of its blocks goes to (`Lit`). A step
  adds entries and lets one block go to more; `LitStep` gives the new set without following paths, as the blocks added are empty.
* `Pointed`: the insertion point is in `Now` and has no terminator exactly when the place being visited can be reached. It is not
  said behind the last alternative, where the next insertion is in `merge`.
* `Claims`: what each construct says of the blocks it waits for. The `else` and the `rest` of a conditional, the `body` and `rest` of
  a loop, the next `else` of a select can be executed exactly when the construct could be reached (`was`, `out`); the `merge` of a select
  only then, and after its last alternative always then; the block of the `switch` of a match is in `Now` and that switch is what ends it, so
  that a case added later is gone to; `merge` of a logical expression only if the place is reached; the saved insertion
  point of a function can be executed when the place it was entered at can.
* `Chained`: what can be reached is in constructs of the same function that can be reached. Without it a `live` that comes back
  at the end of a branch could be more than the constructs around it allow.

At the end `Now`, cut down to one function, is `Reachable` (`ReachableHere`, with `Goes` of `BlocksInv`): blocks of other functions are no
way in. That `MaxBlocks` rounds of the iteration are enough follows from counting (`ReachableShut`): a round that adds nothing is
the last, and each of the others adds one of at most `MaxBlocks` blocks. TLC checked `FlowInv` on the instance of the run `Codegen` before it was proved.

`PhisFollow` (`PhiFollowsOperands`), for any number of operands and any depth of expressions, rests on `PhiInv`, which says of a logical expression at any
moment what the property says once its merge block is attached. While an operand is visited, anything may happen in between that the operand is made of.

* `Whole`: the phi has the values of the first `n` operands, and each of them, and nothing else, is tested by one instruction that goes to the
  merge block, from the second on in the block of the phi's edge. It holds of an expression with `n` operands whose next one is
  being visited, and of merge blocks that are attached (`Joined`).
* `Half`: the value of the last operand is in the phi and is not tested yet; its edge comes from the insertion point. Only the innermost
  construct can be such an expression (`Calm`), so no other step can move the insertion point before the test is inserted there. This is where
  it matters that `operand` and `endLogic` ask LLVM for the block after the operand was generated, and not before.
* A block with a phi is in a function or is the merge block of an expression being visited (`Owned`); the body of a loop has none. As no
  two constructs wait for the same block (`Placed` of `BlocksInv`), what the other constructs branch to is never a merge block of an
  expression, so their steps leave its entries alone (`Quiet`).

`Naming_proofs`, for every unit and all programs below it, of any size and depth of nesting: `CallsReach`
(`CallsReachTheirFunction`), `StorageOwn` (`StorageIsOwn`), `TopLevelNames` (`TopLevelKeepsNames`), `CompleteBodies` (`BodiesOnce`)
and `NamingTypes` (`NamingTypeOK`). They are about what the analysis decided and the generation relies on, so the invariant
(`NamesBound`: `NamingSpec => []NamingInv`) says first what is true of the tree and its bindings, then what the generation has made
of each node. Its steps rest on the two invariants of `SemanticVisitor_proofs`, which a step of the analysis keeps.

* `Facts`, of the tree while and after it is made. `p` gives every node its path, the bodies that it is in (`Paths`); every scope that
  a symbol was declared in is owned by one body, the open ones by those that are the fences of the table (`ScopesOwned`); a symbol in a
  scope has the node that made it, and no other (`LocalsBound`, `Apart`, `GlobalsBound`); what a name was resolved to comes earlier
  in the tree and, if it has storage, in the same body (`UsesBound`): this is where the fences, in `LexicalScoping` and thus in
  `STManager`, keep a function out of the variables around it. Every function has a type of its own (`FunctionsMade`), and each of the unit a node (`Covers`).
  As in `Definitions`, the alternative is that a function that is still to come has lost its type (`TakenAhead`): such a
  program is refused, and is never generated.
* `Generated`, of the module, with `f` for the function that was made for a node: values are numbered among those of the same text, as
  LLVM does (`Numbered`), which makes names different from each other and gives the one that comes first the text itself;
  externs and functions of the unit come before all others with their texts (`ExternsNamed`, `HeadsOnly`, `FunctionsNamed`), the
  type of each function has the name of its value, and those generated one body; the insertion points are the functions of the path
  (`Inside`), and storage is in the function of the body that owns its scope (`Stored`).

The call of `program` that `main` makes is treated like the uses of the source, as one of what the name denotes in the outermost
scope once the unit is visited (`FinishDenotes`); that there is something is what `NoEntry` refuses a program for.

TLC checked `NamingInv` on the instance of the run `Naming` before it was proved.

Only model-checked:

* liveness (`LookupReturns`), which the prover has no rules for;
* `ContentsTyped` and `MeaningKept` of `SumTypes`: `isSubtype`, `ContentsOf` and `Represents` are recursive over types of any depth, and that
  the recursion is well founded takes an induction over data.

## Not modelled

The grammar and the generated parser; arithmetic, comparison and constant expressions, which are one
instruction each; arrays and function types as contents of variables; strings, formatting and error texts; the list of
errors, of which only the fact that it has one is kept; statements at the top level that are no definition, which are always
an error; `TypeVisitor.h`, which says of itself that it is unused; the C runtime; LLVM itself, of which only blocks, terminators and memory are kept. A bit cast between sums whose
LLVM types have different names is taken to keep the bits: LLVM does not define it for values of structure type,
and a build of LLVM with assertions stops there. Reads of variables nothing was stored to give no particular value. In `Naming`, names that LLVM makes
different are a text and a number, and selects and matches are left out: for names they are scopes like blocks. In `Codegen`, an
operand of a logical expression that is one with the same operator and has no parentheses is an operand as any other: the code
takes it apart and puts its operands after the others (`CodegenVisitor.cpp:600-617`), which gives an expression with more
operands, and `Codegen` has those.

## Plan

1. `STManager`, `TypeInference`, `Codegen`, `Driver`, `SumTypes` with their runs; proofs for `STManager`,
   `TypeInference` and `Driver`. (Done.)
2. `SemanticVisitor` over the operations of the symbol table; `Naming`, which composes it with code generation;
   structures in `SumTypes`, over `LinkedMap` with its theorems. (Done.)
3. Proofs for `SemanticVisitor`, `Codegen` and `Naming`, and of the type invariants of all modules with proofs. (Done.)
4. Arrays and function types in `SumTypes` (`Type.h:258-272, 485-508`; element assignment at `CodegenVisitor.cpp:1047`).
5. Abstract specifications: a typed store that `SumTypes` implements; structured control flow for `Codegen`.
