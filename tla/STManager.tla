------------------------------ MODULE STManager ------------------------------
(***************************************************************************)
(* The symbol table of the compiler (src/src/symbol): a heap of Scope      *)
(* objects linked to their parents, the vector of the scopes now open, and *)
(* the stack of "stops" that marks where the body of a function begins.    *)
(*                                                                         *)
(* A lookup walks the parent pointers while it counts down from the size   *)
(* of the vector; each iteration of its loop is a step here (walk), so     *)
(* that the two structures are compared exactly as the code compares them. *)
(* A Scope object is named by its id; scopes that were exited stay in the  *)
(* heap, as the code never deletes them.                                   *)
(***************************************************************************)
EXTENDS Integers, Sequences

CONSTANTS Ids,        \* identifiers
          Flags,      \* [isDefinition, isGlobal] of the symbols callers create
          Absent,     \* no symbol under this identifier
          MaxScopes   \* bound on scopeNumber

ASSUME FlagsAssumption ==
  Flags \subseteq [isDefinition : BOOLEAN, isGlobal : BOOLEAN]
ASSUME AbsentAssumption == Absent \notin Flags
ASSUME MaxScopesAssumption == MaxScopes \in Nat

VARIABLES scopes,        \* std::vector<Scope*>: ids of the open scopes
          currentScope,  \* std::optional<Scope*>
          scopeNumber,   \* next id
          stops,         \* std::stack<int>, top last
          parent,        \* Scope::parent of each allocated scope
          symbols,       \* Scope::symbols of each scope
          walk,          \* local variables of a lookup in progress, or Idle
          result         \* return value of the last operation

heap == <<parent, symbols>>
vars == <<scopes, currentScope, scopeNumber, stops, parent, symbols, walk, result>>

NoScope  == -1
ScopeIds == 0..(MaxScopes - 1)
Idle     == [at |-> "idle"]

Init == /\ scopes = <<>>
        /\ currentScope = NoScope
        /\ scopeNumber = 0
        /\ stops = <<>>
        /\ parent = [s \in ScopeIds |-> NoScope]
        /\ symbols = [s \in ScopeIds |-> [x \in Ids |-> Absent]]
        /\ walk = Idle
        /\ result = [op |-> "none"]

\* Mutant: no stop is told apart from a stop at depth 0.
getCurrentStop_NoneIsMinusOne == IF stops = <<>> THEN -1 ELSE stops[Len(stops)]

getCurrentStop == IF stops = <<>> THEN 0 ELSE stops[Len(stops)]

\* Mutant: the stop is the depth after the scope was pushed.
enterScope_StopAfterPush(insertStop) ==
  /\ walk = Idle
  /\ scopeNumber < MaxScopes
  /\ parent' = [parent EXCEPT ![scopeNumber] = currentScope]
  /\ currentScope' = scopeNumber
  /\ scopes' = Append(scopes, scopeNumber)
  /\ stops' = IF insertStop THEN Append(stops, Len(scopes) + 1) ELSE stops
  /\ scopeNumber' = scopeNumber + 1
  /\ result' = [op |-> "enter", scope |-> scopeNumber]
  /\ UNCHANGED <<symbols, walk>>

enterScope(insertStop) ==
  /\ walk = Idle
  /\ scopeNumber < MaxScopes
  /\ parent' = [parent EXCEPT ![scopeNumber] = currentScope]
  /\ currentScope' = scopeNumber
  /\ scopes' = Append(scopes, scopeNumber)
  /\ stops' = IF insertStop THEN Append(stops, Len(scopes)) ELSE stops
  /\ scopeNumber' = scopeNumber + 1
  /\ result' = [op |-> "enter", scope |-> scopeNumber]
  /\ UNCHANGED <<symbols, walk>>

\* Mutant: the vector keeps the scope that is left.
exitScope_KeepsVector ==
  /\ walk = Idle
  /\ currentScope # NoScope
  /\ currentScope' = parent[currentScope]
  /\ result' = [op |-> "exit", scope |-> currentScope]
  /\ UNCHANGED <<scopes, scopeNumber, stops, heap, walk>>

\* Mutant: the stop of the function outlives it.
exitScope_KeepsStop ==
  /\ walk = Idle
  /\ currentScope # NoScope
  /\ currentScope' = parent[currentScope]
  /\ scopes' = SubSeq(scopes, 1, Len(scopes) - 1)
  /\ result' = [op |-> "exit", scope |-> currentScope]
  /\ UNCHANGED <<scopeNumber, stops, heap, walk>>

exitScope ==
  /\ walk = Idle
  /\ currentScope # NoScope
  /\ currentScope' = parent[currentScope]
  /\ scopes' = SubSeq(scopes, 1, Len(scopes) - 1)
  /\ stops' = IF getCurrentStop = Len(scopes) - 1 /\ getCurrentStop # 0
                THEN SubSeq(stops, 1, Len(stops) - 1)
                ELSE stops
  /\ result' = [op |-> "exit", scope |-> currentScope]
  /\ UNCHANGED <<scopeNumber, heap, walk>>

exitNoScope ==
  /\ walk = Idle
  /\ currentScope = NoScope
  /\ result' = [op |-> "exit", scope |-> NoScope]
  /\ UNCHANGED <<scopes, currentScope, scopeNumber, stops, heap, walk>>

\* Mutant: a second declaration replaces the first.
addSymbol_Overwrites(x, f) ==
  /\ walk = Idle
  /\ currentScope # NoScope
  /\ symbols' = [symbols EXCEPT ![currentScope][x] = f]
  /\ result' = [op |-> "add", ok |-> TRUE]
  /\ UNCHANGED <<scopes, currentScope, scopeNumber, stops, parent, walk>>

addSymbol(x, f) ==
  /\ walk = Idle
  /\ currentScope # NoScope
  /\ symbols[currentScope][x] = Absent
  /\ symbols' = [symbols EXCEPT ![currentScope][x] = f]
  /\ result' = [op |-> "add", ok |-> TRUE]
  /\ UNCHANGED <<scopes, currentScope, scopeNumber, stops, parent, walk>>

addSymbolRefused(x) ==
  /\ walk = Idle
  /\ currentScope # NoScope => symbols[currentScope][x] # Absent
  /\ result' = [op |-> "add", ok |-> FALSE]
  /\ UNCHANGED <<scopes, currentScope, scopeNumber, stops, heap, walk>>

lookup(x) ==
  /\ walk = Idle
  /\ walk' = [id |-> x, opt |-> currentScope,
            depth |-> Len(scopes) - 1, stop |-> getCurrentStop]
  /\ UNCHANGED <<scopes, currentScope, scopeNumber, stops, heap, result>>

Returns(s) == /\ result' = [op |-> "lookup", id |-> walk.id, scope |-> s]
              /\ walk' = Idle

\* Mutants: the walk does not count the scopes; it stays where it is.
lookupStep_KeepsDepth ==
  /\ walk # Idle
  /\ IF walk.opt = NoScope THEN Returns(NoScope)
     ELSE IF symbols[walk.opt][walk.id] # Absent THEN Returns(walk.opt)
     ELSE walk' = [walk EXCEPT !.opt = parent[walk.opt]] /\ UNCHANGED result
  /\ UNCHANGED <<scopes, currentScope, scopeNumber, stops, heap>>

lookupStep_Stays ==
  /\ walk # Idle
  /\ IF walk.opt = NoScope THEN Returns(NoScope)
     ELSE IF symbols[walk.opt][walk.id] # Absent THEN Returns(walk.opt)
     ELSE walk' = [walk EXCEPT !.opt = @] /\ UNCHANGED result
  /\ UNCHANGED <<scopes, currentScope, scopeNumber, stops, heap>>

\* One iteration of the loop of lookup, or its end.
lookupStep ==
  /\ walk # Idle
  /\ IF walk.opt = NoScope
       THEN Returns(NoScope)
       ELSE LET sym == symbols[walk.opt][walk.id] IN
            IF sym # Absent
              THEN IF walk.depth >= walk.stop \/ sym.isDefinition \/ sym.isGlobal
                     THEN Returns(walk.opt)
                     ELSE Returns(NoScope)
              ELSE /\ walk' = [walk EXCEPT !.depth = @ - 1,
                                           !.opt = parent[walk.opt]]
                   /\ UNCHANGED result
  /\ UNCHANGED <<scopes, currentScope, scopeNumber, stops, heap>>

Next == \/ \E insertStop \in BOOLEAN : enterScope(insertStop)
        \/ exitScope
        \/ exitNoScope
        \/ \E x \in Ids, f \in Flags : addSymbol(x, f) \/ addSymbolRefused(x)
        \/ \E x \in Ids : lookup(x)
        \/ lookupStep

Spec == Init /\ [][Next]_vars

\* A lookup that was called runs: the compiler is one thread.
FairSpec == Spec /\ WF_vars(lookupStep)

-----------------------------------------------------------------------------
Results == [op : {"none"}]
           \union [op : {"enter", "exit"}, scope : ScopeIds \union {NoScope}]
           \union [op : {"add"}, ok : BOOLEAN]
           \union [op : {"lookup"}, id : Ids, scope : ScopeIds \union {NoScope}]

Walks == [id : Ids, opt : ScopeIds \union {NoScope},
          depth : Int, stop : Nat]

\* Every variable keeps the type its C++ declaration gives it.
TypeOK == /\ scopes \in Seq(ScopeIds)
          /\ currentScope \in ScopeIds \union {NoScope}
          /\ scopeNumber \in 0..MaxScopes
          /\ stops \in Seq(Nat)
          /\ parent \in [ScopeIds -> ScopeIds \union {NoScope}]
          /\ symbols \in [ScopeIds -> [Ids -> Flags \union {Absent}]]
          /\ walk \in {Idle} \union Walks
          /\ result \in Results

\* The vector of open scopes and the chain of parent pointers that starts at
\* currentScope are the same list, and ids grow inwards: lookup counts depth in
\* the one while it walks the other, and exitScope shortens both.
ChainMatchesVector ==
  /\ currentScope = IF scopes = <<>> THEN NoScope ELSE scopes[Len(scopes)]
  /\ \A i \in 1..Len(scopes) :
        /\ parent[scopes[i]] = IF i = 1 THEN NoScope ELSE scopes[i - 1]
        /\ scopes[i] < scopeNumber
  /\ \A i, j \in 1..Len(scopes) : i < j => scopes[i] < scopes[j]

\* Every stop but a worthless one at depth 0 marks a scope that is still open,
\* and the stack of stops is sorted: leaving a function never leaves its stop
\* behind to hide the locals of the caller, and never takes an outer one away.
StopsAreLive ==
  /\ \A k \in 1..Len(stops) : stops[k] < Len(scopes) \/ stops[k] = 0
  /\ \A j, k \in 1..Len(stops) : 
        j < k => stops[j] < stops[k] \/ (stops[j] = 0 /\ stops[k] = 0)

\* Scopes that were not allocated yet hold no symbols.
FreshScopesAreEmpty ==
  \A s \in ScopeIds : s >= scopeNumber => \A x \in Ids : symbols[s][x] = Absent

\* In the middle of a lookup the scope looked at is the one at that depth, and
\* no scope further in declares the name.
WalkInStep ==
  walk # Idle =>
    /\ walk.depth \in -1..(Len(scopes) - 1)
    /\ walk.opt = IF walk.depth = -1 THEN NoScope ELSE scopes[walk.depth + 1]
    /\ walk.stop = getCurrentStop
    /\ \A i \in (walk.depth + 2)..Len(scopes) :
          symbols[scopes[i]][walk.id] = Absent

\* A step can declare a name in the innermost open scope only, and nothing that
\* was declared is ever changed or withdrawn: the bindings that codegen reads
\* after the analysis are the ones the analysis made.
DeclarationsPersist ==
  [][\A s \in ScopeIds, x \in Ids :
        symbols'[s][x] # symbols[s][x] =>
           /\ symbols[s][x] = Absent
           /\ s = currentScope
           /\ s = scopes[Len(scopes)]]_vars

\* Every lookup returns: the chain of parents has no cycle.
LookupReturns == walk # Idle ~> walk = Idle

-----------------------------------------------------------------------------
(* The table implements block structured scoping with function bodies as     *)
(* fences.  A scope is fenced when its depth is on the stack of stops.        *)

scopeFrames ==
  [i \in 1..Len(scopes) |->
     [id     |-> scopes[i],
      fenced |-> i > 1 /\ \E k \in 1..Len(stops) : stops[k] = i - 1,
      binds  |-> symbols[scopes[i]]]]

Lex == INSTANCE LexicalScoping
         WITH frames <- scopeFrames, opened <- scopeNumber, answer <- result

\* Every lookup, declaration, entry and exit of the code returns what lexical
\* scoping says it should.
ImplementsLexicalScoping == Lex!LexSpec
=============================================================================
