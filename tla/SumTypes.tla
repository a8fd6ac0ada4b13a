------------------------------- MODULE SumTypes -------------------------------
(***************************************************************************)
(* Sum types and structures from the checker to the generated code: when a *)
(* value of one type may be stored where another is declared (TypeSum and  *)
(* TypeStruct in src/src/symbol/include/Type.h), and the tagged unions and *)
(* structs that code generation makes of them                              *)
(* (src/src/codegen/CodegenVisitor.cpp).                                   *)
(*                                                                         *)
(* A behaviour is a straight-line program that the semantic pass accepts,  *)
(* executed as it is generated.  Contents of memory are tuples: <<t>> is a *)
(* value of the base type t, <<tag, contents>> a tagged union, and         *)
(* <<"struct", S, contents of the fields in order>> a structure.           *)
(***************************************************************************)
EXTENDS Integers, Sequences, SequencesExt

CONSTANTS Base,    \* INT, BOOL, STR: types with one LLVM type each
          Sums,    \* sum types, one for each name: LLVM types go by name
          Cases,   \* Cases[T]: the types in the sum T
          Structs, \* structures, one for each name
          Declares,\* Declares[S]: the fields of S, <<name, type>> as declared
          Paths,   \* paths of fields that expressions follow, <<>> among them
          Sorted,  \* all types in the order of their names (TypeCompare)
          Vars,    \* local and global variables of the program
          None     \* not declared; no expression

Types == Base \union Sums \union Structs

ASSUME FieldsAssumption ==
  /\ <<>> \in Paths
  /\ \A S \in Structs : \A i, j \in DOMAIN Declares[S] :
        /\ Declares[S][i][2] \in Types
        /\ Declares[S][i][1] = Declares[S][j][1] => i = j
ASSUME CasesAssumption == Cases \in [Sums -> SUBSET Types \ {{}}]
ASSUME SortedAssumption == /\ {Sorted[i] : i \in DOMAIN Sorted} = Types
                           /\ \A i, j \in DOMAIN Sorted : Sorted[i] = Sorted[j] => i = j
ASSUME NamesAssumption == Vars \intersect Types = {} /\ None \notin Vars \union Types

VARIABLES declared,  \* Symbol::type of each variable
          mem,       \* what its storage holds
          said       \* history: the value it holds by the meaning of the
                     \* program, with the case it is in named and not numbered

vars == <<declared, mem, said>>

NoStorage == <<"no alloca">>
Undef     == <<>>          \* an alloca nothing was stored to
Zeroed    == <<"zero">>    \* a global sum without an initializer

Init == /\ declared = [x \in Vars |-> None]
        /\ mem = [x \in Vars |-> NoStorage]
        /\ said = [x \in Vars |-> Undef]

-----------------------------------------------------------------------------
(* Types.                                                                     *)

CasesInOrder == [T \in Sums |-> SelectSeq(Sorted, LAMBDA t : t \in Cases[T])]

\* Mutants: cases are counted from 0; the count is never advanced.
getIndex_FromZero(T, S) ==
  IF S \in Cases[T]
    THEN (CHOOSE i \in DOMAIN CasesInOrder[T] : CasesInOrder[T][i] = S) - 1
    ELSE 0
getIndex_Same(T, S) == IF S \in Cases[T] THEN 1 ELSE 0

\* TypeSum::getIndex: 1 for the first case, 0 when S is not a case.
getIndex(T, S) ==
  IF S \in Cases[T]
    THEN CHOOSE i \in DOMAIN CasesInOrder[T] : CasesInOrder[T][i] = S
    ELSE 0

\* S->isSubtype(T).  Sums of the same size are compared case by case, each case t
\* of T being looked for as a subtype of a case of S.  A structure is one object.
isSubtype[p \in Types \X Types] ==
  LET S == p[1]
      T == p[2]
  IN  IF T \notin Sums THEN S = T
      ELSE \/ S \in Cases[T]
           \/ /\ S \in Sums
              /\ Len(CasesInOrder[S]) = Len(CasesInOrder[T])
              /\ \A t \in Cases[T] : \E y \in Cases[S] : isSubtype[<<t, y>>]

\* The functions on 1..n that have at i a member of from(i).
Products(n, from(_)) == {c \in [1..n -> UNION {from(i) : i \in 1..n}] :
                           \A i \in 1..n : c[i] \in from(i)}

Map == INSTANCE LinkedMap

\* define struct S: its fields are inserted in the order of their declarations.
elements == [S \in Structs |->
               FoldLeft(LAMBDA m, d : Map!insert(m, d[1], d[2]), Map!EmptyMap, Declares[S])]
FieldsOf == [S \in Structs |-> Map!getElements(elements[S])]

-----------------------------------------------------------------------------
(* Generated code.                                                            *)

\* A value of type S on its way to a place of type T: wrapped under its tag when
\* S is a case of T.  Otherwise it goes as it is, bit-cast to the LLVM type of T
\* when that is another one.
Coerce(T, S, v) ==
  IF T \in Sums /\ getIndex(T, S) # 0 THEN <<getIndex(T, S), v>> ELSE v

\* What the same step means in the program.
Inject(T, S, v) ==
  IF T \in Sums /\ S \in Cases[T] THEN <<S, v>> ELSE v

\* A structure's contents or meaning; its field at an index of the map, or by name.
Struct(S, fields)  == <<"struct", S, fields>>
FieldAt(v, i)      == IF v = Undef THEN Undef ELSE v[3][i + 1]
FieldNamed(m, f)   == IF m = Undef THEN Undef ELSE m[3][f]

\* Expressions: constants, named by their type, and variables with storage or fields
\* of them, by the path from the variable.
TypeAt(x, path) ==
  FoldLeft(LAMBDA t, f : IF t \in Structs /\ Map!Has(elements[t], f)
                           THEN Map!lookup(elements[t], f) ELSE None,
           declared[x], path)

Expressions ==
  Base \union {e \in Vars \X Paths : mem[e[1]] # NoStorage /\ TypeAt(e[1], e[2]) # None}

\* A field is loaded from a copy of the structure it is in.
ValueAt(x, path) ==
  FoldLeft(LAMBDA s, f : [type  |-> Map!lookup(elements[s.type], f),
                          value |-> FieldAt(s.value, Map!getIndex(elements[s.type], f))],
           [type |-> declared[x], value |-> mem[x]], path).value

TypeOf(e)  == IF e \in Base THEN e ELSE TypeAt(e[1], e[2])
Value(e)   == IF e \in Base THEN <<e>> ELSE ValueAt(e[1], e[2])
Meaning(e) == IF e \in Base THEN <<e>> ELSE FoldLeft(FieldNamed, said[e[1]], e[2])

\* What a global of type t holds without an initializer, and what that means.
Zero[t \in Types] ==
  IF t \in Base THEN <<t>> ELSE IF t \in Sums THEN Zeroed
  ELSE Struct(t, [i \in DOMAIN FieldsOf[t] |-> Zero[FieldsOf[t][i][2]]])
ZeroMeaning[t \in Types] ==
  IF t \in Structs
    THEN Struct(t, [f \in DOMAIN elements[t].indexes |-> ZeroMeaning[Map!lookup(elements[t], f)]])
    ELSE Zero[t]

\* Global variables are initialized by constants, never those of a sum type.
declareGlobal(x, t, init) ==
  /\ declared[x] = None
  /\ init => t \in Base
  /\ declared' = [declared EXCEPT ![x] = t]
  /\ mem' = [mem EXCEPT ![x] = Zero[t]]
  /\ said' = [said EXCEPT ![x] = ZeroMeaning[t]]

\* A declaration of local variables, t a, b <- e, c; as the sequence of its
\* variables, each with the expression assigned to it.  The handler returns when
\* it has copied a sum that needs no tag.
Returned(t, ds, i) ==
  \E j \in 1..(i - 1) :
     ds[j].ex # None /\ t \in Sums /\ getIndex(t, TypeOf(ds[j].ex)) = 0

\* A variable and its expression, None for none, that may be declared with type t.
Declarators(t) ==
  {d \in [var : {x \in Vars : declared[x] = None}, ex : Expressions \union {None}] :
     d.ex # None => isSubtype[<<TypeOf(d.ex), t>>]}

varDecl(t, ds) ==
  /\ \A i, j \in DOMAIN ds : ds[i].var = ds[j].var => i = j
  /\ LET at(x) == CHOOSE i \in DOMAIN ds : ds[i].var = x
         here  == {ds[i].var : i \in DOMAIN ds}
         initial(d, how(_, _, _), what(_)) ==
           IF d.ex = None THEN Undef ELSE how(t, TypeOf(d.ex), what(d.ex))
     IN  /\ declared' = [x \in Vars |-> IF x \in here THEN t ELSE declared[x]]
         /\ mem' = [x \in Vars |->
                      IF x \notin here THEN mem[x]
                      ELSE IF Returned(t, ds, at(x)) THEN NoStorage
                      ELSE initial(ds[at(x)], Coerce, Value)]
         /\ said' = [x \in Vars |->
                       IF x \notin here THEN said[x]
                       ELSE initial(ds[at(x)], Inject, Meaning)]

\* What reaches x, and what it means, when a value of type S is stored to it.
Store(x, S, v, m) ==
  /\ mem' = [mem EXCEPT ![x] = Coerce(declared[x], S, v)]
  /\ said' = [said EXCEPT ![x] = Inject(declared[x], S, m)]
  /\ UNCHANGED declared

\* Without storage the assignment is refused by code generation.
Assignable(x) == declared[x] # None /\ mem[x] # NoStorage

\* x <- e;
assign(x, e) ==
  /\ Assignable(x)
  /\ isSubtype[<<TypeOf(e), declared[x]>>]
  /\ Store(x, TypeOf(e), Value(e), Meaning(e))

\* x <- f(e);  with a parameter of type p, which f returns as an r.
call(x, e) ==
  /\ Assignable(x)
  /\ \E p \in Types :
        /\ isSubtype[<<TypeOf(e), p>>]
        /\ \E r \in Types :
              /\ isSubtype[<<p, r>>] /\ isSubtype[<<r, declared[x]>>]
              /\ Store(x, r, Coerce(r, p, Coerce(p, TypeOf(e), Value(e))),
                             Inject(r, p, Inject(p, TypeOf(e), Meaning(e))))

\* As many as there are fields, each of a subtype of the field at its position.
Arguments(S) ==
  LET fits(i) == {e \in Expressions : isSubtype[<<TypeOf(e), FieldsOf[S][i][2]>>]}
  IN  Products(Len(FieldsOf[S]), fits)

\* x <- S(e1, ..., en);  every argument goes to the field at its position.
initProduct(x, S, es) ==
  /\ Assignable(x)
  /\ isSubtype[<<S, declared[x]>>]
  /\ LET given(f) == CHOOSE i \in DOMAIN es : Declares[S][i][1] = f
         type(i)  == Declares[S][i][2]
     IN  Store(x, S,
               Struct(S, [i \in DOMAIN es |->
                            Coerce(FieldsOf[S][i][2], TypeOf(es[i]), Value(es[i]))]),
               Struct(S, [f \in {Declares[S][i][1] : i \in DOMAIN es} |->
                            Inject(type(given(f)), TypeOf(es[given(f)]), Meaning(es[given(f)]))]))

\* The tag of v is that of the alternative for case c; any is, of no value.
Switches(v, T, c) == v = Undef \/ (Len(v) = 2 /\ v[1] = getIndex(T, c))
Payload(v) == IF v = Undef THEN Undef ELSE v[2]

\* match e { c y => ...; ... }: the alternative taken declares y, and the rest of
\* the program is executed in it.  A tag without a case goes to the code after the
\* match.
match(e, c, y) ==
  /\ declared[y] = None
  /\ TypeOf(e) \in Sums /\ c \in Cases[TypeOf(e)]
  /\ Switches(Value(e), TypeOf(e), c)
  /\ declared' = [declared EXCEPT ![y] = c]
  /\ mem' = [mem EXCEPT ![y] = Payload(Value(e))]
  /\ said' = [said EXCEPT ![y] = Payload(Meaning(e))]

Next == \/ \E x \in Vars, t \in Types, init \in BOOLEAN : declareGlobal(x, t, init)
        \/ \E t \in Types : \E d \in Declarators(t) :
              varDecl(t, <<d>>) \/ \E c \in Declarators(t) : varDecl(t, <<d, c>>)
        \/ \E x \in Vars, e \in Expressions : assign(x, e) \/ call(x, e)
        \/ \E x \in Vars, S \in Structs : \E es \in Arguments(S) : initProduct(x, S, es)
        \/ \E e \in Expressions \ Base, c \in Types, y \in Vars : match(e, c, y)

Spec == Init /\ [][Next]_vars

-----------------------------------------------------------------------------
\* The contents a place of each type can have.
ContentsOf[T \in Types] ==
  {Undef} \union
    IF T \in Base THEN {<<T>>}
    ELSE IF T \in Structs
    THEN LET from(i) == ContentsOf[Declares[T][i][2]]
         IN  {Struct(T, c) : c \in Products(Len(Declares[T]), from)}
    ELSE {Zeroed} \union
         UNION {{<<i, v>> : v \in ContentsOf[CasesInOrder[T][i]]} :
                i \in DOMAIN CasesInOrder[T]}

\* The storage of a variable holds a value of its declared type, through copies
\* between sums, arguments, results, fields and matches: no tag is out of range
\* and no payload is read as a type that it is not.
ContentsTyped ==
  \A x \in Vars : mem[x] # NoStorage => mem[x] \in ContentsOf[declared[x]]

\* Contents v of a place of type T are what the program means by m: a tag names the
\* case the program put the value in, and a field holds what was given for its name.
Represents[T \in Types] ==
  {<<Undef, Undef>>} \union
    IF T \in Base THEN {<<<<T>>, <<T>>>>}
    ELSE IF T \in Structs
    THEN LET from(i) == Represents[Declares[T][i][2]]
         IN  {<<Struct(T, [i \in DOMAIN c |-> c[i][1]]),
                Struct(T, [f \in {d[1] : d \in ToSet(Declares[T])} |->
                             c[CHOOSE i \in DOMAIN c : Declares[T][i][1] = f][2]])>> :
              c \in Products(Len(Declares[T]), from)}
    ELSE {<<Zeroed, Zeroed>>} \union
         UNION {{<<<<i, r[1]>>, <<CasesInOrder[T][i], r[2]>>>> :
                 r \in Represents[CasesInOrder[T][i]]} : i \in DOMAIN CasesInOrder[T]}

\* Every variable holds what the program says it does, so that a match takes the
\* alternative of the case that was put in and a field is the one that was named:
\* where a type stands among the cases, and a field among the fields, is the same
\* at every place that writes one and at every place that reads one.
MeaningKept ==
  \A x \in Vars : mem[x] # NoStorage => <<mem[x], said[x]>> \in Represents[declared[x]]

\* "For each of the variabes being assigned to that value" (CodegenVisitor.cpp:1106)
\* storage is made: whatever a declaration declares can be used after it.
DeclaredHasStorage ==
  \A x \in Vars : declared[x] # None => mem[x] # NoStorage

\* The data of a sum is cast back "to the proper type based on the tag"
\* (Journal.md:63), so that the tag says which of the cases the data is.
TagNamesData ==
  \A x \in Vars :
     declared[x] \in Sums /\ Len(mem[x]) = 2 =>
        /\ mem[x][1] \in DOMAIN CasesInOrder[declared[x]]
        /\ mem[x][2] \in ContentsOf[CasesInOrder[declared[x]][mem[x][1]]]
=============================================================================
