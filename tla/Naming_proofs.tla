---------------------------- MODULE Naming_proofs ----------------------------
(* Proofs about the two passes together, for every unit and all the programs *)
(* that are walked below it, of any size.                                    *)
EXTENDS Naming, SemanticVisitor_proofs

-----------------------------------------------------------------------------
(* Trees.                                                                     *)

Sites == Nat \X Names

FuncNodes   == [node : {"func"}, site : Sites, type : Nat \ {0}, item : Nat,
                params : Seq(Names), scope : Nat \ {0}]
LambdaNodes == [node : {"lambda"}, params : Seq(Names), scope : Nat \ {0}]
EndNodes    == [node : {"end"}]
UseNodes    == [node : {"use"}, site : Sites, symbol : Flags, way : {"call", "assign", "read"}]
DeclNodes   == [node : {"decl"}, site : Sites, isGlobal : BOOLEAN]
Nodes       == FuncNodes \union LambdaNodes \union EndNodes \union UseNodes \union DeclNodes

\* A body begins with the node; a local or a global variable is declared by it.
Begins(n)  == n.node \in {"func", "lambda"}
IsLocal(n)  == n.node = "decl" /\ ~ n.isGlobal
IsGlobal(n) == n.node = "decl" /\ n.isGlobal

\* The bodies that node k of the tree is in, outermost first, are those that node
\* k - 1 is in, but for one that begins or ends with it.
PathAfter(path, n, k) == IF Begins(n) THEN Append(path, k)
                         ELSE IF n.node = "end" THEN SubSeq(path, 1, Len(path) - 1)
                         ELSE path

IsPath(path, k, tr) == \A i \in DOMAIN path : path[i] \in 1..k /\ Begins(tr[path[i]])

Paths(p, tr) ==
  /\ tr \in Seq(Nodes)
  /\ p \in [0..Len(tr) -> Seq(Nat)]
  /\ p[0] = <<>>
  /\ \A k \in 1..Len(tr) : /\ p[k] = PathAfter(p[k - 1], tr[k], k)
                           /\ tr[k].node = "end" \/ IsLocal(tr[k]) => p[k - 1] # <<>>
  /\ \A k \in 0..Len(tr) : IsPath(p[k], k, tr)

\* The body that node j is in, or that begins with it.
Inner(path) == path[Len(path)]
Owner(p, j) == Inner(p[j])

\* Node j gives storage to the symbol of a site; scope id is that of the body that
\* begins with j, or that j declares a variable in.
Writes(n, s) ==
  \/ IsLocal(n) /\ n.site = s
  \/ Begins(n) /\ n.scope = s[1] /\ \E i \in DOMAIN n.params : n.params[i] = s[2]
InScope(n, id) == \/ IsLocal(n) /\ n.site[1] = id
                  \/ Begins(n) /\ n.scope = id

\* The node is of a function of type t that was declared at the site.
Makes(n, t, s) == n.node = "func" /\ n.type = t /\ n.site = s

-----------------------------------------------------------------------------
(* The tree of a program, up to where the analysis is: tr with the paths p, the  *)
(* table tb, o scopes entered, the types ty and the unit u.                      *)

Fences(tb)   == {k \in DOMAIN tb : tb[k].fenced}
BodyOf(tb, k) == Count(Fences(tb), k)

\* The open bodies are the fences of the table; the scopes between them are owned by
\* the body they are in, and so are scopes that were left.
ScopesOwned(tr, p, tb, o) ==
  /\ Len(p[Len(tr)]) = BodyOf(tb, Len(tb))
  /\ tb[1].id = 0 /\ ~ tb[1].fenced
  /\ \A i, k \in 1..Len(tb) : tb[i].id = tb[k].id => i = k
  /\ \A k \in 2..Len(tb) : tb[k].id \in 1..(o - 1) /\ BodyOf(tb, k) # 0
  /\ \A j \in DOMAIN tr, id \in Nat : InScope(tr[j], id) => id \in 1..(o - 1)
  /\ \A i, j \in DOMAIN tr, id \in Nat :
        InScope(tr[i], id) /\ InScope(tr[j], id) => Owner(p, i) = Owner(p, j)
  /\ \A k \in 2..Len(tb), j \in DOMAIN tr :
        InScope(tr[j], tb[k].id) => Owner(p, j) = p[Len(tr)][BodyOf(tb, k)]

\* A symbol of an open scope within a body has a node that made it, a function a
\* node of its own, a variable one that gives it storage; and the other way round.
Touches(n, site) == (n.node = "func" /\ n.site = site) \/ Writes(n, site)
LocalAt(tr, s, site) ==
  /\ s # Absent => /\ ~ s.isGlobal
                   /\ s.isDefinition => \E j \in DOMAIN tr : Makes(tr[j], s.type, site)
                   /\ ~ s.isDefinition => \E j \in DOMAIN tr : Writes(tr[j], site)
  /\ \A j \in DOMAIN tr :
       /\ tr[j].node = "func" /\ tr[j].site = site => s # Absent /\ s.isDefinition
       /\ Writes(tr[j], site) => s # Absent /\ ~ s.isDefinition
LocalsBound(tr, tb) ==
  \A k \in 2..Len(tb), x \in Names : LocalAt(tr, tb[k].binds[x], <<tb[k].id, x>>)

\* No site has both storage and a function.
Apart(tr, o) ==
  /\ \A i, j \in DOMAIN tr : tr[i].node = "func" => ~ Writes(tr[j], tr[i].site)
  /\ \A i \in DOMAIN tr : tr[i].node = "func" => tr[i].site[1] < o

FunctionsOf(u) == {i \in DOMAIN u.stmts : u.stmts[i].kind = "func"}

\* t is the type of an extern or of a function of the unit, with this name.
IsHead(t, x, ty, tb, u) ==
  \/ t \in DOMAIN u.extens /\ u.extens[t].name = x
  \/ \E i \in FunctionsOf(u) : Made(ty, tb, u, i, t) /\ u.stmts[i].heading.name = x

GlobalAt(tr, s, x, ty, tb, u) ==
  s # Absent => /\ s.isGlobal
                /\ s.isDefinition => IsHead(s.type, x, ty, tb, u)
                /\ ~ s.isDefinition => \E j \in DOMAIN tr : IsGlobal(tr[j]) /\ tr[j].site = <<0, x>>
GlobalsBound(tr, tb, ty, u) ==
  \A x \in Ids \ {Return} : GlobalAt(tr, tb[1].binds[x], x, ty, tb, u)

\* What a name was found to be had its node before; a local variable one in the body
\* that uses it.
UseBound(tr, p, tb, m) ==
  LET s    == tr[m].symbol
      site == tr[m].site
  IN  /\ tr[m].way = "call" => s.type # 0
      /\ s.isGlobal <=> site[1] = 0
      /\ s.isGlobal => tb[1].binds[site[2]] = s
      /\ s.isGlobal /\ ~ s.isDefinition =>
           \E j \in 1..(m - 1) : IsGlobal(tr[j]) /\ tr[j].site = site
      /\ ~ s.isGlobal /\ s.isDefinition => \E j \in 1..(m - 1) : Makes(tr[j], s.type, site)
      /\ ~ s.isGlobal /\ ~ s.isDefinition =>
           /\ p[m] # <<>>
           /\ \E j \in 1..(m - 1) : Writes(tr[j], site) /\ Owner(p, j) = Inner(p[m])
UsesBound(tr, p, tb) == \A m \in DOMAIN tr : tr[m].node = "use" => UseBound(tr, p, tb, m)

\* The functions have types of their own, those of the unit the ones declared ahead.
FunctionsMade(tr, tb, ty, u) ==
  /\ \A j \in DOMAIN tr : tr[j].node = "func" =>
        /\ tr[j].type \in DOMAIN ty /\ ty[tr[j].type].defined
        /\ tr[j].type > Len(u.extens)
        /\ tr[j].item = 0 => tr[j].site[1] # 0
        /\ tr[j].item # 0 => /\ tr[j].item \in FunctionsOf(u)
                             /\ Made(ty, tb, u, tr[j].item, tr[j].type)
                             /\ tr[j].site = <<0, u.stmts[tr[j].item].heading.name>>
  /\ \A i, j \in DOMAIN tr :
        tr[i].node = "func" /\ tr[j].node = "func" /\ tr[i].type = tr[j].type => i = j

\* Functions of the unit that were visited have a node.
Covers(tr, u, n) ==
  \A i \in FunctionsOf(u) : i < n => \E j \in DOMAIN tr : tr[j].node = "func" /\ tr[j].item = i

Facts(tr, p, tb, o, ty, u, n) ==
  /\ Paths(p, tr) /\ ScopesOwned(tr, p, tb, o) /\ LocalsBound(tr, tb) /\ Apart(tr, o)
  /\ GlobalsBound(tr, tb, ty, u) /\ UsesBound(tr, p, tb)
  /\ FunctionsMade(tr, tb, ty, u) /\ Covers(tr, u, n)

\* The types of the externs come first, in their order.
Externs ==
  /\ phase = "defs" => types = <<>>
  /\ phase = "extens" => Len(types) = next - 1
  /\ \A i \in DOMAIN unit.extens : phase # "defs" /\ (phase = "extens" => i < next) =>
        /\ i \in DOMAIN types /\ types[i].defined /\ types[i].item = 0
        /\ table[1].binds[unit.extens[i].name] = Definition(i, TRUE)

\* Functions of the unit before this one have nodes, and the one that is visited.
Begun == IF stack = <<>> THEN next ELSE next + 1
AnalysisInv ==
  /\ Structure /\ Definitions /\ Externs
  /\ ~ errors /\ phase # "aborted"
  /\ phase = "done" => ~ NoEntry
  /\ phase \in {"defs", "extens", "forward"} => tree = <<>>
  /\ \/ phase \in {"stmts", "done"} /\ TakenAhead
     \/ \E p : Facts(tree, p, table, opened, types, unit,
                     IF phase \in {"stmts", "done"} THEN Begun ELSE 1)

-----------------------------------------------------------------------------
(* Generation of the tree tr of the unit u: the pass ps is at k, with the module *)
(* md and the names no of types; f gives the function that was made for a node   *)
(* with a body.                                                                  *)

\* The nodes before this one are generated.
Reached(ps, k) == IF ps \in {"extens", "forward"} THEN 1 ELSE k

\* The nodes that have a function in the module.
Built(tr, ps, k) ==
  {e \in DOMAIN tr :
     /\ Begins(tr[e])
     /\ \/ e < Reached(ps, k)
        \/ /\ tr[e].node = "func" /\ tr[e].item # 0 /\ ps # "extens"
           /\ ps = "forward" => tr[e].item < k}

Values == [kind : {"fn", "var"}, name : (Ids \union {"LAM"}) \X Nat,
           site : Nat \X (Ids \union {"LAM"}), public : BOOLEAN, bodies : Nat]

\* Values are numbered among those that have the same text.
Called(md, x) == {j \in DOMAIN md : md[j].name[1] = x}
Numbered(md)  == \A i \in DOMAIN md : md[i].name[2] = Count(Called(md, md[i].name[1]), i - 1)

Extern(u, i, md, no) ==
  /\ i \in DOMAIN md /\ md[i].kind = "fn" /\ md[i].public
  /\ md[i].name = <<u.extens[i].name, 0>>
  /\ md[i].site = <<0, u.extens[i].name>>
  /\ md[i].bodies = 0
  /\ i \in DOMAIN no /\ no[i] = md[i].name
ExternsNamed(u, ps, k, md, no) ==
  \A i \in DOMAIN u.extens : (ps = "extens" => i < k) => Extern(u, i, md, no)

\* v is the function of node e; r nodes are generated.
FunctionOf(tr, u, e, v, r, md, no) ==
  /\ v \in DOMAIN md /\ v > Len(u.extens)
  /\ md[v].kind = "fn"
  /\ md[v].bodies = IF e < r THEN 1 ELSE 0
  /\ tr[e].node = "func" =>
       /\ tr[e].type \in DOMAIN no /\ no[tr[e].type] = md[v].name
       /\ md[v].site = tr[e].site
       /\ tr[e].item # 0 => md[v].name = <<tr[e].site[2], 0>> /\ md[v].public

\* H has the nodes with functions.  There are no others, but for the externs.
FunctionsNamed(tr, u, f, H, r, md, no) ==
  /\ f \in [DOMAIN tr -> Nat]
  /\ \A e \in H : FunctionOf(tr, u, e, f[e], r, md, no)
  /\ \A d, e \in H : f[d] = f[e] => d = e
  /\ \A i \in DOMAIN md : md[i].kind = "fn" /\ i > Len(u.extens) =>
        md[i].bodies = 1 \/ \E e \in H : f[e] = i
  /\ \A t \in DOMAIN no : \/ t \in DOMAIN u.extens
                          \/ \E e \in H : tr[e].node = "func" /\ tr[e].type = t

\* Before the tree is walked there are no other names than those of the unit.
HeadsOnly(u, ps, k, md) ==
  /\ ps = "extens" => Len(md) = k - 1
  /\ ps \in {"extens", "forward"} => \A i \in DOMAIN md :
       \/ \E j \in DOMAIN u.extens : /\ ps = "extens" => j < k
                                     /\ md[i].name[1] = u.extens[j].name
       \/ \E j \in FunctionsOf(u) : /\ ps = "forward" /\ j < k
                                    /\ md[i].name[1] = u.stmts[j].heading.name

VariablesNamed(tr, ps, k, md) ==
  ps \in {"tree", "end"} => \A j \in DOMAIN tr : j < k /\ IsGlobal(tr[j]) =>
     \E i \in DOMAIN md : /\ md[i].kind = "var" /\ md[i].name = <<tr[j].site[2], 0>>
                          /\ md[i].site = tr[j].site

\* Code is inserted in the functions cu of the bodies that the node is in; storage vo
\* is in the function of the body that owns its scope.
Inside(tr, p, f, r, cu) ==
  /\ r \in 1..(Len(tr) + 1)
  /\ cu \in Seq(Nat)
  /\ Len(cu) = Len(p[r - 1])
  /\ \A i \in DOMAIN cu : cu[i] = f[p[r - 1][i]]

Stored(tr, p, f, r, vo) ==
  /\ \A j \in DOMAIN tr, s \in Sites :
        j < r /\ Writes(tr[j], s) => s \in DOMAIN vo /\ vo[s] = f[Owner(p, j)]
  /\ \A s \in DOMAIN vo : s \in Sites /\ \E j \in DOMAIN tr : j < r /\ Writes(tr[j], s)

Generated(tr, u, p, f, ps, k, md, no, vo, cu) ==
  /\ ps \in {"extens", "forward", "tree", "end", "crashed"}
  /\ k \in Nat \ {0} /\ md \in Seq(Values)
  /\ Numbered(md) /\ ExternsNamed(u, ps, k, md, no)
  /\ FunctionsNamed(tr, u, f, Built(tr, ps, k), Reached(ps, k), md, no)
  /\ HeadsOnly(u, ps, k, md) /\ VariablesNamed(tr, ps, k, md)
  /\ Inside(tr, p, f, Reached(ps, k), cu) /\ Stored(tr, p, f, Reached(ps, k), vo)
  /\ ps = "end" => k > Len(tr)

ReachedIn == reached = Absent \/ reached.value \in 0..Len(module)

NamingInv ==
  /\ AnalysisInv
  /\ pass = "semantic" => /\ at = 1 /\ module = <<>> /\ current = <<>> /\ reached = Absent
                          /\ DOMAIN nameOf = {} /\ DOMAIN valOf = {}
  /\ pass # "semantic" =>
       /\ Accepted
       /\ \E p, f : /\ Facts(tree, p, table, opened, types, unit, next)
                    /\ Generated(tree, unit, p, f, pass, at, module, nameOf, valOf, current)
  /\ ReachedIn /\ CallsReachTheirFunction /\ StorageIsOwn

-----------------------------------------------------------------------------
(* Nodes and paths.                                                           *)

LEMMA NodeFacts ==
  ASSUME NEW n \in Nodes
  PROVE  /\ n.node \in {"func", "lambda", "end", "use", "decl"}
         /\ n.node = "func" => n.site \in Sites /\ n.type \in Nat \ {0} /\ n.item \in Nat
         /\ Begins(n) => n.params \in Seq(Names) /\ n.scope \in Nat \ {0}
         /\ n.node = "use" => n.site \in Sites /\ n.symbol \in Flags
                              /\ n.way \in {"call", "assign", "read"}
         /\ n.node = "decl" => n.site \in Sites /\ n.isGlobal \in BOOLEAN
BY DEF Nodes, FuncNodes, LambdaNodes, EndNodes, UseNodes, DeclNodes, Begins

\* tr with the paths p is what t2 with the paths q begins with.
Prefix(tr, p, t2, q) ==
  /\ Len(tr) \in Nat /\ Len(t2) \in Nat /\ Len(tr) <= Len(t2)
  /\ DOMAIN tr = 1..Len(tr) /\ DOMAIN t2 = 1..Len(t2)
  /\ \A i \in 1..Len(tr) : t2[i] = tr[i]
  /\ \A k \in 0..Len(tr) : q[k] = p[k]

\* Node n is added.
Adds(tr, p, n, t2, q) ==
  /\ Prefix(tr, p, t2, q) /\ Paths(q, t2)
  /\ Len(t2) = Len(tr) + 1 /\ t2[Len(t2)] = n
  /\ q[Len(t2)] = PathAfter(p[Len(tr)], n, Len(t2))

LEMMA PathTyped ==
  ASSUME NEW p, NEW tr, Paths(p, tr), NEW k \in 0..Len(tr)
  PROVE  /\ p[k] \in Seq(Nat) /\ Len(p[k]) \in Nat /\ DOMAIN p[k] = 1..Len(p[k])
         /\ tr \in Seq(Nodes) /\ Len(tr) \in Nat /\ DOMAIN tr = 1..Len(tr)
         /\ p[k] # <<>> => Len(p[k]) \in 1..Len(p[k])
         /\ \A i \in 1..Len(p[k]) : p[k][i] \in 1..k /\ Begins(tr[p[k][i]])
BY DEF Paths, IsPath

\* What becomes of a path at the beginning and at the end of a body.
LEMMA PathAfterFacts ==
  ASSUME NEW path \in Seq(Nat), NEW n, NEW k \in Nat
  PROVE  /\ PathAfter(path, n, k) \in Seq(Nat) /\ Len(path) \in Nat /\ DOMAIN path = 1..Len(path)
         /\ Begins(n) => /\ Len(PathAfter(path, n, k)) = Len(path) + 1
                         /\ PathAfter(path, n, k)[Len(path) + 1] = k
                         /\ \A i \in 1..Len(path) : PathAfter(path, n, k)[i] = path[i]
         /\ n.node = "end" /\ path # <<>> =>
              /\ Len(path) \in Nat \ {0} /\ Len(PathAfter(path, n, k)) = Len(path) - 1
              /\ \A i \in 1..(Len(path) - 1) : PathAfter(path, n, k)[i] = path[i]
         /\ n.node # "end" /\ ~ Begins(n) => PathAfter(path, n, k) = path
<1>1. CASE Begins(n)
  <2>1. PathAfter(path, n, k) = Append(path, k) /\ n.node # "end"
    BY <1>1 DEF PathAfter, Begins
  <2>. QED BY <1>1, <2>1, AppendFacts
<1>2. CASE ~ Begins(n) /\ n.node = "end" /\ path # <<>>
  <2>1. PathAfter(path, n, k) = SubSeq(path, 1, Len(path) - 1)
    BY <1>2 DEF PathAfter
  <2>. QED BY <1>2, <2>1, FrontFacts
<1>3. CASE ~ Begins(n) /\ n.node = "end" /\ path = <<>>
  <2>1. PathAfter(path, n, k) = SubSeq(path, 1, Len(path) - 1)
    BY <1>3 DEF PathAfter
  <2>2. SubSeq(path, 1, Len(path) - 1) \in Seq(Nat)
    BY <1>3
  <2>. QED BY <1>3, <2>1, <2>2
<1>4. CASE ~ Begins(n) /\ n.node # "end"
  BY <1>4 DEF PathAfter
<1>. QED BY <1>1, <1>2, <1>3, <1>4

LEMMA PathBegins ==
  ASSUME NEW path \in Seq(Nat), NEW n, NEW k \in Nat, Begins(n)
  PROVE  /\ Len(path) \in Nat /\ Len(PathAfter(path, n, k)) = Len(path) + 1
         /\ PathAfter(path, n, k)[Len(path) + 1] = k
         /\ \A i \in 1..Len(path) : PathAfter(path, n, k)[i] = path[i]
BY PathAfterFacts

LEMMA PathEnds ==
  ASSUME NEW path \in Seq(Nat), path # <<>>, NEW n, n.node = "end", NEW l \in Nat
  PROVE  /\ Len(PathAfter(path, n, l + 1)) = Len(path) - 1
         /\ \A i \in 1..(Len(path) - 1) : PathAfter(path, n, l + 1)[i] = path[i]
<1> DEFINE k == l + 1
<1>1. k \in Nat
  OBVIOUS
<1> HIDE DEF k
<1>2. Len(PathAfter(path, n, k)) = Len(path) - 1
  BY <1>1, PathAfterFacts
<1>3. \A i \in 1..(Len(path) - 1) : PathAfter(path, n, k)[i] = path[i]
  BY <1>1, PathAfterFacts
<1>. QED BY <1>2, <1>3 DEF k

LEMMA AddsNode ==
  ASSUME NEW p, NEW tr, Paths(p, tr), NEW n \in Nodes,
         n.node = "end" \/ IsLocal(n) => p[Len(tr)] # <<>>
  PROVE  \E q : Adds(tr, p, n, Append(tr, n), q)
<1> DEFINE l == Len(tr)
           t2 == Append(tr, n)
           new == PathAfter(p[l], n, l + 1)
           q == [k \in 0..(l + 1) |-> IF k = l + 1 THEN new ELSE p[k]]
<1>1. /\ tr \in Seq(Nodes) /\ l \in Nat /\ DOMAIN tr = 1..l /\ p[l] \in Seq(Nat)
      /\ Len(p[l]) \in Nat /\ DOMAIN p[l] = 1..Len(p[l])
      /\ \A i \in 1..Len(p[l]) : p[l][i] \in 1..l /\ Begins(tr[p[l][i]])
  <2>1. l \in 0..l
    BY DEF Paths
  <2>. QED BY <2>1, PathTyped
<1>2. /\ t2 \in Seq(Nodes) /\ Len(t2) = l + 1 /\ DOMAIN t2 = 1..(l + 1)
      /\ \A i \in 1..l : t2[i] = tr[i]
      /\ t2[l + 1] = n
  BY <1>1
<1> HIDE DEF t2
<1>3. new \in Seq(Nat) /\ IsPath(new, l + 1, t2)
  <2>1. CASE Begins(n)
    <3>2. /\ new \in Seq(Nat) /\ DOMAIN new = 1..(Len(p[l]) + 1) /\ new[Len(p[l]) + 1] = l + 1
          /\ \A i \in 1..Len(p[l]) : new[i] = p[l][i]
      <4>1. /\ new \in Seq(Nat) /\ Len(new) = Len(p[l]) + 1 /\ new[Len(p[l]) + 1] = l + 1
            /\ \A i \in 1..Len(p[l]) : new[i] = p[l][i]
        <5>1. l \in Nat /\ l + 1 \in Nat /\ p[l] \in Seq(Nat) /\ new = PathAfter(p[l], n, l + 1)
          BY <1>1
        <5> HIDE DEF l, new
        <5>2. new \in Seq(Nat)
          BY <5>1, PathAfterFacts
        <5> DEFINE old == p[l]
                   k == l + 1
        <5> HIDE DEF old, k, q
        <5>3. old \in Seq(Nat) /\ k \in Nat /\ new = PathAfter(old, n, k)
          BY <5>1 DEF old, k
        <5>4. Len(old) \in Nat /\ Len(new) = Len(old) + 1 /\ new[Len(old) + 1] = k
          BY <2>1, <5>3, PathBegins
        <5>5. \A i \in 1..Len(old) : new[i] = old[i]
          BY <2>1, <5>3, PathBegins
        <5>. QED BY <5>2, <5>4, <5>5 DEF old, k
      <4>. QED BY <4>1
    <3> HIDE DEF new
    <3>3. ASSUME NEW i \in DOMAIN new PROVE new[i] \in 1..(l + 1) /\ Begins(t2[new[i]])
      <4>1. i = Len(p[l]) + 1 \/ i \in 1..Len(p[l])
        BY <1>1, <3>2
      <4>2. CASE i = Len(p[l]) + 1
        BY <1>1, <1>2, <2>1, <3>2, <4>2
      <4>3. CASE i \in 1..Len(p[l])
        <5>1. new[i] \in 1..l /\ Begins(tr[new[i]])
          BY <1>1, <3>2, <4>3
        <5>2. t2[new[i]] = tr[new[i]] /\ new[i] \in 1..(l + 1)
          BY <1>1, <1>2, <5>1
        <5>. QED BY <5>1, <5>2
      <4>. QED BY <4>1, <4>2, <4>3
    <3>. QED BY <3>2, <3>3 DEF IsPath
  <2>2. CASE ~ Begins(n)
    <3>1. /\ new \in Seq(Nat) /\ DOMAIN new \subseteq 1..Len(p[l])
          /\ \A i \in DOMAIN new : new[i] = p[l][i]
      <4>0. n.node = "end" => p[l] # <<>>
        OBVIOUS
      <4>1. /\ new \in Seq(Nat)
            /\ n.node # "end" => new = p[l]
            /\ n.node = "end" => /\ Len(new) = Len(p[l]) - 1
                                 /\ \A i \in 1..(Len(p[l]) - 1) : new[i] = p[l][i]
        <5>1. l \in Nat /\ l + 1 \in Nat /\ p[l] \in Seq(Nat) /\ new = PathAfter(p[l], n, l + 1)
          BY <1>1
        <5> HIDE DEF l, new
        <5>2. new \in Seq(Nat) /\ (n.node # "end" => new = p[l])
          BY <2>2, <5>1, PathAfterFacts
        <5>3. n.node = "end" => /\ Len(new) = Len(p[l]) - 1
                                /\ \A i \in 1..(Len(p[l]) - 1) : new[i] = p[l][i]
          BY <4>0, <5>1, PathEnds
        <5>. QED BY <5>2, <5>3
      <4> HIDE DEF new
      <4>2. CASE n.node = "end"
        <5>1. DOMAIN new = 1..(Len(p[l]) - 1) /\ 1..(Len(p[l]) - 1) \subseteq 1..Len(p[l])
          BY <1>1, <4>1, <4>2
        <5>. QED BY <4>1, <4>2, <5>1
      <4>3. CASE n.node # "end"
        BY <1>1, <4>1, <4>3
      <4>. QED BY <4>2, <4>3
    <3> HIDE DEF new
    <3>2. ASSUME NEW i \in DOMAIN new PROVE new[i] \in 1..(l + 1) /\ Begins(t2[new[i]])
      <4>1. new[i] \in 1..l /\ Begins(tr[new[i]])
        BY <1>1, <3>1
      <4>. QED BY <1>1, <1>2, <4>1
    <3>. QED BY <3>1, <3>2 DEF IsPath
  <2>. QED BY <2>1, <2>2
<1> HIDE DEF new
<1>4. /\ q \in [0..(l + 1) -> Seq(Nat)] /\ q[l + 1] = new
      /\ \A k \in 0..l : q[k] = p[k]
  <2>1. \A k \in 0..l : p[k] \in Seq(Nat)
    BY DEF Paths
  <2>. QED BY <1>1, <1>3, <2>1
<1> HIDE DEF q
<1>5. q[0] = <<>>
  <2>1. 0 \in 0..l
    BY <1>1
  <2>. QED BY <1>4, <2>1 DEF Paths
<1>6. ASSUME NEW k \in 1..(l + 1)
      PROVE  /\ q[k] = PathAfter(q[k - 1], t2[k], k)
             /\ t2[k].node = "end" \/ IsLocal(t2[k]) => q[k - 1] # <<>>
  <2>1. CASE k = l + 1
    <3>1. q[k - 1] = p[l] /\ t2[k] = n /\ q[k] = new
      <4>1. k - 1 = l /\ l \in 0..l
        BY <1>1, <2>1
      <4>. QED BY <1>2, <1>4, <2>1, <4>1
    <3>. QED BY <2>1, <3>1 DEF new
  <2>2. CASE k # l + 1
    <3>1. k \in 1..l /\ k \in 0..l /\ k - 1 \in 0..l
      BY <1>1, <2>2
    <3>2. q[k] = p[k] /\ q[k - 1] = p[k - 1] /\ t2[k] = tr[k]
      BY <1>2, <1>4, <3>1
    <3>. QED BY <3>1, <3>2 DEF Paths
  <2>. QED BY <2>1, <2>2
<1>7. ASSUME NEW k \in 0..(l + 1) PROVE IsPath(q[k], k, t2)
  <2>1. CASE k = l + 1
    BY <1>3, <1>4, <2>1
  <2>2. CASE k # l + 1
    <3>1. k \in 0..l
      BY <1>1, <2>2
    <3>2. IsPath(p[k], k, tr) /\ q[k] = p[k]
      BY <1>4, <3>1 DEF Paths
    <3>3. \A i \in 1..k : t2[i] = tr[i]
      BY <1>1, <1>2, <3>1
    <3>. QED BY <3>2, <3>3 DEF IsPath
  <2>. QED BY <2>1, <2>2
<1>8. Paths(q, t2)
  BY <1>2, <1>4, <1>5, <1>6, <1>7 DEF Paths
<1>9. Prefix(tr, p, t2, q)
  BY <1>1, <1>2, <1>4 DEF Prefix
<1>10. Adds(tr, p, n, t2, q)
  BY <1>1, <1>2, <1>4, <1>8, <1>9 DEF Adds, new
<1>. QED BY <1>10 DEF t2

LEMMA PrefixFacts ==
  ASSUME NEW tr, NEW p, NEW t2, NEW q, Prefix(tr, p, t2, q)
  PROVE  /\ \A j \in DOMAIN tr : j \in DOMAIN t2 /\ t2[j] = tr[j] /\ Owner(q, j) = Owner(p, j)
         /\ Len(tr) \in Nat /\ Len(t2) \in Nat
         /\ DOMAIN tr = 1..Len(tr) /\ DOMAIN t2 = 1..Len(t2)
<1>1. ASSUME NEW j \in DOMAIN tr
      PROVE  j \in DOMAIN t2 /\ t2[j] = tr[j] /\ Owner(q, j) = Owner(p, j)
  <2>1. j \in 1..Len(tr) /\ j \in 0..Len(tr) /\ j \in 1..Len(t2)
    BY DEF Prefix
  <2>2. t2[j] = tr[j] /\ q[j] = p[j]
    BY <2>1 DEF Prefix
  <2>. QED BY <2>1, <2>2 DEF Prefix, Owner, Inner
<1>. QED BY <1>1 DEF Prefix

\* The node that is added and the path after it.
LEMMA AddsFacts ==
  ASSUME NEW tr, NEW p, NEW n, NEW t2, NEW q, Paths(p, tr), Adds(tr, p, n, t2, q)
  PROVE  /\ Prefix(tr, p, t2, q) /\ Len(tr) \in Nat /\ Len(t2) = Len(tr) + 1
         /\ DOMAIN tr = 1..Len(tr) /\ DOMAIN t2 = 1..(Len(tr) + 1)
         /\ t2[Len(tr) + 1] = n /\ Len(tr) + 1 \in DOMAIN t2
         /\ \A j \in DOMAIN t2 : j \in DOMAIN tr \/ j = Len(tr) + 1
         /\ p[Len(tr)] \in Seq(Nat) /\ q[Len(tr)] = p[Len(tr)]
         /\ q[Len(tr) + 1] = PathAfter(p[Len(tr)], n, Len(tr) + 1)
<1>1. /\ Prefix(tr, p, t2, q) /\ Len(tr) \in Nat /\ Len(t2) = Len(tr) + 1
      /\ DOMAIN tr = 1..Len(tr) /\ DOMAIN t2 = 1..(Len(tr) + 1)
      /\ t2[Len(t2)] = n
      /\ q[Len(t2)] = PathAfter(p[Len(tr)], n, Len(t2))
  BY DEF Adds, Prefix
<1>2. Len(tr) \in 0..Len(tr) /\ Len(tr) + 1 \in 1..(Len(tr) + 1)
  BY <1>1
<1>3. p[Len(tr)] \in Seq(Nat)
  BY <1>2 DEF Paths
<1>4. q[Len(tr)] = p[Len(tr)]
  BY <1>1, <1>2 DEF Prefix
<1>5. \A j \in 1..(Len(tr) + 1) : j \in 1..Len(tr) \/ j = Len(tr) + 1
  BY <1>1
<1>. QED BY <1>1, <1>2, <1>3, <1>4, <1>5

-----------------------------------------------------------------------------
(* Scopes and the bodies that own them.                                       *)

LEMMA LevelFacts ==
  ASSUME NEW tb \in Seq(Scopes), NEW k \in Nat
  PROVE  /\ BodyOf(tb, 0) = 0 /\ BodyOf(tb, k) \in Nat
         /\ k + 1 \in DOMAIN tb =>
              BodyOf(tb, k + 1) = IF tb[k + 1].fenced THEN BodyOf(tb, k) + 1 ELSE BodyOf(tb, k)
         /\ \A m \in 0..k : BodyOf(tb, m) \in Nat /\ BodyOf(tb, m) <= BodyOf(tb, k)
<1> DEFINE P == Fences(tb)
<1>1. /\ Count(P, 0) = 0 /\ Count(P, k) \in Nat
      /\ k + 1 \in P    => Count(P, k + 1) = Count(P, k) + 1
      /\ k + 1 \notin P => Count(P, k + 1) = Count(P, k)
  BY CountFacts
<1>2. k + 1 \in DOMAIN tb => (k + 1 \in P <=> tb[k + 1].fenced)
  BY DEF Fences
<1>3. ASSUME NEW m \in 0..k PROVE Count(P, m) \in Nat /\ Count(P, m) <= Count(P, k)
  <2>1. CASE m = k
    BY <1>1, <2>1
  <2>2. CASE m # k
    <3>1. m \in Nat /\ m < k
      BY <2>2
    <3> HIDE DEF P
    <3>. QED BY <3>1, CountGrows
  <2>. QED BY <2>1, <2>2
<1> HIDE DEF P
<1>. QED BY <1>1, <1>2, <1>3 DEF BodyOf, P

\* The first n scopes are the same, but for their symbols.
Upto(tc, tb, n) ==
  /\ n \in Nat /\ n <= Len(tb) /\ n <= Len(tc)
  /\ \A k \in 1..n : tc[k].id = tb[k].id /\ tc[k].fenced = tb[k].fenced

LEMMA LevelsUpto ==
  ASSUME NEW tb \in Seq(Scopes), NEW tc \in Seq(Scopes), NEW n, Upto(tc, tb, n)
  PROVE  \A k \in 0..n : BodyOf(tc, k) = BodyOf(tb, k)
<1>1. ASSUME NEW k \in 0..n PROVE BodyOf(tc, k) = BodyOf(tb, k)
  <2>1. k \in Nat /\ \A j \in 1..k : j \in 1..n /\ j \in DOMAIN tb /\ j \in DOMAIN tc
    BY DEF Upto
  <2>2. \A j \in 1..k : j \in Fences(tc) <=> j \in Fences(tb)
    BY <2>1 DEF Fences, Upto
  <2> DEFINE P == Fences(tc)
             Q == Fences(tb)
  <2> HIDE DEF P, Q
  <2>3. \A j \in 1..k : j \in P <=> j \in Q
    BY <2>2 DEF P, Q
  <2>4. Count(P, k) = Count(Q, k)
    BY <2>1, <2>3, CountSame
  <2>. QED BY <2>4 DEF BodyOf, P, Q
<1>. QED BY <1>1

LEMMA OwnedTable ==
  ASSUME NEW tr, NEW p, NEW tb \in Seq(Scopes), tb # <<>>, NEW o \in Nat, ScopesOwned(tr, p, tb, o)
  PROVE  /\ Len(tb) \in Nat \ {0} /\ DOMAIN tb = 1..Len(tb) /\ 1 \in 1..Len(tb)
         /\ \A k \in 1..Len(tb) : tb[k].id \in 0..(o - 1) \/ tb[k].id = 0
         /\ Len(tb) >= 2 => Len(tb) \in 2..Len(tb)
<1>1. Len(tb) \in Nat \ {0} /\ DOMAIN tb = 1..Len(tb) /\ 1 \in 1..Len(tb)
  OBVIOUS
<1>2. ASSUME NEW k \in 1..Len(tb) PROVE tb[k].id \in 0..(o - 1) \/ tb[k].id = 0
  <2>1. k = 1 \/ k \in 2..Len(tb)
    BY <1>1
  <2>2. k \in 2..Len(tb) => tb[k].id \in 1..(o - 1)
    BY DEF ScopesOwned
  <2>. QED BY <2>1, <2>2 DEF ScopesOwned
<1>. QED BY <1>1, <1>2

\* Symbols are added.
LEMMA OwnedAlike ==
  ASSUME NEW tr, NEW p, NEW tb \in Seq(Scopes), tb # <<>>, NEW o \in Nat, ScopesOwned(tr, p, tb, o),
         NEW tc \in Seq(Scopes), Len(tc) = Len(tb), Upto(tc, tb, Len(tb))
  PROVE  ScopesOwned(tr, p, tc, o)
<1>1. Len(tb) \in Nat \ {0} /\ 1 \in 1..Len(tb) /\ Len(tb) \in 0..Len(tb)
  BY OwnedTable
<1>2. \A k \in 0..Len(tb) : BodyOf(tc, k) = BodyOf(tb, k)
  BY LevelsUpto
<1>3. \A k \in 2..Len(tb) : k \in 1..Len(tb) /\ k \in 0..Len(tb)
  BY <1>1
<1>4. \A k \in 1..Len(tb) : tc[k].id = tb[k].id /\ tc[k].fenced = tb[k].fenced
  BY DEF Upto
<1>5. Len(p[Len(tr)]) = BodyOf(tc, Len(tc)) /\ tc[1].id = 0 /\ ~ tc[1].fenced
  BY <1>1, <1>2, <1>4 DEF ScopesOwned
<1>6. \A i, k \in 1..Len(tc) : tc[i].id = tc[k].id => i = k
  BY <1>4 DEF ScopesOwned
<1>7. \A k \in 2..Len(tc) : tc[k].id \in 1..(o - 1) /\ BodyOf(tc, k) # 0
  BY <1>2, <1>3, <1>4 DEF ScopesOwned
<1>8. \A k \in 2..Len(tc), j \in DOMAIN tr :
        InScope(tr[j], tc[k].id) => Owner(p, j) = p[Len(tr)][BodyOf(tc, k)]
  BY <1>2, <1>3, <1>4 DEF ScopesOwned
<1>. QED BY <1>5, <1>6, <1>7, <1>8 DEF ScopesOwned

\* A scope is entered that is no body.
LEMMA OwnedPush ==
  ASSUME NEW tr, NEW p, NEW tb \in Seq(Scopes), tb # <<>>, NEW o \in Nat, ScopesOwned(tr, p, tb, o),
         Len(tb) >= 2,
         NEW tc \in Seq(Scopes), Len(tc) = Len(tb) + 1, Upto(tc, tb, Len(tb)),
         tc[Len(tb) + 1].id = o, ~ tc[Len(tb) + 1].fenced
  PROVE  ScopesOwned(tr, p, tc, o + 1)
<1> DEFINE l == Len(tb)
<1>1. /\ l \in Nat \ {0} /\ 1 \in 1..l /\ l \in 0..l /\ l \in 2..l
      /\ l + 1 \in DOMAIN tc
  BY OwnedTable
<1>2. \A k \in 0..l : BodyOf(tc, k) = BodyOf(tb, k)
  BY LevelsUpto
<1>3. BodyOf(tc, l + 1) = BodyOf(tb, l)
  <2>1. BodyOf(tc, l + 1) = BodyOf(tc, l)
    BY <1>1, LevelFacts
  <2>. QED BY <1>1, <1>2, <2>1
<1>4. \A k \in 1..l : tc[k].id = tb[k].id /\ tc[k].fenced = tb[k].fenced
  BY DEF Upto
<1>5. Len(p[Len(tr)]) = BodyOf(tc, Len(tc)) /\ tc[1].id = 0 /\ ~ tc[1].fenced
  BY <1>1, <1>3, <1>4 DEF ScopesOwned
<1>6. ASSUME NEW k \in 2..Len(tc)
      PROVE  tc[k].id \in 1..o /\ BodyOf(tc, k) # 0
  <2>0. o - 1 >= 1
    <3>1. tb[l].id \in 1..(o - 1)
      BY <1>1 DEF ScopesOwned
    <3>. QED BY <3>1
  <2>1. CASE k = l + 1
    <3>1. BodyOf(tb, l) # 0
      BY <1>1 DEF ScopesOwned
    <3>. QED BY <1>3, <2>0, <2>1, <3>1
  <2>2. CASE k # l + 1
    <3>1. k \in 2..l /\ k \in 0..l /\ k \in 1..l
      BY <1>1, <2>2
    <3>2. tb[k].id \in 1..(o - 1) /\ BodyOf(tb, k) # 0
      BY <3>1 DEF ScopesOwned
    <3>. QED BY <1>2, <1>4, <3>1, <3>2
  <2>. QED BY <2>1, <2>2
<1>7. ASSUME NEW i \in 1..Len(tc), NEW k \in 1..Len(tc), tc[i].id = tc[k].id
      PROVE  i = k
  <2>1. \A j \in 1..l : tc[j].id # o
    <3>1. ASSUME NEW j \in 1..l PROVE tc[j].id # o
      <4>1. tb[j].id \in 0..(o - 1) \/ tb[j].id = 0
        BY OwnedTable
      <4>2. tb[l].id \in 1..(o - 1)
        BY <1>1 DEF ScopesOwned
      <4>. QED BY <1>4, <4>1, <4>2
    <3>. QED BY <3>1
  <2>2. (i \in 1..l \/ i = l + 1) /\ (k \in 1..l \/ k = l + 1)
    BY <1>1
  <2>3. CASE i \in 1..l /\ k \in 1..l
    <3>1. tb[i].id = tb[k].id
      BY <1>4, <1>7, <2>3
    <3>. QED BY <2>3, <3>1 DEF ScopesOwned
  <2>. QED BY <1>7, <2>1, <2>2, <2>3
<1>8. \A j \in DOMAIN tr, id \in Nat : InScope(tr[j], id) => id \in 1..(o - 1) /\ id \in 1..o
  <2>1. \A j \in DOMAIN tr, id \in Nat : InScope(tr[j], id) => id \in 1..(o - 1)
    BY DEF ScopesOwned
  <2>. QED BY <2>1
<1>9. ASSUME NEW k \in 2..Len(tc), NEW j \in DOMAIN tr, InScope(tr[j], tc[k].id)
      PROVE  Owner(p, j) = p[Len(tr)][BodyOf(tc, k)]
  <2>1. CASE k = l + 1
    <3>1. o \in 1..(o - 1)
      BY <1>8, <1>9, <2>1
    <3>. QED BY <3>1
  <2>2. CASE k # l + 1
    <3>1. k \in 2..l /\ k \in 0..l /\ k \in 1..l
      BY <1>1, <2>2
    <3>2. InScope(tr[j], tb[k].id)
      BY <1>4, <1>9, <3>1
    <3>3. Owner(p, j) = p[Len(tr)][BodyOf(tb, k)]
      BY <3>1, <3>2 DEF ScopesOwned
    <3>. QED BY <1>2, <3>1, <3>3
  <2>. QED BY <2>1, <2>2
<1>10. o + 1 - 1 = o
  OBVIOUS
<1>11. \A i, j \in DOMAIN tr, id \in Nat :
        InScope(tr[i], id) /\ InScope(tr[j], id) => Owner(p, i) = Owner(p, j)
  BY DEF ScopesOwned
<1>. QED BY <1>5, <1>6, <1>7, <1>8, <1>9, <1>10, <1>11 DEF ScopesOwned

\* A scope is left that is no body.
LEMMA OwnedPop ==
  ASSUME NEW tr, NEW p, NEW tb \in Seq(Scopes), tb # <<>>, NEW o \in Nat, ScopesOwned(tr, p, tb, o),
         Len(tb) >= 2, ~ tb[Len(tb)].fenced,
         NEW tc \in Seq(Scopes), Len(tc) = Len(tb) - 1, Upto(tc, tb, Len(tb) - 1)
  PROVE  ScopesOwned(tr, p, tc, o)
<1> DEFINE l == Len(tb) - 1
<1>1. /\ l \in Nat \ {0} /\ Len(tb) = l + 1 /\ 1 \in 1..l /\ l \in 0..l /\ l + 1 \in DOMAIN tb
  BY OwnedTable
<1>2. \A k \in 0..l : BodyOf(tc, k) = BodyOf(tb, k)
  BY LevelsUpto
<1>3. BodyOf(tb, l + 1) = BodyOf(tb, l)
  BY <1>1, LevelFacts
<1>4. \A k \in 1..l : tc[k].id = tb[k].id /\ tc[k].fenced = tb[k].fenced /\ k \in 1..Len(tb)
  BY <1>1 DEF Upto
<1>5. \A k \in 2..l : k \in 2..Len(tb) /\ k \in 1..l /\ k \in 0..l
  BY <1>1
<1> HIDE DEF l
<1>6. Len(p[Len(tr)]) = BodyOf(tc, Len(tc)) /\ tc[1].id = 0 /\ ~ tc[1].fenced
  <2>1. Len(tc) = l
    BY DEF l
  <2>. QED BY <1>1, <1>2, <1>3, <1>4, <2>1 DEF ScopesOwned
<1>7. Len(tc) = l
  BY DEF l
<1>8. \A i, k \in 1..l : tc[i].id = tc[k].id => i = k
  BY <1>4 DEF ScopesOwned
<1>9. \A k \in 2..l : tc[k].id \in 1..(o - 1) /\ BodyOf(tc, k) # 0
  BY <1>2, <1>4, <1>5 DEF ScopesOwned
<1>10. \A k \in 2..l, j \in DOMAIN tr :
        InScope(tr[j], tc[k].id) => Owner(p, j) = p[Len(tr)][BodyOf(tc, k)]
  BY <1>2, <1>4, <1>5 DEF ScopesOwned
<1>. QED BY <1>6, <1>7, <1>8, <1>9, <1>10 DEF ScopesOwned

\* A node is added that neither begins nor ends a body.
LEMMA OwnedNode ==
  ASSUME NEW tr, NEW p, NEW tb \in Seq(Scopes), tb # <<>>, NEW o \in Nat, ScopesOwned(tr, p, tb, o),
         Paths(p, tr), NEW n \in Nodes, n.node \in {"use", "decl"}, NEW t2, NEW q,
         Adds(tr, p, n, t2, q),
         IsLocal(n) => n.site[1] = tb[Len(tb)].id /\ Len(tb) >= 2
  PROVE  ScopesOwned(t2, q, tb, o)
<1> DEFINE l == Len(tr)
           m == Len(tb)
<1>1. /\ m \in Nat \ {0} /\ m >= 2 => m \in 2..m
  BY OwnedTable
<1>2. /\ Prefix(tr, p, t2, q) /\ l \in Nat /\ Len(t2) = l + 1
      /\ t2[l + 1] = n /\ l + 1 \in DOMAIN t2
      /\ \A j \in DOMAIN t2 : j \in DOMAIN tr \/ j = l + 1
      /\ p[l] \in Seq(Nat)
      /\ q[l + 1] = PathAfter(p[l], n, l + 1)
  BY AddsFacts
<1>3. \A j \in DOMAIN tr : j \in DOMAIN t2 /\ t2[j] = tr[j] /\ Owner(q, j) = Owner(p, j)
  BY <1>2, PrefixFacts
<1>4. q[l + 1] = p[l]
  BY <1>2 DEF PathAfter, Begins
<1>5. ASSUME NEW id, InScope(n, id) PROVE id = tb[m].id /\ m \in 2..m
  BY <1>1, <1>5 DEF InScope, Begins
<1>6. Owner(q, l + 1) = p[l][BodyOf(tb, m)]
  BY <1>4 DEF Owner, Inner, ScopesOwned
<1> HIDE DEF l, m
<1>7. Len(q[Len(t2)]) = BodyOf(tb, Len(tb))
  BY <1>2, <1>4 DEF ScopesOwned, l
<1>8. ASSUME NEW j \in DOMAIN t2, NEW id \in Nat, InScope(t2[j], id)
      PROVE  id \in 1..(o - 1)
  <2>1. CASE j \in DOMAIN tr
    BY <1>3, <1>8, <2>1 DEF ScopesOwned
  <2>2. CASE j = l + 1
    <3>1. id = tb[m].id /\ m \in 2..m
      BY <1>2, <1>5, <1>8, <2>2
    <3>. QED BY <3>1 DEF ScopesOwned, m
  <2>. QED BY <1>2, <2>1, <2>2
<1>9. ASSUME NEW k \in 2..Len(tb), NEW j \in DOMAIN t2, InScope(t2[j], tb[k].id)
      PROVE  Owner(q, j) = p[l][BodyOf(tb, k)]
  <2>1. CASE j \in DOMAIN tr
    BY <1>3, <1>9, <2>1 DEF ScopesOwned, l
  <2>2. CASE j = l + 1
    <3>1. tb[k].id = tb[m].id
      BY <1>2, <1>5, <1>9, <2>2
    <3>2. k \in 1..Len(tb) /\ m \in 1..Len(tb)
      BY <1>1 DEF m
    <3>3. k = m
      BY <3>1, <3>2 DEF ScopesOwned
    <3>. QED BY <1>6, <2>2, <3>3
  <2>. QED BY <1>2, <2>1, <2>2
<1>10. ASSUME NEW i \in DOMAIN t2, NEW j \in DOMAIN t2, NEW id \in Nat,
             InScope(t2[i], id), InScope(t2[j], id)
      PROVE  Owner(q, i) = Owner(q, j)
  <2>1. CASE i \in DOMAIN tr /\ j \in DOMAIN tr
    BY <1>3, <1>10, <2>1 DEF ScopesOwned
  <2>2. CASE i = l + 1 \/ j = l + 1
    <3>1. id = tb[m].id /\ m \in 2..Len(tb)
      BY <1>2, <1>5, <1>10, <2>2 DEF m
    <3>. QED BY <1>9, <1>10, <3>1
  <2>. QED BY <1>2, <2>1, <2>2
<1>11. q[Len(t2)] = p[l]
  BY <1>2, <1>4
<1>. QED BY <1>7, <1>8, <1>9, <1>10, <1>11 DEF ScopesOwned

\* A body is entered.
LEMMA OwnedBegin ==
  ASSUME NEW tr, NEW p, NEW tb \in Seq(Scopes), tb # <<>>, NEW o \in Nat \ {0}, ScopesOwned(tr, p, tb, o),
         Paths(p, tr), NEW n \in Nodes, Begins(n), n.scope = o, NEW t2, NEW q,
         Adds(tr, p, n, t2, q),
         NEW tc \in Seq(Scopes), Len(tc) = Len(tb) + 1, Upto(tc, tb, Len(tb)),
         tc[Len(tb) + 1].id = o, tc[Len(tb) + 1].fenced
  PROVE  ScopesOwned(t2, q, tc, o + 1)
<1> DEFINE l == Len(tr)
           m == Len(tb)
           path == p[l]
           new == q[l + 1]
<1>1. /\ m \in Nat \ {0} /\ m \in 1..m /\ m \in 0..m /\ 1 \in 1..m
      /\ \A k \in 1..m : tb[k].id \in 0..(o - 1)
      /\ m + 1 \in DOMAIN tc
  <2>1. 0 \in 0..(o - 1)
    OBVIOUS
  <2>. QED BY <2>1, OwnedTable
<1>2. /\ Prefix(tr, p, t2, q) /\ l \in Nat /\ Len(t2) = l + 1
      /\ t2[l + 1] = n /\ l + 1 \in DOMAIN t2
      /\ \A j \in DOMAIN t2 : j \in DOMAIN tr \/ j = l + 1
      /\ path \in Seq(Nat)
      /\ new = PathAfter(path, n, l + 1)
  BY AddsFacts
<1>3. \A j \in DOMAIN tr : j \in DOMAIN t2 /\ t2[j] = tr[j] /\ Owner(q, j) = Owner(p, j)
  BY <1>2, PrefixFacts
<1>4. /\ Len(path) \in Nat /\ Len(new) = Len(path) + 1 /\ new[Len(path) + 1] = l + 1
      /\ \A i \in 1..Len(path) : new[i] = path[i]
  <2>1. l + 1 \in Nat
    BY <1>2
  <2> HIDE DEF path, new, l
  <2>. QED BY <1>2, <2>1, PathBegins
<1>5. /\ \A k \in 0..m : BodyOf(tc, k) = BodyOf(tb, k) /\ BodyOf(tb, k) \in 0..Len(path)
      /\ BodyOf(tc, m + 1) = Len(path) + 1
  <2>1. \A k \in 0..m : BodyOf(tc, k) = BodyOf(tb, k)
    BY LevelsUpto
  <2>2. BodyOf(tc, m + 1) = BodyOf(tc, m) + 1 /\ BodyOf(tc, m) \in Nat
    BY <1>1, LevelFacts
  <2>3. Len(path) = BodyOf(tb, m)
    BY DEF ScopesOwned
  <2>4. \A k \in 0..m : BodyOf(tb, k) \in Nat /\ BodyOf(tb, k) <= BodyOf(tb, m)
    BY <1>1, LevelFacts
  <2>5. m \in 0..m
    BY <1>1
  <2> HIDE DEF m, path
  <2>6. BodyOf(tc, m) = BodyOf(tb, m) /\ BodyOf(tb, m) \in Nat
    BY <2>1, <2>4, <2>5
  <2>7. \A k \in 0..m : BodyOf(tb, k) \in 0..Len(path)
    BY <2>3, <2>4, <2>6
  <2>. QED BY <2>1, <2>2, <2>3, <2>6, <2>7
<1>6. \A k \in 1..m : tc[k].id = tb[k].id /\ tc[k].fenced = tb[k].fenced
  BY DEF Upto
<1>7. ASSUME NEW id, InScope(n, id) PROVE id = o
  BY <1>7 DEF InScope, IsLocal, Begins
<1>8. Owner(q, l + 1) = new[BodyOf(tc, m + 1)]
  BY <1>4, <1>5 DEF Owner, Inner
<1>9. \A j \in DOMAIN tr : ~ InScope(tr[j], o)
  <2>1. o \notin 1..(o - 1)
    OBVIOUS
  <2>. QED BY <2>1 DEF ScopesOwned
<1>10. \A k \in 2..Len(tc) : k = m + 1 \/ (k \in 2..m /\ k \in 1..m /\ k \in 0..m)
  BY <1>1
<1>11. q[Len(t2)] = new
  BY <1>2
<1>12. Len(tc) = m + 1 /\ o + 1 - 1 = o
  OBVIOUS
<1>13. /\ \A k \in 2..m : tb[k].id \in 1..(o - 1) /\ BodyOf(tb, k) # 0
       /\ \A k \in 2..m, j \in DOMAIN tr :
            InScope(tr[j], tb[k].id) => Owner(p, j) = path[BodyOf(tb, k)]
       /\ tb[1].id = 0 /\ ~ tb[1].fenced
       /\ \A i, k \in 1..m : tb[i].id = tb[k].id => i = k
  BY DEF ScopesOwned
<1> HIDE DEF l, m, path, new
<1>14. Len(q[Len(t2)]) = BodyOf(tc, Len(tc)) /\ tc[1].id = 0 /\ ~ tc[1].fenced
  BY <1>1, <1>4, <1>5, <1>6, <1>11, <1>12, <1>13
<1>15. \A i, k \in 1..Len(tc) : tc[i].id = tc[k].id => i = k
  <2>1. ASSUME NEW i \in 1..Len(tc), NEW k \in 1..Len(tc), tc[i].id = tc[k].id
        PROVE  i = k
    <3>1. (i \in 1..m \/ i = m + 1) /\ (k \in 1..m \/ k = m + 1)
      BY <1>1, <1>12
    <3>2. \A j \in 1..m : tc[j].id # o
      <4>1. o \notin 0..(o - 1)
        OBVIOUS
      <4>. QED BY <1>1, <1>6, <4>1
    <3>3. tc[m + 1].id = o
      BY DEF m
    <3>4. CASE i \in 1..m /\ k \in 1..m
      BY <1>6, <1>13, <2>1, <3>4
    <3>. QED BY <2>1, <3>1, <3>2, <3>3, <3>4
  <2>. QED BY <2>1
<1>16. \A k \in 2..Len(tc) : tc[k].id \in 1..o /\ BodyOf(tc, k) # 0
  <2>1. ASSUME NEW k \in 2..Len(tc) PROVE tc[k].id \in 1..o /\ BodyOf(tc, k) # 0
    <3>1. CASE k = m + 1
      <4>1. tc[m + 1].id = o /\ o \in 1..o
        BY DEF m
      <4>2. BodyOf(tc, m + 1) = Len(path) + 1 /\ Len(path) \in Nat
        BY <1>4, <1>5
      <4>. QED BY <3>1, <4>1, <4>2
    <3>2. CASE k \in 2..m /\ k \in 1..m /\ k \in 0..m
      BY <1>5, <1>6, <1>13, <3>2
    <3>. QED BY <1>10, <3>1, <3>2
  <2>. QED BY <2>1
<1>17. \A j \in DOMAIN t2, id \in Nat : InScope(t2[j], id) => id \in 1..o
  <2>1. ASSUME NEW j \in DOMAIN t2, NEW id \in Nat, InScope(t2[j], id) PROVE id \in 1..o
    <3>1. CASE j \in DOMAIN tr
      <4>1. id \in 1..(o - 1)
        BY <1>3, <2>1, <3>1 DEF ScopesOwned
      <4>. QED BY <4>1
    <3>2. CASE j = l + 1
      <4>1. id = o
        BY <1>2, <1>7, <2>1, <3>2
      <4>. QED BY <4>1
    <3>. QED BY <1>2, <3>1, <3>2
  <2>. QED BY <2>1
<1>18. \A i, j \in DOMAIN t2, id \in Nat :
          InScope(t2[i], id) /\ InScope(t2[j], id) => Owner(q, i) = Owner(q, j)
  <2>1. ASSUME NEW i \in DOMAIN t2, NEW j \in DOMAIN t2, NEW id \in Nat,
               InScope(t2[i], id), InScope(t2[j], id)
        PROVE  Owner(q, i) = Owner(q, j)
    <3>1. CASE i \in DOMAIN tr /\ j \in DOMAIN tr
      BY <1>3, <2>1, <3>1 DEF ScopesOwned
    <3>2. CASE i = l + 1 \/ j = l + 1
      <4>1. id = o
        BY <1>2, <1>7, <2>1, <3>2
      <4>2. i \notin DOMAIN tr /\ j \notin DOMAIN tr
        BY <1>3, <1>9, <2>1, <4>1
      <4>. QED BY <1>2, <4>2
    <3>. QED BY <1>2, <3>1, <3>2
  <2>. QED BY <2>1
<1>19. \A k \in 2..Len(tc), j \in DOMAIN t2 :
          InScope(t2[j], tc[k].id) => Owner(q, j) = new[BodyOf(tc, k)]
  <2>1. ASSUME NEW k \in 2..Len(tc), NEW j \in DOMAIN t2, InScope(t2[j], tc[k].id)
        PROVE  Owner(q, j) = new[BodyOf(tc, k)]
    <3>1. CASE k = m + 1
      <4>1. tc[k].id = o
        BY <3>1 DEF m
      <4>2. j \notin DOMAIN tr
        BY <1>3, <1>9, <2>1, <4>1
      <4>. QED BY <1>2, <1>8, <3>1, <4>2
    <3>2. CASE k \in 2..m /\ k \in 1..m /\ k \in 0..m
      <4>0. tc[k].id = tb[k].id /\ tb[k].id \in 1..(o - 1) /\ BodyOf(tb, k) # 0
        BY <1>6, <1>13, <3>2
      <4>1. j \in DOMAIN tr
        <5>1. tc[k].id # o
          BY <4>0
        <5>. QED BY <1>2, <1>7, <2>1, <5>1
      <4>2. Owner(p, j) = path[BodyOf(tb, k)]
        BY <1>3, <1>13, <2>1, <3>2, <4>0, <4>1
      <4>3. BodyOf(tc, k) = BodyOf(tb, k) /\ BodyOf(tb, k) \in 1..Len(path)
        BY <1>4, <1>5, <3>2, <4>0
      <4>. QED BY <1>3, <1>4, <4>1, <4>2, <4>3
    <3>. QED BY <1>10, <3>1, <3>2
  <2>. QED BY <2>1
<1>. QED BY <1>11, <1>12, <1>14, <1>15, <1>16, <1>17, <1>18, <1>19 DEF ScopesOwned

\* A body is left.
LEMMA OwnedEnd ==
  ASSUME NEW tr, NEW p, NEW tb \in Seq(Scopes), tb # <<>>, NEW o \in Nat, ScopesOwned(tr, p, tb, o),
         Paths(p, tr), NEW n \in Nodes, n.node = "end", NEW t2, NEW q, Adds(tr, p, n, t2, q),
         Len(tb) >= 2, tb[Len(tb)].fenced,
         NEW tc \in Seq(Scopes), Len(tc) = Len(tb) - 1, Upto(tc, tb, Len(tb) - 1)
  PROVE  ScopesOwned(t2, q, tc, o)
<1> DEFINE l == Len(tr)
           m == Len(tb) - 1
           path == p[l]
           new == q[l + 1]
<1>1. /\ m \in Nat \ {0} /\ m \in 1..m /\ m \in 0..m /\ 1 \in 1..m
      /\ Len(tb) = m + 1 /\ Len(tc) = m /\ m + 1 \in DOMAIN tb
  BY OwnedTable
<1>2. /\ Prefix(tr, p, t2, q) /\ l \in Nat /\ Len(t2) = l + 1
      /\ t2[l + 1] = n /\ l + 1 \in DOMAIN t2
      /\ \A j \in DOMAIN t2 : j \in DOMAIN tr \/ j = l + 1
      /\ path \in Seq(Nat)
      /\ new = PathAfter(path, n, l + 1)
  BY AddsFacts
<1>3. \A j \in DOMAIN tr : j \in DOMAIN t2 /\ t2[j] = tr[j] /\ Owner(q, j) = Owner(p, j)
  BY <1>2, PrefixFacts
<1>4. BodyOf(tb, m) \in Nat /\ Len(path) = BodyOf(tb, m) + 1
  <2>1. BodyOf(tb, m + 1) = BodyOf(tb, m) + 1 /\ BodyOf(tb, m) \in Nat
    BY <1>1, LevelFacts
  <2>. QED BY <1>1, <2>1 DEF ScopesOwned
<1>5. /\ Len(new) = BodyOf(tb, m)
      /\ \A i \in 1..BodyOf(tb, m) : new[i] = path[i]
  <2>1. path # <<>>
    BY <1>4
  <2>2. Len(new) = Len(path) - 1 /\ \A i \in 1..(Len(path) - 1) : new[i] = path[i]
    <3>1. l \in Nat /\ path \in Seq(Nat) /\ new = PathAfter(path, n, l + 1)
      BY <1>2
    <3> HIDE DEF new, path, l
    <3>2. /\ Len(PathAfter(path, n, l + 1)) = Len(path) - 1
          /\ \A i \in 1..(Len(path) - 1) : PathAfter(path, n, l + 1)[i] = path[i]
      BY <2>1, <3>1, PathEnds
    <3>. QED BY <3>1, <3>2
  <2> DEFINE b == BodyOf(tb, m)
             c == Len(path) - 1
  <2>3. c = b
    BY <1>4
  <2> HIDE DEF b, c, path, new
  <2>4. Len(new) = c /\ \A i \in 1..c : new[i] = path[i]
    BY <2>2 DEF c
  <2>5. Len(new) = b /\ \A i \in 1..b : new[i] = path[i]
    BY <2>3, <2>4
  <2>. QED BY <2>5 DEF b
<1>6. \A k \in 0..m : BodyOf(tc, k) = BodyOf(tb, k) /\ BodyOf(tb, k) \in 0..BodyOf(tb, m)
  <2>1. \A k \in 0..m : BodyOf(tc, k) = BodyOf(tb, k)
    BY LevelsUpto
  <2>2. \A k \in 0..m : BodyOf(tb, k) \in Nat /\ BodyOf(tb, k) <= BodyOf(tb, m)
    BY <1>1, LevelFacts
  <2>. QED BY <1>4, <2>1, <2>2
<1>7. \A k \in 1..m : tc[k].id = tb[k].id /\ tc[k].fenced = tb[k].fenced /\ k \in 1..Len(tb)
  BY <1>1 DEF Upto
<1>8. \A id : ~ InScope(n, id)
  BY DEF InScope, IsLocal, Begins
<1>9. \A k \in 2..m : k \in 1..m /\ k \in 0..m /\ k \in 2..Len(tb)
  BY <1>1
<1>10. q[Len(t2)] = new
  BY <1>2
<1>11. /\ \A k \in 2..Len(tb) : tb[k].id \in 1..(o - 1) /\ BodyOf(tb, k) # 0
       /\ \A k \in 2..Len(tb), j \in DOMAIN tr :
            InScope(tr[j], tb[k].id) => Owner(p, j) = path[BodyOf(tb, k)]
       /\ tb[1].id = 0 /\ ~ tb[1].fenced
       /\ \A i, k \in 1..Len(tb) : tb[i].id = tb[k].id => i = k
  BY DEF ScopesOwned
<1> HIDE DEF l, m, path, new
<1>12. Len(q[Len(t2)]) = BodyOf(tc, Len(tc)) /\ tc[1].id = 0 /\ ~ tc[1].fenced
  BY <1>1, <1>5, <1>6, <1>7, <1>10, <1>11
<1>13. \A i, k \in 1..m : tc[i].id = tc[k].id => i = k
  BY <1>7, <1>11
<1>14. \A k \in 2..m : tc[k].id \in 1..(o - 1) /\ BodyOf(tc, k) # 0
  BY <1>6, <1>7, <1>9, <1>11
<1>15. \A j \in DOMAIN t2, id \in Nat : InScope(t2[j], id) => j \in DOMAIN tr /\ InScope(tr[j], id)
  BY <1>2, <1>3, <1>8
<1>16. \A j \in DOMAIN t2, id \in Nat : InScope(t2[j], id) => id \in 1..(o - 1)
  BY <1>15 DEF ScopesOwned
<1>17. \A i, j \in DOMAIN t2, id \in Nat :
          InScope(t2[i], id) /\ InScope(t2[j], id) => Owner(q, i) = Owner(q, j)
  BY <1>3, <1>15 DEF ScopesOwned
<1>18. ASSUME NEW k \in 2..m, NEW j \in DOMAIN t2, InScope(t2[j], tc[k].id)
       PROVE  Owner(q, j) = new[BodyOf(tc, k)]
  <2>1. tc[k].id = tb[k].id /\ tb[k].id \in Nat /\ BodyOf(tb, k) # 0 /\ k \in 2..Len(tb)
    BY <1>7, <1>9, <1>11
  <2>2. j \in DOMAIN tr /\ InScope(tr[j], tb[k].id)
    BY <1>15, <1>18, <2>1
  <2>3. Owner(q, j) = path[BodyOf(tb, k)]
    BY <1>3, <1>11, <2>1, <2>2
  <2>4. BodyOf(tc, k) = BodyOf(tb, k) /\ BodyOf(tb, k) \in 1..BodyOf(tb, m)
    BY <1>4, <1>6, <1>9, <2>1
  <2>. QED BY <1>5, <2>3, <2>4
<1>. QED BY <1>1, <1>10, <1>12, <1>13, <1>14, <1>16, <1>17, <1>18 DEF ScopesOwned

-----------------------------------------------------------------------------
(* Symbols and the nodes that made them.                                      *)

LEMMA WritesInScope ==
  ASSUME NEW n, NEW site, Writes(n, site)
  PROVE  InScope(n, site[1])
BY DEF Writes, InScope

\* The node makes the symbol; the symbol of a site stays, or the node makes it.
Gives(n, s, site) ==
  /\ s # Absent /\ ~ s.isGlobal
  /\ s.isDefinition => Makes(n, s.type, site) /\ ~ Writes(n, site)
  /\ ~ s.isDefinition => Writes(n, site) /\ ~ (n.node = "func" /\ n.site = site)
Kept(n, s, s2, site) == \/ s2 = s /\ ~ Touches(n, site)
                        \/ s = Absent /\ Gives(n, s2, site)

LEMMA LocalAtKept ==
  ASSUME NEW tr, NEW p, Paths(p, tr), NEW n, NEW t2, NEW q, Adds(tr, p, n, t2, q),
         NEW s, NEW s2, NEW site, LocalAt(tr, s, site), Kept(n, s, s2, site)
  PROVE  LocalAt(t2, s2, site)
<1>1. /\ \A j \in DOMAIN t2 : j \in DOMAIN tr \/ j = Len(tr) + 1
      /\ t2[Len(tr) + 1] = n /\ Len(tr) + 1 \in DOMAIN t2
      /\ Prefix(tr, p, t2, q)
  BY AddsFacts
<1>2. \A j \in DOMAIN tr : j \in DOMAIN t2 /\ t2[j] = tr[j]
  BY <1>1, PrefixFacts
<1>3. CASE s2 = s /\ ~ Touches(n, site)
  <2>1. s # Absent => /\ ~ s.isGlobal
                      /\ s.isDefinition => \E j \in DOMAIN t2 : Makes(t2[j], s.type, site)
                      /\ ~ s.isDefinition => \E j \in DOMAIN t2 : Writes(t2[j], site)
    BY <1>2 DEF LocalAt
  <2>2. ASSUME NEW j \in DOMAIN t2
        PROVE  /\ t2[j].node = "func" /\ t2[j].site = site => s # Absent /\ s.isDefinition
               /\ Writes(t2[j], site) => s # Absent /\ ~ s.isDefinition
    <3>1. CASE j \in DOMAIN tr
      BY <1>2, <3>1 DEF LocalAt
    <3>2. CASE j = Len(tr) + 1
      BY <1>1, <1>3, <3>2 DEF Touches
    <3>. QED BY <1>1, <3>1, <3>2
  <2>. QED BY <1>3, <2>1, <2>2 DEF LocalAt
<1>4. CASE s = Absent /\ Gives(n, s2, site)
  <2>1. /\ s2 # Absent /\ ~ s2.isGlobal
        /\ s2.isDefinition => \E j \in DOMAIN t2 : Makes(t2[j], s2.type, site)
        /\ ~ s2.isDefinition => \E j \in DOMAIN t2 : Writes(t2[j], site)
    BY <1>1, <1>4 DEF Gives
  <2>2. ASSUME NEW j \in DOMAIN t2
        PROVE  /\ t2[j].node = "func" /\ t2[j].site = site => s2 # Absent /\ s2.isDefinition
               /\ Writes(t2[j], site) => s2 # Absent /\ ~ s2.isDefinition
    <3>1. CASE j \in DOMAIN tr
      BY <1>2, <1>4, <3>1 DEF LocalAt
    <3>2. CASE j = Len(tr) + 1
      BY <1>1, <1>4, <3>2 DEF Gives
    <3>. QED BY <1>1, <3>1, <3>2
  <2>. QED BY <2>1, <2>2 DEF LocalAt
<1>. QED BY <1>3, <1>4 DEF Kept

\* Nothing is known of a scope that was not entered yet.
LEMMA LocalFresh ==
  ASSUME NEW tr, NEW p, NEW tb, NEW o \in Nat, ScopesOwned(tr, p, tb, o), Apart(tr, o),
         NEW x \in Names, Paths(p, tr)
  PROVE  LocalAt(tr, Absent, <<o, x>>)
<1>1. ASSUME NEW j \in DOMAIN tr
      PROVE  ~ (tr[j].node = "func" /\ tr[j].site = <<o, x>>) /\ ~ Writes(tr[j], <<o, x>>)
  <2>1. ~ Writes(tr[j], <<o, x>>)
    <3>1. ~ InScope(tr[j], o)
      <4>1. o \notin 1..(o - 1)
        OBVIOUS
      <4>. QED BY <4>1 DEF ScopesOwned
    <3>. QED BY <3>1, WritesInScope
  <2>2. ~ (tr[j].node = "func" /\ tr[j].site = <<o, x>>)
    <3>1. tr[j].node = "func" => tr[j].site[1] < o
      BY DEF Apart
    <3>2. ~ (o < o)
      OBVIOUS
    <3>. QED BY <3>1, <3>2
  <2>. QED BY <2>1, <2>2
<1>. QED BY <1>1 DEF LocalAt

\* A node is added, and perhaps a scope; others may be left.
LEMMA LocalsNode ==
  ASSUME NEW tr, NEW p, Paths(p, tr), NEW n, NEW t2, NEW q, Adds(tr, p, n, t2, q),
         NEW tb, NEW o \in Nat, ScopesOwned(tr, p, tb, o), Apart(tr, o), LocalsBound(tr, tb),
         NEW tc,
         \A k \in 2..Len(tc), x \in Names :
            \/ /\ k \in 2..Len(tb) /\ tc[k].id = tb[k].id
               /\ Kept(n, tb[k].binds[x], tc[k].binds[x], <<tb[k].id, x>>)
            \/ tc[k].id = o /\ Kept(n, Absent, tc[k].binds[x], <<o, x>>)
  PROVE  LocalsBound(t2, tc)
<1>1. ASSUME NEW k \in 2..Len(tc), NEW x \in Names
      PROVE  LocalAt(t2, tc[k].binds[x], <<tc[k].id, x>>)
  <2>1. CASE /\ k \in 2..Len(tb) /\ tc[k].id = tb[k].id
             /\ Kept(n, tb[k].binds[x], tc[k].binds[x], <<tb[k].id, x>>)
    <3>1. LocalAt(tr, tb[k].binds[x], <<tb[k].id, x>>)
      BY <2>1 DEF LocalsBound
    <3>. QED BY <2>1, <3>1, LocalAtKept
  <2>2. CASE tc[k].id = o /\ Kept(n, Absent, tc[k].binds[x], <<o, x>>)
    <3>1. LocalAt(tr, Absent, <<o, x>>)
      BY LocalFresh
    <3>. QED BY <2>2, <3>1, LocalAtKept
  <2>. QED BY <2>1, <2>2
<1>. QED BY <1>1 DEF LocalsBound

\* No node is added.
LEMMA LocalsScope ==
  ASSUME NEW tr, NEW p, Paths(p, tr),
         NEW tb, NEW o \in Nat, ScopesOwned(tr, p, tb, o), Apart(tr, o), LocalsBound(tr, tb),
         NEW tc,
         \A k \in 2..Len(tc), x \in Names :
            \/ k \in 2..Len(tb) /\ tc[k].id = tb[k].id /\ tc[k].binds[x] = tb[k].binds[x]
            \/ tc[k].id = o /\ tc[k].binds[x] = Absent
  PROVE  LocalsBound(tr, tc)
<1>1. ASSUME NEW k \in 2..Len(tc), NEW x \in Names
      PROVE  LocalAt(tr, tc[k].binds[x], <<tc[k].id, x>>)
  <2>1. CASE k \in 2..Len(tb) /\ tc[k].id = tb[k].id /\ tc[k].binds[x] = tb[k].binds[x]
    BY <2>1 DEF LocalsBound
  <2>2. CASE tc[k].id = o /\ tc[k].binds[x] = Absent
    BY <2>2, LocalFresh
  <2>. QED BY <2>1, <2>2
<1>. QED BY <1>1 DEF LocalsBound

\* A node does not bring the storage of a variable and a function together.
LEMMA ApartNode ==
  ASSUME NEW tr, NEW p, Paths(p, tr), NEW n, NEW t2, NEW q, Adds(tr, p, n, t2, q),
         NEW o \in Nat, NEW o2 \in Nat, o <= o2, Apart(tr, o), tr \in Seq(Nodes),
         n.node = "func" => /\ n.site[1] < o2 /\ ~ Writes(n, n.site)
                            /\ \A j \in DOMAIN tr : ~ Writes(tr[j], n.site),
         \A i \in DOMAIN tr : tr[i].node = "func" => ~ Writes(n, tr[i].site)
  PROVE  Apart(t2, o2)
<1>1. /\ \A j \in DOMAIN t2 : j \in DOMAIN tr \/ j = Len(tr) + 1
      /\ t2[Len(tr) + 1] = n /\ Len(tr) + 1 \in DOMAIN t2
      /\ Prefix(tr, p, t2, q)
  BY AddsFacts
<1>2. \A j \in DOMAIN tr : j \in DOMAIN t2 /\ t2[j] = tr[j]
  BY <1>1, PrefixFacts
<1>3. ASSUME NEW i \in DOMAIN t2, NEW j \in DOMAIN t2, t2[i].node = "func"
      PROVE  ~ Writes(t2[j], t2[i].site)
  <2>1. CASE i \in DOMAIN tr /\ j \in DOMAIN tr
    BY <1>2, <1>3, <2>1 DEF Apart
  <2>2. CASE i \in DOMAIN tr /\ j = Len(tr) + 1
    BY <1>1, <1>2, <1>3, <2>2
  <2>3. CASE i = Len(tr) + 1 /\ j \in DOMAIN tr
    BY <1>1, <1>2, <1>3, <2>3
  <2>4. CASE i = Len(tr) + 1 /\ j = Len(tr) + 1
    BY <1>1, <1>3, <2>4
  <2>. QED BY <1>1, <2>1, <2>2, <2>3, <2>4
<1>4. ASSUME NEW i \in DOMAIN t2, t2[i].node = "func" PROVE t2[i].site[1] < o2
  <2>1. CASE i \in DOMAIN tr
    <3>1. tr[i] \in Nodes /\ tr[i].node = "func"
      BY <1>2, <1>4, <2>1
    <3>2. tr[i].site[1] \in Nat /\ tr[i].site[1] < o
      BY <2>1, <3>1, NodeFacts DEF Sites, Apart
    <3>. QED BY <1>2, <2>1, <3>2
  <2>2. CASE i = Len(tr) + 1
    BY <1>1, <1>4, <2>2
  <2>. QED BY <1>1, <2>1, <2>2
<1>. QED BY <1>3, <1>4 DEF Apart

LEMMA ApartLater ==
  ASSUME NEW tr \in Seq(Nodes), NEW o \in Nat, NEW o2 \in Nat, o <= o2, Apart(tr, o)
  PROVE  Apart(tr, o2)
<1>1. ASSUME NEW i \in DOMAIN tr, tr[i].node = "func" PROVE tr[i].site[1] < o2
  <2>1. tr[i] \in Nodes
    OBVIOUS
  <2>2. tr[i].site[1] \in Nat /\ tr[i].site[1] < o
    BY <1>1, <2>1, NodeFacts DEF Sites, Apart
  <2>. QED BY <2>2
<1>. QED BY <1>1 DEF Apart

-----------------------------------------------------------------------------
(* What later steps do not take back.                                         *)

LEMMA FlagsFacts ==
  ASSUME NEW s \in Flags
  PROVE  s # Absent /\ s.type \in Nat /\ s.isDefinition \in BOOLEAN /\ s.isGlobal \in BOOLEAN
BY AbsentAssumption DEF Flags

LEMMA HeadKept ==
  ASSUME Structure, Grows, NEW t, NEW x, IsHead(t, x, types, table, unit)
  PROVE  IsHead(t, x, types', table', unit')
<1>1. unit' = unit
  BY DEF Grows
<1>2. CASE t \in DOMAIN unit.extens /\ unit.extens[t].name = x
  BY <1>1, <1>2 DEF IsHead
<1>3. CASE \E i \in FunctionsOf(unit) :
             Made(types, table, unit, i, t) /\ unit.stmts[i].heading.name = x
  <2>1. PICK i \in FunctionsOf(unit) :
           Made(types, table, unit, i, t) /\ unit.stmts[i].heading.name = x
    BY <1>3
  <2>2. i \in Functions /\ OwnType(i, t)
    BY <2>1 DEF FunctionsOf, Functions, OwnType
  <2>3. Made(types', table', unit', i, t)
    BY <2>2, OwnTypeKept
  <2>. QED BY <1>1, <2>1, <2>3 DEF IsHead
<1>. QED BY <1>2, <1>3 DEF IsHead

\* Global variables keep their declarations.
LEMMA GlobalsKept ==
  ASSUME Structure, Grows, NEW tr, GlobalsBound(tr, table, types, unit),
         NEW t2, \A j \in DOMAIN tr : j \in DOMAIN t2 /\ t2[j] = tr[j],
         \A x \in Ids \ {Return} :
            \/ table'[1].binds[x] = table[1].binds[x]
            \/ GlobalAt(t2, table'[1].binds[x], x, types', table', unit')
  PROVE  GlobalsBound(t2, table', types', unit')
<1>1. ASSUME NEW x \in Ids \ {Return}, table'[1].binds[x] = table[1].binds[x]
      PROVE  GlobalAt(t2, table'[1].binds[x], x, types', table', unit')
  <2> DEFINE s == table[1].binds[x]
  <2>1. GlobalAt(tr, s, x, types, table, unit)
    BY DEF GlobalsBound
  <2> HIDE DEF s
  <2>2. ASSUME s # Absent, s.isDefinition
        PROVE  IsHead(s.type, x, types', table', unit')
    <3>1. IsHead(s.type, x, types, table, unit)
      BY <2>1, <2>2 DEF GlobalAt
    <3>. QED BY <3>1, HeadKept
  <2>3. ASSUME s # Absent, ~ s.isDefinition
        PROVE  \E j \in DOMAIN t2 : IsGlobal(t2[j]) /\ t2[j].site = <<0, x>>
    BY <2>1, <2>3 DEF GlobalAt
  <2>4. s # Absent => s.isGlobal
    BY <2>1 DEF GlobalAt
  <2>5. GlobalAt(t2, s, x, types', table', unit')
    BY <2>2, <2>3, <2>4 DEF GlobalAt
  <2>. QED BY <1>1, <2>5 DEF s
<1>. QED BY <1>1 DEF GlobalsBound

\* The symbols of the unit stay.
GlobalsStay(tb, tc) == \A x \in Ids : tb[1].binds[x] # Absent => tc[1].binds[x] = tb[1].binds[x]

\* Uses keep their bindings.
LEMMA UseKept ==
  ASSUME NEW tb, NEW tc, GlobalsStay(tb, tc),
         NEW tr, NEW p, NEW t2, NEW q, Prefix(tr, p, t2, q), tr \in Seq(Nodes),
         NEW m \in DOMAIN tr, tr[m].node = "use", UseBound(tr, p, tb, m)
  PROVE  UseBound(t2, q, tc, m)
<1>1. \A j \in DOMAIN tr : j \in DOMAIN t2 /\ t2[j] = tr[j] /\ Owner(q, j) = Owner(p, j)
  BY PrefixFacts
<1>2. q[m] = p[m] /\ t2[m] = tr[m]
  BY DEF Prefix
<1>3. tr[m] \in Nodes
  OBVIOUS
<1>4. tr[m].site \in Sites /\ tr[m].symbol \in Flags
  BY <1>3, NodeFacts
<1> DEFINE s == tr[m].symbol
           site == tr[m].site
<1>5. s # Absent /\ site[2] \in Ids
  BY <1>4, FlagsFacts DEF Sites, Ids
<1>6. \A j \in 1..(m - 1) : j \in DOMAIN tr
  <2>1. DOMAIN tr = 1..Len(tr) /\ Len(tr) \in Nat
    BY PrefixFacts
  <2>. QED BY <2>1
<1> HIDE DEF s, site
<1>7. /\ tr[m].way = "call" => s.type # 0
      /\ s.isGlobal <=> site[1] = 0
      /\ s.isGlobal => tb[1].binds[site[2]] = s
      /\ s.isGlobal /\ ~ s.isDefinition =>
           \E j \in 1..(m - 1) : IsGlobal(tr[j]) /\ tr[j].site = site
      /\ ~ s.isGlobal /\ s.isDefinition => \E j \in 1..(m - 1) : Makes(tr[j], s.type, site)
      /\ ~ s.isGlobal /\ ~ s.isDefinition =>
           /\ p[m] # <<>>
           /\ \E j \in 1..(m - 1) : Writes(tr[j], site) /\ Owner(p, j) = Inner(p[m])
  BY DEF UseBound, s, site
<1>8. s.isGlobal => tc[1].binds[site[2]] = s
  BY <1>5, <1>7 DEF GlobalsStay
<1>9. s.isGlobal /\ ~ s.isDefinition => \E j \in 1..(m - 1) : IsGlobal(t2[j]) /\ t2[j].site = site
  BY <1>1, <1>6, <1>7
<1>10. ~ s.isGlobal /\ s.isDefinition => \E j \in 1..(m - 1) : Makes(t2[j], s.type, site)
  BY <1>1, <1>6, <1>7
<1>11. ~ s.isGlobal /\ ~ s.isDefinition =>
           /\ q[m] # <<>>
           /\ \E j \in 1..(m - 1) : Writes(t2[j], site) /\ Owner(q, j) = Inner(q[m])
  BY <1>1, <1>2, <1>6, <1>7
<1>. QED BY <1>2, <1>7, <1>8, <1>9, <1>10, <1>11 DEF UseBound, s, site

LEMMA UsesNode ==
  ASSUME NEW tb, NEW tc, GlobalsStay(tb, tc), NEW tr, NEW p, Paths(p, tr), UsesBound(tr, p, tb),
         NEW n, NEW t2, NEW q, Adds(tr, p, n, t2, q),
         n.node = "use" => UseBound(t2, q, tc, Len(tr) + 1)
  PROVE  UsesBound(t2, q, tc)
<1>1. /\ \A j \in DOMAIN t2 : j \in DOMAIN tr \/ j = Len(tr) + 1
      /\ t2[Len(tr) + 1] = n
      /\ Prefix(tr, p, t2, q) /\ tr \in Seq(Nodes)
  BY AddsFacts DEF Paths
<1>2. ASSUME NEW m \in DOMAIN t2, t2[m].node = "use" PROVE UseBound(t2, q, tc, m)
  <2>1. CASE m \in DOMAIN tr
    <3>1. tr[m].node = "use" /\ UseBound(tr, p, tb, m)
      BY <1>1, <1>2, <2>1, PrefixFacts DEF UsesBound
    <3>. QED BY <1>1, <2>1, <3>1, UseKept
  <2>2. CASE m = Len(tr) + 1
    BY <1>1, <1>2, <2>2
  <2>. QED BY <1>1, <2>1, <2>2
<1>. QED BY <1>2 DEF UsesBound

LEMMA PrefixSame ==
  ASSUME NEW tr, NEW p, Paths(p, tr)
  PROVE  Prefix(tr, p, tr, p)
<1>1. tr \in Seq(Nodes)
  BY DEF Paths
<1>. QED BY <1>1 DEF Prefix

LEMMA UsesScope ==
  ASSUME NEW tb, NEW tc, GlobalsStay(tb, tc), NEW tr, NEW p, Paths(p, tr), UsesBound(tr, p, tb)
  PROVE  UsesBound(tr, p, tc)
<1>1. Prefix(tr, p, tr, p) /\ tr \in Seq(Nodes)
  BY PrefixSame DEF Paths
<1>. QED BY <1>1, UseKept DEF UsesBound

\* A node of a function, of a type that no other has.
FunctionAt(n, ty, tb, u) ==
  /\ n.type \in DOMAIN ty /\ ty[n.type].defined
  /\ n.type > Len(u.extens)
  /\ n.item = 0 => n.site[1] # 0
  /\ n.item # 0 => /\ n.item \in FunctionsOf(u)
                   /\ Made(ty, tb, u, n.item, n.type)
                   /\ n.site = <<0, u.stmts[n.item].heading.name>>

LEMMA FunctionKept ==
  ASSUME Structure, Grows, NEW n, FunctionAt(n, types, table, unit)
  PROVE  FunctionAt(n, types', table', unit')
<1>1. unit' = unit /\ types \in Seq(TypeInvokes) /\ types' \in Seq(TypeInvokes)
      /\ Len(types) <= Len(types')
      /\ \A t \in 1..Len(types) : types[t].defined => types'[t].defined
  BY DEF Grows
<1>2. n.type \in DOMAIN types /\ types[n.type].defined
  BY DEF FunctionAt
<1>3. n.type \in DOMAIN types' /\ types'[n.type].defined
  <2>1. n.type \in 1..Len(types) /\ Len(types) \in Nat /\ Len(types') \in Nat
    BY <1>1, <1>2
  <2>. QED BY <1>1, <1>2, <2>1
<1>4. ASSUME n.item # 0 PROVE Made(types', table', unit', n.item, n.type)
  <2>1. n.item \in Functions /\ OwnType(n.item, n.type)
    BY <1>4 DEF FunctionAt, Functions, FunctionsOf, OwnType
  <2>. QED BY <2>1, OwnTypeKept
<1>. QED BY <1>1, <1>3, <1>4 DEF FunctionAt

LEMMA FunctionsNode ==
  ASSUME Structure, Grows, NEW tr, NEW p, Paths(p, tr), FunctionsMade(tr, table, types, unit),
         NEW n, NEW t2, NEW q, Adds(tr, p, n, t2, q),
         n.node = "func" => /\ FunctionAt(n, types', table', unit')
                            /\ \A j \in DOMAIN tr : tr[j].node = "func" => tr[j].type # n.type
  PROVE  FunctionsMade(t2, table', types', unit')
<1>1. /\ \A j \in DOMAIN t2 : j \in DOMAIN tr \/ j = Len(tr) + 1
      /\ t2[Len(tr) + 1] = n
      /\ Prefix(tr, p, t2, q)
  BY AddsFacts
<1>2. \A j \in DOMAIN tr : t2[j] = tr[j]
  BY <1>1, PrefixFacts
<1>3. ASSUME NEW j \in DOMAIN t2, t2[j].node = "func"
      PROVE  FunctionAt(t2[j], types', table', unit')
  <2>1. CASE j \in DOMAIN tr
    <3>1. FunctionAt(t2[j], types, table, unit)
      BY <1>2, <1>3, <2>1 DEF FunctionsMade, FunctionAt
    <3>. QED BY <3>1, FunctionKept
  <2>2. CASE j = Len(tr) + 1
    BY <1>1, <1>3, <2>2
  <2>. QED BY <1>1, <2>1, <2>2
<1>4. \A j \in DOMAIN t2 : t2[j].node = "func" =>
        /\ t2[j].type \in DOMAIN types' /\ types'[t2[j].type].defined
        /\ t2[j].type > Len(unit'.extens)
        /\ t2[j].item = 0 => t2[j].site[1] # 0
        /\ t2[j].item # 0 => /\ t2[j].item \in FunctionsOf(unit')
                             /\ Made(types', table', unit', t2[j].item, t2[j].type)
                             /\ t2[j].site = <<0, unit'.stmts[t2[j].item].heading.name>>
  BY <1>3 DEF FunctionAt
<1>5. ASSUME NEW i \in DOMAIN t2, NEW j \in DOMAIN t2,
             t2[i].node = "func", t2[j].node = "func", t2[i].type = t2[j].type
      PROVE  i = j
  <2>1. CASE i \in DOMAIN tr /\ j \in DOMAIN tr
    BY <1>2, <1>5, <2>1 DEF FunctionsMade
  <2>2. CASE i \in DOMAIN tr /\ j = Len(tr) + 1
    BY <1>1, <1>2, <1>5, <2>2
  <2>3. CASE i = Len(tr) + 1 /\ j \in DOMAIN tr
    BY <1>1, <1>2, <1>5, <2>3
  <2>. QED BY <1>1, <2>1, <2>2, <2>3
<1>. QED BY <1>4, <1>5 DEF FunctionsMade

LEMMA FunctionsScope ==
  ASSUME Structure, Grows, NEW tr, FunctionsMade(tr, table, types, unit)
  PROVE  FunctionsMade(tr, table', types', unit')
<1>1. ASSUME NEW j \in DOMAIN tr, tr[j].node = "func"
      PROVE  FunctionAt(tr[j], types', table', unit')
  <2>1. FunctionAt(tr[j], types, table, unit)
    BY <1>1 DEF FunctionsMade, FunctionAt
  <2>. QED BY <2>1, FunctionKept
<1>2. \A j \in DOMAIN tr : tr[j].node = "func" =>
        /\ tr[j].type \in DOMAIN types' /\ types'[tr[j].type].defined
        /\ tr[j].type > Len(unit'.extens)
        /\ tr[j].item = 0 => tr[j].site[1] # 0
        /\ tr[j].item # 0 => /\ tr[j].item \in FunctionsOf(unit')
                             /\ Made(types', table', unit', tr[j].item, tr[j].type)
                             /\ tr[j].site = <<0, unit'.stmts[tr[j].item].heading.name>>
  BY <1>1 DEF FunctionAt
<1>. QED BY <1>2 DEF FunctionsMade

\* b is the number of a function of the unit that is visited now, or of another statement.
LEMMA CoversNode ==
  ASSUME NEW tr, NEW p, Paths(p, tr), NEW n, NEW t2, NEW q, Adds(tr, p, n, t2, q),
         NEW u, FunctionsOf(u) \subseteq Nat, NEW b \in Nat, NEW b2, Covers(tr, u, b),
         \/ b2 = b
         \/ b2 = b + 1 /\ (b \in FunctionsOf(u) => n.node = "func" /\ n.item = b)
  PROVE  Covers(t2, u, b2)
<1>1. t2[Len(tr) + 1] = n /\ Len(tr) + 1 \in DOMAIN t2 /\ Prefix(tr, p, t2, q)
  BY AddsFacts
<1>2. \A j \in DOMAIN tr : j \in DOMAIN t2 /\ t2[j] = tr[j]
  BY <1>1, PrefixFacts
<1>3. ASSUME NEW i \in FunctionsOf(u), i < b2
      PROVE  \E j \in DOMAIN t2 : t2[j].node = "func" /\ t2[j].item = i
  <2>1. CASE i < b
    BY <1>2, <2>1 DEF Covers
  <2>2. CASE ~ (i < b)
    <3>1. i = b /\ b2 = b + 1
      BY <1>3, <2>2
    <3>. QED BY <1>1, <3>1
  <2>. QED BY <2>1, <2>2
<1>. QED BY <1>3 DEF Covers

-----------------------------------------------------------------------------
(* Steps without a node.                                                      *)

\* The parts of the facts.
LEMMA FactsScope ==
  ASSUME Structure, Grows, NEW p, NEW b, Facts(tree, p, table, opened, types, unit, b),
         ScopesOwned(tree, p, table', opened'), LocalsBound(tree, table'),
         opened' \in Nat, opened <= opened',
         table'[1].binds = table[1].binds
  PROVE  Facts(tree, p, table', opened', types', unit', b)
<1>1. unit' = unit /\ opened \in Nat
  BY StructureFacts DEF Grows
<1>2. Paths(p, tree) /\ tree \in Seq(Nodes) /\ Covers(tree, unit', b)
  BY <1>1 DEF Facts, Paths
<1>3. Apart(tree, opened')
  BY <1>1, <1>2, ApartLater DEF Facts
<1>4. GlobalsBound(tree, table', types', unit')
  BY GlobalsKept DEF Facts
<1>5. UsesBound(tree, p, table')
  BY <1>2, UsesScope DEF Facts, Grows, GlobalsStay
<1>6. FunctionsMade(tree, table', types', unit')
  BY FunctionsScope DEF Facts
<1>. QED BY <1>2, <1>3, <1>4, <1>5, <1>6 DEF Facts

\* The scope that a handler entered is the innermost one, and there is one further out.
LEMMA LastScope ==
  ASSUME NEW o \in Nat, NEW n \in Nat, NEW tb, NEW st, Frames(tb, o, n, st), st # <<>>
  PROVE  /\ Len(tb) \in Nat /\ Len(tb) >= 2
         /\ st[Len(st)].kind \in Blocks => ScopeFits(tb[Len(tb)], st[Len(st)])
<1> DEFINE P == Positions(st)
           l == Len(st)
<1>1. /\ st \in Seq(Handlers) /\ l \in Nat \ {0} /\ 1 \in DOMAIN st /\ DOMAIN st = 1..l
      /\ st[1].kind = "fn"
      /\ Len(tb) = 1 + Count(P, l)
      /\ \A i \in P : ScopeFits(tb[1 + Count(P, i)], st[i])
  BY DEF Frames, Follows, Nests
<1>2. 1 \in P /\ P \subseteq 1..l
  BY <1>1 DEF Positions, Blocks
<1>3. st[l].kind \in Blocks => l \in P
  BY <1>1 DEF Positions
<1> HIDE DEF P, l
<1>4. Count(P, 0) = 0 /\ Count(P, 1) = 1
  <2>1. 0 \in Nat /\ 0 + 1 = 1 /\ 0 + 1 \in P
    BY <1>2
  <2>2. Count(P, 0) = 0 /\ Count(P, 0 + 1) = Count(P, 0) + 1
    BY <2>1, CountFacts
  <2>. QED BY <2>1, <2>2
<1>5. Count(P, l) \in Nat /\ Count(P, l) >= 1
  <2>1. CASE l = 1
    BY <1>4, <2>1
  <2>2. CASE l # 1
    <3>1. 1 < l /\ l \in Nat
      BY <1>1, <2>2
    <3>2. Count(P, 1) <= Count(P, l) /\ Count(P, l) \in Nat
      BY <3>1, CountGrows
    <3>. QED BY <1>4, <3>2
  <2>. QED BY <2>1, <2>2
<1>. QED BY <1>1, <1>3, <1>5 DEF l

LEMMA UptoAppend ==
  ASSUME NEW tb \in Seq(Scopes), NEW s \in Scopes
  PROVE  /\ Append(tb, s) \in Seq(Scopes) /\ Len(Append(tb, s)) = Len(tb) + 1
         /\ Upto(Append(tb, s), tb, Len(tb))
         /\ Append(tb, s)[Len(tb) + 1] = s
         /\ \A k \in 1..Len(tb) : Append(tb, s)[k] = tb[k]
<1>1. /\ Append(tb, s) \in Seq(Scopes) /\ Len(tb) \in Nat /\ Len(Append(tb, s)) = Len(tb) + 1
      /\ Append(tb, s)[Len(tb) + 1] = s
      /\ \A k \in 1..Len(tb) : Append(tb, s)[k] = tb[k]
  BY AppendFacts
<1>. QED BY <1>1 DEF Upto

LEMMA UptoExit ==
  ASSUME NEW tb \in Seq(Scopes), Len(tb) >= 2
  PROVE  /\ ExitScope(tb) \in Seq(Scopes) /\ Len(ExitScope(tb)) = Len(tb) - 1
         /\ ExitScope(tb) # <<>>
         /\ Upto(ExitScope(tb), tb, Len(tb) - 1)
         /\ \A k \in 1..(Len(tb) - 1) : ExitScope(tb)[k] = tb[k]
<1>1. tb # <<>> /\ Len(tb) \in Nat
  OBVIOUS
<1>2. /\ ExitScope(tb) \in Seq(Scopes) /\ Len(ExitScope(tb)) = Len(tb) - 1
      /\ \A k \in 1..(Len(tb) - 1) : ExitScope(tb)[k] = tb[k]
  BY <1>1, FrontFacts DEF ExitScope
<1>3. ExitScope(tb) # <<>>
  BY <1>1, <1>2
<1>. QED BY <1>1, <1>2, <1>3 DEF Upto

LEMMA NewScopeTyped ==
  ASSUME opened \in Nat, NEW isBody \in BOOLEAN, NEW tb
  PROVE  /\ NewScope(isBody, tb) \in Scopes /\ NewScope(isBody, tb).id = opened
         /\ NewScope(FALSE, tb).fenced = FALSE
         /\ \A x \in Ids : NewScope(isBody, tb).binds[x] = Absent
BY DEF NewScope, Scopes

\* A step of the walk: what is known before it, and what is to be shown after it.
Walking(p) == /\ Structure /\ Structure' /\ Definitions /\ ~ errors /\ ~ errors' /\ phase = "stmts"
              /\ Facts(tree, p, table, opened, types, unit, Begun)

LEMMA WalkingFacts ==
  ASSUME NEW p, Walking(p)
  PROVE  /\ opened \in Nat \ {0} /\ opened' \in Nat \ {0} /\ Len(types) \in Nat /\ Len(types') \in Nat
         /\ table \in Seq(Scopes) /\ table # <<>> /\ Len(table) \in Nat \ {0} /\ 1 \in 1..Len(table)
         /\ DOMAIN table = 1..Len(table)
         /\ table' \in Seq(Scopes) /\ table' # <<>>
         /\ Paths(p, tree) /\ tree \in Seq(Nodes) /\ Len(tree) \in Nat
         /\ ScopesOwned(tree, p, table, opened) /\ LocalsBound(tree, table) /\ Apart(tree, opened)
         /\ stack # <<>> => Len(table) >= 2
         /\ stack # <<>> /\ Top.kind \in Blocks => ScopeFits(table[Len(table)], Top)
<1>1. /\ opened \in Nat \ {0} /\ opened' \in Nat \ {0} /\ Len(types) \in Nat /\ Len(types') \in Nat
  BY BoundsAssumption DEF Walking, Structure, Scalars
<1>2. Frames(table, opened, Len(types), stack) /\ Frames(table', opened', Len(types'), stack')
  BY DEF Walking, Structure
<1>3. /\ table \in Seq(Scopes) /\ table # <<>> /\ table' \in Seq(Scopes) /\ table' # <<>>
  BY <1>1, <1>2, FramesTyped
<1>4. /\ Paths(p, tree) /\ tree \in Seq(Nodes) /\ Len(tree) \in Nat
      /\ ScopesOwned(tree, p, table, opened) /\ LocalsBound(tree, table) /\ Apart(tree, opened)
  BY DEF Walking, Facts, Paths
<1>5. stack # <<>> => /\ Len(table) >= 2
                      /\ Top.kind \in Blocks => ScopeFits(table[Len(table)], Top)
  BY <1>1, <1>2, LastScope DEF Top
<1>. QED BY <1>1, <1>3, <1>4, <1>5

LEMMA StatementNext ==
  ASSUME Structure, AtStatement
  PROVE  stack # <<>> /\ Top.kind \in Blocks /\ phase = "stmts"
BY DEF AtStatement, Blocks

LEMMA BlockWalks ==
  ASSUME NEW p, Walking(p), visitBlock(FALSE, TRUE)
  PROVE  Facts(tree, p, table', opened', types', unit', Begun')
<1> DEFINE s == NewScope(FALSE, table)
<1>1. /\ table' = Append(table, s) /\ opened' = opened + 1
      /\ next' = next /\ stack' # <<>>
  <2>1. stack' = Append(stack, [kind |-> "block", else |-> FALSE, last |-> "none"])
    BY DEF visitBlock, Visits
  <2>2. stack \in Seq(Handlers)
    BY StructureFacts DEF Walking
  <2>3. stack' # <<>>
    BY <2>1, <2>2
  <2>. QED BY <2>3 DEF visitBlock, Visits
<1>2. /\ opened \in Nat /\ table \in Seq(Scopes) /\ table # <<>> /\ Len(table) \in Nat
      /\ ScopesOwned(tree, p, table, opened) /\ LocalsBound(tree, table) /\ Apart(tree, opened)
      /\ Paths(p, tree)
      /\ stack # <<>> => Len(table) >= 2
      /\ 1 \in 1..Len(table) /\ opened' \in Nat
  BY WalkingFacts
<1>3. stack # <<>> /\ Len(table) >= 2
  BY <1>2, StatementNext DEF visitBlock, Walking
<1>4. /\ s \in Scopes /\ s.id = opened /\ ~ s.fenced /\ \A x \in Ids : s.binds[x] = Absent
  BY <1>2, NewScopeTyped
<1> HIDE DEF s
<1>5. /\ table' \in Seq(Scopes) /\ Len(table') = Len(table) + 1 /\ Upto(table', table, Len(table))
      /\ table'[Len(table) + 1] = s
      /\ \A k \in 1..Len(table) : table'[k] = table[k]
  BY <1>1, <1>2, <1>4, UptoAppend
<1>6. ScopesOwned(tree, p, table', opened + 1)
  <2>1. table'[Len(table) + 1].id = opened /\ ~ table'[Len(table) + 1].fenced
    BY <1>4, <1>5
  <2> DEFINE tc == table'
  <2>2. /\ tc \in Seq(Scopes) /\ Len(tc) = Len(table) + 1 /\ Upto(tc, table, Len(table))
        /\ tc[Len(table) + 1].id = opened /\ ~ tc[Len(table) + 1].fenced
    BY <1>5, <2>1
  <2> HIDE DEF tc
  <2>3. ScopesOwned(tree, p, tc, opened + 1)
    BY <1>2, <1>3, <2>2, OwnedPush
  <2>. QED BY <2>3 DEF tc
<1>7. LocalsBound(tree, table')
  <2>1. ASSUME NEW k \in 2..Len(table'), NEW x \in Names
        PROVE  \/ k \in 2..Len(table) /\ table'[k].id = table[k].id /\ table'[k].binds[x] = table[k].binds[x]
               \/ table'[k].id = opened /\ table'[k].binds[x] = Absent
    <3>1. x \in Ids
      BY DEF Ids
    <3>2. k \in 2..Len(table) \intersect 1..Len(table) \/ k = Len(table) + 1
      BY <1>2, <1>5
    <3>. QED BY <1>4, <1>5, <3>1, <3>2
  <2> DEFINE tc == table'
  <2>2. \A k \in 2..Len(tc), x \in Names :
            \/ k \in 2..Len(table) /\ tc[k].id = table[k].id /\ tc[k].binds[x] = table[k].binds[x]
            \/ tc[k].id = opened /\ tc[k].binds[x] = Absent
    BY <2>1
  <2> HIDE DEF tc
  <2>3. LocalsBound(tree, tc)
    BY <1>2, <2>2, LocalsScope
  <2>. QED BY <2>3 DEF tc
<1>8. Grows
  BY VisitBlockQuiet DEF Walking, Quiet
<1>9. Facts(tree, p, table', opened', types', unit', Begun)
  <2>1. opened <= opened' /\ table'[1].binds = table[1].binds
    BY <1>1, <1>2, <1>5
  <2>. QED BY <1>1, <1>2, <1>6, <1>7, <1>8, <2>1, FactsScope DEF Walking
<1>10. Begun' = Begun
  BY <1>1, <1>3 DEF Begun
<1>. QED BY <1>9, <1>10

LEMMA EndBlockWalks ==
  ASSUME NEW p, Walking(p), endBlock
  PROVE  Facts(tree, p, table', opened', types', unit', Begun')
<1> DEFINE tb == ExitScope(table)
           s == NewScope(FALSE, tb)
<1>1. /\ opened \in Nat /\ table \in Seq(Scopes) /\ table # <<>> /\ Len(table) \in Nat
      /\ ScopesOwned(tree, p, table, opened) /\ LocalsBound(tree, table) /\ Apart(tree, opened)
      /\ Paths(p, tree)
      /\ stack # <<>> => Len(table) >= 2
      /\ 1 \in 1..Len(table) /\ opened' \in Nat
      /\ stack # <<>> /\ Top.kind \in Blocks => ScopeFits(table[Len(table)], Top)
  BY WalkingFacts
<1>2. /\ stack # <<>> /\ Top.kind = "block" /\ Len(table) >= 2 /\ ~ table[Len(table)].fenced
      /\ Structure
  BY <1>1 DEF endBlock, In, Blocks, ScopeFits, Walking
<1>3. Below # <<>> /\ Len(tb) >= 2
  <2>1. Below # <<>>
    BY <1>2, BelowFacts
  <2>2. Len(types) \in Nat /\ Frames(table, opened, Len(types), stack)
    BY WalkingFacts DEF Walking, Structure
  <2>3. stack[Len(stack)].kind \in Blocks
    BY <1>2 DEF Top, Blocks
  <2>4. Frames(tb, opened, Len(types), Below)
    BY <1>1, <1>2, <2>2, <2>3, FramesExit DEF Below
  <2> HIDE DEF tb
  <2>. QED BY <1>1, <2>1, <2>2, <2>4, LastScope
<1>4. /\ tb \in Seq(Scopes) /\ Len(tb) = Len(table) - 1 /\ tb # <<>>
      /\ Upto(tb, table, Len(table) - 1)
      /\ \A k \in 1..(Len(table) - 1) : tb[k] = table[k]
  BY <1>1, <1>2, UptoExit
<1>5. /\ s \in Scopes /\ s.id = opened /\ ~ s.fenced /\ \A x \in Ids : s.binds[x] = Absent
  BY <1>1, NewScopeTyped
<1>6. /\ \/ table' = tb /\ opened' = opened
         \/ table' = Append(tb, s) /\ opened' = opened + 1
      /\ next' = next /\ stack' # <<>>
  <2>1. Below \in Seq(Handlers) /\ Below # <<>>
    BY <1>2, <1>3, BelowFacts
  <2>2. CASE Top.else
    <3>1. stack' = Append(Below, [kind |-> "block", else |-> FALSE, last |-> "none"])
      BY <2>2 DEF endBlock
    <3>2. stack' # <<>>
      BY <2>1, <3>1
    <3>. QED BY <2>2, <3>2 DEF endBlock
  <2>3. CASE ~ Top.else
    <3>1. Finishes("statement", Below, FALSE)
      BY <2>3 DEF endBlock
    <3>2. stack' # <<>> /\ next' = next
      <4>1. stack' = [Below EXCEPT ![Len(Below)].last = IF Below # <<>> /\ Below[Len(Below)].last = "return" THEN "dead" ELSE "statement"]
        BY <2>1, <3>1 DEF Finishes
      <4>2. DOMAIN stack' = DOMAIN Below
        BY <4>1
      <4>3. DOMAIN Below # {}
        <5>1. Len(Below) \in Nat \ {0} /\ DOMAIN Below = 1..Len(Below)
          BY <2>1
        <5>2. 1 \in 1..Len(Below)
          BY <5>1
        <5>. QED BY <5>1, <5>2
      <4>4. next' = next
        BY <2>1, <3>1 DEF Finishes
      <4>. QED BY <4>2, <4>3, <4>4
    <3>. QED BY <2>3, <3>2 DEF endBlock
  <2>. QED BY <2>2, <2>3
<1> HIDE DEF tb, s
<1>7. ScopesOwned(tree, p, tb, opened)
  BY <1>1, <1>2, <1>4, OwnedPop
<1>8. /\ Append(tb, s) \in Seq(Scopes) /\ Len(Append(tb, s)) = Len(tb) + 1
      /\ Upto(Append(tb, s), tb, Len(tb))
      /\ Append(tb, s)[Len(tb) + 1] = s
      /\ \A k \in 1..Len(tb) : Append(tb, s)[k] = tb[k]
  BY <1>4, <1>5, UptoAppend
<1> DEFINE tc == Append(tb, s)
<1> HIDE DEF tc
<1>9. /\ tc \in Seq(Scopes) /\ Len(tc) = Len(tb) + 1 /\ Upto(tc, tb, Len(tb)) /\ tc[Len(tb) + 1] = s
      /\ \A k \in 1..Len(tb) : tc[k] = tb[k]
  BY <1>8 DEF tc
<1>10. ScopesOwned(tree, p, tc, opened + 1)
  <2>1. tc[Len(tb) + 1].id = opened /\ ~ tc[Len(tb) + 1].fenced
    BY <1>5, <1>9
  <2>. QED BY <1>1, <1>3, <1>4, <1>7, <1>9, <2>1, OwnedPush
<1>11. ScopesOwned(tree, p, table', opened')
  BY <1>6, <1>7, <1>10 DEF tc
<1>12. LocalsBound(tree, table')
  <2>1. ASSUME NEW k \in 2..Len(tb), NEW x \in Names
        PROVE  k \in 2..Len(table) /\ k \in 1..Len(tb) /\ tb[k].id = table[k].id /\ tb[k].binds[x] = table[k].binds[x]
    <3>1. k \in 2..Len(table) /\ k \in 1..(Len(table) - 1) /\ k \in 1..Len(tb)
      BY <1>1, <1>4
    <3>. QED BY <1>4, <3>1
  <2>2. LocalsBound(tree, tb)
    BY <1>1, <2>1, LocalsScope
  <2>3. ASSUME NEW k \in 2..Len(tc), NEW x \in Names
        PROVE  \/ k \in 2..Len(table) /\ tc[k].id = table[k].id /\ tc[k].binds[x] = table[k].binds[x]
               \/ tc[k].id = opened /\ tc[k].binds[x] = Absent
    <3>1. x \in Ids
      BY DEF Ids
    <3>2. k \in 2..Len(tb) \/ k = Len(tb) + 1
      BY <1>1, <1>4, <1>9
    <3>. QED BY <1>5, <1>9, <2>1, <3>1, <3>2
  <2>4. LocalsBound(tree, tc)
    BY <1>1, <2>3, LocalsScope
  <2>. QED BY <1>6, <2>2, <2>4 DEF tc
<1>13. Grows
  BY EndBlockQuiet DEF Walking, Quiet
<1>14. Facts(tree, p, table', opened', types', unit', Begun)
  <2>1. opened <= opened'
    BY <1>1, <1>6
  <2>2. table'[1] = table[1]
    <3>1. 1 \in 1..Len(tb) /\ 1 \in 1..(Len(table) - 1)
      BY <1>1, <1>3, <1>4
    <3>2. tb[1] = table[1] /\ tc[1] = tb[1]
      BY <1>4, <1>9, <3>1
    <3>. QED BY <1>6, <3>2 DEF tc
  <2>. QED BY <1>1, <1>11, <1>12, <1>13, <2>1, <2>2, FactsScope DEF Walking
<1>15. Begun' = Begun
  BY <1>2, <1>6 DEF Begun
<1>. QED BY <1>14, <1>15

-----------------------------------------------------------------------------
(* Steps with a node.                                                         *)

LEMMA FactsNode ==
  ASSUME Structure, Grows, NEW p, NEW b \in Nat, NEW tr, Facts(tr, p, table, opened, types, unit, b),
         NEW n, NEW t2, NEW q, Adds(tr, p, n, t2, q),
         ScopesOwned(t2, q, table', opened'), LocalsBound(t2, table'), Apart(t2, opened'),
         \A x \in Ids \ {Return} :
            \/ table'[1].binds[x] = table[1].binds[x]
            \/ GlobalAt(t2, table'[1].binds[x], x, types', table', unit'),
         n.node = "use" => UseBound(t2, q, table', Len(tr) + 1),
         n.node = "func" => /\ FunctionAt(n, types', table', unit')
                            /\ \A j \in DOMAIN tr : tr[j].node = "func" => tr[j].type # n.type,
         NEW b2,
         \/ b2 = b
         \/ b2 = b + 1 /\ (b \in Functions => n.node = "func" /\ n.item = b)
  PROVE  Facts(t2, q, table', opened', types', unit', b2)
<1>1. unit' = unit /\ Paths(p, tr) /\ Paths(q, t2) /\ Prefix(tr, p, t2, q)
  BY DEF Grows, Facts, Adds
<1>2. GlobalsBound(t2, table', types', unit')
  BY <1>1, GlobalsKept, PrefixFacts DEF Facts
<1>3. UsesBound(t2, q, table')
  BY <1>1, UsesNode DEF Facts, Grows, GlobalsStay
<1>4. FunctionsMade(t2, table', types', unit')
  BY <1>1, FunctionsNode DEF Facts
<1>5. Covers(t2, unit', b2)
  <2>1. FunctionsOf(unit) \subseteq Nat /\ FunctionsOf(unit) = Functions
    BY FunctionFacts DEF FunctionsOf, Functions
  <2>2. Covers(tr, unit, b)
    BY DEF Facts
  <2>3. Covers(t2, unit, b2)
    BY <1>1, <2>1, <2>2, CoversNode
  <2>. QED BY <1>1, <2>3
<1>. QED BY <1>1, <1>2, <1>3, <1>4, <1>5 DEF Facts

LEMMA OneMore ==
  ASSUME NEW tr \in Seq(Nodes), NEW n \in Nodes
  PROVE  tr \o <<n>> = Append(tr, n) /\ tr \o <<>> = tr /\ Append(tr, n) \in Seq(Nodes)
<1>1. Append(tr, n) = tr \o <<n>>
  BY AppendIsConcat
<1>2. tr \o <<>> = tr
  BY ConcatEmptySeq
<1>. QED BY <1>1, <1>2

\* In a body the path is not empty.
LEMMA PathInBody ==
  ASSUME NEW p, Walking(p), stack # <<>>
  PROVE  /\ p[Len(tree)] # <<>> /\ Len(table) \in 2..Len(table)
         /\ Len(p[Len(tree)]) \in Nat \ {0} /\ Len(p[Len(tree)]) = BodyOf(table, Len(table))
         /\ Begun = next + 1 /\ next \in Nat
<1>1. Len(table) \in 2..Len(table) /\ ScopesOwned(tree, p, table, opened)
      /\ Paths(p, tree) /\ Len(tree) \in Nat
  BY WalkingFacts
<1>2. Len(tree) \in 0..Len(tree)
  BY <1>1
<1>3. p[Len(tree)] \in Seq(Nat) /\ Len(p[Len(tree)]) \in Nat
  BY <1>1, <1>2, PathTyped
<1>4. Len(p[Len(tree)]) # 0 /\ Len(p[Len(tree)]) = BodyOf(table, Len(table))
  BY <1>1 DEF ScopesOwned
<1>5. p[Len(tree)] # <<>>
  BY <1>3, <1>4
<1>6. Begun = next + 1 /\ next \in Nat
  BY DEF Begun, Walking, Structure, Scalars
<1>. QED BY <1>1, <1>3, <1>4, <1>5, <1>6

LEMMA EndBodyWalks ==
  ASSUME NEW p, Walking(p), endBody, tree' = tree \o <<[node |-> "end"]>>
  PROVE  \E q : Facts(tree', q, table', opened', types', unit', Begun')
<1> DEFINE n == [node |-> "end"]
           tb == ExitScope(table)
<1>1. /\ opened \in Nat /\ table \in Seq(Scopes) /\ table # <<>> /\ Len(table) \in Nat
      /\ ScopesOwned(tree, p, table, opened) /\ LocalsBound(tree, table) /\ Apart(tree, opened)
      /\ Paths(p, tree) /\ tree \in Seq(Nodes)
      /\ stack # <<>> => Len(table) >= 2
      /\ stack # <<>> /\ Top.kind \in Blocks => ScopeFits(table[Len(table)], Top)
  BY WalkingFacts
<1>2. /\ stack # <<>> /\ Top.kind = "fn" /\ Len(table) >= 2 /\ table[Len(table)].fenced
      /\ Structure /\ Definitions /\ ~ errors /\ phase = "stmts"
      /\ table' = tb /\ opened' = opened
  BY <1>1 DEF endBody, EndsBody, In, Blocks, ScopeFits, Walking
<1>3. n \in Nodes /\ n.node = "end" /\ ~ Begins(n) /\ \A site : ~ Touches(n, site)
  BY DEF Nodes, EndNodes, Begins, Touches, Writes, IsLocal
<1> HIDE DEF n, tb
<1>4. tree' = Append(tree, n)
  BY <1>1, <1>3, OneMore DEF n
<1>5. p[Len(tree)] # <<>> /\ Begun = next + 1 /\ next \in Nat
  BY <1>2, PathInBody
<1>6. PICK q : Adds(tree, p, n, Append(tree, n), q)
  BY <1>1, <1>3, <1>5, AddsNode
<1> DEFINE t2 == Append(tree, n)
<1> HIDE DEF t2
<1>7. Adds(tree, p, n, t2, q)
  BY <1>6 DEF t2
<1>8. /\ tb \in Seq(Scopes) /\ Len(tb) = Len(table) - 1
      /\ Upto(tb, table, Len(table) - 1)
      /\ \A k \in 1..(Len(table) - 1) : tb[k] = table[k]
  BY <1>1, <1>2, UptoExit DEF tb
<1>9. ScopesOwned(t2, q, tb, opened)
  BY <1>1, <1>2, <1>3, <1>7, <1>8, OwnedEnd
<1>10. LocalsBound(t2, tb)
  <2>1. ASSUME NEW k \in 2..Len(tb), NEW x \in Names
        PROVE  /\ k \in 2..Len(table) /\ tb[k].id = table[k].id
               /\ Kept(n, table[k].binds[x], tb[k].binds[x], <<table[k].id, x>>)
    <3>1. k \in 2..Len(table) /\ k \in 1..(Len(table) - 1)
      BY <1>1, <1>8
    <3>. QED BY <1>3, <1>8, <3>1 DEF Kept
  <2>. QED BY <1>1, <1>7, <2>1, LocalsNode
<1>11. Apart(t2, opened)
  <2>1. \A site : ~ Writes(n, site)
    BY <1>3 DEF Touches
  <2>2. opened <= opened /\ n.node # "func"
    BY <1>1, <1>3
  <2>. QED BY <1>1, <1>7, <2>1, <2>2, ApartNode
<1>12. Quiet
  BY <1>2, EndBodyQuiet DEF Definitions
<1>13. Begun' = Begun
  BY <1>5, <1>12 DEF Quiet, Begun
<1>14. table'[1].binds = table[1].binds
  <2>1. 1 \in 1..(Len(table) - 1)
    BY <1>1, <1>2
  <2>. QED BY <1>2, <1>8, <2>1
<1>15. Facts(t2, q, table', opened', types', unit', Begun')
  <2>1. Begun \in Nat
    BY <1>5
  <2>2. Facts(tree, p, table, opened, types, unit, Begun) /\ Grows
    BY <1>12 DEF Walking, Quiet
  <2>3. ScopesOwned(t2, q, table', opened') /\ LocalsBound(t2, table') /\ Apart(t2, opened')
    BY <1>2, <1>9, <1>10, <1>11
  <2>4. n.node # "use" /\ n.node # "func"
    BY <1>3
  <2>. QED BY <1>2, <1>7, <1>13, <1>14, <2>1, <2>2, <2>3, <2>4, FactsNode
<1>. QED BY <1>4, <1>15 DEF t2

-----------------------------------------------------------------------------
(* What a name is found to be.                                                *)

LEMMA FoundWhere ==
  ASSUME NEW tb \in Seq(Scopes), NEW x, Lookup(tb, x) # Absent
  PROVE  \E r \in 1..Len(tb) : /\ Lookup(tb, x) = tb[r].binds[x] /\ Site(tb, x) = <<tb[r].id, x>>
                               /\ Table(tb)!Usable(r, x)
<1> DEFINE Is(i) == Table(tb)!Resolves(i, x)
           r == CHOOSE i \in DOMAIN tb : Is(i)
<1>1. \E i \in DOMAIN tb : Is(i)
  BY DEF Lookup
<1>2. r \in DOMAIN tb /\ Is(r)
  BY <1>1
<1>3. Lookup(tb, x) = tb[r].binds[x] /\ Site(tb, x) = <<tb[r].id, x>>
  BY <1>1 DEF Lookup, Site
<1>4. Table(tb)!Usable(r, x) /\ r \in 1..Len(tb)
  BY <1>2 DEF Table!Resolves
<1> HIDE DEF r
<1>. QED BY <1>3, <1>4

\* Scopes that no fence is between are of one body.
LEMMA OneBody ==
  ASSUME NEW tb \in Seq(Scopes), NEW r \in 1..Len(tb), \A j \in (r + 1)..Len(tb) : ~ tb[j].fenced
  PROVE  BodyOf(tb, r) = BodyOf(tb, Len(tb))
<1> DEFINE n == Len(tb) - r
           S == {BodyOf(tb, r)}
           f == [i \in 0..n |-> BodyOf(tb, r + i)]
<1>1. n \in Nat /\ r \in Nat /\ Len(tb) \in Nat /\ Len(tb) = r + n /\ n \in 0..n /\ 0 \in 0..n
  OBVIOUS
<1>2. f[0] \in S
  <2>1. r + 0 = r
    BY <1>1
  <2>. QED BY <1>1, <2>1
<1>3. ASSUME NEW i \in 1..n, f[i - 1] \in S PROVE f[i] \in S
  <2>1. /\ i - 1 \in 0..n /\ i \in 0..n /\ r + (i - 1) \in Nat
        /\ r + (i - 1) + 1 = r + i /\ r + i \in (r + 1)..Len(tb) /\ r + i \in DOMAIN tb
    BY <1>1
  <2>2. BodyOf(tb, r + (i - 1) + 1) = BodyOf(tb, r + (i - 1))
    <3> DEFINE k == r + (i - 1)
    <3>1. k \in Nat /\ k + 1 \in DOMAIN tb /\ ~ tb[k + 1].fenced
      BY <2>1
    <3> HIDE DEF k
    <3>2. BodyOf(tb, k + 1) = BodyOf(tb, k)
      BY <3>1, LevelFacts
    <3>. QED BY <3>2 DEF k
  <2>3. f[i] = f[i - 1]
    BY <2>1, <2>2
  <2>. QED BY <1>3, <2>3
<1>4. f[n] = BodyOf(tb, Len(tb))
  BY <1>1
<1> HIDE DEF f, S
<1>5. \A i \in 0..n : f[i] \in S
  BY <1>1, <1>2, <1>3, Stays
<1>. QED BY <1>1, <1>4, <1>5 DEF S

\* The binding of a use is one that its nodes agree with.
LEMMA UseFinds ==
  ASSUME NEW tr, NEW p, NEW tb \in Seq(Scopes), tb # <<>>, NEW o \in Nat, NEW ty, NEW u, NEW b,
         Facts(tr, p, tb, o, ty, u, b),
         NEW x \in Names, NEW way, Lookup(tb, x) # Absent, way = "call" => Lookup(tb, x).type # 0,
         NEW t2, NEW q, Adds(tr, p, Use(tb, x, way), t2, q)
  PROVE  UseBound(t2, q, tb, Len(tr) + 1)
<1> DEFINE n == Use(tb, x, way)
           s == Lookup(tb, x)
           site == Site(tb, x)
           m == Len(tr) + 1
<1>1. n.site = site /\ n.symbol = s /\ n.way = way /\ ~ Begins(n) /\ n.node = "use"
  BY DEF Use, Begins
<1>2. Paths(p, tr) /\ ScopesOwned(tr, p, tb, o) /\ LocalsBound(tr, tb) /\ GlobalsBound(tr, tb, ty, u)
  BY DEF Facts
<1>3. /\ Prefix(tr, p, t2, q) /\ Len(tr) \in Nat /\ DOMAIN tr = 1..Len(tr)
      /\ t2[m] = n /\ q[m] = PathAfter(p[Len(tr)], n, m)
      /\ p[Len(tr)] \in Seq(Nat)
  BY <1>2, AddsFacts
<1>4. q[m] = p[Len(tr)]
  BY <1>1, <1>3 DEF PathAfter
<1>5. \A j \in 1..(m - 1) : j \in DOMAIN tr /\ t2[j] = tr[j] /\ Owner(q, j) = Owner(p, j)
  <2>1. \A j \in 1..(m - 1) : j \in DOMAIN tr
    BY <1>3
  <2>. QED BY <1>3, <2>1, PrefixFacts
<1>6. \A j \in DOMAIN tr : j \in 1..(m - 1)
  BY <1>3
<1>7. PICK r \in 1..Len(tb) : s = tb[r].binds[x] /\ site = <<tb[r].id, x>> /\ Table(tb)!Usable(r, x)
  BY FoundWhere
<1>8. x \in Ids \ {Return}
  BY ReturnIsNoName
<1>9. Len(tb) \in Nat /\ (r = 1 \/ r \in 2..Len(tb))
  OBVIOUS
<1> HIDE DEF n, s, site, m
<1>10. CASE r = 1
  <2>1. s # Absent /\ site[1] = 0 /\ site = <<0, x>> /\ tb[1].binds[site[2]] = s
    BY <1>7, <1>10 DEF s, ScopesOwned, Facts
  <2>2. GlobalAt(tr, s, x, ty, tb, u)
    BY <1>2, <1>7, <1>8, <1>10 DEF GlobalsBound
  <2>3. s.isGlobal
    BY <2>1, <2>2 DEF GlobalAt
  <2>4. ~ s.isDefinition => \E j \in 1..(m - 1) : IsGlobal(t2[j]) /\ t2[j].site = site
    BY <1>5, <1>6, <2>1, <2>2 DEF GlobalAt
  <2>5. way = "call" => s.type # 0
    BY DEF s
  <2>. QED BY <1>1, <1>3, <2>1, <2>3, <2>4, <2>5 DEF UseBound, m
<1>11. CASE r \in 2..Len(tb)
  <2>1. s # Absent /\ LocalAt(tr, s, site)
    BY <1>2, <1>7, <1>11 DEF s, LocalsBound
  <2>2. site[1] # 0 /\ tb[r].id \in 1..(o - 1) /\ BodyOf(tb, r) # 0 /\ site[1] = tb[r].id
    <3>1. tb[r].id \in 1..(o - 1) /\ BodyOf(tb, r) # 0
      BY <1>2, <1>11 DEF ScopesOwned
    <3>2. site[1] = tb[r].id
      BY <1>7
    <3>. QED BY <3>1, <3>2
  <2>3. ~ s.isGlobal
    BY <2>1 DEF LocalAt
  <2>4. s.isDefinition => \E j \in 1..(m - 1) : Makes(t2[j], s.type, site)
    BY <1>5, <1>6, <2>1 DEF LocalAt
  <2>5. ASSUME ~ s.isDefinition
        PROVE  /\ q[m] # <<>>
               /\ \E j \in 1..(m - 1) : Writes(t2[j], site) /\ Owner(q, j) = Inner(q[m])
    <3>1. \A j \in (r + 1)..Len(tb) : ~ tb[j].fenced
      BY <1>7, <2>3, <2>5 DEF Table!Usable, Table!SameBody
    <3>2. BodyOf(tb, r) = BodyOf(tb, Len(tb))
      BY <3>1, OneBody
    <3>3. Len(p[Len(tr)]) = BodyOf(tb, r)
      BY <1>2, <3>2 DEF ScopesOwned
    <3>4. q[m] # <<>>
      BY <1>3, <1>4, <2>2, <3>3
    <3>5. PICK j \in DOMAIN tr : Writes(tr[j], site)
      BY <2>1, <2>5 DEF LocalAt
    <3>6. InScope(tr[j], tb[r].id)
      BY <2>2, <3>5, WritesInScope
    <3>7. Owner(p, j) = p[Len(tr)][BodyOf(tb, r)]
      BY <1>2, <1>11, <3>6 DEF ScopesOwned
    <3>8. Owner(q, j) = Inner(q[m])
      BY <1>4, <1>5, <1>6, <3>3, <3>7 DEF Inner
    <3>. QED BY <1>5, <1>6, <3>4, <3>5, <3>8
  <2>6. way = "call" => s.type # 0
    BY DEF s
  <2>. QED BY <1>1, <1>3, <2>2, <2>3, <2>4, <2>5, <2>6 DEF UseBound, m
<1>. QED BY <1>9, <1>10, <1>11

LEMMA UseTyped ==
  ASSUME Structure, NEW x \in Names, Lookup(table, x) # Absent, NEW way \in {"call", "assign", "read"}
  PROVE  Use(table, x, way) \in Nodes
<1>1. /\ table \in Seq(Scopes) /\ table \in Seq(ScopesOf(opened, Len(types)))
      /\ opened \in Nat /\ Len(types) \in Nat /\ x \in Ids
  BY StructureFacts, ReturnIsNoName
<1>2. Lookup(table, x) \in SymbolsOf(Len(types)) \union {Absent}
  BY <1>1, LookupTyped
<1>3. Lookup(table, x) \in Flags
  BY <1>1, <1>2, ScopesGrow
<1>4. PICK r \in 1..Len(table) : Site(table, x) = <<table[r].id, x>>
  BY <1>1, FoundWhere
<1>5. table[r] \in Scopes
  BY <1>1
<1>6. Site(table, x) \in Sites
  BY <1>4, <1>5 DEF Scopes, Sites
<1>. QED BY <1>3, <1>6 DEF Use, Nodes, UseNodes

\* A use is added to the tree; the state of the analysis stays.
LEMMA FactsUse ==
  ASSUME Structure, NEW p, Facts(tree, p, table, opened, types, unit, Begun), Begun \in Nat,
         NEW x \in Names, NEW way \in {"call", "assign", "read"},
         Lookup(table, x) # Absent, way = "call" => Lookup(table, x).type # 0
  PROVE  \E q : Facts(Append(tree, Use(table, x, way)), q, table, opened, types, unit, Begun)
<1> DEFINE n == Use(table, x, way)
           t2 == Append(tree, n)
<1>1. n \in Nodes
  BY UseTyped
<1>2. /\ n.node = "use" /\ ~ Begins(n) /\ ~ IsLocal(n) /\ ~ IsGlobal(n)
      /\ \A site : ~ Touches(n, site) /\ ~ Writes(n, site)
  BY DEF Use, Begins, IsLocal, IsGlobal, Touches, Writes
<1>3. /\ opened \in Nat /\ table \in Seq(Scopes) /\ table # <<>>
      /\ Paths(p, tree) /\ tree \in Seq(Nodes) /\ Len(tree) \in Nat
      /\ ScopesOwned(tree, p, table, opened) /\ LocalsBound(tree, table) /\ Apart(tree, opened)
      /\ GlobalsBound(tree, table, types, unit) /\ UsesBound(tree, p, table)
      /\ FunctionsMade(tree, table, types, unit) /\ Covers(tree, unit, Begun)
  BY StructureFacts DEF Facts, Paths
<1>4. \E q : Adds(tree, p, n, t2, q)
  <2> HIDE DEF n
  <2>. QED BY <1>1, <1>2, <1>3, AddsNode
<1>5. PICK q : Adds(tree, p, n, t2, q)
  BY <1>4
<1>6. UseBound(t2, q, table, Len(tree) + 1)
  <2> HIDE DEF t2
  <2>. QED BY <1>3, <1>5, UseFinds
<1> HIDE DEF n, t2
<1>7. ScopesOwned(t2, q, table, opened)
  BY <1>1, <1>2, <1>3, <1>5, OwnedNode
<1>8. LocalsBound(t2, table)
  <2>1. \A k \in 2..Len(table), y \in Names :
           k \in 2..Len(table) /\ table[k].id = table[k].id
           /\ Kept(n, table[k].binds[y], table[k].binds[y], <<table[k].id, y>>)
    BY <1>2 DEF Kept
  <2>. QED BY <1>3, <1>5, <2>1, LocalsNode
<1>9. Apart(t2, opened)
  <2>1. opened <= opened /\ n.node # "func"
    BY <1>2, <1>3
  <2>. QED BY <1>2, <1>3, <1>5, <2>1, ApartNode
<1>10. \A j \in DOMAIN tree : j \in DOMAIN t2 /\ t2[j] = tree[j]
  BY <1>5, PrefixFacts DEF Adds
<1>11. GlobalsBound(t2, table, types, unit)
  BY <1>3, <1>10 DEF GlobalsBound, GlobalAt
<1>12. UsesBound(t2, q, table)
  BY <1>3, <1>5, <1>6, UsesNode DEF GlobalsStay
<1>13. /\ \A j \in DOMAIN t2 : t2[j].node = "func" => j \in DOMAIN tree /\ t2[j] = tree[j]
  BY <1>2, <1>3, <1>5, <1>10, AddsFacts
<1>14. FunctionsMade(t2, table, types, unit)
  <2>1. \A j \in DOMAIN t2 : t2[j].node = "func" =>
        /\ t2[j].type \in DOMAIN types /\ types[t2[j].type].defined
        /\ t2[j].type > Len(unit.extens)
        /\ t2[j].item = 0 => t2[j].site[1] # 0
        /\ t2[j].item # 0 => /\ t2[j].item \in FunctionsOf(unit)
                             /\ Made(types, table, unit, t2[j].item, t2[j].type)
                             /\ t2[j].site = <<0, unit.stmts[t2[j].item].heading.name>>
    BY <1>3, <1>13 DEF FunctionsMade
  <2>2. \A i, j \in DOMAIN t2 :
          t2[i].node = "func" /\ t2[j].node = "func" /\ t2[i].type = t2[j].type => i = j
    BY <1>3, <1>13 DEF FunctionsMade
  <2>. QED BY <2>1, <2>2 DEF FunctionsMade
<1>15. Covers(t2, unit, Begun)
  BY <1>3, <1>10 DEF Covers
<1>16. Paths(q, t2)
  BY <1>5 DEF Adds
<1>17. Facts(t2, q, table, opened, types, unit, Begun)
  BY <1>7, <1>8, <1>9, <1>11, <1>12, <1>14, <1>15, <1>16 DEF Facts
<1>. QED BY <1>17 DEF t2, n

LEMMA BegunTyped ==
  ASSUME Structure
  PROVE  Begun \in Nat
BY DEF Begun, Structure, Scalars

\* A statement of a body that makes neither scopes nor nodes with bodies.
LEMMA SameScopesWalk ==
  ASSUME NEW p, Facts(tree, p, table, opened, types, unit, Begun),
         UNCHANGED <<table, opened, types, unit>>, Begun' = Begun
  PROVE  Facts(tree, p, table', opened', types', unit', Begun')
OBVIOUS

\* The statement that ends stays in its body.
LEMMA StatementBegun ==
  ASSUME Structure, Quiet, stack # <<>>
  PROVE  Begun' = Begun
<1>1. next \in Nat
  BY DEF Structure, Scalars
<1>. QED BY <1>1 DEF Quiet, Begun

LEMMA ReturnWalks ==
  ASSUME NEW p, Walking(p), returnStatement(stack[Innermost].returns)
  PROVE  Facts(tree, p, table', opened', types', unit', Begun')
<1>1. Structure /\ ~ errors' /\ Facts(tree, p, table, opened, types, unit, Begun)
  BY DEF Walking
<1>2. stack # <<>>
  BY <1>1, StatementNext DEF returnStatement
<1>3. stack[Innermost].returns \in BOOLEAN
  <2>1. Innermost \in DOMAIN stack /\ stack[Innermost].kind = "fn" /\ stack \in Seq(Handlers)
    BY <1>1, <1>2, LookupReturn, StructureFacts
  <2>2. stack[Innermost] \in Handlers
    BY <2>1
  <2>. QED BY <2>1, <2>2, HandlerFacts
<1>4. Quiet
  BY <1>1, <1>3, ReturnQuiet
<1>5. Begun' = Begun
  BY <1>1, <1>2, <1>4, StatementBegun
<1>. QED BY <1>1, <1>5, SameScopesWalk DEF returnStatement

LEMMA EndUnitWalks ==
  ASSUME NEW p, Walking(p), endUnit
  PROVE  Facts(tree, p, table', opened', types', unit', Begun')
<1>1. Begun' = Begun
  BY DEF endUnit, Begun
<1>. QED BY <1>1, SameScopesWalk DEF endUnit, Walking

LEMMA NameWalks ==
  ASSUME NEW p, Walking(p), NEW x \in Names, NEW call \in BOOLEAN,
         IF call THEN invocation(x, TRUE) ELSE assignStatement(x, TRUE),
         tree' = tree \o <<Use(table, x, IF call THEN "call" ELSE "assign")>>
  PROVE  \E q : Facts(tree', q, table', opened', types', unit', Begun')
<1> DEFINE way == IF call THEN "call" ELSE "assign"
<1>1. Structure /\ ~ errors' /\ Facts(tree, p, table, opened, types, unit, Begun)
  BY DEF Walking
<1>2. stack # <<>>
  BY <1>1, StatementNext DEF invocation, assignStatement
<1>3. Lookup(table, x) # Absent /\ (call => Lookup(table, x).type # 0)
  <2>1. CASE call
    <3>1. Finishes("statement", stack, Lookup(table, x) = Absent \/ Lookup(table, x).type = 0 \/ ~ TRUE)
      BY <2>1 DEF invocation
    <3>. QED BY <1>1, <3>1 DEF Finishes
  <2>2. CASE ~ call
    <3>1. Finishes("statement", stack, ~ TRUE \/ Lookup(table, x) = Absent)
      BY <2>2 DEF assignStatement
    <3>. QED BY <1>1, <2>2, <3>1 DEF Finishes
  <2>. QED BY <2>1, <2>2
<1>4. assignStatement(x, TRUE) \/ invocation(x, TRUE)
  OBVIOUS
<1>5. Quiet
  <2>1. TRUE \in BOOLEAN
    OBVIOUS
  <2>. QED BY <1>1, <1>4, <2>1, AssignQuiet
<1>6. Begun' = Begun /\ Begun \in Nat
  BY <1>1, <1>2, <1>5, StatementBegun, BegunTyped
<1>7. UNCHANGED <<table, opened, types, unit>>
  BY <1>4 DEF assignStatement, invocation
<1>8. way \in {"call", "assign", "read"} /\ (way = "call" => call)
  OBVIOUS
<1>9. tree' = Append(tree, Use(table, x, way))
  <2>1. Use(table, x, way) \in Nodes /\ tree \in Seq(Nodes)
    BY <1>1, <1>3, <1>8, UseTyped, WalkingFacts
  <2>. QED BY <2>1, OneMore
<1> HIDE DEF way
<1>10. PICK q : Facts(Append(tree, Use(table, x, way)), q, table, opened, types, unit, Begun)
  BY <1>1, <1>3, <1>6, <1>8, FactsUse
<1>11. Facts(tree', q, table', opened', types', unit', Begun')
  BY <1>6, <1>7, <1>9, <1>10
<1>. QED BY <1>11

-----------------------------------------------------------------------------
(* Declarations.                                                              *)

\* A declaration of one name.
LEMMA DeclareOne ==
  ASSUME NEW x, NEW d
  PROVE  DeclareEach(<<x>>, d) =
           IF LookupInCurrentScope(table, x) # Absent THEN [table |-> table, bad |-> TRUE]
           ELSE [table |-> AddSymbol(table, x, Variable(TypeOf(table, d).type, isGlobalScope)),
                 bad   |-> TypeOf(table, d).bad \/ TypeOf(table, d).bad]
<1> DEFINE
      names == <<x>>
      Step(i, r) ==
        LET tb == r.table
            s  == Variable(TypeOf(tb, d).type, isGlobalScope)
        IN  IF LookupInCurrentScope(tb, names[i]) # Absent
              THEN [table |-> tb, bad |-> TRUE]
              ELSE [table |-> AddSymbol(tb, names[i], s),
                    bad   |-> r.bad \/ TypeOf(tb, d).bad]
      first == [table |-> table, bad |-> TypeOf(table, d).bad]
      each == CHOOSE f : f = [i \in 0..Len(names) |-> IF i = 0 THEN first ELSE Step(i, f[i - 1])]
<1>1. Len(names) = 1 /\ names[1] = x
  OBVIOUS
<1>2. DeclareEach(names, d) = each[Len(names)]
  BY DEF DeclareEach
<1>3. Step(1, first) = IF LookupInCurrentScope(table, x) # Absent THEN [table |-> table, bad |-> TRUE]
                       ELSE [table |-> AddSymbol(table, x, Variable(TypeOf(table, d).type, isGlobalScope)),
                             bad   |-> TypeOf(table, d).bad \/ TypeOf(table, d).bad]
  BY <1>1
<1> HIDE DEF Step, first, names
<1>4. \E f : f = [i \in 0..Len(names) |-> IF i = 0 THEN first ELSE Step(i, f[i - 1])]
  <2> DEFINE f == [i \in 0..1 |-> IF i = 0 THEN first ELSE Step(1, first)]
  <2>1. \A i \in 0..1 : f[i] = IF i = 0 THEN first ELSE Step(i, f[i - 1])
    <3>1. f[0] = first /\ f[1] = Step(1, first)
      OBVIOUS
    <3>2. \A i \in 0..1 : i = 0 \/ i = 1
      OBVIOUS
    <3> HIDE DEF f
    <3>3. f[1 - 1] = first
      BY <3>1
    <3>. QED BY <3>1, <3>2, <3>3
  <2>2. f = [i \in 0..1 |-> IF i = 0 THEN first ELSE Step(i, f[i - 1])]
    BY <2>1
  <2>. QED BY <1>1, <2>2
<1>5. each = [i \in 0..Len(names) |-> IF i = 0 THEN first ELSE Step(i, each[i - 1])]
  BY <1>4
<1> HIDE DEF each
<1>6. each[0] = first /\ each[1] = Step(1, each[0])
  <2>1. 0 \in 0..1 /\ 1 \in 0..1 /\ 1 - 1 = 0
    OBVIOUS
  <2>2. \A i \in 0..1 : each[i] = IF i = 0 THEN first ELSE Step(i, each[i - 1])
    BY <1>1, <1>5
  <2>. QED BY <2>1, <2>2
<1>. QED BY <1>1, <1>2, <1>3, <1>6 DEF names

LEMMA AddSymbolScopes ==
  ASSUME NEW tb \in Seq(Scopes), tb # <<>>, NEW x \in Ids, NEW s \in Flags,
         LookupInCurrentScope(tb, x) = Absent
  PROVE  /\ AddSymbol(tb, x, s) \in Seq(Scopes) /\ AddSymbol(tb, x, s) # <<>>
         /\ Len(AddSymbol(tb, x, s)) = Len(tb) /\ Upto(AddSymbol(tb, x, s), tb, Len(tb))
         /\ \A k \in 1..Len(tb), y \in Ids :
              AddSymbol(tb, x, s)[k].binds[y] = IF k = Len(tb) /\ y = x THEN s ELSE tb[k].binds[y]
<1> DEFINE l == Len(tb)
           e == [tb[l] EXCEPT !.binds[x] = s]
           tc == AddSymbol(tb, x, s)
<1>1. l \in Nat \ {0} /\ tb[l] \in Scopes
  OBVIOUS
<1>2. tc = [tb EXCEPT ![l] = e]
  BY DEF AddSymbol
<1>3. /\ e \in Scopes /\ e.fenced = tb[l].fenced /\ e.id = tb[l].id
      /\ \A y \in Ids : e.binds[y] = IF y = x THEN s ELSE tb[l].binds[y]
  BY <1>1 DEF Scopes
<1> HIDE DEF e, tc
<1>4. /\ tc \in Seq(Scopes) /\ Len(tc) = l /\ tc[l] = e
      /\ \A i \in 1..(l - 1) : tc[i] = tb[i]
  BY <1>2, <1>3, LastFacts
<1>5. \A k \in 1..l : k = l \/ k \in 1..(l - 1)
  BY <1>1
<1>6. \A k \in 1..l : tc[k].id = tb[k].id /\ tc[k].fenced = tb[k].fenced
  BY <1>3, <1>4, <1>5
<1>7. \A k \in 1..l, y \in Ids : tc[k].binds[y] = IF k = l /\ y = x THEN s ELSE tb[k].binds[y]
  <2>1. ASSUME NEW k \in 1..l, NEW y \in Ids
        PROVE  tc[k].binds[y] = IF k = l /\ y = x THEN s ELSE tb[k].binds[y]
    <3>1. CASE k = l
      BY <1>3, <1>4, <3>1
    <3>2. CASE k # l
      BY <1>4, <1>5, <3>2
    <3>. QED BY <3>1, <3>2
  <2>. QED BY <2>1
<1>8. Upto(tc, tb, l) /\ tc # <<>>
  BY <1>1, <1>4, <1>6 DEF Upto
<1>. QED BY <1>4, <1>7, <1>8 DEF tc

LEMMA GlobalScope ==
  ASSUME NEW tr, NEW p, ScopesOwned(tr, p, table, opened), Len(table) \in Nat \ {0}
  PROVE  isGlobalScope <=> Len(table) = 1
<1>1. 1 \in 1..Len(table) /\ Len(table) \in 1..Len(table)
  OBVIOUS
<1>. QED BY <1>1 DEF ScopesOwned, isGlobalScope

\* What was found to be declared, without an error.
LEMMA Declared ==
  ASSUME Structure, ~ errors', NEW x \in Names, NEW d \in Declarations, varDecl(<<x>>, d, TRUE)
  PROVE  /\ LookupInCurrentScope(table, x) = Absent
         /\ table' = AddSymbol(table, x, Variable(TypeOf(table, d).type, isGlobalScope))
         /\ Variable(TypeOf(table, d).type, isGlobalScope) \in Flags
         /\ d.how = "var" => d.from \in Names /\ Lookup(table, d.from) # Absent
         /\ d.how = "var" => ~ isGlobalScope
         /\ UNCHANGED <<unit, phase, opened, types>>
         /\ stack = <<>> => next' = next + 1 /\ stack' = <<>> /\ unit.stmts[next].kind = "var"
<1> DEFINE e == DeclareEach(<<x>>, d)
           bad == TypeOf(table, d).bad
<1>1. /\ table' = e.table
      /\ Finishes("definition", stack, e.bad \/ ~ TRUE \/ (isGlobalScope /\ d.how = "var"))
      /\ UNCHANGED <<unit, phase, opened, types>>
      /\ AtStatement \/ (At("stmts") /\ unit.stmts[next].kind = "var")
  BY DEF varDecl
<1>2. ~ e.bad /\ ~ (isGlobalScope /\ d.how = "var")
  BY <1>1 DEF Finishes
<1>3. e = IF LookupInCurrentScope(table, x) # Absent THEN [table |-> table, bad |-> TRUE]
           ELSE [table |-> AddSymbol(table, x, Variable(TypeOf(table, d).type, isGlobalScope)),
                 bad   |-> bad \/ bad]
  BY DeclareOne
<1> HIDE DEF e
<1>4. LookupInCurrentScope(table, x) = Absent
  BY <1>2, <1>3
<1>5. e.table = AddSymbol(table, x, Variable(TypeOf(table, d).type, isGlobalScope)) /\ ~ bad
  BY <1>2, <1>3, <1>4
<1>6. Variable(TypeOf(table, d).type, isGlobalScope) \in Flags
  <2>1. table \in Seq(ScopesOf(opened, Len(types))) /\ opened \in Nat /\ Len(types) \in Nat
    BY StructureFacts
  <2>2. TypeOf(table, d).type \in 0..Len(types)
    BY <2>1, TypeOfTyped
  <2>. QED BY <2>1, <2>2 DEF Variable, Flags, isGlobalScope
<1>7. d.how = "var" => d.from \in Names /\ Lookup(table, d.from) # Absent
  BY <1>5 DEF TypeOf, Declarations
<1>8. stack = <<>> => next' = next + 1 /\ stack' = <<>> /\ unit.stmts[next].kind = "var"
  BY <1>1 DEF Finishes, AtStatement
<1>. QED BY <1>1, <1>2, <1>4, <1>5, <1>6, <1>7, <1>8

DeclNode(x) == [node |-> "decl", site |-> <<ScopeId(table), x>>, isGlobal |-> isGlobalScope]

LEMMA DeclFacts ==
  ASSUME table \in Seq(Scopes), table # <<>>, NEW x \in Names
  PROVE  /\ DeclNode(x) \in Nodes /\ ~ Begins(DeclNode(x)) /\ DeclNode(x).node = "decl"
         /\ DeclNode(x).site = <<ScopeId(table), x>> /\ ScopeId(table) = table[Len(table)].id
         /\ IsLocal(DeclNode(x)) <=> ~ isGlobalScope
         /\ IsGlobal(DeclNode(x)) <=> isGlobalScope
         /\ \A site : Writes(DeclNode(x), site) => ~ isGlobalScope /\ site = <<ScopeId(table), x>>
         /\ ~ isGlobalScope => Writes(DeclNode(x), <<ScopeId(table), x>>)
<1>1. ScopeId(table) \in Nat /\ isGlobalScope \in BOOLEAN
  <2>1. table[Len(table)] \in Scopes
    OBVIOUS
  <2>. QED BY <2>1 DEF ScopeId, isGlobalScope, Scopes
<1>. QED BY <1>1 DEF DeclNode, Nodes, DeclNodes, Sites, Begins, IsLocal, IsGlobal, Writes, ScopeId

\* The node of a declaration comes after that of its initializer, tr with the paths p.
LEMMA DeclarationNode ==
  ASSUME Structure, Structure', ~ errors', phase = "stmts", NEW x \in Names, <<x>> \in Declarators,
         NEW d \in Declarations, varDecl(<<x>>, d, TRUE),
         NEW tr, NEW p, Facts(tr, p, table, opened, types, unit, Begun)
  PROVE  \E q : Facts(Append(tr, DeclNode(x)), q, table', opened', types', unit', Begun')
<1> DEFINE n == DeclNode(x)
           s == Variable(TypeOf(table, d).type, isGlobalScope)
           site == <<ScopeId(table), x>>
           m == Len(table)
           tc == AddSymbol(table, x, s)
           t2 == Append(tr, n)
<1>1. /\ opened \in Nat /\ table \in Seq(Scopes) /\ table # <<>> /\ m \in Nat \ {0}
      /\ Paths(p, tr) /\ tr \in Seq(Nodes) /\ Len(tr) \in Nat /\ x \in Ids /\ x \in Ids \ {Return}
      /\ ScopesOwned(tr, p, table, opened) /\ LocalsBound(tr, table) /\ Apart(tr, opened)
      /\ 1 \in 1..m /\ m \in 1..m /\ (m # 1 => m \in 2..m)
  <2>1. opened \in Nat /\ table \in Seq(Scopes) /\ table # <<>>
    BY StructureFacts
  <2>2. m \in Nat \ {0} /\ 1 \in 1..m /\ m \in 1..m /\ (m # 1 => m \in 2..m)
    BY <2>1
  <2>3. /\ Paths(p, tr) /\ ScopesOwned(tr, p, table, opened) /\ LocalsBound(tr, table)
        /\ Apart(tr, opened)
    BY DEF Facts
  <2>4. tr \in Seq(Nodes) /\ Len(tr) \in Nat
    BY <2>3 DEF Paths
  <2>5. x \in Ids /\ x \in Ids \ {Return}
    BY ReturnIsNoName
  <2>. QED BY <2>1, <2>2, <2>3, <2>4, <2>5
<1>2. /\ LookupInCurrentScope(table, x) = Absent
      /\ table' = tc /\ s \in Flags
      /\ UNCHANGED <<unit, phase, opened, types>>
      /\ stack = <<>> => next' = next + 1 /\ stack' = <<>> /\ unit.stmts[next].kind = "var"
  BY Declared
<1>3. /\ n \in Nodes /\ ~ Begins(n) /\ n.node = "decl"
      /\ n.site = site /\ ScopeId(table) = table[m].id
      /\ IsLocal(n) <=> ~ isGlobalScope
      /\ IsGlobal(n) <=> isGlobalScope
      /\ \A z : Writes(n, z) => ~ isGlobalScope /\ z = site
      /\ ~ isGlobalScope => Writes(n, site)
  BY <1>1, DeclFacts
<1>4. isGlobalScope <=> m = 1
  BY <1>1, GlobalScope
<1>5. s # Absent /\ ~ s.isDefinition /\ s.isGlobal = isGlobalScope
  BY <1>2, FlagsFacts DEF Variable
<1>6. /\ tc \in Seq(Scopes) /\ tc # <<>> /\ Len(tc) = m /\ Upto(tc, table, m)
      /\ \A k \in 1..m, y \in Ids :
           tc[k].binds[y] = IF k = m /\ y = x THEN s ELSE table[k].binds[y]
  <2> HIDE DEF s
  <2>. QED BY <1>1, <1>2, AddSymbolScopes
<1>7. site[1] = table[m].id /\ site[2] = x
  BY <1>3
<1> HIDE DEF n, s, site, tc
<1>8. n.node = "end" \/ IsLocal(n) => p[Len(tr)] # <<>>
  <2>1. ASSUME IsLocal(n) PROVE p[Len(tr)] # <<>>
    <3>1. m \in 2..m /\ Len(table) = m
      BY <1>1, <1>3, <1>4, <2>1
    <3>2. BodyOf(table, m) # 0 /\ Len(p[Len(tr)]) = BodyOf(table, m)
      BY <1>1, <3>1 DEF ScopesOwned
    <3>. QED BY <3>2
  <2>. QED BY <1>3, <2>1
<1>9. PICK q : Adds(tr, p, n, t2, q)
  BY <1>1, <1>3, <1>8, AddsNode
<1> HIDE DEF t2
<1>10. ScopesOwned(t2, q, tc, opened)
  <2>1. ScopesOwned(tr, p, tc, opened)
    BY <1>1, <1>6, OwnedAlike
  <2>2. IsLocal(n) => n.site[1] = tc[Len(tc)].id /\ Len(tc) >= 2
    <3>1. tc[m].id = table[m].id
      BY <1>1, <1>6 DEF Upto
    <3>2. ~ isGlobalScope => m >= 2
      BY <1>1, <1>4
    <3>. QED BY <1>3, <1>6, <1>7, <3>1, <3>2
  <2>3. n.node \in {"use", "decl"}
    BY <1>3
  <2>. QED BY <1>1, <1>3, <1>6, <1>9, <2>1, <2>2, <2>3, OwnedNode
<1>11. LocalsBound(t2, tc)
  <2>1. ASSUME NEW k \in 2..Len(tc), NEW y \in Names
        PROVE  /\ k \in 2..Len(table) /\ tc[k].id = table[k].id
               /\ Kept(n, table[k].binds[y], tc[k].binds[y], <<table[k].id, y>>)
    <3>1. k \in 2..m /\ k \in 1..m /\ y \in Ids /\ m # 1
      BY <1>1, <1>6, ReturnIsNoName
    <3>2. tc[k].id = table[k].id
      BY <1>6, <3>1 DEF Upto
    <3>3. CASE k = m /\ y = x
      <4>1. table[k].binds[y] = Absent /\ tc[k].binds[y] = s /\ <<table[k].id, y>> = site
        BY <1>2, <1>3, <1>6, <3>1, <3>3 DEF LookupInCurrentScope, site
      <4>2. Gives(n, s, site)
        BY <1>3, <1>4, <1>5, <3>1 DEF Gives
      <4>. QED BY <3>1, <3>2, <4>1, <4>2 DEF Kept
    <3>4. CASE ~ (k = m /\ y = x)
      <4>1. tc[k].binds[y] = table[k].binds[y]
        BY <1>6, <3>1, <3>4
      <4>2. <<table[k].id, y>> # site
        <5>1. table[k].id = table[m].id => k = m
          BY <1>1, <3>1 DEF ScopesOwned
        <5>. QED BY <1>7, <3>4, <5>1
      <4>3. ~ Touches(n, <<table[k].id, y>>)
        BY <1>3, <4>2 DEF Touches
      <4>. QED BY <3>1, <3>2, <4>1, <4>3 DEF Kept
    <3>. QED BY <3>3, <3>4
  <2>. QED BY <1>1, <1>9, <2>1, LocalsNode
<1>12. Apart(t2, opened)
  <2>1. ASSUME NEW i \in DOMAIN tr, tr[i].node = "func" PROVE ~ Writes(n, tr[i].site)
    <3>1. ASSUME Writes(n, tr[i].site) PROVE FALSE
      <4>1. tr[i].site = site /\ m \in 2..m /\ m \in 2..Len(table)
        BY <1>1, <1>3, <1>4, <3>1
      <4>2. LocalAt(tr, table[m].binds[x], <<table[m].id, x>>)
        BY <1>1, <4>1 DEF LocalsBound
      <4>3. table[m].binds[x] = Absent /\ <<table[m].id, x>> = site
        BY <1>2, <1>3 DEF LookupInCurrentScope, site
      <4>. QED BY <2>1, <4>1, <4>2, <4>3 DEF LocalAt
    <3>. QED BY <3>1
  <2>2. opened <= opened /\ n.node # "func"
    BY <1>1, <1>3
  <2>. QED BY <1>1, <1>9, <2>1, <2>2, ApartNode
<1>13. Quiet /\ Grows
  <2>1. TRUE \in BOOLEAN
    OBVIOUS
  <2>2. Quiet
    BY <2>1, VarDeclQuiet
  <2>. QED BY <2>2 DEF Quiet
<1>14. ASSUME NEW y \in Ids \ {Return}
       PROVE  \/ table'[1].binds[y] = table[1].binds[y]
              \/ GlobalAt(t2, table'[1].binds[y], y, types', table', unit')
  <2>1. CASE m = 1 /\ y = x
    <3>1. table'[1].binds[y] = s
      BY <1>1, <1>2, <1>6, <2>1
    <3>2. Len(tr) + 1 \in DOMAIN t2 /\ t2[Len(tr) + 1] = n
      BY <1>1, <1>9, AddsFacts
    <3>3. n.site = <<0, y>> /\ IsGlobal(n)
      <4>1. table[1].id = 0
        BY <1>1 DEF ScopesOwned
      <4>. QED BY <1>3, <1>4, <2>1, <4>1 DEF site
    <3>4. s.isGlobal
      BY <1>4, <1>5, <2>1
    <3>. QED BY <1>5, <3>1, <3>2, <3>3, <3>4 DEF GlobalAt
  <2>2. CASE ~ (m = 1 /\ y = x)
    BY <1>1, <1>2, <1>6, <2>2
  <2>. QED BY <2>1, <2>2
<1>15. Begun \in Nat /\ \/ Begun' = Begun
                        \/ Begun' = Begun + 1 /\ Begun \notin Functions
  <2>1. CASE stack # <<>>
    BY <1>13, <2>1, StatementBegun, BegunTyped
  <2>2. CASE stack = <<>>
    <3>1. Begun = next /\ Begun' = next + 1 /\ next \notin Functions
      BY <1>2, <2>2 DEF Begun, Functions
    <3>. QED BY <3>1, BegunTyped
  <2>. QED BY <2>1, <2>2
<1>16. Facts(t2, q, table', opened', types', unit', Begun')
  <2>1. ScopesOwned(t2, q, table', opened') /\ LocalsBound(t2, table') /\ Apart(t2, opened')
    BY <1>2, <1>10, <1>11, <1>12
  <2>2. n.node # "use" /\ n.node # "func"
    BY <1>3
  <2>. QED BY <1>9, <1>13, <1>14, <1>15, <2>1, <2>2, FactsNode
<1>. QED BY <1>16 DEF t2, n

LEMMA DeclarationWalks ==
  ASSUME NEW p, Walking(p), NEW x \in Names, <<x>> \in Declarators, NEW d \in Declarations,
         varDecl(<<x>>, d, TRUE),
         tree' = tree \o ((IF d.how = "var" THEN <<Use(table, d.from, "read")>> ELSE <<>>)
                          \o <<[node |-> "decl", site |-> <<ScopeId(table), x>>,
                                isGlobal |-> isGlobalScope]>>)
  PROVE  \E q : Facts(tree', q, table', opened', types', unit', Begun')
<1> DEFINE n == DeclNode(x)
<1>1. /\ Structure /\ Structure' /\ ~ errors' /\ phase = "stmts"
      /\ Facts(tree, p, table, opened, types, unit, Begun)
      /\ table \in Seq(Scopes) /\ table # <<>> /\ tree \in Seq(Nodes) /\ Begun \in Nat
  BY WalkingFacts, BegunTyped DEF Walking
<1>2. n \in Nodes
  BY <1>1, DeclFacts
<1>3. tree' = tree \o ((IF d.how = "var" THEN <<Use(table, d.from, "read")>> ELSE <<>>) \o <<n>>)
  BY DEF DeclNode
<1> HIDE DEF n
<1>4. \A tr : (\E r : Facts(tr, r, table, opened, types, unit, Begun)) =>
              \E q : Facts(Append(tr, n), q, table', opened', types', unit', Begun')
  BY <1>1, DeclarationNode DEF n
<1>5. CASE d.how # "var"
  <2>1. <<>> \o <<n>> = <<n>>
    BY <1>2
  <2>2. tree' = Append(tree, n)
    BY <1>1, <1>2, <1>3, <1>5, <2>1, OneMore
  <2>. QED BY <1>1, <1>4, <2>2
<1>6. CASE d.how = "var"
  <2> DEFINE u == Use(table, d.from, "read")
  <2>1. d.from \in Names /\ Lookup(table, d.from) # Absent
    BY <1>1, <1>6, Declared
  <2>2. "read" \in {"call", "assign", "read"} /\ "read" # "call"
    OBVIOUS
  <2>3. u \in Nodes
    BY <1>1, <2>1, <2>2, UseTyped
  <2>4. \E r : Facts(Append(tree, u), r, table, opened, types, unit, Begun)
    BY <1>1, <2>1, <2>2, FactsUse
  <2> HIDE DEF u
  <2>5. tree' = Append(Append(tree, u), n)
    <3>1. tree' = tree \o (<<u>> \o <<n>>)
      BY <1>3, <1>6 DEF u
    <3>2. tree \o (<<u>> \o <<n>>) = (tree \o <<u>>) \o <<n>>
      BY <1>1, <1>2, <2>3
    <3>3. tree \o <<u>> = Append(tree, u) /\ Append(tree, u) \in Seq(Nodes)
      BY <1>1, <2>3, OneMore
    <3>4. Append(tree, u) \o <<n>> = Append(Append(tree, u), n)
      BY <1>2, <3>3, OneMore
    <3>. QED BY <3>1, <3>2, <3>3, <3>4
  <2>. QED BY <1>4, <2>4, <2>5
<1>. QED BY <1>5, <1>6

-----------------------------------------------------------------------------
(* Functions and lambdas.                                                     *)

LEMMA BeginsFacts ==
  ASSUME NEW n \in Nodes, Begins(n)
  PROVE  /\ ~ IsLocal(n) /\ n.node # "use" /\ n.node # "decl" /\ n.node # "end"
         /\ \A site : Writes(n, site) <=> n.scope = site[1] /\ \E i \in DOMAIN n.params : n.params[i] = site[2]
BY DEF Begins, IsLocal, Writes

\* A scope has variables for the parameters and no other names.
BindsParams(scope, params) ==
  \A x \in Names : scope.binds[x] = IF \E i \in DOMAIN params : params[i] = x
                                      THEN Variable(0, FALSE) ELSE Absent

\* A node that begins a body, whose scope is entered: tb is the table with the
\* symbol of a nested function, and body the scope.
LEMMA BodyNode ==
  ASSUME Structure, Grows, NEW p, Facts(tree, p, table, opened, types, unit, Begun), Begun \in Nat,
         NEW n \in Nodes, Begins(n), n.scope = opened, opened \in Nat \ {0},
         NEW tb \in Seq(Scopes), Len(tb) = Len(table), Upto(tb, table, Len(table)),
         NEW body \in Scopes, body.id = opened, body.fenced,
         BindsParams(body, n.params),
         table' = Append(tb, body), opened' = opened + 1, tb[1].binds = table[1].binds,
         n.node = "func" =>
            /\ FunctionAt(n, types', table', unit')
            /\ \A j \in DOMAIN tree : tree[j].node = "func" => tree[j].type # n.type
            /\ n.site[1] < opened
            /\ \A j \in DOMAIN tree : ~ Writes(tree[j], n.site),
         \A k \in 2..Len(table), x \in Names :
            \/ /\ tb[k].binds[x] = table[k].binds[x]
               /\ ~ (n.node = "func" /\ n.site = <<table[k].id, x>>)
            \/ /\ table[k].binds[x] = Absent /\ tb[k].binds[x] # Absent
               /\ ~ tb[k].binds[x].isGlobal /\ tb[k].binds[x].isDefinition
               /\ Makes(n, tb[k].binds[x].type, <<table[k].id, x>>),
         NEW b2,
         \/ b2 = Begun
         \/ b2 = Begun + 1 /\ n.node = "func" /\ n.item = Begun
  PROVE  \E q : Facts(Append(tree, n), q, table', opened', types', unit', b2)
<1> DEFINE m == Len(table)
           t2 == Append(tree, n)
           tc == Append(tb, body)
<1>1. /\ table \in Seq(Scopes) /\ table # <<>> /\ m \in Nat \ {0} /\ 1 \in 1..m
      /\ Paths(p, tree) /\ ScopesOwned(tree, p, table, opened) /\ LocalsBound(tree, table)
      /\ Apart(tree, opened) /\ opened \in Nat
  <2>1. table \in Seq(Scopes) /\ table # <<>>
    BY StructureFacts
  <2>2. m \in Nat \ {0} /\ 1 \in 1..m
    BY <2>1
  <2>. QED BY <2>1, <2>2 DEF Facts
<1>2. tree \in Seq(Nodes) /\ Len(tree) \in Nat
  BY <1>1 DEF Paths
<1>3. /\ ~ IsLocal(n) /\ n.node # "use" /\ n.node # "decl" /\ n.node # "end"
      /\ \A site : Writes(n, site) <=> n.scope = site[1] /\ \E i \in DOMAIN n.params : n.params[i] = site[2]
  BY BeginsFacts
<1>4. /\ tc \in Seq(Scopes) /\ Len(tc) = m + 1 /\ Upto(tc, tb, m) /\ tc[m + 1] = body
      /\ \A k \in 1..m : tc[k] = tb[k]
  BY UptoAppend
<1>5. \A k \in 1..m : tb[k].id = table[k].id /\ tb[k].fenced = table[k].fenced
  BY DEF Upto
<1>6. table' = tc
  OBVIOUS
<1> HIDE DEF tc, m
<1>7. Upto(tc, table, m)
  <2>1. \A k \in 1..m : tc[k].id = table[k].id /\ tc[k].fenced = table[k].fenced
    BY <1>4, <1>5
  <2>2. m = Len(table)
    BY DEF m
  <2>. QED BY <1>1, <1>4, <2>1, <2>2 DEF Upto
<1>8. PICK q : Adds(tree, p, n, t2, q)
  BY <1>1, <1>3, AddsNode
<1> HIDE DEF t2
<1>9. ScopesOwned(t2, q, tc, opened + 1)
  <2>1. /\ Len(tc) = Len(table) + 1 /\ Upto(tc, table, Len(table))
        /\ tc[Len(table) + 1].id = opened /\ tc[Len(table) + 1].fenced
    BY <1>4, <1>7 DEF m
  <2>. QED BY <1>1, <1>4, <1>8, <2>1, OwnedBegin
<1>10. \A k \in 1..m : table[k].id # opened
  <2>1. ASSUME NEW k \in 1..m PROVE table[k].id # opened
    <3>1. table[k].id \in 0..(opened - 1) \/ table[k].id = 0
      BY <1>1, <2>1, OwnedTable DEF m
    <3>. QED BY <1>1, <3>1
  <2>. QED BY <2>1
<1>11. LocalsBound(t2, tc)
  <2>1. ASSUME NEW k \in 2..Len(tc), NEW x \in Names
        PROVE  \/ /\ k \in 2..Len(table) /\ tc[k].id = table[k].id
                  /\ Kept(n, table[k].binds[x], tc[k].binds[x], <<table[k].id, x>>)
               \/ tc[k].id = opened /\ Kept(n, Absent, tc[k].binds[x], <<opened, x>>)
    <3>1. k = m + 1 \/ (k \in 2..m /\ k \in 1..m /\ k \in 2..Len(table))
      BY <1>1, <1>4 DEF m
    <3>2. CASE k \in 2..m /\ k \in 1..m /\ k \in 2..Len(table)
      <4> DEFINE site == <<table[k].id, x>>
      <4>1. tc[k].id = table[k].id /\ tc[k].binds[x] = tb[k].binds[x]
        BY <1>4, <1>5, <3>2
      <4>2. ~ Writes(n, site)
        <5>1. site[1] # opened
          BY <1>10, <3>2
        <5> HIDE DEF site
        <5>. QED BY <1>3, <5>1
      <4>3. \/ /\ tb[k].binds[x] = table[k].binds[x]
               /\ ~ (n.node = "func" /\ n.site = site)
            \/ /\ table[k].binds[x] = Absent /\ tb[k].binds[x] # Absent
               /\ ~ tb[k].binds[x].isGlobal /\ tb[k].binds[x].isDefinition
               /\ Makes(n, tb[k].binds[x].type, site)
        BY <3>2
      <4> HIDE DEF site
      <4>4. Kept(n, table[k].binds[x], tb[k].binds[x], site)
        BY <4>2, <4>3 DEF Kept, Touches, Gives
      <4>. QED BY <3>2, <4>1, <4>4 DEF site
    <3>3. CASE k = m + 1
      <4> DEFINE site == <<opened, x>>
      <4>1. tc[k].id = opened /\ tc[k].binds[x] = body.binds[x]
        BY <1>4, <3>3
      <4>2. site[1] = opened /\ site[2] = x
        OBVIOUS
      <4>3. ~ (n.node = "func" /\ n.site = site)
        <5>1. ~ (opened < opened)
          BY <1>1
        <5> HIDE DEF site
        <5>. QED BY <4>2, <5>1
      <4> HIDE DEF site
      <4>4. CASE \E i \in DOMAIN n.params : n.params[i] = x
        <5>1. body.binds[x] = Variable(0, FALSE) /\ Writes(n, site)
          BY <1>3, <4>2, <4>4 DEF BindsParams
        <5>2. Variable(0, FALSE) \in Flags
          BY DEF Variable, Flags
        <5>3. Variable(0, FALSE) # Absent
          BY <5>2, AbsentAssumption
        <5>4. Gives(n, body.binds[x], site)
          BY <4>3, <5>1, <5>3 DEF Gives, Variable
        <5>. QED BY <4>1, <5>4 DEF Kept, site
      <4>5. CASE ~ \E i \in DOMAIN n.params : n.params[i] = x
        <5>1. body.binds[x] = Absent /\ ~ Writes(n, site)
          BY <1>3, <4>2, <4>5 DEF BindsParams
        <5>. QED BY <4>1, <4>3, <5>1 DEF Kept, Touches, site
      <4>. QED BY <4>4, <4>5
    <3>. QED BY <3>1, <3>2, <3>3
  <2>. QED BY <1>1, <1>8, <2>1, LocalsNode
<1>12. Apart(t2, opened + 1)
  <2>1. opened <= opened + 1 /\ opened + 1 \in Nat
    BY <1>1
  <2>2. n.node = "func" => /\ n.site[1] < opened + 1 /\ ~ Writes(n, n.site)
                           /\ \A j \in DOMAIN tree : ~ Writes(tree[j], n.site)
    <3>1. n.node = "func" => n.site[1] \in Nat
      BY NodeFacts DEF Sites
    <3>2. n.node = "func" => n.site[1] # opened /\ n.site[1] < opened + 1
      BY <1>1, <3>1
    <3>. QED BY <1>3, <3>2
  <2>3. ASSUME NEW i \in DOMAIN tree, tree[i].node = "func" PROVE ~ Writes(n, tree[i].site)
    <3>1. tree[i].site[1] < opened
      BY <1>1, <2>3 DEF Apart
    <3>2. tree[i].site[1] # opened
      BY <1>1, <3>1
    <3>. QED BY <1>3, <3>2
  <2>. QED BY <1>1, <1>2, <1>8, <2>1, <2>2, <2>3, ApartNode
<1>13. table'[1].binds = table[1].binds
  BY <1>1, <1>4, <1>6
<1>14. Facts(t2, q, table', opened', types', unit', b2)
  <2>1. ScopesOwned(t2, q, table', opened') /\ LocalsBound(t2, table') /\ Apart(t2, opened')
    BY <1>6, <1>9, <1>11, <1>12
  <2>. QED BY <1>3, <1>8, <1>13, <2>1, FactsNode
<1>. QED BY <1>14 DEF t2

LEMMA EntersScope ==
  ASSUME opened \in Nat, NEW tb \in Seq(Scopes), tb # <<>>, NEW t \in Nat, NEW h \in AnyHeading,
         NEW item, NEW isLambda, NEW bad, EnterBody(tb, t, h, item, isLambda, bad),
         stack \in Seq(Handlers), t # 0, item \in Nat, isLambda \in BOOLEAN
  PROVE  /\ BodyScope(tb, t, h) \in Scopes /\ BodyScope(tb, t, h).id = opened
         /\ BodyScope(tb, t, h).fenced
         /\ BindsParams(BodyScope(tb, t, h), h.params)
         /\ table' = Append(tb, BodyScope(tb, t, h)) /\ opened' = opened + 1
         /\ ScopeId(table') = opened
         /\ stack'[Len(stack')].type = t /\ stack' # <<>>
         /\ UNCHANGED <<unit, phase, next>>
<1> DEFINE body == BodyScope(tb, t, h)
           f == Body(t, h, item, isLambda)
<1>1. /\ table' = Append(tb, body) /\ opened' = opened + 1 /\ stack' = Append(stack, f)
      /\ UNCHANGED <<unit, phase, next>>
  BY DEF EnterBody, BodyScope, BodyBinds, Body
<1>2. body.fenced /\ body \in Scopes
  <2>1. t \in 0..t /\ opened + 1 \in Nat
    OBVIOUS
  <2>2. body \in ScopesOf(opened + 1, t) /\ body.fenced = TRUE
    BY <2>1, BodyScopeFacts
  <2> HIDE DEF body
  <2>. QED BY <2>1, <2>2, ScopesGrow
<1>3. body.id = opened /\ body.binds = BodyBinds(t, h)
  BY DEF BodyScope, NewScope
<1>4. \A x \in Names : BodyBinds(t, h)[x] = IF \E i \in DOMAIN h.params : h.params[i] = x
                                              THEN Variable(0, FALSE) ELSE Absent
  BY ReturnIsNoName DEF BodyBinds
<1>5. f \in Handlers /\ f.type = t
  BY BodyFacts
<1> HIDE DEF body, f
<1>6. ScopeId(table') = opened
  <2>1. /\ Len(table') = Len(tb) + 1 /\ table'[Len(tb) + 1] = body
    BY <1>1, <1>2, UptoAppend
  <2>2. ScopeId(table') = table'[Len(table')].id
    BY DEF ScopeId
  <2>. QED BY <1>3, <2>1, <2>2
<1>7. stack'[Len(stack')] = f /\ stack' # <<>>
  <2>1. /\ Append(stack, f) # <<>> /\ Len(Append(stack, f)) = Len(stack) + 1
        /\ Append(stack, f)[Len(stack) + 1] = f
    BY <1>5, AppendFacts
  <2>. QED BY <1>1, <2>1
<1>8. BindsParams(body, h.params)
  BY <1>3, <1>4 DEF BindsParams
<1>. QED BY <1>1, <1>2, <1>3, <1>5, <1>6, <1>7, <1>8 DEF body

\* The types of the externs are defined and come first.
LEMMA ExternTypes ==
  ASSUME Structure, Externs, phase = "stmts"
  PROVE  /\ Len(unit.extens) \in Nat /\ Len(types) \in Nat /\ Len(unit.extens) <= Len(types)
         /\ \A t \in DOMAIN types : ~ types[t].defined => t > Len(unit.extens)
<1>1. /\ unit.extens \in Seq(AnyHeading) /\ types \in Seq(TypeInvokes)
  BY UnitFacts DEF Structure, Scalars
<1>2. \A i \in DOMAIN unit.extens : i \in DOMAIN types /\ types[i].defined
  BY DEF Externs
<1> DEFINE k == Len(unit.extens)
<1>3. k \in Nat /\ Len(types) \in Nat /\ DOMAIN unit.extens = 1..k /\ DOMAIN types = 1..Len(types)
  BY <1>1
<1>4. k <= Len(types)
  <2>1. CASE k = 0
    BY <1>3, <2>1
  <2>2. CASE k # 0
    <3>1. k \in DOMAIN unit.extens
      BY <1>3, <2>2
    <3>. QED BY <1>2, <1>3, <3>1
  <2>. QED BY <2>1, <2>2
<1>5. ASSUME NEW t \in DOMAIN types, ~ types[t].defined PROVE t > k
  <2>1. t \notin 1..k
    BY <1>2, <1>3, <1>5
  <2>. QED BY <1>3, <2>1
<1>. QED BY <1>3, <1>4, <1>5

LEMMA LambdaWalks ==
  ASSUME NEW p, Walking(p), NEW h \in Headings, visitLambda(h),
         tree' = tree \o <<[node |-> "lambda", params |-> h.params, scope |-> ScopeId(table')]>>
  PROVE  \E q : Facts(tree', q, table', opened', types', unit', Begun')
<1> DEFINE n == [node |-> "lambda", params |-> h.params, scope |-> ScopeId(table')]
           t == Len(types) + 1
           body == BodyScope(table, t, h)
<1>1. /\ Structure /\ Facts(tree, p, table, opened, types, unit, Begun) /\ Begun \in Nat
      /\ opened \in Nat \ {0} /\ opened \in Nat /\ table \in Seq(Scopes) /\ table # <<>>
      /\ tree \in Seq(Nodes) /\ h \in AnyHeading /\ stack \in Seq(Handlers) /\ t \in Nat /\ t # 0
  <2>1. h \in AnyHeading
    BY HeadingsAssumption DEF AnyHeading
  <2>2. stack \in Seq(Handlers) /\ Structure
    BY StructureFacts DEF Walking
  <2>. QED BY <2>1, <2>2, WalkingFacts, BegunTyped DEF Walking
<1>2. EnterBody(table, t, h, 0, TRUE, Repeats(h.params)) /\ AtStatement
  BY DEF visitLambda
<1>3. /\ body \in Scopes /\ body.id = opened /\ body.fenced
      /\ BindsParams(body, h.params)
      /\ table' = Append(table, body) /\ opened' = opened + 1
      /\ ScopeId(table') = opened /\ stack' # <<>>
      /\ UNCHANGED <<unit, phase, next>>
  <2> DEFINE bad == Repeats(h.params)
  <2>1. 0 \in Nat /\ TRUE \in BOOLEAN
    OBVIOUS
  <2>2. /\ opened \in Nat /\ table \in Seq(Scopes) /\ table # <<>> /\ t \in Nat /\ h \in AnyHeading
        /\ stack \in Seq(Handlers) /\ t # 0
    BY <1>1
  <2>3. EnterBody(table, t, h, 0, TRUE, bad)
    BY <1>2
  <2> HIDE DEF t, bad
  <2>. QED BY <2>1, <2>2, <2>3, EntersScope
<1> HIDE DEF body, t
<1>4. /\ n \in Nodes /\ Begins(n) /\ n.scope = opened /\ n.params = h.params /\ n.node = "lambda"
  <2>1. h.params \in Seq(Names)
    BY <1>1 DEF AnyHeading
  <2>. QED BY <1>1, <1>3, <2>1 DEF Nodes, LambdaNodes, Begins
<1>5. tree' = Append(tree, n)
  <2> HIDE DEF n
  <2>1. tree' = tree \o <<n>>
    BY DEF n
  <2>. QED BY <1>1, <1>4, <2>1, OneMore
<1> HIDE DEF n
<1>6. Grows
  BY <1>1, VisitLambdaOpens DEF Opens
<1>7. Begun' = Begun
  <2>1. stack # <<>>
    BY <1>1, <1>2, StatementNext
  <2>. QED BY <1>3, <2>1 DEF Begun
<1>8. Upto(table, table, Len(table)) /\ Len(table) \in Nat
  BY <1>1 DEF Upto
<1>9. \E q : Facts(Append(tree, n), q, table', opened', types', unit', Begun')
  <2>1. n.node # "func"
    BY <1>4
  <2>2. BindsParams(body, n.params)
    BY <1>3, <1>4
  <2>3. \A k \in 2..Len(table), x \in Names :
           table[k].binds[x] = table[k].binds[x] /\ ~ (n.node = "func" /\ n.site = <<table[k].id, x>>)
    BY <2>1
  <2>4. /\ Structure /\ Facts(tree, p, table, opened, types, unit, Begun) /\ Begun \in Nat
        /\ opened \in Nat \ {0} /\ table \in Seq(Scopes)
    BY <1>1
  <2>5. /\ body \in Scopes /\ body.id = opened /\ body.fenced
        /\ table' = Append(table, body) /\ opened' = opened + 1
    BY <1>3
  <2> DEFINE b2 == Begun'
  <2>6. b2 = Begun
    BY <1>7
  <2> HIDE DEF b2
  <2>7. \E q : Facts(Append(tree, n), q, table', opened', types', unit', b2)
    BY <1>4, <1>6, <1>8, <2>1, <2>2, <2>3, <2>4, <2>5, <2>6, BodyNode
  <2>. QED BY <2>7 DEF b2
<1>. QED BY <1>5, <1>9

-----------------------------------------------------------------------------
(* Functions.                                                                 *)

\* The node of a function with heading h of type t, whose body's scope is entered.
FuncNode(h, item, t) == [node |-> "func", site |-> <<ScopeId(table), h.name>>, type |-> t,
                         item |-> item, params |-> h.params, scope |-> opened]

LEMMA FuncNodeFacts ==
  ASSUME NEW h \in AnyHeading, NEW item \in Nat, NEW t \in Nat \ {0}, ScopeId(table) \in Nat,
         opened \in Nat \ {0}
  PROVE  LET n == FuncNode(h, item, t)
         IN  /\ n \in Nodes /\ Begins(n) /\ n.node = "func" /\ n.scope = opened
             /\ n.params = h.params /\ n.item = item /\ n.type = t
             /\ n.site = <<ScopeId(table), h.name>> /\ n.site[1] = ScopeId(table)
BY DEF FuncNode, Nodes, FuncNodes, Sites, Begins, AnyHeading

\* The innermost scope is that of the unit, or it has an id of its own.
LEMMA LastId ==
  ASSUME NEW p, Walking(p)
  PROVE  /\ ScopeId(table) \in Nat /\ ScopeId(table) < opened
         /\ ScopeId(table) = table[Len(table)].id
         /\ stack # <<>> => ScopeId(table) # 0
         /\ stack = <<>> => ScopeId(table) = 0 /\ Len(table) = 1
<1>1. /\ ScopesOwned(tree, p, table, opened) /\ Len(table) \in Nat \ {0} /\ 1 \in 1..Len(table)
      /\ opened \in Nat \ {0} /\ Structure
      /\ stack # <<>> => Len(table) >= 2
  BY WalkingFacts DEF Walking
<1> DEFINE k == Len(table)
<1>2. k \in 1..k /\ (stack # <<>> => k \in 2..k) /\ k \in Nat
  BY <1>1
<1>3. ScopeId(table) = table[k].id
  BY DEF ScopeId
<1>4. table[1].id = 0 /\ \A i \in 2..k : table[i].id \in 1..(opened - 1)
  BY <1>1 DEF ScopesOwned
<1> HIDE DEF k
<1>5. CASE stack # <<>>
  <2>1. table[k].id \in 1..(opened - 1)
    BY <1>2, <1>4, <1>5
  <2>. QED BY <1>1, <1>3, <1>5, <2>1 DEF k
<1>6. CASE stack = <<>>
  <2>1. k = 1
    BY <1>1, <1>6, OneScopeAtTop DEF k
  <2>. QED BY <1>1, <1>3, <1>4, <1>6, <2>1 DEF k
<1>. QED BY <1>5, <1>6

\* A function whose name is new in its scope is nested: those of the unit have theirs.
LEMMA NewIsNested ==
  ASSUME Structure, DeclaredAhead, NEW h, NEW item, DefinesAt(h, item),
         LookupInCurrentScope(table, h.name) = Absent
  PROVE  stack # <<>> /\ item = 0 /\ AtStatement
<1> SUFFICES ASSUME stack = <<>> PROVE FALSE
  BY DEF DefinesAt
<1>1. phase = "stmts"
  BY DefinesAtFacts
<1>2. next \in Functions /\ h.name = unit.stmts[next].heading.name
  BY NextInStmts DEF DefinesAt, Functions, AtStatement
<1>3. PICK u \in DOMAIN types : OwnType(next, u)
  BY <1>1, <1>2 DEF DeclaredAhead, Ahead
<1>4. table[1].binds[h.name] = Definition(u, TRUE) /\ u \in Nat
  BY <1>2, <1>3 DEF OwnType, Made, Structure, Scalars
<1>5. LookupInCurrentScope(table, h.name) = table[1].binds[h.name]
  BY OneScopeAtTop DEF LookupInCurrentScope
<1>. QED BY <1>4, <1>5, DefinitionIsSymbol

\* A nested function, whose name is new in its scope.
LEMMA NewFunctionWalks ==
  ASSUME NEW p, Walking(p), Externs, NEW h, NEW item, DefinesAt(h, item), defineFunction(h, item)
  PROVE  /\ ScopeId(table') = opened /\ stack'[Len(stack')].type \in Nat \ {0}
         /\ \E q : Facts(Append(tree, FuncNode(h, item, stack'[Len(stack')].type)), q,
                         table', opened', types', unit', Begun')
<1> DEFINE t == Len(types) + 1
           s == Definition(t, FALSE)
           tb == AddSymbol(table, h.name, s)
           bad == Repeats(h.params) \/ Misfit(h, h.params, h.returns)
           n == FuncNode(h, item, t)
           x == h.name
           l == Len(table)
           body == BodyScope(tb, t, h)
<1>1. /\ Structure /\ Facts(tree, p, table, opened, types, unit, Begun) /\ Begun \in Nat
      /\ opened \in Nat \ {0} /\ opened \in Nat /\ table \in Seq(Scopes) /\ table # <<>>
      /\ l \in Nat \ {0} /\ 1 \in 1..l
      /\ tree \in Seq(Nodes) /\ stack \in Seq(Handlers) /\ Len(types) \in Nat
      /\ phase = "stmts" /\ DeclaredAhead /\ ScopesOwned(tree, p, table, opened)
      /\ LocalsBound(tree, table) /\ FunctionsMade(tree, table, types, unit)
  <2>1. stack \in Seq(Handlers) /\ Structure
    BY StructureFacts DEF Walking
  <2>2. phase = "stmts" /\ DeclaredAhead
    BY DEF Walking, Definitions
  <2>. QED BY <2>1, <2>2, WalkingFacts, BegunTyped DEF Walking, Facts
<1>2. /\ LookupInCurrentScope(table, x) = Absent /\ types' = TypeInvoke(h, TRUE, item)
      /\ EnterBody(tb, t, h, item, FALSE, bad)
  BY DEF defineFunction
<1>3. /\ stack # <<>> /\ item = 0 /\ AtStatement /\ h \in AnyHeading /\ x \in Names /\ x \in Ids
  <2>1. h \in AnyHeading
    BY <1>1, DefinesAtFacts
  <2>. QED BY <1>1, <1>2, <2>1, NewIsNested DEF AnyHeading, Ids
<1>4. /\ types' \in Seq(TypeInvokes) /\ t \in DOMAIN types' /\ t \in Nat \ {0} /\ types'[t].defined
  BY <1>1, <1>2, <1>3, NewTypeGrows
<1>5. Grows
  <2>1. \E f : Opens(f, t)
    BY <1>1, DefineFunctionOpens
  <2>. QED BY <2>1 DEF Opens
<1>6. s \in Flags /\ s # Absent /\ ~ s.isGlobal /\ s.isDefinition /\ s.type = t
  <2>1. s \in Flags /\ ~ s.isGlobal /\ s.isDefinition /\ s.type = t
    BY <1>4 DEF Definition, Flags
  <2> HIDE DEF s
  <2>. QED BY <2>1, AbsentAssumption
<1> HIDE DEF s
<1>7. /\ tb \in Seq(Scopes) /\ tb # <<>> /\ Len(tb) = l /\ Upto(tb, table, l)
      /\ \A k \in 1..l, y \in Ids : tb[k].binds[y] = IF k = l /\ y = x THEN s ELSE table[k].binds[y]
  BY <1>1, <1>2, <1>3, <1>6, AddSymbolScopes
<1> HIDE DEF tb, bad
<1>8. /\ body \in Scopes /\ body.id = opened /\ body.fenced /\ BindsParams(body, h.params)
      /\ table' = Append(tb, body) /\ opened' = opened + 1
      /\ ScopeId(table') = opened /\ stack'[Len(stack')].type = t /\ stack' # <<>>
      /\ UNCHANGED <<unit, phase, next>>
  <2>1. 0 \in Nat /\ FALSE \in BOOLEAN /\ item \in Nat /\ t \in Nat /\ t # 0
    BY <1>3, <1>4
  <2> HIDE DEF t
  <2>. QED BY <1>1, <1>2, <1>3, <1>7, <2>1, EntersScope
<1> HIDE DEF body, x
<1>9. /\ ScopeId(table) \in Nat /\ ScopeId(table) < opened /\ ScopeId(table) = table[l].id
      /\ ScopeId(table) # 0 /\ l \in 2..l
  <2>1. l \in 2..l
    BY <1>3, WalkingFacts
  <2>. QED BY <1>3, <2>1, LastId
<1> HIDE DEF l
<1>10. /\ n \in Nodes /\ Begins(n) /\ n.node = "func" /\ n.scope = opened
       /\ n.params = h.params /\ n.item = 0 /\ n.type = t
       /\ n.site = <<ScopeId(table), x>> /\ n.site[1] = ScopeId(table)
  <2>1. item \in Nat
    BY <1>3
  <2> HIDE DEF t
  <2>2. LET m == FuncNode(h, item, t)
        IN  /\ m \in Nodes /\ Begins(m) /\ m.node = "func" /\ m.scope = opened
            /\ m.params = h.params /\ m.item = item /\ m.type = t
            /\ m.site = <<ScopeId(table), h.name>> /\ m.site[1] = ScopeId(table)
    BY <1>1, <1>3, <1>4, <1>9, <2>1, FuncNodeFacts
  <2>. QED BY <1>3, <2>2 DEF x
<1> HIDE DEF n
<1>11. tb[1].binds = table[1].binds
  <2>1. l # 1
    BY <1>1, <1>9
  <2>2. \A y \in Ids : tb[1].binds[y] = table[1].binds[y]
    BY <1>1, <1>7, <2>1
  <2>3. tb[1] \in Scopes /\ table[1] \in Scopes
    BY <1>1, <1>7
  <2>4. tb[1].binds \in [Ids -> Flags \union {Absent}] /\ table[1].binds \in [Ids -> Flags \union {Absent}]
    BY <2>3 DEF Scopes
  <2>. QED BY <2>2, <2>4
<1>12. \A j \in DOMAIN tree : tree[j].node = "func" => tree[j].type # t
  <2>1. ASSUME NEW j \in DOMAIN tree, tree[j].node = "func" PROVE tree[j].type # t
    <3>1. tree[j].type \in DOMAIN types /\ types \in Seq(TypeInvokes)
      BY <1>1, <2>1 DEF FunctionsMade, Structure, Scalars
    <3>2. tree[j].type \in 1..Len(types)
      BY <3>1
    <3>. QED BY <1>1, <3>2
  <2>. QED BY <2>1
<1>13. \A j \in DOMAIN tree : ~ Writes(tree[j], n.site)
  <2>1. LocalAt(tree, table[l].binds[x], <<table[l].id, x>>)
    BY <1>1, <1>3, <1>9 DEF LocalsBound, l, x
  <2>2. table[l].binds[x] = Absent
    BY <1>2 DEF LookupInCurrentScope, l, x
  <2>. QED BY <1>9, <1>10, <2>1, <2>2 DEF LocalAt
<1>14. FunctionAt(n, types', table', unit')
  <2>1. t > Len(unit'.extens)
    <3>1. Len(unit.extens) \in Nat /\ Len(unit.extens) <= Len(types)
      BY <1>1, ExternTypes
    <3>2. unit' = unit
      BY <1>8
    <3>3. Len(unit'.extens) \in Nat /\ Len(unit'.extens) <= Len(types)
      BY <3>1, <3>2
    <3>. QED BY <1>1, <3>3
  <2> HIDE DEF t
  <2>. QED BY <1>4, <1>9, <1>10, <2>1 DEF FunctionAt
<1>15. \A k \in 2..Len(table), y \in Names :
          \/ /\ tb[k].binds[y] = table[k].binds[y]
             /\ ~ (n.node = "func" /\ n.site = <<table[k].id, y>>)
          \/ /\ table[k].binds[y] = Absent /\ tb[k].binds[y] # Absent
             /\ ~ tb[k].binds[y].isGlobal /\ tb[k].binds[y].isDefinition
             /\ Makes(n, tb[k].binds[y].type, <<table[k].id, y>>)
  <2>1. ASSUME NEW k \in 2..Len(table), NEW y \in Names
        PROVE  \/ /\ tb[k].binds[y] = table[k].binds[y]
                  /\ ~ (n.node = "func" /\ n.site = <<table[k].id, y>>)
               \/ /\ table[k].binds[y] = Absent /\ tb[k].binds[y] # Absent
                  /\ ~ tb[k].binds[y].isGlobal /\ tb[k].binds[y].isDefinition
                  /\ Makes(n, tb[k].binds[y].type, <<table[k].id, y>>)
    <3>1. k \in 1..l /\ k \in Nat /\ y \in Ids /\ l \in 1..l
      BY <1>1, <1>9 DEF l, Ids
    <3>2. tb[k].binds[y] = IF k = l /\ y = x THEN s ELSE table[k].binds[y]
      BY <1>7, <3>1
    <3>3. CASE k = l /\ y = x
      <4>1. table[k].binds[y] = Absent
        BY <1>2, <3>3 DEF LookupInCurrentScope, l, x
      <4>2. n.site = <<table[k].id, y>>
        BY <1>9, <1>10, <3>3
      <4>3. Makes(n, s.type, <<table[k].id, y>>)
        BY <1>6, <1>10, <4>2 DEF Makes
      <4>. QED BY <1>6, <3>2, <3>3, <4>1, <4>3
    <3>4. CASE ~ (k = l /\ y = x)
      <4>1. n.site # <<table[k].id, y>>
        <5>1. ASSUME n.site = <<table[k].id, y>> PROVE FALSE
          <6>1. table[l].id = table[k].id /\ x = y
            BY <1>9, <1>10, <5>1
          <6>2. l = k
            BY <1>1, <3>1, <6>1 DEF ScopesOwned, l
          <6>. QED BY <3>4, <6>1, <6>2
        <5>. QED BY <5>1
      <4>. QED BY <3>2, <3>4, <4>1
    <3>. QED BY <3>3, <3>4
  <2>. QED BY <2>1
<1>16. Begun' = Begun
  BY <1>3, <1>8 DEF Begun
<1>17. \E q : Facts(Append(tree, n), q, table', opened', types', unit', Begun')
  <2> DEFINE b2 == Begun'
  <2>1. b2 = Begun
    BY <1>16
  <2> HIDE DEF b2, t
  <2>2. Len(tb) = Len(table) /\ Upto(tb, table, Len(table))
    BY <1>7 DEF l
  <2>3. BindsParams(body, n.params)
    BY <1>8, <1>10
  <2>4. n.site[1] < opened
    BY <1>9, <1>10
  <2>5. n.node = "func" =>
            /\ FunctionAt(n, types', table', unit')
            /\ \A j \in DOMAIN tree : tree[j].node = "func" => tree[j].type # n.type
            /\ n.site[1] < opened
            /\ \A j \in DOMAIN tree : ~ Writes(tree[j], n.site)
    BY <1>10, <1>12, <1>13, <1>14, <2>4
  <2>6. /\ Structure /\ Grows /\ Facts(tree, p, table, opened, types, unit, Begun) /\ Begun \in Nat
        /\ n \in Nodes /\ Begins(n) /\ n.scope = opened /\ opened \in Nat \ {0}
        /\ tb \in Seq(Scopes) /\ body \in Scopes /\ body.id = opened /\ body.fenced
        /\ table' = Append(tb, body) /\ opened' = opened + 1 /\ tb[1].binds = table[1].binds
    BY <1>1, <1>5, <1>7, <1>8, <1>10, <1>11
  <2>7. \E q : Facts(Append(tree, n), q, table', opened', types', unit', b2)
    BY <1>15, <2>1, <2>2, <2>3, <2>5, <2>6, BodyNode
  <2>. QED BY <2>7 DEF b2
<1>. QED BY <1>4, <1>8, <1>17 DEF n

\* A heading in a body that takes the type of a function still to come.
LEMMA TakesAhead ==
  ASSUME Structure, DeclaredAhead, VisitedDefined, NEW h, NEW item, DefinesAt(h, item),
         defineDeclared(h, item), phase' # "aborted", stack # <<>>
  PROVE  TakenAhead'
<1>1. PICK f, t : Opens(f, t)
  BY DefineDeclaredOpens
<1> DEFINE s == LookupInCurrentScope(table, h.name)
           i == types[s.type].item
<1>2. IsDeclared(s) /\ types' = define(s.type)
  BY DEF defineDeclared
<1>3. s.type \in 1..Len(types) /\ i \in Functions /\ OwnType(i, s.type) /\ i > next
  <2> HIDE DEF s
  <2>1. s = LookupInCurrentScope(table, h.name)
    BY DEF s
  <2>. QED BY <1>2, <2>1, DeclaredTaken
<1>4. types'[s.type].defined
  <2>1. types \in Seq(TypeInvokes)
    BY DEF Structure, Scalars
  <2> HIDE DEF s
  <2>. QED BY <1>2, <1>3, <2>1, DefineFacts
<1> HIDE DEF s, i
<1>5. Made(types', table', unit', i, s.type) /\ s.type \in DOMAIN types'
  BY <1>1, <1>3, OwnTypeKept DEF Opens
<1>6. Functions' = Functions /\ next' = next
  BY <1>1 DEF Opens, Grows, Functions
<1>. QED BY <1>3, <1>4, <1>5, <1>6 DEF TakenAhead, OwnType

\* A function of the unit, in its turn.
LEMMA OwnFunctionWalks ==
  ASSUME NEW p, Walking(p), Externs, NEW h, NEW item, DefinesAt(h, item), defineDeclared(h, item),
         phase' # "aborted", stack = <<>>
  PROVE  /\ ScopeId(table') = opened /\ stack'[Len(stack')].type \in Nat \ {0}
         /\ \E q : Facts(Append(tree, FuncNode(h, item, stack'[Len(stack')].type)), q,
                         table', opened', types', unit', Begun')
<1> DEFINE s == LookupInCurrentScope(table, h.name)
           t == s.type
           bad == Misfit(h, types[t].params, types[t].returns)
           n == FuncNode(h, item, t)
           body == BodyScope(table, t, h)
<1>1. /\ Structure /\ Facts(tree, p, table, opened, types, unit, Begun) /\ Begun \in Nat
      /\ opened \in Nat \ {0} /\ opened \in Nat /\ table \in Seq(Scopes) /\ table # <<>>
      /\ tree \in Seq(Nodes) /\ stack \in Seq(Handlers) /\ Len(types) \in Nat
      /\ phase = "stmts" /\ DeclaredAhead /\ VisitedDefined /\ ScopesOwned(tree, p, table, opened)
      /\ FunctionsMade(tree, table, types, unit)
  <2>1. stack \in Seq(Handlers) /\ Structure
    BY StructureFacts DEF Walking
  <2>2. phase = "stmts" /\ DeclaredAhead /\ VisitedDefined
    BY DEF Walking, Definitions
  <2>. QED BY <2>1, <2>2, WalkingFacts, BegunTyped DEF Walking, Facts
<1>2. IsDeclared(s) /\ types' = define(t) /\ EnterBody(table, t, h, item, FALSE, bad)
  BY DEF defineDeclared
<1>3. /\ t \in 1..Len(types) /\ ~ types[t].defined
      /\ next \in Functions /\ item = next /\ h = unit.stmts[next].heading /\ OwnType(next, t)
  <2> HIDE DEF s
  <2>1. s = LookupInCurrentScope(table, h.name)
    BY DEF s
  <2>. QED BY <1>1, <1>2, <2>1, DeclaredTaken
<1>4. Grows
  <2>1. \E f, u : Opens(f, u)
    BY <1>1, DefineDeclaredOpens
  <2>. QED BY <2>1 DEF Opens
<1>5. h \in AnyHeading /\ t \in Nat \ {0} /\ item \in Nat /\ item # 0 /\ t # 0 /\ t \in Nat
  <2>1. h \in AnyHeading /\ item \in Nat
    BY <1>1, DefinesAtFacts
  <2>2. item # 0
    BY <1>1, <1>3, FunctionFacts
  <2> HIDE DEF t
  <2>3. t \in Nat \ {0}
    BY <1>1, <1>3
  <2>. QED BY <2>1, <2>2, <2>3
<1> HIDE DEF bad, t, s
<1>6. /\ body \in Scopes /\ body.id = opened /\ body.fenced /\ BindsParams(body, h.params)
      /\ table' = Append(table, body) /\ opened' = opened + 1
      /\ ScopeId(table') = opened /\ stack'[Len(stack')].type = t /\ stack' # <<>>
      /\ UNCHANGED <<unit, phase, next>>
  <2>1. FALSE \in BOOLEAN
    OBVIOUS
  <2>. QED BY <1>1, <1>2, <1>5, <2>1, EntersScope
<1> HIDE DEF body
<1>7. ScopeId(table) = 0 /\ Len(table) = 1
  BY LastId
<1>8. /\ n \in Nodes /\ Begins(n) /\ n.node = "func" /\ n.scope = opened
      /\ n.params = h.params /\ n.item = item /\ n.type = t
      /\ n.site = <<0, h.name>> /\ n.site[1] = 0
  <2>1. LET m == FuncNode(h, item, t)
        IN  /\ m \in Nodes /\ Begins(m) /\ m.node = "func" /\ m.scope = opened
            /\ m.params = h.params /\ m.item = item /\ m.type = t
            /\ m.site = <<ScopeId(table), h.name>> /\ m.site[1] = ScopeId(table)
    BY <1>1, <1>5, <1>7, FuncNodeFacts
  <2>. QED BY <1>7, <2>1
<1> HIDE DEF n
<1>9. \A j \in DOMAIN tree : tree[j].node = "func" => tree[j].type # t
  BY <1>1, <1>3 DEF FunctionsMade
<1>10. \A j \in DOMAIN tree : ~ Writes(tree[j], n.site)
  <2>1. ASSUME NEW j \in DOMAIN tree, Writes(tree[j], n.site) PROVE FALSE
    <3>1. InScope(tree[j], 0)
      BY <1>8, <2>1 DEF InScope, Writes
    <3>2. 0 \in 1..(opened - 1)
      BY <1>1, <3>1 DEF ScopesOwned
    <3>. QED BY <3>2
  <2>. QED BY <2>1
<1>11. FunctionAt(n, types', table', unit')
  <2>1. t > Len(unit'.extens)
    <3>1. t > Len(unit.extens)
      <4>1. t \in DOMAIN types
        BY <1>3 DEF OwnType, Made
      <4>. QED BY <1>1, <1>3, <4>1, ExternTypes
    <3>. QED BY <1>6, <3>1
  <2>2. Made(types', table', unit', next, t) /\ t \in DOMAIN types'
    BY <1>1, <1>3, <1>4, OwnTypeKept
  <2>3. types'[t].defined
    <3>1. types \in Seq(TypeInvokes)
      BY <1>1 DEF Structure, Scalars
    <3>. QED BY <1>2, <1>3, <3>1, DefineFacts
  <2>4. next \in FunctionsOf(unit')
    BY <1>3, <1>6 DEF FunctionsOf, Functions
  <2>5. n.site = <<0, unit'.stmts[next].heading.name>>
    BY <1>3, <1>6, <1>8
  <2>. QED BY <1>3, <1>5, <1>8, <2>1, <2>2, <2>3, <2>4, <2>5 DEF FunctionAt
<1>12. Begun = next /\ Begun' = next + 1
  BY <1>6 DEF Begun
<1>13. \E q : Facts(Append(tree, n), q, table', opened', types', unit', Begun')
  <2> DEFINE b2 == Begun'
  <2>1. b2 = Begun + 1 /\ n.node = "func" /\ n.item = Begun
    BY <1>3, <1>8, <1>12
  <2> HIDE DEF b2
  <2>2. Len(table) = Len(table) /\ Upto(table, table, Len(table))
    BY <1>7 DEF Upto
  <2>3. BindsParams(body, n.params)
    BY <1>6, <1>8
  <2>4. n.site[1] < opened
    BY <1>1, <1>8
  <2>5. n.node = "func" =>
            /\ FunctionAt(n, types', table', unit')
            /\ \A j \in DOMAIN tree : tree[j].node = "func" => tree[j].type # n.type
            /\ n.site[1] < opened
            /\ \A j \in DOMAIN tree : ~ Writes(tree[j], n.site)
    BY <1>8, <1>9, <1>10, <1>11, <2>4
  <2>6. /\ Structure /\ Grows /\ Facts(tree, p, table, opened, types, unit, Begun) /\ Begun \in Nat
        /\ n \in Nodes /\ Begins(n) /\ n.scope = opened /\ opened \in Nat \ {0}
        /\ table \in Seq(Scopes) /\ body \in Scopes /\ body.id = opened /\ body.fenced
        /\ table' = Append(table, body) /\ opened' = opened + 1
    BY <1>1, <1>4, <1>6, <1>8
  <2>7. \A k \in 2..Len(table), y \in Names :
            /\ table[k].binds[y] = table[k].binds[y]
            /\ ~ (n.node = "func" /\ n.site = <<table[k].id, y>>)
    BY <1>7
  <2>8. \E q : Facts(Append(tree, n), q, table', opened', types', unit', b2)
    BY <2>1, <2>2, <2>3, <2>5, <2>6, <2>7, BodyNode
  <2>. QED BY <2>8 DEF b2
<1>. QED BY <1>5, <1>6, <1>13 DEF n

LEMMA FunctionWalks ==
  ASSUME NEW p, Walking(p), Externs, NEW h, NEW item, DefinesAt(h, item), visitInvokeable(h, item),
         phase' = "stmts",
         tree' = tree \o <<[node |-> "func", site |-> <<ScopeId(table), h.name>>,
                            type |-> stack'[Len(stack')].type, item |-> item,
                            params |-> h.params, scope |-> ScopeId(table')]>>
  PROVE  \/ TakenAhead'
         \/ \E q : Facts(tree', q, table', opened', types', unit', Begun')
<1> DEFINE t == stack'[Len(stack')].type
<1>1. /\ Structure /\ DeclaredAhead /\ VisitedDefined /\ ~ errors' /\ tree \in Seq(Nodes)
      /\ opened \in Nat \ {0} /\ h \in AnyHeading /\ item \in Nat
  <2>1. Structure /\ phase = "stmts"
    BY DEF Walking
  <2>2. h \in AnyHeading /\ item \in Nat
    BY <2>1, DefinesAtFacts
  <2>. QED BY <2>1, <2>2, WalkingFacts DEF Walking, Definitions
<1>2. ~ redeclared(h, item)
  BY <1>1 DEF redeclared, Finishes
<1>3. ASSUME ScopeId(table') = opened, t \in Nat \ {0},
             \E q : Facts(Append(tree, FuncNode(h, item, t)), q, table', opened', types', unit', Begun')
      PROVE  \E q : Facts(tree', q, table', opened', types', unit', Begun')
  <2> DEFINE n == FuncNode(h, item, t)
  <2>1. n \in Nodes
    <3> HIDE DEF t
    <3>1. ScopeId(table) \in Nat
      BY LastId
    <3>. QED BY <1>1, <1>3, <3>1, FuncNodeFacts
  <2>2. tree' = tree \o <<n>>
    BY <1>3 DEF FuncNode
  <2> HIDE DEF n
  <2>3. tree' = Append(tree, n)
    BY <1>1, <2>1, <2>2, OneMore
  <2>. QED BY <1>3, <2>3 DEF n
<1>4. CASE defineFunction(h, item)
  BY <1>3, <1>4, NewFunctionWalks
<1>5. CASE defineDeclared(h, item) /\ stack = <<>>
  BY <1>3, <1>5, OwnFunctionWalks
<1>6. CASE defineDeclared(h, item) /\ stack # <<>>
  BY <1>1, <1>6, TakesAhead
<1>. QED BY <1>2, <1>4, <1>5, <1>6 DEF visitInvokeable

-----------------------------------------------------------------------------
(* The lists of the unit, while there is no tree.                             *)

LEMMA FactsOfEmpty ==
  ASSUME NEW tb, Len(tb) = 1, tb[1].id = 0, ~ tb[1].fenced, NEW o, NEW ty, NEW u,
         FunctionsOf(u) \subseteq Nat \ {0}, GlobalsBound(<<>>, tb, ty, u)
  PROVE  \E p : Facts(<<>>, p, tb, o, ty, u, 1)
<1> DEFINE tr == <<>>
           p == [k \in 0..0 |-> <<>>]
<1>1. tr \in Seq(Nodes) /\ Len(tr) = 0 /\ DOMAIN tr = {} /\ p[0] = <<>> /\ 1..0 = {}
  OBVIOUS
<1>2. p \in [0..0 -> Seq(Nat)] /\ DOMAIN p[0] = {} /\ Len(p[0]) = 0
  OBVIOUS
<1>3. BodyOf(tb, 1) = 0
  <2>1. 0 + 1 \notin Fences(tb) /\ 0 \in Nat
    BY DEF Fences
  <2>2. Count(Fences(tb), 0 + 1) = Count(Fences(tb), 0) /\ Count(Fences(tb), 0) = 0
    BY <2>1, CountFacts
  <2>. QED BY <2>2 DEF BodyOf
<1> HIDE DEF tr, p
<1>4. Paths(p, tr)
  <2>1. IsPath(p[0], 0, tr)
    BY <1>2 DEF IsPath
  <2>2. \A k \in 0..Len(tr) : k = 0
    BY <1>1
  <2>3. 1..Len(tr) = {}
    BY <1>1
  <2>. QED BY <1>1, <1>2, <2>1, <2>2, <2>3 DEF Paths
<1>5. ScopesOwned(tr, p, tb, o)
  <2>1. 2..Len(tb) = {} /\ \A i \in 1..Len(tb) : i = 1
    OBVIOUS
  <2>. QED BY <1>1, <1>2, <1>3, <2>1 DEF ScopesOwned
<1>6. LocalsBound(tr, tb)
  <2>1. 2..Len(tb) = {}
    OBVIOUS
  <2>. QED BY <2>1 DEF LocalsBound
<1>7. Apart(tr, o) /\ UsesBound(tr, p, tb) /\ FunctionsMade(tr, tb, ty, u)
  BY <1>1 DEF Apart, UsesBound, FunctionsMade
<1>8. Covers(tr, u, 1)
  <2>1. \A i \in FunctionsOf(u) : ~ (i < 1)
    OBVIOUS
  <2>. QED BY <2>1 DEF Covers
<1>9. GlobalsBound(tr, tb, ty, u)
  BY DEF tr
<1>10. Facts(tr, p, tb, o, ty, u, 1)
  BY <1>4, <1>5, <1>6, <1>7, <1>8, <1>9 DEF Facts
<1>. QED BY <1>10 DEF tr

LEMMA ListWalks ==
  ASSUME Structure, Grows, Len(table') = 1, Upto(table', table, 1),
         NEW p, Facts(<<>>, p, table, opened, types, unit, 1),
         \A x \in Ids \ {Return} :
            \/ table'[1].binds[x] = table[1].binds[x]
            \/ GlobalAt(<<>>, table'[1].binds[x], x, types', table', unit')
  PROVE  \E q : Facts(<<>>, q, table', opened', types', unit', 1)
<1>1. table'[1].id = 0 /\ ~ table'[1].fenced
  <2>1. 1 \in 1..1
    OBVIOUS
  <2>. QED BY <2>1 DEF Upto, Facts, ScopesOwned
<1>2. FunctionsOf(unit') \subseteq Nat \ {0}
  <2>1. FunctionsOf(unit') = Functions
    BY DEF Grows, FunctionsOf, Functions
  <2>2. ASSUME NEW i \in Functions PROVE i \in Nat \ {0}
    BY FunctionFacts
  <2>. QED BY <2>1, <2>2
<1>3. GlobalsBound(<<>>, table', types', unit')
  BY GlobalsKept DEF Facts
<1>. QED BY <1>1, <1>2, <1>3, FactsOfEmpty

\* The table after a heading at the top level was declared without an error.
LEMMA DeclareBinds ==
  ASSUME Structure, Len(table) = 1, ~ errors', NEW h \in AnyHeading, NEW defined, NEW item,
         Declare(h, defined, item)
  PROVE  /\ Len(table') = 1 /\ Upto(table', table, 1) /\ opened' = opened
         /\ table'[1].binds[h.name] = Definition(Len(types) + 1, TRUE)
         /\ \A x \in Ids : x # h.name => table'[1].binds[x] = table[1].binds[x]
<1> DEFINE s == Definition(Len(types) + 1, TRUE)
           x == h.name
<1>1. /\ table' = AddSymbol(table, x, s) /\ Lookup(table, x) = Absent /\ opened' = opened
  BY DEF Declare
<1>2. x \in Ids /\ s \in Flags
  <2>1. Len(types) + 1 \in Nat
    BY StructureFacts
  <2>. QED BY <2>1 DEF AnyHeading, Ids, Definition, Flags
<1>3. /\ opened \in Nat /\ Len(types) \in Nat /\ table \in Seq(ScopesOf(opened, Len(types)))
      /\ table \in Seq(Scopes) /\ table # <<>>
  BY StructureFacts
<1> HIDE DEF s, x
<1>4. LookupInCurrentScope(table, x) = Absent
  BY <1>1, <1>2, <1>3, LookupAtTop
<1>5. /\ Len(table') = Len(table) /\ Upto(table', table, Len(table))
      /\ \A k \in 1..Len(table), y \in Ids :
           table'[k].binds[y] = IF k = Len(table) /\ y = x THEN s ELSE table[k].binds[y]
  BY <1>1, <1>2, <1>3, <1>4, AddSymbolScopes
<1>6. 1 \in 1..1 /\ Len(table) = 1
  OBVIOUS
<1>7. \A y \in Ids : table'[1].binds[y] = IF y = x THEN s ELSE table[1].binds[y]
  BY <1>5, <1>6
<1>. QED BY <1>1, <1>2, <1>5, <1>6, <1>7 DEF s, x

\* The types of externs stay what they are.
LEMMA ExternsKept ==
  ASSUME Structure, Externs, Grows, phase \notin {"defs", "extens"}, phase' \notin {"defs", "extens"}
  PROVE  Externs'
<1>1. unit' = unit /\ types \in Seq(TypeInvokes) /\ types' \in Seq(TypeInvokes)
      /\ unit.extens \in Seq(AnyHeading)
  BY UnitFacts DEF Grows, Structure, Scalars
<1>2. ASSUME NEW i \in DOMAIN unit.extens
      PROVE  /\ i \in DOMAIN types' /\ types'[i].defined /\ types'[i].item = 0
             /\ table'[1].binds[unit.extens[i].name] = Definition(i, TRUE)
  <2>1. /\ i \in DOMAIN types /\ types[i].defined /\ types[i].item = 0
        /\ table[1].binds[unit.extens[i].name] = Definition(i, TRUE)
    BY DEF Externs
  <2>2. i \in 1..Len(types) /\ i \in 1..Len(types') /\ i \in Nat
    <3>1. i \in 1..Len(types) /\ Len(types) \in Nat /\ Len(types') \in Nat /\ Len(types) <= Len(types')
      BY <1>1, <2>1 DEF Grows
    <3>. QED BY <3>1
  <2>3. types'[i].defined /\ types'[i].item = 0 /\ i \in DOMAIN types'
    BY <1>1, <2>1, <2>2 DEF Grows
  <2>4. unit.extens[i].name \in Ids /\ Definition(i, TRUE) # Absent
    <3>1. unit.extens[i] \in AnyHeading
      BY <1>1
    <3>. QED BY <2>2, <3>1, DefinitionIsSymbol DEF AnyHeading, Ids
  <2>. QED BY <2>1, <2>3, <2>4 DEF Grows
<1>. QED BY <1>1, <1>2 DEF Externs

LEMMA ExternWalks ==
  ASSUME Structure, Structure', Externs, ~ errors', externStatement,
         NEW p, Facts(<<>>, p, table, opened, types, unit, 1)
  PROVE  Externs' /\ \E q : Facts(<<>>, q, table', opened', types', unit', 1)
<1> DEFINE h == unit.extens[next]
           t == Len(types) + 1
<1>1. /\ phase = "extens" /\ next <= Len(unit.extens) /\ stack = <<>>
      /\ Declare(h, TRUE, 0) /\ Len(table) = 1 /\ next \in Nat \ {0}
      /\ unit.extens \in Seq(AnyHeading)
  BY UnitFacts DEF externStatement, At, List, Structure, Listed, Scalars
<1>2. h \in AnyHeading /\ next \in DOMAIN unit.extens /\ h.name \in Ids \ {Return}
  <2>1. h \in AnyHeading /\ next \in DOMAIN unit.extens
    BY <1>1
  <2> HIDE DEF h
  <2>. QED BY <2>1, ReturnIsNoName DEF AnyHeading
<1>3. t = next
  <2>1. Len(types) = next - 1
    BY <1>1 DEF Externs
  <2>. QED BY <1>1, <2>1
<1>4. /\ Grows /\ UNCHANGED <<unit, phase>> /\ next' = next + 1
      /\ Len(types) \in Nat /\ DOMAIN types = 1..Len(types) /\ DOMAIN types' = 1..t
      /\ \A u \in 1..Len(types) : types'[u] = types[u]
      /\ types'[t].item = 0 /\ types'[t].defined = TRUE
  <2>1. TRUE \in BOOLEAN /\ 0 \in Nat
    OBVIOUS
  <2> HIDE DEF h
  <2>. QED BY <1>1, <1>2, <2>1, DeclareGrows
<1>5. /\ Len(table') = 1 /\ Upto(table', table, 1) /\ opened' = opened
      /\ table'[1].binds[h.name] = Definition(t, TRUE)
      /\ \A x \in Ids : x # h.name => table'[1].binds[x] = table[1].binds[x]
  <2> HIDE DEF h
  <2>. QED BY <1>1, <1>2, DeclareBinds
<1>6. Len(types') = t
  <2>1. types' \in Seq(TypeInvokes) /\ t \in Nat
    BY <1>4 DEF Grows
  <2>2. DOMAIN types' = 1..Len(types') /\ Len(types') \in Nat
    BY <2>1
  <2>. QED BY <1>4, <2>1, <2>2
<1>7. Definition(t, TRUE).type = t /\ Definition(t, TRUE).isGlobal /\ Definition(t, TRUE).isDefinition
  BY DEF Definition
<1>8. IsHead(t, h.name, types', table', unit')
  BY <1>2, <1>3, <1>4 DEF IsHead
<1> HIDE DEF t
<1>9. Externs'
  <2>1. ASSUME NEW i \in DOMAIN unit.extens, i < next'
        PROVE  /\ i \in DOMAIN types' /\ types'[i].defined /\ types'[i].item = 0
               /\ table'[1].binds[unit.extens[i].name] = Definition(i, TRUE)
    <3>1. i \in Nat \ {0}
      BY <1>1
    <3>2. CASE i < next
      <4>1. /\ i \in DOMAIN types /\ types[i].defined /\ types[i].item = 0
            /\ table[1].binds[unit.extens[i].name] = Definition(i, TRUE)
        BY <1>1, <3>2 DEF Externs
      <4>2. i \in 1..Len(types) /\ i \in 1..t
        BY <1>1, <1>3, <1>4, <3>1, <3>2, <4>1
      <4>3. unit.extens[i].name \in Ids /\ Definition(i, TRUE) # Absent
        <5>1. unit.extens[i] \in AnyHeading
          BY <1>1
        <5>. QED BY <3>1, <5>1, DefinitionIsSymbol DEF AnyHeading, Ids
      <4>. QED BY <1>4, <4>1, <4>2, <4>3 DEF Grows
    <3>3. CASE i = next
      <4>1. t \in 1..t
        BY <1>1, <1>3
      <4>. QED BY <1>3, <1>4, <1>5, <3>3, <4>1
    <3>4. i < next \/ i = next
      BY <1>1, <1>4, <2>1, <3>1
    <3>. QED BY <3>2, <3>3, <3>4
  <2>2. Len(types') = next' - 1
    BY <1>1, <1>3, <1>4, <1>6
  <2>. QED BY <1>1, <1>4, <2>1, <2>2 DEF Externs
<1>10. \E q : Facts(<<>>, q, table', opened', types', unit', 1)
  <2>1. ASSUME NEW x \in Ids \ {Return}
        PROVE  \/ table'[1].binds[x] = table[1].binds[x]
               \/ GlobalAt(<<>>, table'[1].binds[x], x, types', table', unit')
    <3> DEFINE s == Definition(t, TRUE)
    <3>1. table'[1].binds[x] = table[1].binds[x] \/ (x = h.name /\ table'[1].binds[x] = s)
      BY <1>5
    <3>2. s.type = t /\ s.isGlobal /\ s.isDefinition
      BY <1>7
    <3> HIDE DEF s, h
    <3>3. GlobalAt(<<>>, s, h.name, types', table', unit')
      BY <1>8, <3>2 DEF GlobalAt
    <3>. QED BY <3>1, <3>3
  <2>. QED BY <1>4, <1>5, <2>1, ListWalks
<1>. QED BY <1>9, <1>10

LEMMA ForwardWalks ==
  ASSUME Structure, Structure', Definitions, Definitions', Externs, ~ errors', forwardDeclare,
         NEW p, Facts(<<>>, p, table, opened, types, unit, 1)
  PROVE  Externs' /\ \E q : Facts(<<>>, q, table', opened', types', unit', 1)
<1>1. /\ phase = "forward" /\ next <= Len(unit.stmts) /\ stack = <<>> /\ Len(table) = 1
      /\ next \in DOMAIN unit.stmts /\ next \in Nat \ {0} /\ table \in Seq(Scopes) /\ table # <<>>
  <2>1. phase = "forward" /\ next <= Len(unit.stmts) /\ stack = <<>>
    BY DEF forwardDeclare, At, List
  <2>2. Len(table) = 1 /\ next \in Nat \ {0}
    BY <2>1 DEF Structure, Listed, Scalars
  <2>. QED BY <2>1, <2>2, NextInStmts, StructureFacts
<1>2. CASE unit.stmts[next].kind # "func"
  <2>1. UNCHANGED <<unit, phase, table, opened, types>>
    BY <1>2 DEF forwardDeclare
  <2>2. Grows
    <3>1. Extends(table', table)
      BY <1>1, <2>1, ExtendsFacts
    <3>. QED BY <2>1, <3>1, GrowsExtended
  <2>3. Externs'
    BY <1>1, <2>1, <2>2, ExternsKept
  <2>4. Facts(<<>>, p, table', opened', types', unit', 1)
    BY <2>1
  <2>. QED BY <2>3, <2>4
<1>3. CASE unit.stmts[next].kind = "func"
  <2> DEFINE h == unit.stmts[next].heading
             t == Len(types) + 1
  <2>1. Declare(h, FALSE, next) /\ h \in AnyHeading /\ next \in Functions
    BY <1>1, <1>3, NextInStmts DEF forwardDeclare, Functions
  <2> HIDE DEF h
  <2>2. Grows /\ UNCHANGED <<unit, phase>> /\ next' = next + 1
    <3>1. FALSE \in BOOLEAN /\ next \in Nat
      BY <1>1
    <3>. QED BY <1>1, <2>1, <3>1, DeclareGrows
  <2>3. /\ Len(table') = 1 /\ Upto(table', table, 1) /\ opened' = opened
        /\ table'[1].binds[h.name] = Definition(t, TRUE)
        /\ \A x \in Ids : x # h.name => table'[1].binds[x] = table[1].binds[x]
    BY <1>1, <2>1, DeclareBinds
  <2>4. IsHead(t, h.name, types', table', unit')
    <3>1. ~ errors' /\ phase' # "aborted" /\ next \in Ahead'
      <4>1. next < next'
        BY <1>1, <2>2
      <4>. QED BY <1>1, <2>1, <2>2, <4>1 DEF Ahead, Functions
    <3>2. PICK u \in DOMAIN types' : Made(types', table', unit', next, u)
      BY <3>1 DEF Definitions, DeclaredAhead, OwnType
    <3>3. t \in Nat /\ u \in Nat
      <4>1. types' \in Seq(TypeInvokes) /\ Len(types) \in Nat
        BY StructureFacts DEF Grows, Structure, Scalars
      <4>. QED BY <4>1
    <3>4. Definition(u, TRUE) = Definition(t, TRUE)
      BY <2>2, <2>3, <3>2 DEF Made, h
    <3> HIDE DEF t
    <3>5. u = t
      BY <3>3, <3>4, DefinitionIsSymbol
    <3>6. next \in FunctionsOf(unit') /\ unit'.stmts[next].heading.name = h.name
      BY <2>1, <2>2 DEF FunctionsOf, Functions, h
    <3>. QED BY <3>2, <3>5, <3>6 DEF IsHead
  <2>5. Definition(t, TRUE).type = t /\ Definition(t, TRUE).isGlobal /\ Definition(t, TRUE).isDefinition
    BY DEF Definition
  <2> HIDE DEF t
  <2>6. ASSUME NEW x \in Ids \ {Return}
        PROVE  \/ table'[1].binds[x] = table[1].binds[x]
               \/ GlobalAt(<<>>, table'[1].binds[x], x, types', table', unit')
    <3> DEFINE s == Definition(t, TRUE)
    <3>1. table'[1].binds[x] = table[1].binds[x] \/ (x = h.name /\ table'[1].binds[x] = s)
      BY <2>3
    <3>2. s.type = t /\ s.isGlobal /\ s.isDefinition
      BY <2>5
    <3> HIDE DEF s
    <3>3. GlobalAt(<<>>, s, h.name, types', table', unit')
      BY <2>4, <3>2 DEF GlobalAt
    <3>. QED BY <3>1, <3>3
  <2>7. \E q : Facts(<<>>, q, table', opened', types', unit', 1)
    BY <2>2, <2>3, <2>6, ListWalks
  <2>8. Externs'
    BY <1>1, <2>2, ExternsKept
  <2>. QED BY <2>7, <2>8
<1>. QED BY <1>2, <1>3

LEMMA EndOfListWalks ==
  ASSUME Structure, Externs, endOfList, NEW p, Facts(<<>>, p, table, opened, types, unit, 1)
  PROVE  /\ Externs' /\ phase' \in {"extens", "forward", "stmts"} /\ Begun' = 1
         /\ Facts(<<>>, p, table', opened', types', unit', 1)
<1>1. /\ phase \in {"defs", "extens", "forward"}
      /\ phase' \in {"extens", "forward", "stmts"}
      /\ phase' = "extens" <=> phase = "defs"
      /\ phase' = "forward" <=> phase = "extens"
      /\ next > Len(List) /\ next' = 1
      /\ UNCHANGED <<unit, table, opened, types, stack>>
  BY DEF endOfList, After
<1>2. stack = <<>>
  BY <1>1 DEF Structure, Listed
<1>3. Begun' = 1
  BY <1>1, <1>2 DEF Begun
<1>4. \A i \in DOMAIN unit.extens : i \in Nat \ {0} /\ i <= Len(unit.extens)
  <2>1. unit.extens \in Seq(AnyHeading)
    BY UnitFacts DEF Structure, Scalars
  <2>. QED BY <2>1
<1>5. CASE phase = "defs"
  <2>1. Len(types') = next' - 1
    BY <1>1, <1>5 DEF Externs
  <2>2. \A i \in DOMAIN unit.extens : ~ (i < 1)
    BY <1>4
  <2>. QED BY <1>1, <1>3, <1>5, <2>1, <2>2 DEF Externs
<1>6. CASE phase = "extens"
  <2>1. Len(List) = Len(unit.extens) /\ next \in Nat
    BY <1>6 DEF List, Structure, Scalars
  <2>2. Len(unit.extens) \in Nat
    <3>1. unit.extens \in Seq(AnyHeading)
      BY UnitFacts DEF Structure, Scalars
    <3>. QED BY <3>1
  <2>3. \A i \in DOMAIN unit.extens : i < next
    BY <1>1, <1>4, <2>1, <2>2
  <2>. QED BY <1>1, <1>3, <1>6, <2>3 DEF Externs
<1>7. CASE phase = "forward"
  BY <1>1, <1>3, <1>7 DEF Externs
<1>. QED BY <1>1, <1>5, <1>6, <1>7

-----------------------------------------------------------------------------
(* The steps of the analysis.                                                 *)

Analyses ==
  \/ analyseLists \/ analyseEnd \/ analyseBlock \/ analyseReturn
  \/ \E h \in Headings \union {unit.stmts[i].heading : i \in
                               {j \in DOMAIN unit.stmts : unit.stmts[j].kind = "func"}} :
        \E item \in 0..Len(unit.stmts) : analyseFunction(h, item)
  \/ \E h \in Headings : analyseLambda(h)
  \/ \E x \in Names, call \in BOOLEAN : analyseName(x, call)
  \/ \E x \in Names, d \in Declarations : <<x>> \in Declarators /\ analyseDeclaration(x, d)

Generates ==
  \/ nextList \/ TvisitExternStatement \/ predeclare
  \/ visitInvokeableCode \/ TvisitLambdaConstExpr \/ endOfBody
  \/ use \/ TvisitVarDeclStatement \/ finish

LEMMA TwoPasses == NamingNext <=> Analyses \/ Generates
BY DEF NamingNext, Analyses, Generates

LEMMA AnalysedFunction ==
  ASSUME NEW h, NEW item, analyseFunction(h, item)
  PROVE  /\ DefinesAt(h, item) /\ visitInvokeable(h, item) /\ visitFuncDef /\ phase' = "stmts"
         /\ phase = "stmts"
<1>1. DefinesAt(h, item) /\ visitInvokeable(h, item) /\ phase' = "stmts"
  BY DEF analyseFunction, DefinesAt, At, List
<1>2. visitFuncDef
  BY <1>1 DEF analyseFunction, visitFuncDef
<1>3. phase = "stmts"
  BY <1>1 DEF DefinesAt, AtStatement
<1>. QED BY <1>1, <1>2, <1>3

\* The analysis is the semantic pass, without errors.
LEMMA AnalysisNext ==
  ASSUME Structure, Analyses
  PROVE  Next /\ ~ errors' /\ pass = "semantic" /\ UNCHANGED generation
<1> DEFINE Recorded == ~ errors' /\ pass = "semantic" /\ UNCHANGED generation
<1>1. ASSUME NEW nodes, Records(nodes) PROVE Recorded
  BY <1>1 DEF Records
<1> HIDE DEF Recorded
<1>2. CASE analyseLists
  BY <1>1, <1>2 DEF analyseLists, Next, Recorded
<1>3. CASE analyseEnd
  BY <1>1, <1>3 DEF analyseEnd, Next, Recorded
<1>4. CASE analyseBlock
  <2>1. visitBlock(FALSE, TRUE) => \E ok \in BOOLEAN, hasElse \in BOOLEAN : visitBlock(hasElse, ok)
    OBVIOUS
  <2>2. Recorded
    BY <1>1, <1>4 DEF analyseBlock
  <2>3. CASE visitBlock(FALSE, TRUE)
    BY <2>1, <2>2, <2>3 DEF Next, Recorded
  <2>4. CASE endBlock
    BY <2>2, <2>4 DEF Next, Recorded
  <2>. QED BY <1>4, <2>3, <2>4 DEF analyseBlock
<1>5. CASE analyseReturn
  <2> DEFINE value == stack[Innermost].returns
  <2>1. returnStatement(value) /\ Recorded
    BY <1>1, <1>5 DEF analyseReturn
  <2>2. value \in BOOLEAN
    <3>1. stack # <<>>
      BY <2>1, StatementNext DEF returnStatement
    <3>2. Innermost \in DOMAIN stack /\ stack[Innermost].kind = "fn" /\ stack \in Seq(Handlers)
      BY <3>1, LookupReturn, StructureFacts
    <3>3. stack[Innermost] \in Handlers
      BY <3>2
    <3>. QED BY <3>2, <3>3, HandlerFacts
  <2> HIDE DEF value
  <2>. QED BY <2>1, <2>2 DEF Next, Recorded
<1>6. ASSUME NEW h, NEW item, analyseFunction(h, item) PROVE Next /\ Recorded
  <2>1. visitFuncDef
    BY <1>6, AnalysedFunction
  <2>2. Recorded
    BY <1>1, <1>6 DEF analyseFunction
  <2>. QED BY <2>1, <2>2 DEF Next
<1>7. ASSUME NEW h \in Headings, analyseLambda(h) PROVE Next /\ Recorded
  BY <1>1, <1>7 DEF analyseLambda, Next
<1>8. ASSUME NEW x \in Names, NEW call \in BOOLEAN, analyseName(x, call) PROVE Next /\ Recorded
  <2>1. Recorded /\ (invocation(x, TRUE) \/ assignStatement(x, TRUE))
    BY <1>1, <1>8 DEF analyseName
  <2>2. \E ok \in BOOLEAN, y \in Names : assignStatement(y, ok) \/ invocation(y, ok)
    BY <2>1
  <2>. QED BY <2>1, <2>2 DEF Next
<1>9. ASSUME NEW x \in Names, NEW d \in Declarations, <<x>> \in Declarators, analyseDeclaration(x, d)
      PROVE  Next /\ Recorded
  <2>1. Recorded /\ varDecl(<<x>>, d, TRUE)
    BY <1>1, <1>9 DEF analyseDeclaration
  <2>2. \E ok \in BOOLEAN, names \in Declarators, e \in Declarations : varDecl(names, e, ok)
    BY <1>9, <2>1
  <2>. QED BY <2>1, <2>2 DEF Next
<1>. QED BY <1>2, <1>3, <1>4, <1>5, <1>6, <1>7, <1>8, <1>9 DEF Analyses, Recorded

\* A step below the top level keeps what is known of the tree, or finds that a function
\* was taken ahead.
Walks ==
  /\ Grows /\ phase' \in {"stmts", "done"} /\ (phase' = "done" => ~ NoEntry')
  /\ TakenAhead => TakenAhead'
  /\ \A p : Facts(tree, p, table, opened, types, unit, Begun) =>
              TakenAhead' \/ \E q : Facts(tree', q, table', opened', types', unit', Begun')

LEMMA QuietWalks ==
  ASSUME Structure, Quiet,
         \A p : Facts(tree, p, table, opened, types, unit, Begun) =>
                  \E q : Facts(tree', q, table', opened', types', unit', Begun')
  PROVE  Walks
<1>1. Grows /\ phase' = "stmts" /\ phase' # "done"
  BY DEF Quiet
<1>2. TakenAhead => TakenAhead'
  BY QuietTaken
<1>. QED BY <1>1, <1>2 DEF Walks

LEMMA StatementWalks ==
  ASSUME Structure, Structure', Definitions, Externs, ~ errors, ~ errors', phase = "stmts", Analyses
  PROVE  Walks
<1>1. VisitedDefined
  BY DEF Definitions
<1> DEFINE Before(p) == Facts(tree, p, table, opened, types, unit, Begun)
           After2 == \E q : Facts(tree', q, table', opened', types', unit', Begun')
<1>2. ASSUME NEW p, Before(p) PROVE Walking(p) /\ tree \in Seq(Nodes) /\ tree \o <<>> = tree
  <2>1. Walking(p)
    BY <1>2 DEF Walking
  <2>2. tree \in Seq(Nodes)
    BY <2>1, WalkingFacts
  <2>. QED BY <2>1, <2>2, ConcatEmptySeq
<1>3. CASE analyseLists
  <2>1. endUnit /\ tree' = tree \o <<>>
    BY <1>3 DEF analyseLists, Records, endOfList, After, externStatement, forwardDeclare, At
  <2>2. phase' = "done" /\ UNCHANGED <<unit, next, table, opened, types, stack>>
    BY <2>1 DEF endUnit
  <2>3. Grows
    <3>1. Extends(table', table)
      BY <2>2, StructureFacts, ExtendsFacts
    <3>. QED BY <2>2, <3>1, GrowsExtended
  <2>4. TakenAhead => TakenAhead'
    BY <2>2 DEF TakenAhead, Functions, OwnType
  <2>5. ASSUME NEW p, Before(p) PROVE After2
    <3>1. Facts(tree, p, table', opened', types', unit', Begun')
      BY <1>2, <2>1, <2>5, EndUnitWalks
    <3>2. tree' = tree
      BY <1>2, <2>1, <2>5
    <3>. QED BY <3>1, <3>2
  <2>6. ~ NoEntry'
    <3>1. ~ NoEntry
      BY <2>1 DEF endUnit
    <3>. QED BY <2>2, <3>1 DEF NoEntry
  <2>. QED BY <2>2, <2>3, <2>4, <2>5, <2>6 DEF Walks
<1>4. CASE analyseEnd
  <2>1. endBody /\ tree' = tree \o <<[node |-> "end"]>>
    BY <1>4 DEF analyseEnd, Records
  <2>2. Quiet
    BY <1>1, <2>1, EndBodyQuiet
  <2>3. ASSUME NEW p, Before(p) PROVE After2
    BY <1>2, <2>1, <2>3, EndBodyWalks
  <2>. QED BY <2>2, <2>3, QuietWalks
<1>5. CASE analyseBlock
  <2>1. (visitBlock(FALSE, TRUE) \/ endBlock) /\ tree' = tree \o <<>>
    BY <1>5 DEF analyseBlock, Records
  <2>2. Quiet
    <3>1. FALSE \in BOOLEAN /\ TRUE \in BOOLEAN
      OBVIOUS
    <3>. QED BY <2>1, <3>1, VisitBlockQuiet, EndBlockQuiet
  <2>3. ASSUME NEW p, Before(p) PROVE After2
    <3>1. Facts(tree, p, table', opened', types', unit', Begun')
      BY <1>2, <2>1, <2>3, BlockWalks, EndBlockWalks
    <3>2. tree' = tree
      BY <1>2, <2>1, <2>3
    <3>. QED BY <3>1, <3>2
  <2>. QED BY <2>2, <2>3, QuietWalks
<1>6. CASE analyseReturn
  <2> DEFINE value == stack[Innermost].returns
  <2>1. returnStatement(value) /\ tree' = tree \o <<>>
    BY <1>6 DEF analyseReturn, Records
  <2>2. Quiet
    <3>1. stack # <<>>
      BY <2>1, StatementNext DEF returnStatement
    <3>2. Innermost \in DOMAIN stack /\ stack[Innermost].kind = "fn" /\ stack \in Seq(Handlers)
      BY <3>1, LookupReturn, StructureFacts
    <3>3. stack[Innermost] \in Handlers
      BY <3>2
    <3>4. value \in BOOLEAN
      BY <3>2, <3>3, HandlerFacts
    <3> HIDE DEF value
    <3>. QED BY <2>1, <3>4, ReturnQuiet
  <2>3. ASSUME NEW p, Before(p) PROVE After2
    <3>1. Facts(tree, p, table', opened', types', unit', Begun')
      BY <1>2, <2>1, <2>3, ReturnWalks
    <3>2. tree' = tree
      BY <1>2, <2>1, <2>3
    <3>. QED BY <3>1, <3>2
  <2>. QED BY <2>2, <2>3, QuietWalks
<1>7. ASSUME NEW h, NEW item, analyseFunction(h, item) PROVE Walks
  <2>1. DefinesAt(h, item) /\ visitInvokeable(h, item) /\ phase' = "stmts"
    BY <1>7, AnalysedFunction
  <2>2. \E f, t : Opens(f, t)
    <3>1. ~ redeclared(h, item)
      BY DEF redeclared, Finishes
    <3>2. phase' # "aborted" /\ DeclaredAhead
      BY <2>1 DEF Definitions
    <3>3. defineFunction(h, item) => \E f, t : Opens(f, t)
      BY <2>1, <3>2, DefineFunctionOpens
    <3>4. defineDeclared(h, item) => \E f, t : Opens(f, t)
      BY <1>1, <2>1, <3>2, DefineDeclaredOpens
    <3>. QED BY <2>1, <3>1, <3>3, <3>4 DEF visitInvokeable
  <2>3. Grows /\ (TakenAhead => TakenAhead') /\ phase' # "done"
    BY <2>1, <2>2, OpensTaken DEF Opens
  <2>4. ASSUME NEW p, Before(p) PROVE TakenAhead' \/ After2
    <3>1. tree' = tree \o <<[node |-> "func", site |-> <<ScopeId(table), h.name>>,
                            type |-> stack'[Len(stack')].type, item |-> item,
                            params |-> h.params, scope |-> ScopeId(table')]>>
      BY <1>7 DEF analyseFunction, Records
    <3>. QED BY <1>2, <2>1, <2>4, <3>1, FunctionWalks
  <2>. QED BY <2>1, <2>3, <2>4 DEF Walks
<1>8. ASSUME NEW h \in Headings, analyseLambda(h) PROVE Walks
  <2>1. visitLambda(h) /\ tree' = tree \o <<[node |-> "lambda", params |-> h.params, scope |-> ScopeId(table')]>>
    BY <1>8 DEF analyseLambda, Records
  <2>2. \E f, t : Opens(f, t)
    BY <2>1, VisitLambdaOpens
  <2>3. Grows /\ (TakenAhead => TakenAhead') /\ phase' = "stmts" /\ phase' # "done"
    BY <2>2, OpensTaken DEF Opens
  <2>4. ASSUME NEW p, Before(p) PROVE After2
    BY <1>2, <2>1, <2>4, LambdaWalks
  <2>. QED BY <2>3, <2>4 DEF Walks
<1>9. ASSUME NEW x \in Names, NEW call \in BOOLEAN, analyseName(x, call) PROVE Walks
  <2>1. /\ IF call THEN invocation(x, TRUE) ELSE assignStatement(x, TRUE)
        /\ tree' = tree \o <<Use(table, x, IF call THEN "call" ELSE "assign")>>
    BY <1>9 DEF analyseName, Records
  <2>2. Quiet
    <3>1. TRUE \in BOOLEAN
      OBVIOUS
    <3>. QED BY <2>1, <3>1, AssignQuiet
  <2>3. ASSUME NEW p, Before(p) PROVE After2
    BY <1>2, <2>1, <2>3, NameWalks
  <2>. QED BY <2>2, <2>3, QuietWalks
<1>10. ASSUME NEW x \in Names, NEW d \in Declarations, <<x>> \in Declarators, analyseDeclaration(x, d)
       PROVE  Walks
  <2>1. /\ varDecl(<<x>>, d, TRUE)
        /\ tree' = tree \o ((IF d.how = "var" THEN <<Use(table, d.from, "read")>> ELSE <<>>)
                            \o <<[node |-> "decl", site |-> <<ScopeId(table), x>>,
                                  isGlobal |-> isGlobalScope]>>)
    BY <1>10 DEF analyseDeclaration, Records
  <2>2. Quiet
    <3>1. TRUE \in BOOLEAN
      OBVIOUS
    <3>. QED BY <1>10, <2>1, <3>1, VarDeclQuiet
  <2>3. ASSUME NEW p, Before(p) PROVE After2
    BY <1>2, <1>10, <2>1, <2>3, DeclarationWalks
  <2>. QED BY <2>2, <2>3, QuietWalks
<1>. QED BY <1>3, <1>4, <1>5, <1>6, <1>7, <1>8, <1>9, <1>10 DEF Analyses

LEMMA AnalysisInit ==
  ASSUME NamingInit
  PROVE  AnalysisInv
<1>1. Init /\ tree = <<>>
  BY DEF NamingInit
<1> DEFINE s == [id |-> 0, fenced |-> FALSE, binds |-> [x \in Ids |-> Absent]]
<1>2. Structure /\ Definitions /\ ~ errors /\ phase = "defs" /\ types = <<>> /\ table = <<s>>
      /\ stack = <<>>
  BY <1>1, InitStructure, InitDefinitions DEF Init
<1>3. Externs
  BY <1>2 DEF Externs
<1>4. s.id = 0 /\ ~ s.fenced /\ \A x \in Ids : s.binds[x] = Absent
  OBVIOUS
<1> HIDE DEF s
<1>5. Len(table) = 1 /\ table[1] = s
  BY <1>2
<1>6. FunctionsOf(unit) \subseteq Nat \ {0}
  <2>1. ASSUME NEW i \in Functions PROVE i \in Nat \ {0}
    BY <1>2, FunctionFacts
  <2>. QED BY <2>1 DEF FunctionsOf, Functions
<1>7. GlobalsBound(<<>>, table, types, unit)
  BY <1>4, <1>5 DEF GlobalsBound, GlobalAt
<1>8. \E p : Facts(<<>>, p, table, opened, types, unit, 1)
  BY <1>4, <1>5, <1>6, <1>7, FactsOfEmpty
<1>. QED BY <1>1, <1>2, <1>3, <1>8 DEF AnalysisInv

LEMMA AnalysisStep ==
  ASSUME AnalysisInv, Analyses
  PROVE  AnalysisInv'
<1>1. Structure /\ Definitions /\ Externs /\ ~ errors /\ phase # "aborted"
  BY DEF AnalysisInv
<1>2. Next /\ ~ errors'
  BY <1>1, AnalysisNext
<1>3. Structure' /\ Definitions'
  BY <1>1, <1>2, NextStructure, NextDefinitions
<1>4. phase \in Phases
  BY <1>1 DEF Structure, Scalars
<1>5. CASE phase = "stmts"
  <2>1. Walks
    BY <1>1, <1>2, <1>3, <1>5, StatementWalks
  <2>2. /\ phase' \in {"stmts", "done"} /\ phase' # "aborted" /\ Externs'
        /\ phase' = "done" => ~ NoEntry'
    BY <1>1, <1>5, <2>1, ExternsKept DEF Walks
  <2>3. TakenAhead' \/ \E q : Facts(tree', q, table', opened', types', unit', Begun')
    <3>1. TakenAhead \/ \E p : Facts(tree, p, table, opened, types, unit, Begun)
      BY <1>5 DEF AnalysisInv
    <3>. QED BY <2>1, <3>1 DEF Walks
  <2>. QED BY <1>2, <1>3, <2>2, <2>3 DEF AnalysisInv
<1>6. CASE phase \in {"defs", "extens", "forward"}
  <2>1. analyseLists
    <3>1. ~ analyseEnd
      BY <1>6 DEF analyseEnd, endBody, EndsBody, In
    <3>2. ~ analyseBlock
      BY <1>6 DEF analyseBlock, visitBlock, AtStatement, endBlock, In
    <3>3. ~ analyseReturn
      BY <1>6 DEF analyseReturn, returnStatement, AtStatement
    <3>4. ASSUME NEW h, NEW item PROVE ~ analyseFunction(h, item)
      BY <1>6, AnalysedFunction
    <3>5. ASSUME NEW h PROVE ~ analyseLambda(h)
      BY <1>6 DEF analyseLambda, visitLambda, AtStatement
    <3>6. ASSUME NEW x, NEW call PROVE ~ analyseName(x, call)
      BY <1>6 DEF analyseName, invocation, assignStatement, AtStatement
    <3>7. ASSUME NEW x, NEW d PROVE ~ analyseDeclaration(x, d)
      BY <1>6 DEF analyseDeclaration, varDecl, AtStatement, At
    <3>. QED BY <3>1, <3>2, <3>3, <3>4, <3>5, <3>6, <3>7 DEF Analyses
  <2>2. tree = <<>> /\ tree' = <<>>
    <3>1. tree = <<>>
      BY <1>6 DEF AnalysisInv
    <3>2. tree' = tree \o <<>>
      BY <2>1 DEF analyseLists, Records
    <3>. QED BY <3>1, <3>2
  <2>3. PICK p : Facts(<<>>, p, table, opened, types, unit, 1)
    BY <1>6, <2>2 DEF AnalysisInv
  <2>4. CASE endOfList
    <3>1. /\ Externs' /\ phase' \in {"extens", "forward", "stmts"} /\ Begun' = 1
          /\ Facts(<<>>, p, table', opened', types', unit', 1)
      BY <1>1, <2>3, <2>4, EndOfListWalks
    <3>2. phase' # "aborted" /\ phase' # "done"
      BY <3>1
    <3> DEFINE b2 == IF phase' \in {"stmts", "done"} THEN Begun' ELSE 1
    <3>3. b2 = 1
      BY <3>1
    <3> HIDE DEF b2
    <3>4. \E q : Facts(tree', q, table', opened', types', unit', b2)
      BY <2>2, <3>1, <3>3
    <3>. QED BY <1>2, <1>3, <2>2, <3>1, <3>2, <3>4 DEF AnalysisInv, b2
  <2>5. CASE externStatement \/ forwardDeclare
    <3>1. phase' = phase
      BY <2>5 DEF externStatement, forwardDeclare, Declare
    <3>2. Externs' /\ \E q : Facts(<<>>, q, table', opened', types', unit', 1)
      BY <1>1, <1>2, <1>3, <2>3, <2>5, ExternWalks, ForwardWalks
    <3>3. phase' # "aborted" /\ phase' \notin {"stmts", "done"} /\ phase' # "done"
      BY <1>6, <3>1
    <3> DEFINE b2 == IF phase' \in {"stmts", "done"} THEN Begun' ELSE 1
    <3>4. b2 = 1
      BY <3>3
    <3> HIDE DEF b2
    <3>5. \E q : Facts(tree', q, table', opened', types', unit', b2)
      BY <2>2, <3>2, <3>4
    <3>. QED BY <1>2, <1>3, <2>2, <3>2, <3>3, <3>5 DEF AnalysisInv, b2
  <2>6. ~ endUnit
    BY <1>6 DEF endUnit
  <2>. QED BY <2>1, <2>4, <2>5, <2>6 DEF analyseLists
<1>7. CASE phase = "done"
  <2>1. ~ analyseLists
    BY <1>7 DEF analyseLists, endOfList, After, externStatement, forwardDeclare, At, endUnit
  <2>2. ~ analyseEnd
    BY <1>7 DEF analyseEnd, endBody, EndsBody, In
  <2>3. ~ analyseBlock
    BY <1>7 DEF analyseBlock, visitBlock, AtStatement, endBlock, In
  <2>4. ~ analyseReturn
    BY <1>7 DEF analyseReturn, returnStatement, AtStatement
  <2>5. ASSUME NEW h, NEW item PROVE ~ analyseFunction(h, item)
    BY <1>7, AnalysedFunction
  <2>6. ASSUME NEW h PROVE ~ analyseLambda(h)
    BY <1>7 DEF analyseLambda, visitLambda, AtStatement
  <2>7. ASSUME NEW x, NEW call PROVE ~ analyseName(x, call)
    BY <1>7 DEF analyseName, invocation, assignStatement, AtStatement
  <2>8. ASSUME NEW x, NEW d PROVE ~ analyseDeclaration(x, d)
    BY <1>7 DEF analyseDeclaration, varDecl, AtStatement, At
  <2>. QED BY <2>1, <2>2, <2>3, <2>4, <2>5, <2>6, <2>7, <2>8 DEF Analyses
<1>. QED BY <1>1, <1>4, <1>5, <1>6, <1>7 DEF Phases

\* Nothing but the analysis changes what it has found.
LEMMA AnalysisKept ==
  ASSUME AnalysisInv, UNCHANGED <<vars, tree>>
  PROVE  AnalysisInv'
<1>1. UNCHANGED <<unit, phase, next, table, opened, types, stack, errors, bodies, slips, tree>>
  BY DEF vars
<1>2. Structure' /\ Definitions'
  BY StutterStructure, StutterDefinitions DEF AnalysisInv
<1>3. Begun' = Begun
  BY <1>1 DEF Begun
<1>4. Externs'
  BY <1>1 DEF AnalysisInv, Externs
<1>5. TakenAhead => TakenAhead'
  BY <1>1 DEF TakenAhead, Functions, OwnType
<1>6. /\ ~ errors' /\ phase' # "aborted" /\ (phase' \in {"defs", "extens", "forward"} => tree' = <<>>)
      /\ phase' = "done" => ~ NoEntry'
  BY <1>1 DEF AnalysisInv, NoEntry
<1>7. \/ phase' \in {"stmts", "done"} /\ TakenAhead'
      \/ \E p : Facts(tree', p, table', opened', types', unit',
                      IF phase' \in {"stmts", "done"} THEN Begun' ELSE 1)
  BY <1>1, <1>3, <1>5 DEF AnalysisInv
<1>. QED BY <1>2, <1>4, <1>6, <1>7 DEF AnalysisInv
-----------------------------------------------------------------------------
(* What is known of a program that was accepted.                              *)

AcceptedWith(p) ==
  /\ AnalysisInv /\ Accepted /\ Facts(tree, p, table, opened, types, unit, next)

LEMMA UnitTyped ==
  ASSUME Structure
  PROVE  /\ unit.extens \in Seq(AnyHeading) /\ Len(unit.extens) \in Nat
         /\ DOMAIN unit.extens = 1..Len(unit.extens)
         /\ \A i \in DOMAIN unit.extens : unit.extens[i].name \in Names
         /\ Len(unit.stmts) \in Nat /\ DOMAIN unit.stmts = 1..Len(unit.stmts)
         /\ \A i \in DOMAIN unit.stmts : unit.stmts[i].kind \in {"var", "func"}
         /\ \A i \in FunctionsOf(unit) : /\ i \in 1..Len(unit.stmts) /\ i \in Nat \ {0}
                                         /\ unit.stmts[i].heading.name \in Names
<1>1. unit \in Units
  BY DEF Structure, Scalars
<1>2. /\ unit.extens \in Seq(AnyHeading)
      /\ unit.stmts \in Seq([kind : {"var"}] \union [kind : {"func"}, heading : AnyHeading])
      /\ \A i \in DOMAIN unit.stmts : /\ i \in Nat \ {0}
                                      /\ unit.stmts[i].kind \in {"var", "func"}
                                      /\ unit.stmts[i].kind = "func" =>
                                           unit.stmts[i].heading \in AnyHeading
  BY <1>1, UnitFacts
<1>3. \A h \in AnyHeading : h.name \in Names
  BY DEF AnyHeading
<1>. QED BY <1>2, <1>3 DEF FunctionsOf

LEMMA AcceptedFacts ==
  ASSUME AnalysisInv, Accepted
  PROVE  /\ Structure /\ phase = "done" /\ stack = <<>> /\ Len(table) = 1 /\ ~ NoEntry
         /\ \A i \in FunctionsOf(unit) : i < next
         /\ \A i \in DOMAIN unit.extens :
              /\ i \in DOMAIN types /\ table[1].binds[unit.extens[i].name] = Definition(i, TRUE)
         /\ \E p : AcceptedWith(p)
<1>1. Structure /\ phase = "done" /\ ~ NoEntry /\ Externs
  BY DEF AnalysisInv, Accepted
<1>2. stack = <<>> /\ next > Len(unit.stmts) /\ next \in Nat
  BY <1>1 DEF Structure, Listed, Scalars
<1>3. Len(table) = 1
  <2>1. Len(table) = 1 + Count(Positions(stack), Len(stack))
    BY <1>1 DEF Structure, Frames, Follows
  <2>2. Len(stack) = 0
    BY <1>2
  <2>3. Count(Positions(stack), 0) = 0
    BY CountFacts
  <2>. QED BY <2>1, <2>2, <2>3
<1>4. \A i \in FunctionsOf(unit) : i < next /\ i # next /\ ~ (i > next)
  BY <1>1, <1>2, UnitTyped
<1>5. \A i \in DOMAIN unit.extens :
        /\ i \in DOMAIN types /\ table[1].binds[unit.extens[i].name] = Definition(i, TRUE)
  BY <1>1 DEF Externs
<1>6. ~ TakenAhead
  BY <1>4 DEF TakenAhead, Functions, FunctionsOf
<1>7. \E p : Facts(tree, p, table, opened, types, unit, next)
  <2>1. Begun = next
    BY <1>2 DEF Begun
  <2>. QED BY <1>1, <1>6, <2>1 DEF AnalysisInv
<1>8. \E p : AcceptedWith(p)
  BY <1>7 DEF AcceptedWith
<1>. QED BY <1>1, <1>2, <1>3, <1>4, <1>5, <1>8

LEMMA DefinitionsDiffer ==
  ASSUME NEW t, NEW d, Definition(t, TRUE) = Definition(d, TRUE)
  PROVE  t = d
<1>1. Definition(t, TRUE).type = t /\ Definition(d, TRUE).type = d
  BY DEF Definition
<1>. QED BY <1>1

\* A function of the unit has one node.
IsOwn(e, i) == e \in DOMAIN tree /\ tree[e].node = "func" /\ tree[e].item = i

LEMMA FunctionNode ==
  ASSUME NEW p, AcceptedWith(p), NEW e \in DOMAIN tree, tree[e].node = "func"
  PROVE  /\ tree[e].site \in Sites /\ tree[e].item \in Nat
         /\ tree[e].type \in DOMAIN types /\ tree[e].type > Len(unit.extens)
         /\ tree[e].type \in Nat \ {0} /\ tree[e].type \notin DOMAIN unit.extens
         /\ tree[e].item = 0 => tree[e].site[1] # 0
         /\ tree[e].item # 0 => /\ tree[e].item \in FunctionsOf(unit)
                                /\ Made(types, table, unit, tree[e].item, tree[e].type)
                                /\ tree[e].site = <<0, unit.stmts[tree[e].item].heading.name>>
<1>1. FunctionsMade(tree, table, types, unit) /\ Paths(p, tree) /\ Structure
  BY DEF AcceptedWith, Facts, AnalysisInv
<1>2. tree[e] \in Nodes
  BY <1>1 DEF Paths
<1>3. /\ tree[e].site \in Sites /\ tree[e].item \in Nat /\ tree[e].type \in Nat \ {0}
  BY <1>2, NodeFacts
<1>4. /\ tree[e].type \in DOMAIN types /\ tree[e].type > Len(unit.extens)
      /\ tree[e].item = 0 => tree[e].site[1] # 0
      /\ tree[e].item # 0 => /\ tree[e].item \in FunctionsOf(unit)
                             /\ Made(types, table, unit, tree[e].item, tree[e].type)
                             /\ tree[e].site = <<0, unit.stmts[tree[e].item].heading.name>>
  BY <1>1 DEF FunctionsMade
<1>5. tree[e].type \notin DOMAIN unit.extens
  BY <1>1, <1>3, <1>4, UnitTyped
<1>. QED BY <1>3, <1>4, <1>5

LEMMA TypesApart ==
  ASSUME NEW p, AcceptedWith(p), NEW d \in DOMAIN tree, NEW e \in DOMAIN tree,
         tree[d].node = "func", tree[e].node = "func", tree[d].type = tree[e].type
  PROVE  d = e
BY DEF AcceptedWith, Facts, FunctionsMade

LEMMA OwnNode ==
  ASSUME NEW p, AcceptedWith(p), NEW i \in FunctionsOf(unit)
  PROVE  /\ \E e : IsOwn(e, i)
         /\ \A d, e : IsOwn(d, i) /\ IsOwn(e, i) => d = e
<1>1. i < next /\ Structure
  BY AcceptedFacts DEF AcceptedWith
<1>2. Covers(tree, unit, next)
  BY DEF AcceptedWith, Facts
<1>3. \E e : IsOwn(e, i)
  BY <1>1, <1>2 DEF Covers, IsOwn
<1>4. i \in Nat \ {0}
  BY <1>1, UnitTyped
<1>5. ASSUME NEW d, NEW e, IsOwn(d, i), IsOwn(e, i) PROVE d = e
  <2>1. /\ d \in DOMAIN tree /\ tree[d].node = "func" /\ tree[d].item = i
        /\ e \in DOMAIN tree /\ tree[e].node = "func" /\ tree[e].item = i
    BY <1>5 DEF IsOwn
  <2>2. Made(types, table, unit, i, tree[d].type) /\ Made(types, table, unit, i, tree[e].type)
    BY <1>4, <2>1, FunctionNode
  <2>3. Definition(tree[d].type, TRUE) = Definition(tree[e].type, TRUE)
    BY <2>2 DEF Made
  <2>4. tree[d].type = tree[e].type
    BY <2>3, DefinitionsDiffer
  <2>. QED BY <2>1, <2>4, TypesApart
<1>. QED BY <1>3, <1>5

\* The heads of the unit have different names.
LEMMA HeadsApart ==
  ASSUME NEW p, AcceptedWith(p)
  PROVE  /\ \A i, k \in DOMAIN unit.extens : unit.extens[i].name = unit.extens[k].name => i = k
         /\ \A i, k \in FunctionsOf(unit) :
              unit.stmts[i].heading.name = unit.stmts[k].heading.name => i = k
         /\ \A i \in FunctionsOf(unit), k \in DOMAIN unit.extens :
              unit.stmts[i].heading.name # unit.extens[k].name
<1>1. /\ \A i \in DOMAIN unit.extens :
           table[1].binds[unit.extens[i].name] = Definition(i, TRUE)
      /\ Structure
  BY AcceptedFacts DEF AcceptedWith
<1>2. ASSUME NEW i \in FunctionsOf(unit)
      PROVE  \E t : /\ t \notin DOMAIN unit.extens /\ types[t].item = i
                    /\ table[1].binds[unit.stmts[i].heading.name] = Definition(t, TRUE)
  <2>1. PICK e : IsOwn(e, i)
    BY <1>2, OwnNode
  <2>2. e \in DOMAIN tree /\ tree[e].node = "func" /\ tree[e].item = i /\ i \in Nat \ {0}
    BY <1>1, <1>2, <2>1, UnitTyped DEF IsOwn
  <2>3. tree[e].type \notin DOMAIN unit.extens /\ Made(types, table, unit, i, tree[e].type)
    BY <2>2, FunctionNode
  <2>. QED BY <2>3 DEF Made
<1>3. ASSUME NEW i \in DOMAIN unit.extens, NEW k \in DOMAIN unit.extens,
             unit.extens[i].name = unit.extens[k].name
      PROVE  i = k
  <2>1. Definition(i, TRUE) = Definition(k, TRUE)
    BY <1>1, <1>3
  <2>. QED BY <2>1, DefinitionsDiffer
<1>4. ASSUME NEW i \in FunctionsOf(unit), NEW k \in FunctionsOf(unit),
             unit.stmts[i].heading.name = unit.stmts[k].heading.name
      PROVE  i = k
  <2>1. PICK t : types[t].item = i /\ table[1].binds[unit.stmts[i].heading.name] = Definition(t, TRUE)
    BY <1>2
  <2>2. PICK s : types[s].item = k /\ table[1].binds[unit.stmts[k].heading.name] = Definition(s, TRUE)
    BY <1>2
  <2>3. t = s
    BY <1>4, <2>1, <2>2, DefinitionsDiffer
  <2>. QED BY <2>1, <2>2, <2>3
<1>5. ASSUME NEW i \in FunctionsOf(unit), NEW k \in DOMAIN unit.extens,
             unit.stmts[i].heading.name = unit.extens[k].name
      PROVE  FALSE
  <2>1. PICK t : /\ t \notin DOMAIN unit.extens
                 /\ table[1].binds[unit.stmts[i].heading.name] = Definition(t, TRUE)
    BY <1>2
  <2>2. Definition(t, TRUE) = Definition(k, TRUE)
    BY <1>1, <1>5, <2>1
  <2>3. t = k
    BY <2>2, DefinitionsDiffer
  <2>. QED BY <1>5, <2>1, <2>3
<1>. QED BY <1>3, <1>4, <1>5

-----------------------------------------------------------------------------
(* Values of the module.                                                      *)

Labels == Ids \union {"LAM"}

LEMMA ValueFacts ==
  ASSUME NEW v \in Values
  PROVE  /\ v.kind \in {"fn", "var"} /\ v.name \in Labels \X Nat /\ v.site \in Nat \X Labels
         /\ v.name = <<v.name[1], v.name[2]>> /\ v.name[1] \in Labels /\ v.name[2] \in Nat
         /\ v.public \in BOOLEAN /\ v.bodies \in Nat
BY DEF Values, Labels

LEMMA ModuleFacts ==
  ASSUME NEW md \in Seq(Values)
  PROVE  /\ Len(md) \in Nat /\ DOMAIN md = 1..Len(md)
         /\ \A i \in DOMAIN md : i \in Nat \ {0} /\ md[i] \in Values /\ i - 1 \in Nat
OBVIOUS

\* Values have different names.
LEMMA NamesDiffer ==
  ASSUME NEW md \in Seq(Values), Numbered(md), NEW i \in DOMAIN md, NEW j \in DOMAIN md,
         md[i].name = md[j].name
  PROVE  i = j
<1>1. SUFFICES ASSUME NEW k \in DOMAIN md, NEW l \in DOMAIN md, k < l, md[k].name = md[l].name
      PROVE  FALSE
  <2>1. i \in Nat /\ j \in Nat
    BY ModuleFacts
  <2>. QED BY <1>1, <2>1
<1> DEFINE C == Called(md, md[k].name[1])
<1>2. /\ md[k].name[2] = Count(C, k - 1)
      /\ md[l].name[2] = Count(C, l - 1)
  BY <1>1 DEF Numbered
<1>3. k \in C
  BY DEF Called
<1>4. k \in Nat \ {0} /\ l \in Nat \ {0} /\ k - 1 \in Nat /\ l - 1 \in Nat
  BY ModuleFacts
<1> HIDE DEF C
<1>5. Count(C, k - 1) < Count(C, k) /\ Count(C, k - 1) \in Nat /\ Count(C, k) \in Nat
  BY <1>3, <1>4, CountGrows
<1>6. Count(C, l - 1) \in Nat /\ (k < l - 1 => Count(C, k) <= Count(C, l - 1))
  BY <1>4, CountGrows
<1>7. k = l - 1 \/ k < l - 1
  BY <1>1, <1>4
<1>8. Count(C, k) <= Count(C, l - 1)
  BY <1>5, <1>6, <1>7
<1>9. Count(C, k - 1) = Count(C, l - 1)
  BY <1>1, <1>2
<1>. QED BY <1>5, <1>6, <1>8, <1>9

\* The number a name gets: of the values that have the text.
LEMMA CalledCount ==
  ASSUME NEW md \in Seq(Values), NEW x
  PROVE  /\ Cardinality({j \in DOMAIN md : md[j].name[1] = x}) = Count(Called(md, x), Len(md))
         /\ Count(Called(md, x), Len(md)) \in Nat
         /\ (\A j \in DOMAIN md : md[j].name[1] # x) => Count(Called(md, x), Len(md)) = 0
<1>1. Len(md) \in Nat /\ DOMAIN md = 1..Len(md)
  BY ModuleFacts
<1>2. {j \in DOMAIN md : md[j].name[1] = x} = {j \in 1..Len(md) : j \in Called(md, x)}
  BY <1>1 DEF Called
<1>3. Count(Called(md, x), Len(md)) \in Nat
  BY <1>1, CountFacts
<1>4. ASSUME \A j \in DOMAIN md : md[j].name[1] # x PROVE Count(Called(md, x), Len(md)) = 0
  <2>1. {j \in 1..Len(md) : j \in Called(md, x)} = {}
    BY <1>1, <1>4 DEF Called
  <2>. QED BY <2>1, FS_EmptySet DEF Count
<1>. QED BY <1>2, <1>3, <1>4 DEF Count

\* Values that have the same names as before, and at most one more, which was numbered.
LEMMA NumberedKept ==
  ASSUME NEW md \in Seq(Values), Numbered(md), NEW m2 \in Seq(Values), Len(md) <= Len(m2),
         \A i \in DOMAIN md : m2[i].name = md[i].name,
         \A i \in DOMAIN m2 : i \notin DOMAIN md =>
            i = Len(md) + 1 /\ m2[i].name[2] = Count(Called(md, m2[i].name[1]), Len(md))
  PROVE  Numbered(m2)
<1>1. /\ Len(md) \in Nat /\ DOMAIN md = 1..Len(md)
      /\ Len(m2) \in Nat /\ DOMAIN m2 = 1..Len(m2)
  BY ModuleFacts
<1>2. ASSUME NEW i \in DOMAIN m2 PROVE m2[i].name[2] = Count(Called(m2, m2[i].name[1]), i - 1)
  <2> DEFINE x == m2[i].name[1]
  <2>1. i \in Nat \ {0} /\ i - 1 \in Nat
    BY <1>1
  <2>2. i - 1 <= Len(md)
    BY <1>1, <1>2
  <2>3. \A j \in 1..(i - 1) : j \in DOMAIN md /\ j \in DOMAIN m2
    BY <1>1, <2>1, <2>2
  <2>4. \A j \in 1..(i - 1) : j \in Called(md, x) <=> j \in Called(m2, x)
    BY <2>3 DEF Called
  <2>5. m2[i].name[2] = Count(Called(md, x), i - 1)
    <3>1. CASE i \in DOMAIN md
      BY <3>1 DEF Numbered
    <3>2. CASE i \notin DOMAIN md
      <4>1. i - 1 = Len(md)
        BY <1>1, <1>2, <3>2
      <4>. QED BY <1>2, <3>2, <4>1
    <3>. QED BY <3>1, <3>2
  <2> HIDE DEF x
  <2>6. Count(Called(md, x), i - 1) = Count(Called(m2, x), i - 1)
    BY <2>1, <2>4, CountSame
  <2>. QED BY <2>5, <2>6 DEF x
<1>. QED BY <1>2 DEF Numbered

\* What is asked of the module by its name is the value that has it.
LEMMA NamedIs ==
  ASSUME module \in Seq(Values), Numbered(module), NEW i \in DOMAIN module
  PROVE  Named(module[i].kind, module[i].name) = i
<1>1. \A j \in DOMAIN module : module[j].name = module[i].name => j = i
  BY NamesDiffer
<1>2. /\ \E j \in DOMAIN module : module[j].kind = module[i].kind /\ module[j].name = module[i].name
      /\ (CHOOSE j \in DOMAIN module : /\ module[j].kind = module[i].kind
                                       /\ module[j].name = module[i].name) = i
  BY <1>1
<1>. QED BY <1>2 DEF Named

LEMMA UniqueFacts ==
  ASSUME module \in Seq(Values), NEW x \in Labels
  PROVE  /\ Unique(x) = <<x, Count(Called(module, x), Len(module))>>
         /\ Unique(x) \in Labels \X Nat
         /\ (\A j \in DOMAIN module : module[j].name[1] # x) => Unique(x) = <<x, 0>>
BY CalledCount DEF Unique

\* The module as before, but for bodies and at most one more value, that was numbered.
Lengthens(md, m2) ==
  /\ md \in Seq(Values) /\ m2 \in Seq(Values)
  /\ Len(m2) \in {Len(md), Len(md) + 1}
  /\ \A i \in DOMAIN md : /\ m2[i].kind = md[i].kind /\ m2[i].name = md[i].name
                          /\ m2[i].site = md[i].site /\ m2[i].public = md[i].public
  /\ \A i \in DOMAIN m2 : i \notin DOMAIN md =>
        i = Len(md) + 1 /\ m2[i].name[2] = Count(Called(md, m2[i].name[1]), Len(md))

LEMMA LengthensFacts ==
  ASSUME NEW md, NEW m2, Lengthens(md, m2), Numbered(md)
  PROVE  /\ Numbered(m2)
         /\ Len(md) \in Nat /\ Len(m2) \in Nat /\ Len(md) <= Len(m2)
         /\ DOMAIN md = 1..Len(md) /\ DOMAIN m2 = 1..Len(m2) /\ DOMAIN md \subseteq DOMAIN m2
<1>1. /\ md \in Seq(Values) /\ m2 \in Seq(Values) /\ Len(m2) \in {Len(md), Len(md) + 1}
  BY DEF Lengthens
<1>2. Len(md) \in Nat /\ Len(m2) \in Nat /\ Len(md) <= Len(m2)
      /\ DOMAIN md = 1..Len(md) /\ DOMAIN m2 = 1..Len(m2)
  BY <1>1
<1>3. Numbered(m2)
  BY <1>1, <1>2, NumberedKept DEF Lengthens
<1>. QED BY <1>2, <1>3

LEMMA LengthensSame ==
  ASSUME module \in Seq(Values)
  PROVE  Lengthens(module, module)
BY DEF Lengthens

\* A value that is made.
LEMMA Lengthened ==
  ASSUME module \in Seq(Values), NEW v \in Values, v.name = Unique(v.name[1])
  PROVE  /\ Lengthens(module, Append(module, v))
         /\ Len(Append(module, v)) = Len(module) + 1
         /\ Append(module, v)[Len(module) + 1] = v
         /\ \A i \in DOMAIN module : Append(module, v)[i] = module[i]
<1> DEFINE m2 == Append(module, v)
           n == Len(module)
<1>1. /\ m2 \in Seq(Values) /\ n \in Nat /\ Len(m2) = n + 1
      /\ \A i \in 1..n : m2[i] = module[i]
      /\ m2[n + 1] = v /\ DOMAIN module = 1..n /\ DOMAIN m2 = 1..Len(m2)
  BY AppendFacts
<1>2. v.name[1] \in Labels
  BY ValueFacts
<1>3. v.name[2] = Count(Called(module, v.name[1]), n)
  <2>1. Unique(v.name[1]) = <<v.name[1], Count(Called(module, v.name[1]), n)>>
    BY <1>2, UniqueFacts
  <2> DEFINE c == Count(Called(module, v.name[1]), n)
  <2> HIDE DEF c
  <2>2. v.name = <<v.name[1], c>>
    BY <2>1 DEF c
  <2>. QED BY <2>2 DEF c
<1> HIDE DEF m2, n
<1>4. \A i \in DOMAIN m2 : i \notin DOMAIN module => i = n + 1 /\ m2[i] = v
  BY <1>1
<1>5. Lengthens(module, m2)
  BY <1>1, <1>3, <1>4 DEF Lengthens, n
<1>. QED BY <1>1, <1>5 DEF m2, n

\* A new value has the fields of one, and a name that is numbered.
IsValue(v, x, site) ==
  /\ v = [kind |-> v.kind, name |-> v.name, site |-> v.site, public |-> v.public,
          bodies |-> v.bodies]
  /\ v.kind \in {"fn", "var"} /\ v.public \in BOOLEAN /\ v.bodies \in Nat
  /\ v.name = Unique(x) /\ v.site = site

LEMMA ValueMade ==
  ASSUME module \in Seq(Values), NEW x \in Labels, NEW site \in Nat \X Labels,
         NEW v, IsValue(v, x, site)
  PROVE  /\ v \in Values /\ v.name = Unique(v.name[1]) /\ v.name[1] = x
         /\ (\A j \in DOMAIN module : module[j].name[1] # x) => v.name = <<x, 0>>
<1> DEFINE c == Count(Called(module, x), Len(module))
<1>1. Unique(x) = <<x, c>> /\ <<x, c>> \in Labels \X Nat
      /\ ((\A j \in DOMAIN module : module[j].name[1] # x) => Unique(x) = <<x, 0>>)
  BY UniqueFacts
<1> HIDE DEF c
<1>2. v.name = Unique(x) /\ v.name \in Labels \X Nat
  BY <1>1 DEF IsValue
<1>3. v \in Values
  BY <1>2 DEF IsValue, Values, Labels
<1>4. v.name[1] = x
  BY <1>1, <1>2
<1>. QED BY <1>1, <1>2, <1>3, <1>4

-----------------------------------------------------------------------------
(* Functions of the nodes.                                                    *)

\* The generation is before node r, and then before r2: it may have done node a.
Reaches(r, r2, a) == r2 \in {r, r + 1} /\ (r2 # r => a = r)

\* The module m2 is md with v, and a function that node a is for has the name of v.
Joins(md, v, m2) == /\ Lengthens(md, m2) /\ Len(m2) = Len(md) + 1 /\ v = m2[Len(m2)]
                    /\ \A i \in DOMAIN md : m2[i] = md[i]
Takes(tr, a, H, no, v, n2) ==
  /\ tr[a].node # "func" => n2 = no
  /\ tr[a].node = "func" =>
       /\ n2 = With(no, {tr[a].type}, v.name) /\ v.site = tr[a].site
       /\ tr[a].item # 0 => v.name = <<tr[a].site[2], 0>> /\ v.public
       /\ \A e \in H : tr[e].node = "func" => tr[e].type # tr[a].type

\* A node gets its function, which is generated when the node is reached.
LEMMA FunctionAdded ==
  ASSUME NEW tr, DOMAIN tr \subseteq Nat, NEW u, NEW f, NEW H \in SUBSET DOMAIN tr, NEW r \in Nat,
         NEW md, NEW no, FunctionsNamed(tr, u, f, H, r, md, no), Numbered(md),
         Len(u.extens) \in 0..Len(md), DOMAIN u.extens = 1..Len(u.extens),
         NEW a \in DOMAIN tr, a \notin H, NEW r2, Reaches(r, r2, a),
         NEW v, v.kind = "fn", v.bodies = (IF a < r2 THEN 1 ELSE 0),
         NEW m2, Joins(md, v, m2), NEW n2, Takes(tr, a, H, no, v, n2)
  PROVE  FunctionsNamed(tr, u, [f EXCEPT ![a] = Len(m2)], H \union {a}, r2, m2, n2)
<1>0. /\ Lengthens(md, m2) /\ Len(m2) = Len(md) + 1 /\ v = m2[Len(m2)]
      /\ \A i \in DOMAIN md : m2[i] = md[i]
      /\ tr[a].node # "func" => n2 = no
      /\ tr[a].node = "func" =>
           /\ n2 = With(no, {tr[a].type}, v.name) /\ v.site = tr[a].site
           /\ tr[a].item # 0 => v.name = <<tr[a].site[2], 0>> /\ v.public
           /\ \A e \in H : tr[e].node = "func" => tr[e].type # tr[a].type
  BY DEF Joins, Takes
<1> DEFINE g == [f EXCEPT ![a] = Len(m2)]
<1>1. /\ Len(md) \in Nat /\ Len(m2) \in Nat /\ DOMAIN md = 1..Len(md) /\ DOMAIN m2 = 1..Len(m2)
  BY <1>0, LengthensFacts
<1>2. /\ f \in [DOMAIN tr -> Nat]
      /\ \A e \in H : FunctionOf(tr, u, e, f[e], r, md, no)
      /\ \A d, e \in H : f[d] = f[e] => d = e
      /\ \A i \in DOMAIN md : md[i].kind = "fn" /\ i > Len(u.extens) =>
           md[i].bodies = 1 \/ \E e \in H : f[e] = i
      /\ \A t \in DOMAIN no : \/ t \in DOMAIN u.extens
                              \/ \E e \in H : tr[e].node = "func" /\ tr[e].type = t
  BY DEF FunctionsNamed
<1>3. /\ g \in [DOMAIN tr -> Nat] /\ g[a] = Len(m2)
      /\ \A e \in H : e # a /\ g[e] = f[e] /\ f[e] \in DOMAIN md /\ f[e] # Len(m2)
  <2>1. g \in [DOMAIN tr -> Nat] /\ g[a] = Len(m2) /\ \A e \in H : e # a /\ g[e] = f[e]
    BY <1>1, <1>2
  <2>2. \A e \in H : f[e] \in DOMAIN md
    BY <1>2 DEF FunctionOf
  <2>3. Len(m2) \notin DOMAIN md
    BY <1>0, <1>1
  <2>. QED BY <2>1, <2>2, <2>3
<1>4. /\ \A t \in DOMAIN no : t \in DOMAIN n2
      /\ \A t \in DOMAIN n2 : t \in DOMAIN no \/ (tr[a].node = "func" /\ t = tr[a].type)
      /\ \A e \in H : tr[e].node = "func" /\ tr[e].type \in DOMAIN no =>
           n2[tr[e].type] = no[tr[e].type]
      /\ tr[a].node = "func" => tr[a].type \in DOMAIN n2 /\ n2[tr[a].type] = v.name
  <2>1. CASE tr[a].node = "func"
    <3>1. n2 = With(no, {tr[a].type}, v.name)
      BY <1>0, <2>1
    <3>4. /\ DOMAIN n2 = DOMAIN no \union {tr[a].type} /\ n2[tr[a].type] = v.name
          /\ \A y \in DOMAIN no : y # tr[a].type => n2[y] = no[y]
      BY <3>1 DEF With
    <3>5. \A e \in H : tr[e].node = "func" => tr[e].type # tr[a].type
      BY <1>0, <2>1
    <3>. QED BY <2>1, <3>4, <3>5
  <2>2. CASE tr[a].node # "func"
    BY <1>0, <2>2
  <2>. QED BY <2>1, <2>2
<1> HIDE DEF g
<1>5. ASSUME NEW e \in H PROVE FunctionOf(tr, u, e, g[e], r2, m2, n2)
  <2>1. FunctionOf(tr, u, e, f[e], r, md, no) /\ g[e] = f[e] /\ e # a
    BY <1>2, <1>3
  <2>2. f[e] \in DOMAIN md /\ m2[f[e]] = md[f[e]] /\ f[e] \in DOMAIN m2
    BY <1>0, <1>1, <2>1 DEF FunctionOf
  <2>3. e < r <=> e < r2
    <3>1. e \in Nat /\ (r2 = r \/ (r2 = r + 1 /\ e # r))
      BY <2>1 DEF Reaches
    <3>. QED BY <3>1
  <2>4. f[e] > Len(u.extens) /\ md[f[e]].kind = "fn" /\ md[f[e]].bodies = IF e < r2 THEN 1 ELSE 0
    BY <2>1, <2>3 DEF FunctionOf
  <2>5. tr[e].node = "func" =>
          /\ tr[e].type \in DOMAIN n2 /\ n2[tr[e].type] = md[f[e]].name
          /\ md[f[e]].site = tr[e].site
          /\ tr[e].item # 0 => md[f[e]].name = <<tr[e].site[2], 0>> /\ md[f[e]].public
    BY <1>4, <2>1 DEF FunctionOf
  <2>. QED BY <2>1, <2>2, <2>4, <2>5 DEF FunctionOf
<1>6. FunctionOf(tr, u, a, g[a], r2, m2, n2)
  <2>1. Len(m2) \in DOMAIN m2 /\ Len(m2) > Len(u.extens)
    BY <1>0, <1>1
  <2>. QED BY <1>0, <1>3, <1>4, <2>1 DEF FunctionOf
<1>7. \A d, e \in H \union {a} : g[d] = g[e] => d = e
  BY <1>2, <1>3
<1>8. ASSUME NEW i \in DOMAIN m2, m2[i].kind = "fn", i > Len(u.extens)
      PROVE  m2[i].bodies = 1 \/ \E e \in H \union {a} : g[e] = i
  <2>1. CASE i = Len(m2)
    BY <1>3, <2>1
  <2>2. CASE i # Len(m2)
    <3>1. i \in DOMAIN md /\ m2[i] = md[i]
      BY <1>0, <1>1, <2>2
    <3>. QED BY <1>2, <1>3, <1>8, <3>1
  <2>. QED BY <2>1, <2>2
<1>9. \A t \in DOMAIN n2 : \/ t \in DOMAIN u.extens
                           \/ \E e \in H \union {a} : tr[e].node = "func" /\ tr[e].type = t
  BY <1>2, <1>4
<1>10. \A e \in H \union {a} : FunctionOf(tr, u, e, g[e], r2, m2, n2)
  BY <1>5, <1>6
<1>11. FunctionsNamed(tr, u, g, H \union {a}, r2, m2, n2)
  BY <1>3, <1>7, <1>8, <1>9, <1>10 DEF FunctionsNamed
<1>. QED BY <1>11 DEF g

LEMMA BodiesFacts ==
  ASSUME NEW v \in Values, NEW b \in Nat
  PROVE  LET w == [v EXCEPT !.bodies = b]
         IN  /\ w \in Values /\ w.bodies = b /\ w.kind = v.kind /\ w.name = v.name
             /\ w.site = v.site /\ w.public = v.public
BY DEF Values

\* v with one body, and md with one more body for i.
Bodied(v)    == [v EXCEPT !.bodies = 1]
Gains(md, i) == [md EXCEPT ![i].bodies = @ + 1]

LEMMA BodiedFacts ==
  ASSUME module \in Seq(Values), NEW x \in Labels, NEW site \in Nat \X Labels,
         NEW v, IsValue(v, x, site)
  PROVE  /\ IsValue(Bodied(v), x, site) /\ Bodied(v) \in Values /\ Bodied(v).bodies = 1
         /\ Bodied(v).kind = v.kind /\ Bodied(v).name = v.name /\ Bodied(v).site = v.site
         /\ v \in Values
<1>1. v \in Values
  BY ValueMade
<1> DEFINE w == Bodied(v)
<1>2. /\ w \in Values /\ w.bodies = 1 /\ w.kind = v.kind /\ w.name = v.name
      /\ w.site = v.site /\ w.public = v.public
  BY <1>1 DEF Bodied, Values
<1>3. w = [kind |-> w.kind, name |-> w.name, site |-> w.site, public |-> w.public,
           bodies |-> w.bodies]
  BY <1>2 DEF Values
<1> HIDE DEF w
<1>4. IsValue(w, x, site)
  BY <1>2, <1>3 DEF IsValue
<1>. QED BY <1>1, <1>2, <1>4 DEF w

\* The function of a node that is reached gets its body.
LEMMA FunctionGenerated ==
  ASSUME NEW tr, DOMAIN tr \subseteq Nat, NEW u, NEW f, NEW H \in SUBSET DOMAIN tr, NEW r \in H,
         NEW md \in Seq(Values), NEW no, FunctionsNamed(tr, u, f, H, r, md, no),
         NEW m2, m2 = Gains(md, f[r])
  PROVE  /\ FunctionsNamed(tr, u, f, H, r + 1, m2, no)
         /\ m2 \in Seq(Values) /\ Len(m2) = Len(md) /\ f[r] > Len(u.extens) /\ f[r] \in DOMAIN md
         /\ \A i \in DOMAIN md : i # f[r] => m2[i] = md[i]
         /\ Lengthens(md, m2)
<1> DEFINE v == f[r]
           b == md[v].bodies + 1
<1>1. FunctionOf(tr, u, r, v, r, md, no)
  BY DEF FunctionsNamed
<1>2. v \in DOMAIN md /\ v > Len(u.extens) /\ r \in Nat
  BY <1>1 DEF FunctionOf
<1>3. md[v].bodies = 0 /\ md[v] \in Values /\ b = 1
  BY <1>1, <1>2 DEF FunctionOf
<1> DEFINE old == md[v]
           w   == [old EXCEPT !.bodies = b]
<1>4. m2 = [md EXCEPT ![v] = w]
  BY DEF Gains
<1>5. old \in Values /\ b \in Nat
  BY <1>3
<1> HIDE DEF old, b
<1>5a. w \in Values /\ w.bodies = b /\ w.kind = old.kind /\ w.name = old.name
      /\ w.site = old.site /\ w.public = old.public
  BY <1>5, BodiesFacts
<1> HIDE DEF w
<1>5b. b = 1 /\ old = md[v]
  BY <1>3 DEF b, old
<1>6. /\ m2 \in Seq(Values) /\ Len(m2) = Len(md) /\ DOMAIN m2 = DOMAIN md
      /\ m2[v] = w /\ \A i \in DOMAIN md : i # v => m2[i] = md[i]
  BY <1>2, <1>4, <1>5a
<1>7. /\ f \in [DOMAIN tr -> Nat]
      /\ \A e \in H : FunctionOf(tr, u, e, f[e], r, md, no)
      /\ \A d, e \in H : f[d] = f[e] => d = e
      /\ \A i \in DOMAIN md : md[i].kind = "fn" /\ i > Len(u.extens) =>
           md[i].bodies = 1 \/ \E e \in H : f[e] = i
      /\ \A t \in DOMAIN no : \/ t \in DOMAIN u.extens
                              \/ \E e \in H : tr[e].node = "func" /\ tr[e].type = t
  BY DEF FunctionsNamed
<1>8. /\ \A i \in DOMAIN md : /\ m2[i].kind = md[i].kind /\ m2[i].name = md[i].name
                              /\ m2[i].site = md[i].site /\ m2[i].public = md[i].public
                              /\ m2[i].bodies = IF i = v THEN 1 ELSE md[i].bodies
  BY <1>2, <1>5a, <1>5b, <1>6
<1>9. ASSUME NEW e \in H PROVE FunctionOf(tr, u, e, f[e], r + 1, m2, no)
  <2>1. FunctionOf(tr, u, e, f[e], r, md, no) /\ f[e] \in DOMAIN md
    BY <1>7 DEF FunctionOf
  <2>2. m2[f[e]].bodies = IF e < r + 1 THEN 1 ELSE 0
    <3>1. CASE e = r
      <4>1. m2[v].bodies = 1
        BY <1>2, <1>8
      <4>2. r < r + 1
        BY <1>2
      <4>. QED BY <3>1, <4>1, <4>2
    <3>2. CASE e # r
      <4>1. f[e] # v
        BY <1>7, <3>2
      <4>2. e < r <=> e < r + 1
        <5>1. e \in Nat
          OBVIOUS
        <5>. QED BY <1>2, <3>2, <5>1
      <4>3. m2[f[e]].bodies = md[f[e]].bodies
        BY <1>8, <2>1, <4>1
      <4>. QED BY <2>1, <4>2, <4>3 DEF FunctionOf
    <3>. QED BY <3>1, <3>2
  <2>3. /\ m2[f[e]].kind = md[f[e]].kind /\ m2[f[e]].name = md[f[e]].name
        /\ m2[f[e]].site = md[f[e]].site /\ m2[f[e]].public = md[f[e]].public
    BY <1>8, <2>1
  <2>. QED BY <1>6, <2>1, <2>2, <2>3 DEF FunctionOf
<1>10. \A i \in DOMAIN m2 : m2[i].kind = "fn" /\ i > Len(u.extens) =>
           m2[i].bodies = 1 \/ \E e \in H : f[e] = i
  BY <1>6, <1>7, <1>8
<1>11. FunctionsNamed(tr, u, f, H, r + 1, m2, no)
  BY <1>7, <1>9, <1>10 DEF FunctionsNamed
<1>12. Lengthens(md, m2)
  BY <1>6, <1>8 DEF Lengthens
<1>. QED BY <1>2, <1>6, <1>11, <1>12

\* No node gets a function; a value is added that is none of a node.
LEMMA FunctionsAlong ==
  ASSUME NEW tr, DOMAIN tr \subseteq Nat, NEW u, NEW f, NEW H \in SUBSET DOMAIN tr, NEW r \in Nat,
         NEW md, NEW no, FunctionsNamed(tr, u, f, H, r, md, no),
         NEW m2, Lengthens(md, m2), Numbered(md), \A i \in DOMAIN md : m2[i] = md[i],
         \A i \in DOMAIN m2 : i \in DOMAIN md \/ m2[i].kind = "var" \/ m2[i].bodies = 1,
         NEW r2 \in {r, r + 1}, r2 # r => r \notin H
  PROVE  FunctionsNamed(tr, u, f, H, r2, m2, no)
<1>1. DOMAIN md \subseteq DOMAIN m2
  BY LengthensFacts
<1>2. /\ f \in [DOMAIN tr -> Nat]
      /\ \A e \in H : FunctionOf(tr, u, e, f[e], r, md, no)
      /\ \A d, e \in H : f[d] = f[e] => d = e
      /\ \A i \in DOMAIN md : md[i].kind = "fn" /\ i > Len(u.extens) =>
           md[i].bodies = 1 \/ \E e \in H : f[e] = i
      /\ \A t \in DOMAIN no : \/ t \in DOMAIN u.extens
                              \/ \E e \in H : tr[e].node = "func" /\ tr[e].type = t
  BY DEF FunctionsNamed
<1>3. ASSUME NEW e \in H PROVE FunctionOf(tr, u, e, f[e], r2, m2, no)
  <2>1. FunctionOf(tr, u, e, f[e], r, md, no)
    BY <1>2
  <2>2. f[e] \in DOMAIN md /\ m2[f[e]] = md[f[e]] /\ f[e] \in DOMAIN m2
    BY <1>1, <2>1 DEF FunctionOf
  <2>3. e < r <=> e < r2
    <3>1. e \in Nat /\ (r2 = r \/ (r2 = r + 1 /\ e # r))
      OBVIOUS
    <3>. QED BY <3>1
  <2>. QED BY <2>1, <2>2, <2>3 DEF FunctionOf
<1>4. \A i \in DOMAIN m2 : m2[i].kind = "fn" /\ i > Len(u.extens) =>
           m2[i].bodies = 1 \/ \E e \in H : f[e] = i
  BY <1>2
<1>. QED BY <1>2, <1>3, <1>4 DEF FunctionsNamed

-----------------------------------------------------------------------------
(* Storage, and where code is inserted.                                       *)

LEMMA StepPath ==
  ASSUME NEW p, NEW tr, Paths(p, tr), NEW r \in DOMAIN tr
  PROVE  /\ r \in Nat \ {0} /\ r - 1 \in 0..Len(tr) /\ r \in 0..Len(tr) /\ Len(tr) \in Nat
         /\ r + 1 \in 1..(Len(tr) + 1) /\ (r + 1) - 1 = r /\ DOMAIN tr = 1..Len(tr)
         /\ tr[r] \in Nodes /\ p[r] = PathAfter(p[r - 1], tr[r], r)
         /\ p[r - 1] \in Seq(Nat) /\ Len(p[r - 1]) \in Nat
         /\ \A i \in 1..Len(p[r - 1]) : p[r - 1][i] \in 1..(r - 1)
         /\ tr[r].node = "end" \/ IsLocal(tr[r]) => p[r - 1] # <<>>
<1>1. tr \in Seq(Nodes) /\ r \in 1..Len(tr) /\ Len(tr) \in Nat /\ DOMAIN tr = 1..Len(tr)
  BY DEF Paths
<1>2. r \in Nat \ {0} /\ r - 1 \in 0..Len(tr) /\ r \in 0..Len(tr)
      /\ r + 1 \in 1..(Len(tr) + 1) /\ (r + 1) - 1 = r /\ tr[r] \in Nodes
  BY <1>1
<1>3. /\ p[r] = PathAfter(p[r - 1], tr[r], r)
      /\ tr[r].node = "end" \/ IsLocal(tr[r]) => p[r - 1] # <<>>
  BY <1>1 DEF Paths
<1> DEFINE k == r - 1
<1>4. k \in 0..Len(tr)
  BY <1>2
<1> HIDE DEF k
<1>5. p[k] \in Seq(Nat) /\ Len(p[k]) \in Nat /\ \A i \in 1..Len(p[k]) : p[k][i] \in 1..k
  BY <1>4, PathTyped
<1>. QED BY <1>1, <1>2, <1>3, <1>5 DEF k

\* The owner of a scope is the node itself or a body that began before it.
LEMMA OwnerBefore ==
  ASSUME NEW p, NEW tr, Paths(p, tr), NEW r \in DOMAIN tr
  PROVE  /\ Begins(tr[r]) => Owner(p, r) = r
         /\ IsLocal(tr[r]) => Owner(p, r) = Inner(p[r - 1]) /\ Owner(p, r) \in 1..(r - 1)
         /\ \A s : Writes(tr[r], s) => Owner(p, r) \in 1..r
<1>1. /\ r \in Nat \ {0} /\ p[r] = PathAfter(p[r - 1], tr[r], r)
      /\ p[r - 1] \in Seq(Nat) /\ Len(p[r - 1]) \in Nat
      /\ \A i \in 1..Len(p[r - 1]) : p[r - 1][i] \in 1..(r - 1)
      /\ IsLocal(tr[r]) => p[r - 1] # <<>>
  BY StepPath
<1> DEFINE path == p[r - 1]
           n == tr[r]
<1>2. ASSUME Begins(n) PROVE Owner(p, r) = r
  <2>1. p[r] = Append(path, r)
    BY <1>1, <1>2 DEF PathAfter
  <2>2. path \in Seq(Nat) /\ r \in Nat
    BY <1>1
  <2> HIDE DEF path
  <2>3. Len(Append(path, r)) = Len(path) + 1 /\ Append(path, r)[Len(path) + 1] = r
    BY <2>2, AppendFacts
  <2>. QED BY <2>1, <2>3 DEF Owner, Inner
<1>3. ASSUME IsLocal(n) PROVE Owner(p, r) = Inner(path) /\ Owner(p, r) \in 1..(r - 1)
  <2>1. p[r] = path /\ path # <<>> /\ path \in Seq(Nat)
    BY <1>1, <1>3 DEF PathAfter, IsLocal, Begins
  <2>2. Len(path) \in 1..Len(path)
    BY <2>1
  <2>. QED BY <1>1, <2>1, <2>2 DEF Owner, Inner
<1>4. ASSUME NEW s, Writes(n, s) PROVE Owner(p, r) \in 1..r
  <2>1. Begins(n) \/ IsLocal(n)
    BY <1>4 DEF Writes
  <2>2. 1..(r - 1) \subseteq 1..r /\ r \in 1..r
    BY <1>1
  <2>. QED BY <1>2, <1>3, <2>1, <2>2
<1>. QED BY <1>2, <1>3, <1>4

LEMMA SameOwner ==
  ASSUME NEW p, NEW tr, NEW tb, NEW o, ScopesOwned(tr, p, tb, o),
         NEW i \in DOMAIN tr, NEW j \in DOMAIN tr, NEW s \in Sites, NEW t, t[1] = s[1],
         Writes(tr[i], s), Writes(tr[j], t)
  PROVE  Owner(p, i) = Owner(p, j)
<1>1. InScope(tr[i], s[1]) /\ InScope(tr[j], s[1])
  BY WritesInScope
<1>2. s[1] \in Nat
  BY DEF Sites
<1>. QED BY <1>1, <1>2 DEF ScopesOwned

\* The functions before node r stay; g also has that of r.
SameBefore(f, g, r) == \A e \in 1..(r - 1) : g[e] = f[e]

LEMMA StoredEnter ==
  ASSUME NEW p, NEW tr, Paths(p, tr), NEW tb, NEW o, ScopesOwned(tr, p, tb, o),
         NEW r \in DOMAIN tr, Begins(tr[r]), NEW f, NEW g, SameBefore(f, g, r),
         NEW vo, Stored(tr, p, f, r, vo), NEW v2,
         v2 = With(vo, {tr[r].scope} \X {tr[r].params[i] : i \in DOMAIN tr[r].params}, g[r])
  PROVE  Stored(tr, p, g, r + 1, v2)
<1> DEFINE X == {tr[r].scope} \X {tr[r].params[i] : i \in DOMAIN tr[r].params}
<1>1. /\ DOMAIN v2 = DOMAIN vo \union X
      /\ \A y \in X : v2[y] = g[r]
      /\ \A y \in DOMAIN vo : y \notin X => v2[y] = vo[y]
  BY DEF With
<1>2. r \in Nat \ {0} /\ tr[r] \in Nodes /\ DOMAIN tr = 1..Len(tr)
  BY StepPath
<1>3. tr[r].params \in Seq(Names) /\ tr[r].scope \in Nat
  BY <1>2, NodeFacts
<1>4. X \subseteq Sites
  BY <1>3 DEF Sites
<1>5. \A s \in X : Writes(tr[r], s) /\ s[1] = tr[r].scope
  BY DEF Writes
<1>6. \A s \in Sites : Writes(tr[r], s) => s \in X
  BY BeginsFacts, <1>2 DEF Sites
<1> HIDE DEF X
<1>7. Owner(p, r) = r
  BY OwnerBefore
<1>8. ASSUME NEW j \in DOMAIN tr, NEW s \in Sites, j < r + 1, Writes(tr[j], s)
      PROVE  s \in DOMAIN v2 /\ v2[s] = g[Owner(p, j)]
  <2>1. CASE s \in X
    <3>1. Writes(tr[r], s)
      BY <1>5, <2>1
    <3>2. Owner(p, j) = r
      BY <1>7, <1>8, <3>1, SameOwner
    <3>. QED BY <1>1, <2>1, <3>2
  <2>2. CASE s \notin X
    <3>1. j # r
      BY <1>6, <1>8, <2>2
    <3>2. j < r /\ j \in Nat
      BY <1>2, <1>8, <3>1
    <3>3. s \in DOMAIN vo /\ vo[s] = f[Owner(p, j)]
      BY <1>8, <3>2 DEF Stored
    <3>4. Owner(p, j) \in 1..j
      BY <1>8, OwnerBefore
    <3>5. Owner(p, j) \in 1..(r - 1)
      BY <1>2, <3>2, <3>4
    <3>. QED BY <1>1, <2>2, <3>3, <3>5 DEF SameBefore
  <2>. QED BY <2>1, <2>2
<1>9. ASSUME NEW s \in DOMAIN v2 PROVE s \in Sites /\ \E j \in DOMAIN tr : j < r + 1 /\ Writes(tr[j], s)
  <2>1. CASE s \in X
    BY <1>2, <1>4, <1>5, <2>1
  <2>2. CASE s \in DOMAIN vo
    <3>1. PICK j \in DOMAIN tr : j < r /\ Writes(tr[j], s)
      BY <2>2 DEF Stored
    <3>2. j < r + 1
      BY <1>2, <3>1
    <3>. QED BY <2>2, <3>1, <3>2 DEF Stored
  <2>. QED BY <1>1, <2>1, <2>2
<1>. QED BY <1>8, <1>9 DEF Stored

LEMMA StoredLocal ==
  ASSUME NEW p, NEW tr, Paths(p, tr), NEW tb, NEW o, ScopesOwned(tr, p, tb, o),
         NEW r \in DOMAIN tr, IsLocal(tr[r]), NEW f,
         NEW vo, Stored(tr, p, f, r, vo), NEW v2,
         v2 = With(vo, {tr[r].site}, f[Inner(p[r - 1])])
  PROVE  Stored(tr, p, f, r + 1, v2)
<1> DEFINE x == tr[r].site
           fn == f[Inner(p[r - 1])]
<1>1. /\ DOMAIN v2 = DOMAIN vo \union {x} /\ v2[x] = fn
      /\ \A y \in DOMAIN vo : y # x => v2[y] = vo[y]
  BY DEF With
<1>2. r \in Nat \ {0} /\ tr[r] \in Nodes /\ DOMAIN tr = 1..Len(tr)
  BY StepPath
<1>3. x \in Sites /\ Writes(tr[r], x) /\ \A s : Writes(tr[r], s) => s = x
  BY <1>2, NodeFacts DEF IsLocal, Writes, Begins
<1>4. fn = f[Owner(p, r)]
  BY OwnerBefore
<1> HIDE DEF x, fn
<1>8. ASSUME NEW j \in DOMAIN tr, NEW s \in Sites, j < r + 1, Writes(tr[j], s)
      PROVE  s \in DOMAIN v2 /\ v2[s] = f[Owner(p, j)]
  <2>1. CASE s = x
    <3>1. Owner(p, j) = Owner(p, r)
      BY <1>3, <1>8, <2>1, SameOwner
    <3>. QED BY <1>1, <1>4, <2>1, <3>1
  <2>2. CASE s # x
    <3>1. j # r
      BY <1>3, <1>8, <2>2
    <3>2. j < r /\ j \in Nat
      BY <1>2, <1>8, <3>1
    <3>3. s \in DOMAIN vo /\ vo[s] = f[Owner(p, j)]
      BY <1>8, <3>2 DEF Stored
    <3>. QED BY <1>1, <2>2, <3>3
  <2>. QED BY <2>1, <2>2
<1>9. ASSUME NEW s \in DOMAIN v2 PROVE s \in Sites /\ \E j \in DOMAIN tr : j < r + 1 /\ Writes(tr[j], s)
  <2>1. CASE s = x
    BY <1>2, <1>3, <2>1
  <2>2. CASE s \in DOMAIN vo
    <3>1. PICK j \in DOMAIN tr : j < r /\ Writes(tr[j], s)
      BY <2>2 DEF Stored
    <3>2. j < r + 1
      BY <1>2, <3>1
    <3>. QED BY <2>2, <3>1, <3>2 DEF Stored
  <2>. QED BY <1>1, <2>1, <2>2
<1>. QED BY <1>8, <1>9 DEF Stored

LEMMA StoredAlong ==
  ASSUME NEW p, NEW tr, Paths(p, tr), NEW r \in DOMAIN tr, ~ Begins(tr[r]), ~ IsLocal(tr[r]),
         NEW f, NEW vo, Stored(tr, p, f, r, vo)
  PROVE  Stored(tr, p, f, r + 1, vo)
<1>1. r \in Nat /\ DOMAIN tr = 1..Len(tr)
  BY StepPath
<1>2. \A s : ~ Writes(tr[r], s)
  BY DEF Writes
<1>3. \A j \in DOMAIN tr, s \in Sites : j < r + 1 /\ Writes(tr[j], s) => j < r
  BY <1>1, <1>2
<1>4. \A j \in DOMAIN tr : j < r => j < r + 1
  BY <1>1
<1>. QED BY <1>3, <1>4 DEF Stored

LEMMA InsideEnter ==
  ASSUME NEW p, NEW tr, Paths(p, tr), NEW r \in DOMAIN tr, Begins(tr[r]),
         NEW f, NEW g, SameBefore(f, g, r), g[r] \in Nat,
         NEW cu, Inside(tr, p, f, r, cu)
  PROVE  Inside(tr, p, g, r + 1, Append(cu, g[r]))
<1> DEFINE path == p[r - 1]
           c2 == Append(cu, g[r])
           l == Len(path)
<1>1. /\ r \in Nat \ {0} /\ r + 1 \in 1..(Len(tr) + 1) /\ (r + 1) - 1 = r
      /\ p[r] = PathAfter(path, tr[r], r) /\ path \in Seq(Nat) /\ l \in Nat
      /\ \A i \in 1..l : path[i] \in 1..(r - 1)
  BY StepPath
<1>2. cu \in Seq(Nat) /\ Len(cu) = l /\ \A i \in DOMAIN cu : cu[i] = f[path[i]]
  BY DEF Inside
<1>3. p[r] = Append(path, r)
  BY <1>1 DEF PathAfter
<1> HIDE DEF path
<1>4. /\ Len(p[r]) = l + 1 /\ p[r][l + 1] = r /\ \A i \in 1..l : p[r][i] = path[i]
  BY <1>1, <1>3, AppendFacts
<1>5. /\ c2 \in Seq(Nat) /\ Len(c2) = l + 1 /\ c2[l + 1] = g[r]
      /\ \A i \in 1..l : c2[i] = cu[i]
  BY <1>2, AppendFacts
<1>6. DOMAIN cu = 1..l /\ DOMAIN c2 = 1..(l + 1)
  BY <1>2, <1>5
<1> HIDE DEF c2, l
<1>7. \A i \in DOMAIN c2 : c2[i] = g[p[r][i]]
  <2>1. ASSUME NEW i \in 1..l PROVE c2[i] = g[p[r][i]]
    <3>1. c2[i] = f[path[i]] /\ path[i] \in 1..(r - 1)
      BY <1>1, <1>2, <1>5, <1>6
    <3>. QED BY <1>4, <3>1 DEF SameBefore
  <2>2. \A i \in DOMAIN c2 : i \in 1..l \/ i = l + 1
    BY <1>1, <1>6
  <2>. QED BY <1>4, <1>5, <2>1, <2>2
<1>. QED BY <1>1, <1>4, <1>5, <1>7 DEF Inside, c2

LEMMA InsideEnd ==
  ASSUME NEW p, NEW tr, Paths(p, tr), NEW r \in DOMAIN tr, tr[r].node = "end",
         NEW f, NEW cu, Inside(tr, p, f, r, cu)
  PROVE  Inside(tr, p, f, r + 1, SubSeq(cu, 1, Len(cu) - 1))
<1> DEFINE path == p[r - 1]
           c2 == SubSeq(cu, 1, Len(cu) - 1)
           l == Len(path)
<1>1. /\ r \in Nat \ {0} /\ r + 1 \in 1..(Len(tr) + 1) /\ (r + 1) - 1 = r
      /\ p[r] = PathAfter(path, tr[r], r) /\ path \in Seq(Nat) /\ l \in Nat /\ path # <<>>
  BY StepPath
<1>2. cu \in Seq(Nat) /\ Len(cu) = l /\ \A i \in DOMAIN cu : cu[i] = f[path[i]]
  BY DEF Inside
<1>3. p[r] = SubSeq(path, 1, l - 1)
  BY <1>1 DEF PathAfter, Begins
<1> HIDE DEF path
<1>4. l \in Nat \ {0} /\ Len(p[r]) = l - 1 /\ \A i \in 1..(l - 1) : p[r][i] = path[i]
  BY <1>1, <1>3, FrontFacts
<1>5. cu # <<>>
  BY <1>2, <1>4
<1>6. c2 \in Seq(Nat) /\ Len(c2) = l - 1 /\ \A i \in 1..(l - 1) : c2[i] = cu[i]
  BY <1>2, <1>5, FrontFacts
<1>7. DOMAIN cu = 1..l /\ DOMAIN c2 = 1..(l - 1) /\ 1..(l - 1) \subseteq 1..l
  BY <1>2, <1>4, <1>6
<1> HIDE DEF c2, l
<1>8. \A i \in DOMAIN c2 : c2[i] = f[p[r][i]]
  BY <1>2, <1>4, <1>6, <1>7
<1>. QED BY <1>1, <1>4, <1>6, <1>8 DEF Inside, c2

LEMMA InsideAlong ==
  ASSUME NEW p, NEW tr, Paths(p, tr), NEW r \in DOMAIN tr, tr[r].node # "end", ~ Begins(tr[r]),
         NEW f, NEW cu, Inside(tr, p, f, r, cu)
  PROVE  Inside(tr, p, f, r + 1, cu)
<1>1. /\ r + 1 \in 1..(Len(tr) + 1) /\ (r + 1) - 1 = r /\ p[r] = p[r - 1]
  BY StepPath DEF PathAfter
<1>. QED BY <1>1 DEF Inside

\* The function that code is inserted in is that of the body the node is in.
LEMMA HereIs ==
  ASSUME NEW p, NEW tr, Paths(p, tr), NEW r \in DOMAIN tr, p[r - 1] # <<>>,
         NEW f, NEW cu, Inside(tr, p, f, r, cu)
  PROVE  cu[Len(cu)] = f[Inner(p[r - 1])]
<1> DEFINE path == p[r - 1]
<1>1. path \in Seq(Nat) /\ path # <<>>
  BY StepPath
<1>2. cu \in Seq(Nat) /\ Len(cu) = Len(path) /\ \A i \in DOMAIN cu : cu[i] = f[path[i]]
  BY DEF Inside
<1> HIDE DEF path
<1>3. Len(path) \in DOMAIN cu
  BY <1>1, <1>2
<1>4. cu[Len(cu)] = f[path[Len(path)]]
  BY <1>2, <1>3
<1>. QED BY <1>4 DEF path, Inner

-----------------------------------------------------------------------------
(* The passes before the tree is walked.                                      *)

Generating(p, f) ==
  /\ AcceptedWith(p) /\ pass # "semantic"
  /\ Generated(tree, unit, p, f, pass, at, module, nameOf, valOf, current)

\* So it is after the step, with the functions g.
StillGenerated(p, g) ==
  /\ Generated(tree, unit, p, g, pass', at', module', nameOf', valOf', current')
  /\ Lengthens(module, module')

LEMMA AcceptedTyped ==
  ASSUME NEW p, AcceptedWith(p)
  PROVE  /\ Structure /\ Paths(p, tree) /\ tree \in Seq(Nodes) /\ Len(tree) \in Nat
         /\ DOMAIN tree = 1..Len(tree) /\ DOMAIN tree \subseteq Nat
         /\ \A e \in DOMAIN tree : e \in Nat \ {0} /\ tree[e] \in Nodes
         /\ ScopesOwned(tree, p, table, opened)
<1>1. Structure /\ Paths(p, tree) /\ ScopesOwned(tree, p, table, opened)
  BY DEF AcceptedWith, AnalysisInv, Facts
<1>2. tree \in Seq(Nodes)
  BY <1>1 DEF Paths
<1>. QED BY <1>1, <1>2

LEMMA GeneratingFacts ==
  ASSUME NEW p, NEW f, Generating(p, f)
  PROVE  /\ at \in Nat \ {0} /\ module \in Seq(Values) /\ Numbered(module)
         /\ ExternsNamed(unit, pass, at, module, nameOf)
         /\ FunctionsNamed(tree, unit, f, Built(tree, pass, at), Reached(pass, at), module, nameOf)
         /\ HeadsOnly(unit, pass, at, module) /\ VariablesNamed(tree, pass, at, module)
         /\ Inside(tree, p, f, Reached(pass, at), current)
         /\ Stored(tree, p, f, Reached(pass, at), valOf)
         /\ pass = "end" => at > Len(tree)
         /\ f \in [DOMAIN tree -> Nat]
         /\ Built(tree, pass, at) \in SUBSET DOMAIN tree
BY DEF Generating, Generated, FunctionsNamed, Built

LEMMA ExternsFirst ==
  ASSUME NEW p, NEW f, Generating(p, f), pass # "extens"
  PROVE  Len(unit.extens) \in 0..Len(module)
<1>1. Len(unit.extens) \in Nat /\ DOMAIN unit.extens = 1..Len(unit.extens)
  BY UnitTyped, AcceptedTyped DEF Generating
<1>2. Len(module) \in Nat /\ DOMAIN module = 1..Len(module)
  BY GeneratingFacts, ModuleFacts
<1>3. CASE Len(unit.extens) = 0
  BY <1>1, <1>2, <1>3
<1>4. CASE Len(unit.extens) # 0
  <2>1. Len(unit.extens) \in DOMAIN unit.extens
    BY <1>1, <1>4
  <2>2. Extern(unit, Len(unit.extens), module, nameOf)
    BY <2>1, GeneratingFacts DEF ExternsNamed
  <2>3. Len(unit.extens) \in DOMAIN module
    BY <2>2 DEF Extern
  <2>. QED BY <1>1, <1>2, <2>3
<1>. QED BY <1>3, <1>4

LEMMA NothingBuilt ==
  ASSUME NEW p, AcceptedWith(p), NEW k
  PROVE  Built(tree, "extens", k) = {}
BY AcceptedTyped DEF Built, Reached

LEMMA BuiltForward ==
  ASSUME NEW p, AcceptedWith(p), NEW k \in Nat
  PROVE  Built(tree, "forward", k) = {e \in DOMAIN tree : /\ tree[e].node = "func" /\ tree[e].item # 0
                                                          /\ tree[e].item < k}
<1>1. \A e \in DOMAIN tree : ~ (e < 1)
  BY AcceptedTyped
<1>. QED BY <1>1 DEF Built, Reached, Begins

LEMMA BuiltTree ==
  ASSUME NEW ps \in {"tree", "end", "crashed"}, NEW k
  PROVE  Built(tree, ps, k) = {e \in DOMAIN tree : /\ Begins(tree[e])
                                                   /\ \/ e < k
                                                      \/ tree[e].node = "func" /\ tree[e].item # 0}
BY DEF Built, Reached

\* Before the first node nothing has storage.
LEMMA NothingInside ==
  ASSUME NEW p, AcceptedWith(p), NEW f
  PROVE  /\ Inside(tree, p, f, 1, <<>>)
         /\ \A vo : DOMAIN vo = {} => Stored(tree, p, f, 1, vo)
         /\ \A vo, cu, g : Inside(tree, p, f, 1, cu) => Inside(tree, p, g, 1, cu)
         /\ \A vo, g : Stored(tree, p, f, 1, vo) => Stored(tree, p, g, 1, vo)
<1>1. /\ Paths(p, tree) /\ Len(tree) \in Nat
      /\ \A e \in DOMAIN tree : ~ (e < 1)
  BY AcceptedTyped
<1>2. p[0] = <<>> /\ 1 - 1 = 0 /\ 1 \in 1..(Len(tree) + 1) /\ Len(<<>>) = 0
  BY <1>1 DEF Paths
<1>3. \A cu \in Seq(Nat) : Len(cu) = 0 => DOMAIN cu = {}
  OBVIOUS
<1>4. <<>> \in Seq(Nat)
  OBVIOUS
<1>5. Inside(tree, p, f, 1, <<>>)
  BY <1>2, <1>3, <1>4 DEF Inside
<1>6. \A vo : DOMAIN vo = {} => Stored(tree, p, f, 1, vo)
  BY <1>1 DEF Stored
<1>7. \A vo, cu, g : Inside(tree, p, f, 1, cu) => Inside(tree, p, g, 1, cu)
  BY <1>2, <1>3 DEF Inside
<1>8. \A vo, g : Stored(tree, p, f, 1, vo) => Stored(tree, p, g, 1, vo)
  BY <1>1 DEF Stored
<1>. QED BY <1>5, <1>6, <1>7, <1>8

LEMMA StartGenerates ==
  ASSUME NEW p, AcceptedWith(p), nextList, pass = "semantic",
         module = <<>>, current = <<>>, DOMAIN nameOf = {}, DOMAIN valOf = {}
  PROVE  \E g : StillGenerated(p, g)
<1> DEFINE g == [e \in DOMAIN tree |-> 0]
<1>1. pass' = "extens" /\ at' = 1 /\ UNCHANGED <<module, nameOf, valOf, current>>
  BY DEF nextList, Starts
<1>2. Built(tree, "extens", 1) = {} /\ Reached("extens", 1) = 1
  BY NothingBuilt DEF Reached
<1>3. module \in Seq(Values) /\ Len(module) = 0 /\ DOMAIN module = {}
  OBVIOUS
<1>4. Numbered(module)
  BY <1>3 DEF Numbered
<1>5. ExternsNamed(unit, "extens", 1, module, nameOf)
  BY AcceptedTyped, UnitTyped DEF ExternsNamed
<1>6. FunctionsNamed(tree, unit, g, {}, 1, module, nameOf)
  BY <1>3 DEF FunctionsNamed
<1>7. HeadsOnly(unit, "extens", 1, module) /\ VariablesNamed(tree, "extens", 1, module)
  BY <1>3 DEF HeadsOnly, VariablesNamed
<1> HIDE DEF g
<1>8. Inside(tree, p, g, 1, current) /\ Stored(tree, p, g, 1, valOf)
  BY NothingInside
<1>9. Generated(tree, unit, p, g, "extens", 1, module, nameOf, valOf, current)
  BY <1>2, <1>3, <1>4, <1>5, <1>6, <1>7, <1>8 DEF Generated
<1>10. Lengthens(module, module)
  BY <1>3, LengthensSame
<1>. QED BY <1>1, <1>9, <1>10 DEF StillGenerated

LEMMA NextListGenerates ==
  ASSUME NEW p, NEW f, Generating(p, f), nextList
  PROVE  StillGenerated(p, f)
<1>1. AcceptedWith(p) /\ Structure /\ pass # "semantic" /\ UNCHANGED <<module, nameOf, valOf, current>>
  BY AcceptedTyped DEF Generating, nextList
<1>2. CASE pass = "extens" /\ at > Len(unit.extens)
  <2>1. pass' = "forward" /\ at' = 1
    BY <1>2 DEF nextList, Starts
  <2>2. /\ Built(tree, "extens", at) = {} /\ Reached("extens", at) = 1
        /\ Reached("forward", 1) = 1
    BY <1>1, NothingBuilt DEF Reached
  <2>3. Built(tree, "forward", 1) = {}
    <3>1. ASSUME NEW e \in DOMAIN tree, tree[e].node = "func" PROVE tree[e].item \in Nat
      BY <1>1, <3>1, FunctionNode
    <3>. QED BY <1>1, <3>1, BuiltForward
  <2>4. /\ module \in Seq(Values) /\ Numbered(module)
        /\ ExternsNamed(unit, "extens", at, module, nameOf)
        /\ FunctionsNamed(tree, unit, f, {}, 1, module, nameOf)
        /\ HeadsOnly(unit, "extens", at, module)
        /\ Inside(tree, p, f, 1, current) /\ Stored(tree, p, f, 1, valOf)
    BY <1>2, <2>2, GeneratingFacts
  <2>5. /\ \A i \in DOMAIN unit.extens : i < at
    BY <1>1, <1>2, UnitTyped, GeneratingFacts
  <2>6. ExternsNamed(unit, "forward", 1, module, nameOf)
    BY <2>4, <2>5 DEF ExternsNamed
  <2>7. HeadsOnly(unit, "forward", 1, module) /\ VariablesNamed(tree, "forward", 1, module)
    BY <2>4 DEF HeadsOnly, VariablesNamed
  <2>8. Generated(tree, unit, p, f, "forward", 1, module, nameOf, valOf, current)
    BY <2>2, <2>3, <2>4, <2>6, <2>7 DEF Generated
  <2>9. Lengthens(module, module)
    BY <2>4, LengthensSame
  <2>. QED BY <1>1, <2>1, <2>8, <2>9 DEF StillGenerated
<1>3. CASE pass = "forward" /\ at > Len(unit.stmts)
  <2>1. pass' = "tree" /\ at' = 1
    BY <1>3 DEF nextList, Starts
  <2>2. Reached("forward", at) = 1 /\ Reached("tree", 1) = 1 /\ at \in Nat
    BY GeneratingFacts DEF Reached
  <2>3. Built(tree, "forward", at) = Built(tree, "tree", 1)
    <3>1. ASSUME NEW e \in DOMAIN tree, tree[e].node = "func", tree[e].item # 0
          PROVE  tree[e].item < at
      <4>1. tree[e].item \in 1..Len(unit.stmts) /\ Len(unit.stmts) \in Nat
        BY <1>1, <3>1, FunctionNode, UnitTyped
      <4>. QED BY <1>3, <2>2, <4>1
    <3>2. \A e \in DOMAIN tree : ~ (e < 1)
      BY <1>1, AcceptedTyped
    <3>3. Built(tree, "forward", at) = {e \in DOMAIN tree : /\ tree[e].node = "func" /\ tree[e].item # 0
                                                             /\ tree[e].item < at}
      BY <1>1, <2>2, BuiltForward
    <3>4. Built(tree, "tree", 1) = {e \in DOMAIN tree : /\ Begins(tree[e])
                                                        /\ \/ e < 1
                                                           \/ tree[e].node = "func" /\ tree[e].item # 0}
      BY BuiltTree
    <3>. QED BY <3>1, <3>2, <3>3, <3>4 DEF Begins
  <2>4. /\ module \in Seq(Values) /\ Numbered(module)
        /\ ExternsNamed(unit, "forward", at, module, nameOf)
        /\ FunctionsNamed(tree, unit, f, Built(tree, "tree", 1), 1, module, nameOf)
        /\ Inside(tree, p, f, 1, current) /\ Stored(tree, p, f, 1, valOf)
    BY <1>3, <2>2, <2>3, GeneratingFacts
  <2>5. ExternsNamed(unit, "tree", 1, module, nameOf) /\ HeadsOnly(unit, "tree", 1, module)
    BY <2>4 DEF ExternsNamed, HeadsOnly
  <2>6. VariablesNamed(tree, "tree", 1, module)
    BY <1>1, AcceptedTyped DEF VariablesNamed
  <2>7. Generated(tree, unit, p, f, "tree", 1, module, nameOf, valOf, current)
    BY <2>2, <2>4, <2>5, <2>6 DEF Generated
  <2>8. Lengthens(module, module)
    BY <2>4, LengthensSame
  <2>. QED BY <1>1, <2>1, <2>7, <2>8 DEF StillGenerated
<1>. QED BY <1>1, <1>2, <1>3 DEF nextList

LEMMA ExternGenerates ==
  ASSUME NEW p, NEW f, Generating(p, f), TvisitExternStatement
  PROVE  StillGenerated(p, f)
<1> DEFINE x    == unit.extens[at].name
           site == <<0, x>>
           v    == Value("fn", x, site, TRUE)
<1>1. /\ AcceptedWith(p) /\ Structure /\ pass = "extens" /\ at <= Len(unit.extens)
      /\ module' = Append(module, v) /\ nameOf' = setName(at, v)
      /\ at' = at + 1 /\ pass' = pass /\ UNCHANGED <<valOf, current>>
  BY AcceptedTyped DEF Generating, TvisitExternStatement, Predeclare
<1>2. /\ at \in Nat \ {0} /\ module \in Seq(Values) /\ Numbered(module)
      /\ ExternsNamed(unit, "extens", at, module, nameOf)
      /\ FunctionsNamed(tree, unit, f, Built(tree, "extens", at), Reached("extens", at), module, nameOf)
      /\ HeadsOnly(unit, "extens", at, module)
      /\ Inside(tree, p, f, Reached("extens", at), current)
      /\ Stored(tree, p, f, Reached("extens", at), valOf)
  BY <1>1, GeneratingFacts
<1>3. Built(tree, "extens", at) = {} /\ Built(tree, "extens", at + 1) = {}
      /\ Reached("extens", at) = 1 /\ Reached("extens", at + 1) = 1
  BY <1>1, NothingBuilt DEF Reached
<1>4. /\ Len(unit.extens) \in Nat /\ DOMAIN unit.extens = 1..Len(unit.extens)
      /\ at \in DOMAIN unit.extens /\ x \in Names /\ x \in Labels
      /\ \A i \in DOMAIN unit.extens : i < at => unit.extens[i].name # x
  <2>1. /\ Len(unit.extens) \in Nat /\ DOMAIN unit.extens = 1..Len(unit.extens)
        /\ \A i \in DOMAIN unit.extens : unit.extens[i].name \in Names
    BY <1>1, UnitTyped
  <2>2. at \in DOMAIN unit.extens
    BY <1>1, <1>2, <2>1
  <2>3. \A i \in DOMAIN unit.extens : unit.extens[i].name = x => i = at
    BY <1>1, <2>2, HeadsApart
  <2>. QED BY <1>2, <2>1, <2>2, <2>3 DEF Labels, Ids
<1>5. Len(module) = at - 1 /\ DOMAIN module = 1..(at - 1) /\ Len(module) + 1 = at
  BY <1>2 DEF HeadsOnly
<1>6. \A i \in DOMAIN module : module[i].name[1] # x
  <2>1. ASSUME NEW i \in DOMAIN module PROVE module[i].name[1] # x
    <3>1. \E j \in DOMAIN unit.extens : j < at /\ module[i].name[1] = unit.extens[j].name
      BY <1>2 DEF HeadsOnly
    <3>. QED BY <1>4, <3>1
  <2>. QED BY <2>1
<1>7. /\ v \in Values /\ v.name = Unique(v.name[1]) /\ v.name[1] = x /\ v.name = <<x, 0>>
      /\ v.kind = "fn" /\ v.site = site /\ v.public /\ v.bodies = 0
  <2>1. site \in Nat \X Labels
    BY <1>4
  <2>2. v.kind = "fn" /\ v.site = site /\ v.public /\ v.bodies = 0 /\ IsValue(v, x, site)
    BY DEF IsValue, Value
  <2> HIDE DEF x, site, v
  <2>. QED BY <1>2, <1>4, <1>6, <2>1, <2>2, ValueMade
<1> HIDE DEF v
<1>8. /\ Lengthens(module, module') /\ Len(module') = at /\ module'[at] = v
      /\ \A i \in DOMAIN module : module'[i] = module[i]
  BY <1>1, <1>2, <1>5, <1>7, Lengthened
<1>9. /\ Numbered(module') /\ DOMAIN module' = 1..at /\ module' \in Seq(Values)
  BY <1>2, <1>8, LengthensFacts DEF Lengthens
<1>10. /\ DOMAIN nameOf' = DOMAIN nameOf \union {at} /\ nameOf'[at] = v.name
       /\ \A t \in DOMAIN nameOf : t # at => nameOf'[t] = nameOf[t]
  BY <1>1 DEF setName, With
<1>11. ExternsNamed(unit, "extens", at + 1, module', nameOf')
  <2>1. ASSUME NEW i \in DOMAIN unit.extens, i < at + 1 PROVE Extern(unit, i, module', nameOf')
    <3>1. CASE i = at
      <4>1. at \in DOMAIN module'
        BY <1>2, <1>9
      <4>. QED BY <1>7, <1>8, <1>10, <3>1, <4>1 DEF Extern
    <3>2. CASE i # at
      <4>1. i < at
        BY <1>2, <1>4, <2>1, <3>2
      <4>2. Extern(unit, i, module, nameOf)
        BY <1>2, <4>1 DEF ExternsNamed
      <4>3. i \in DOMAIN module /\ i \in DOMAIN nameOf
        BY <4>2 DEF Extern
      <4>4. module'[i] = module[i] /\ nameOf'[i] = nameOf[i] /\ i \in DOMAIN nameOf'
        BY <1>8, <1>10, <3>2, <4>3
      <4>5. i \in DOMAIN module'
        BY <1>2, <1>5, <1>9, <4>3
      <4>. QED BY <4>2, <4>4, <4>5 DEF Extern
    <3>. QED BY <3>1, <3>2
  <2>. QED BY <2>1 DEF ExternsNamed
<1>12. FunctionsNamed(tree, unit, f, {}, 1, module', nameOf')
  <2>1. f \in [DOMAIN tree -> Nat] /\ \A t \in DOMAIN nameOf : t \in DOMAIN unit.extens
    BY <1>2, <1>3 DEF FunctionsNamed
  <2>2. \A i \in DOMAIN module' : ~ (i > Len(unit.extens))
    BY <1>1, <1>2, <1>4, <1>9
  <2>. QED BY <1>4, <1>10, <2>1, <2>2 DEF FunctionsNamed
<1>13. HeadsOnly(unit, "extens", at + 1, module')
  <2>1. ASSUME NEW i \in DOMAIN module'
        PROVE  \E j \in DOMAIN unit.extens : j < at + 1 /\ module'[i].name[1] = unit.extens[j].name
    <3>1. CASE i = at
      BY <1>2, <1>4, <1>7, <1>8, <3>1
    <3>2. CASE i # at
      <4>1. i \in DOMAIN module
        BY <1>2, <1>5, <1>9, <3>2
      <4>2. PICK j \in DOMAIN unit.extens : j < at /\ module[i].name[1] = unit.extens[j].name
        BY <1>2, <4>1 DEF HeadsOnly
      <4>3. j < at + 1
        BY <1>2, <1>4, <4>2
      <4>. QED BY <1>8, <4>1, <4>2, <4>3
    <3>. QED BY <3>1, <3>2
  <2>2. Len(module') = (at + 1) - 1
    BY <1>2, <1>8
  <2>. QED BY <2>1, <2>2 DEF HeadsOnly
<1>14. VariablesNamed(tree, "extens", at + 1, module')
  BY DEF VariablesNamed
<1>15. at + 1 \in Nat \ {0}
  BY <1>2
<1>16. Generated(tree, unit, p, f, "extens", at + 1, module', nameOf', valOf, current)
  BY <1>2, <1>3, <1>9, <1>11, <1>12, <1>13, <1>14, <1>15 DEF Generated
<1>. QED BY <1>1, <1>8, <1>16 DEF StillGenerated

\* The functions of externs stay.
LEMMA ExternsStay ==
  ASSUME NEW u, NEW ps, NEW p2, ps # "extens", NEW k, NEW k2, NEW md, NEW no, NEW m2, NEW n2,
         ExternsNamed(u, ps, k, md, no),
         \A i \in DOMAIN u.extens : i \in DOMAIN md => i \in DOMAIN m2 /\ m2[i] = md[i],
         \A i \in DOMAIN u.extens : i \in DOMAIN no => i \in DOMAIN n2 /\ n2[i] = no[i]
  PROVE  ExternsNamed(u, p2, k2, m2, n2)
<1>1. ASSUME NEW i \in DOMAIN u.extens PROVE Extern(u, i, m2, n2)
  <2>1. Extern(u, i, md, no)
    BY DEF ExternsNamed
  <2>. QED BY <2>1 DEF Extern
<1>. QED BY <1>1 DEF ExternsNamed

LEMMA PredeclareGenerates ==
  ASSUME NEW p, NEW f, Generating(p, f), predeclare
  PROVE  \E g : StillGenerated(p, g)
<1>1. /\ AcceptedWith(p) /\ Structure /\ pass = "forward" /\ at <= Len(unit.stmts)
      /\ at' = at + 1 /\ pass' = pass /\ UNCHANGED <<valOf, current>>
  BY AcceptedTyped DEF Generating, predeclare
<1>2. /\ at \in Nat \ {0} /\ module \in Seq(Values) /\ Numbered(module)
      /\ ExternsNamed(unit, "forward", at, module, nameOf)
      /\ FunctionsNamed(tree, unit, f, Built(tree, "forward", at), Reached("forward", at), module, nameOf)
      /\ HeadsOnly(unit, "forward", at, module)
      /\ Inside(tree, p, f, Reached("forward", at), current)
      /\ Stored(tree, p, f, Reached("forward", at), valOf)
      /\ Built(tree, "forward", at) \in SUBSET DOMAIN tree
  BY <1>1, GeneratingFacts
<1> DEFINE H == Built(tree, "forward", at)
           H2 == Built(tree, "forward", at + 1)
<1>3. Reached("forward", at) = 1 /\ Reached("forward", at + 1) = 1
  BY DEF Reached
<1>4. /\ at + 1 \in Nat
      /\ H = {e \in DOMAIN tree : tree[e].node = "func" /\ tree[e].item # 0 /\ tree[e].item < at}
      /\ H2 = {e \in DOMAIN tree : tree[e].node = "func" /\ tree[e].item # 0 /\ tree[e].item < at + 1}
  BY <1>1, <1>2, BuiltForward
<1>5. \A e \in DOMAIN tree : tree[e].node = "func" =>
        tree[e].item \in Nat /\ (tree[e].item # 0 => tree[e].item \in FunctionsOf(unit))
  BY <1>1, FunctionNode
<1>6. VariablesNamed(tree, "forward", at + 1, module')
  BY DEF VariablesNamed
<1>7. CASE unit.stmts[at].kind # "func"
  <2>1. module' = module /\ nameOf' = nameOf
    BY <1>7 DEF predeclare
  <2>2. H2 = H
    <3>1. at \notin FunctionsOf(unit)
      BY <1>7 DEF FunctionsOf
    <3>2. ASSUME NEW e \in DOMAIN tree, tree[e].node = "func", tree[e].item # 0
          PROVE  tree[e].item < at + 1 <=> tree[e].item < at
      <4>1. tree[e].item \in Nat /\ tree[e].item # at
        BY <1>5, <3>1, <3>2
      <4>. QED BY <1>2, <4>1
    <3>. QED BY <1>4, <3>2
  <2>3. HeadsOnly(unit, "forward", at + 1, module)
    <3>1. \A j \in FunctionsOf(unit) : j < at => j < at + 1
      BY <1>1, <1>2, UnitTyped
    <3>. QED BY <1>2, <3>1 DEF HeadsOnly
  <2>4. ExternsNamed(unit, "forward", at + 1, module, nameOf)
    BY <1>2 DEF ExternsNamed
  <2>5. Generated(tree, unit, p, f, "forward", at + 1, module', nameOf', valOf, current)
    BY <1>2, <1>3, <1>4, <1>6, <2>1, <2>2, <2>3, <2>4 DEF Generated
  <2>6. Lengthens(module, module')
    BY <1>2, <2>1, LengthensSame
  <2>. QED BY <1>1, <2>5, <2>6 DEF StillGenerated
<1>8. CASE unit.stmts[at].kind = "func"
  <2>1. at \in FunctionsOf(unit)
    BY <1>1, <1>2, <1>8, UnitTyped DEF FunctionsOf
  <2> DEFINE own == CHOOSE i \in DOMAIN tree : tree[i].node = "func" /\ tree[i].item = at
             v   == Value("fn", tree[own].site[2], tree[own].site, TRUE)
  <2>2. module' = Append(module, v) /\ nameOf' = setName(tree[own].type, v)
    BY <1>8 DEF predeclare, Predeclare
  <2>3. IsOwn(own, at)
    <3>1. \E e : IsOwn(e, at)
      BY <1>1, <2>1, OwnNode
    <3>. QED BY <3>1 DEF IsOwn
  <2>4. own \in DOMAIN tree /\ tree[own].node = "func" /\ tree[own].item = at
    BY <2>3 DEF IsOwn
  <2>5. \A e : IsOwn(e, at) => e = own
    BY <1>1, <2>1, <2>3, OwnNode
  <2> HIDE DEF own
  <2> DEFINE n == tree[own]
             x == unit.stmts[at].heading.name
             g == [f EXCEPT ![own] = Len(module')]
  <2>6. /\ n.site = <<0, x>> /\ n.site[2] = x /\ n.type \in Nat \ {0}
        /\ n.type \notin DOMAIN unit.extens
    BY <1>1, <1>2, <2>4, FunctionNode
  <2>7. /\ x \in Names /\ x \in Labels
        /\ \A i \in DOMAIN module : module[i].name[1] # x
    <3>1. x \in Names
      BY <1>1, <2>1, UnitTyped
    <3>2. \A i \in FunctionsOf(unit) : i < at => unit.stmts[i].heading.name # x
      <4>1. \A i \in FunctionsOf(unit) : unit.stmts[i].heading.name = x => i = at
        BY <1>1, <2>1, HeadsApart
      <4>. QED BY <1>2, <4>1
    <3>3. \A i \in DOMAIN unit.extens : unit.extens[i].name # x
      BY <1>1, <2>1, HeadsApart
    <3>4. ASSUME NEW i \in DOMAIN module PROVE module[i].name[1] # x
      BY <1>2, <3>2, <3>3 DEF HeadsOnly
    <3>. QED BY <3>1, <3>4 DEF Labels, Ids
  <2>8. /\ v \in Values /\ v.name = Unique(v.name[1]) /\ v.name[1] = x /\ v.name = <<x, 0>>
        /\ v.kind = "fn" /\ v.site = n.site /\ v.public /\ v.bodies = 0
    <3>1. n.site \in Nat \X Labels
      BY <2>6, <2>7
    <3>2. v.kind = "fn" /\ v.site = n.site /\ v.public /\ v.bodies = 0 /\ IsValue(v, x, n.site)
      BY <2>6 DEF IsValue, Value
    <3> HIDE DEF x, v
    <3>. QED BY <1>2, <2>7, <3>1, <3>2, ValueMade
  <2> HIDE DEF v, x
  <2>9. /\ Lengthens(module, module') /\ Len(module') = Len(module) + 1
        /\ module'[Len(module')] = v
        /\ \A i \in DOMAIN module : module'[i] = module[i]
    BY <1>2, <2>2, <2>8, Lengthened
  <2>10. /\ Numbered(module') /\ module' \in Seq(Values)
         /\ Len(module) \in Nat /\ DOMAIN module = 1..Len(module) /\ DOMAIN module' = 1..Len(module')
    BY <1>2, <2>9, LengthensFacts DEF Lengthens
  <2>11. H2 = H \union {own} /\ own \notin H
    <3>1. ASSUME NEW e \in DOMAIN tree, tree[e].node = "func", tree[e].item # 0
          PROVE  tree[e].item < at + 1 <=> (tree[e].item < at \/ e = own)
      <4>1. tree[e].item \in Nat /\ (tree[e].item = at => e = own)
        BY <1>5, <2>5, <3>1 DEF IsOwn
      <4>. QED BY <1>2, <2>4, <4>1
    <3>. QED BY <1>2, <1>4, <2>4, <3>1
  <2>12. \A e \in H : tree[e].node = "func" => tree[e].type # n.type
    BY <1>1, <1>4, <2>4, <2>11, TypesApart
  <2>13. FunctionsNamed(tree, unit, g, H2, 1, module', nameOf')
    <3>1. /\ DOMAIN tree \subseteq Nat /\ H \in SUBSET DOMAIN tree /\ 1 \in Nat /\ Reaches(1, 1, own)
          /\ FunctionsNamed(tree, unit, f, H, 1, module, nameOf)
      BY <1>1, <1>2, <1>3, AcceptedTyped DEF Reaches
    <3>2. Len(unit.extens) \in 0..Len(module) /\ DOMAIN unit.extens = 1..Len(unit.extens)
      BY <1>1, ExternsFirst, UnitTyped
    <3>3. v.bodies = IF own < 1 THEN 1 ELSE 0
      BY <1>1, <2>4, <2>8, AcceptedTyped
    <3>4. nameOf' = With(nameOf, {n.type}, v.name)
      BY <2>2 DEF setName
    <3>5. n.item # 0 => v.name = <<n.site[2], 0>> /\ v.public
      BY <2>6, <2>8 DEF x
    <3>7. Joins(module, v, module')
      BY <2>9 DEF Joins
    <3>8. Takes(tree, own, H, nameOf, v, nameOf')
      BY <2>4, <2>8, <2>12, <3>4, <3>5 DEF Takes
    <3> HIDE DEF H, H2, g
    <3>6. FunctionsNamed(tree, unit, [f EXCEPT ![own] = Len(module')], H \union {own}, 1, module', nameOf')
      BY <1>2, <2>4, <2>8, <2>11, <3>1, <3>2, <3>3, <3>7, <3>8, FunctionAdded
    <3>. QED BY <2>11, <3>6 DEF g
  <2>14. ExternsNamed(unit, "forward", at + 1, module', nameOf')
    <3>1. \A i \in DOMAIN unit.extens : i \in DOMAIN module => i \in DOMAIN module' /\ module'[i] = module[i]
      BY <2>9, <2>10
    <3>2. \A i \in DOMAIN unit.extens : i \in DOMAIN nameOf => i \in DOMAIN nameOf' /\ nameOf'[i] = nameOf[i]
      BY <2>2, <2>6 DEF setName, With
    <3>. QED BY <1>2, <3>1, <3>2, ExternsStay
  <2>15. HeadsOnly(unit, "forward", at + 1, module')
    <3>1. ASSUME NEW i \in DOMAIN module'
          PROVE  \/ \E j \in DOMAIN unit.extens : module'[i].name[1] = unit.extens[j].name
                 \/ \E j \in FunctionsOf(unit) :
                       j < at + 1 /\ module'[i].name[1] = unit.stmts[j].heading.name
      <4>1. CASE i = Len(module')
        <5>1. module'[i].name[1] = x /\ at < at + 1
          BY <1>2, <2>8, <2>9, <4>1
        <5>. QED BY <2>1, <5>1 DEF x
      <4>2. CASE i # Len(module')
        <5>1. i \in DOMAIN module
          BY <2>9, <2>10, <4>2
        <5>2. \/ \E j \in DOMAIN unit.extens : module[i].name[1] = unit.extens[j].name
              \/ \E j \in FunctionsOf(unit) : j < at /\ module[i].name[1] = unit.stmts[j].heading.name
          BY <1>2, <5>1 DEF HeadsOnly
        <5>3. \A j \in FunctionsOf(unit) : j < at => j < at + 1
          BY <1>1, <1>2, UnitTyped
        <5>. QED BY <2>9, <5>1, <5>2, <5>3
      <4>. QED BY <4>1, <4>2
    <3>. QED BY <3>1 DEF HeadsOnly
  <2>16. Inside(tree, p, g, 1, current) /\ Stored(tree, p, g, 1, valOf)
    <3>1. Inside(tree, p, f, 1, current) /\ Stored(tree, p, f, 1, valOf)
      BY <1>2, <1>3
    <3> HIDE DEF g
    <3>. QED BY <1>1, <3>1, NothingInside
  <2> HIDE DEF g
  <2>17. Generated(tree, unit, p, g, "forward", at + 1, module', nameOf', valOf, current)
    BY <1>2, <1>3, <1>4, <1>6, <2>10, <2>13, <2>14, <2>15, <2>16 DEF Generated
  <2>. QED BY <1>1, <2>9, <2>17 DEF StillGenerated
<1>. QED BY <1>7, <1>8

-----------------------------------------------------------------------------
(* The walk over the tree.                                                    *)

LEMMA AtNodeFacts ==
  ASSUME NEW p, NEW f, Generating(p, f), NEW kind, AtNode(kind)
  PROVE  /\ AcceptedWith(p) /\ pass = "tree" /\ at \in DOMAIN tree /\ at \in Nat \ {0}
         /\ tree[at].node = kind /\ at' = at + 1 /\ UNCHANGED <<vars, tree>>
         /\ Built(tree, "tree", at) \in SUBSET DOMAIN tree
         /\ FunctionsNamed(tree, unit, f, Built(tree, "tree", at), at, module, nameOf)
         /\ Inside(tree, p, f, at, current) /\ Stored(tree, p, f, at, valOf)
         /\ f \in [DOMAIN tree -> Nat] /\ module \in Seq(Values) /\ Numbered(module)
         /\ Len(unit.extens) \in 0..Len(module) /\ DOMAIN unit.extens = 1..Len(unit.extens)
<1>1. /\ AcceptedWith(p) /\ pass = "tree" /\ at <= Len(tree) /\ tree[at].node = kind
      /\ at' = at + 1 /\ UNCHANGED <<vars, tree>>
  BY DEF Generating, AtNode, Node
<1>2. Structure /\ Len(tree) \in Nat /\ DOMAIN tree = 1..Len(tree)
  BY <1>1, AcceptedTyped
<1>3. Reached("tree", at) = at
  BY DEF Reached
<1>4. /\ at \in Nat \ {0} /\ module \in Seq(Values) /\ Numbered(module)
      /\ FunctionsNamed(tree, unit, f, Built(tree, "tree", at), at, module, nameOf)
      /\ Inside(tree, p, f, at, current) /\ Stored(tree, p, f, at, valOf)
      /\ f \in [DOMAIN tree -> Nat] /\ Built(tree, "tree", at) \in SUBSET DOMAIN tree
  BY <1>1, <1>3, GeneratingFacts
<1>5. at \in DOMAIN tree
  BY <1>1, <1>2, <1>4
<1>6. Len(unit.extens) \in 0..Len(module) /\ DOMAIN unit.extens = 1..Len(unit.extens)
  BY <1>1, <1>2, ExternsFirst, UnitTyped
<1>. QED BY <1>1, <1>4, <1>5, <1>6

LEMMA BuiltStep ==
  ASSUME NEW p, AcceptedWith(p), NEW k \in DOMAIN tree
  PROVE  /\ Built(tree, "tree", k + 1) = Built(tree, "tree", k) \union
                                           (IF Begins(tree[k]) THEN {k} ELSE {})
         /\ k \in Built(tree, "tree", k) <=> tree[k].node = "func" /\ tree[k].item # 0
<1>1. \A e \in DOMAIN tree : e < k + 1 <=> (e < k \/ e = k)
  BY AcceptedTyped
<1>2. ~ (k < k)
  BY AcceptedTyped
<1>3. Built(tree, "tree", k + 1) = {e \in DOMAIN tree : /\ Begins(tree[e])
                                                        /\ \/ e < k + 1
                                                           \/ tree[e].node = "func" /\ tree[e].item # 0}
  BY BuiltTree
<1>4. Built(tree, "tree", k) = {e \in DOMAIN tree : /\ Begins(tree[e])
                                                    /\ \/ e < k
                                                       \/ tree[e].node = "func" /\ tree[e].item # 0}
  BY BuiltTree
<1>5. k \in Built(tree, "tree", k) <=> tree[k].node = "func" /\ tree[k].item # 0
  BY <1>2, <1>4 DEF Begins
<1>6. Built(tree, "tree", k + 1) = Built(tree, "tree", k) \union (IF Begins(tree[k]) THEN {k} ELSE {})
  BY <1>1, <1>3, <1>4
<1>. QED BY <1>5, <1>6

HasVariable(md, site) ==
  \E i \in DOMAIN md : md[i].kind = "var" /\ md[i].name = <<site[2], 0>> /\ md[i].site = site

LEMMA VariablesStay ==
  ASSUME NEW tr, DOMAIN tr \subseteq Nat, NEW k \in Nat, NEW md, Numbered(md), NEW m2,
         Lengthens(md, m2), VariablesNamed(tr, "tree", k, md),
         k \in DOMAIN tr /\ IsGlobal(tr[k]) => HasVariable(m2, tr[k].site)
  PROVE  VariablesNamed(tr, "tree", k + 1, m2)
<1>1. ASSUME NEW j \in DOMAIN tr, j < k + 1, IsGlobal(tr[j]) PROVE HasVariable(m2, tr[j].site)
  <2>1. CASE j = k
    BY <1>1, <2>1
  <2>2. CASE j # k
    <3>1. j < k
      BY <1>1, <2>2
    <3>2. HasVariable(md, tr[j].site)
      BY <1>1, <3>1 DEF VariablesNamed, HasVariable
    <3>3. DOMAIN md \subseteq DOMAIN m2
      BY LengthensFacts
    <3>. QED BY <3>2, <3>3 DEF HasVariable, Lengthens
  <2>. QED BY <2>1, <2>2
<1>. QED BY <1>1 DEF VariablesNamed, HasVariable

LEMMA TreeStep ==
  ASSUME NEW p, NEW f, NEW g, Generating(p, f), NEW kind, AtNode(kind),
         pass' \in {"tree", "crashed"}, Lengthens(module, module'),
         \A i \in DOMAIN unit.extens : i \in DOMAIN module => module'[i] = module[i],
         \A i \in DOMAIN unit.extens : i \in DOMAIN nameOf => i \in DOMAIN nameOf' /\ nameOf'[i] = nameOf[i],
         FunctionsNamed(tree, unit, g, Built(tree, "tree", at + 1), at + 1, module', nameOf'),
         pass' = "tree" /\ IsGlobal(tree[at]) => HasVariable(module', tree[at].site),
         Inside(tree, p, g, at + 1, current'), Stored(tree, p, g, at + 1, valOf')
  PROVE  StillGenerated(p, g)
<1>1. AcceptedWith(p) /\ pass = "tree" /\ at \in Nat \ {0} /\ at' = at + 1 /\ Numbered(module)
  BY AtNodeFacts
<1>2. ExternsNamed(unit, "tree", at, module, nameOf) /\ VariablesNamed(tree, "tree", at, module)
  BY <1>1, GeneratingFacts
<1>3. Numbered(module') /\ module' \in Seq(Values) /\ DOMAIN module \subseteq DOMAIN module'
  BY <1>1, LengthensFacts DEF Lengthens
<1> DEFINE m2 == module'
           n2 == nameOf'
           p2 == pass'
           k2 == at + 1
<1>4. ExternsNamed(unit, p2, k2, m2, n2)
  BY <1>2, <1>3, ExternsStay
<1>5. HeadsOnly(unit, p2, k2, m2)
  BY DEF HeadsOnly
<1>6. VariablesNamed(tree, p2, k2, m2)
  <2>1. CASE p2 = "tree"
    <3>1. DOMAIN tree \subseteq Nat
      BY <1>1, AcceptedTyped
    <3>2. VariablesNamed(tree, "tree", at + 1, m2)
      BY <1>1, <1>2, <2>1, <3>1, VariablesStay
    <3>. QED BY <2>1, <3>2
  <2>2. CASE p2 = "crashed"
    BY <2>2 DEF VariablesNamed
  <2>. QED BY <2>1, <2>2
<1>7. Reached(p2, k2) = k2 /\ Built(tree, p2, k2) = Built(tree, "tree", at + 1)
  <2>1. Built(tree, p2, k2) = Built(tree, "tree", at + 1)
    BY DEF Built, Reached
  <2>. QED BY <2>1 DEF Reached
<1>8. FunctionsNamed(tree, unit, g, Built(tree, p2, k2), Reached(p2, k2), m2, n2)
  BY <1>7
<1>9. Inside(tree, p, g, Reached(p2, k2), current') /\ Stored(tree, p, g, Reached(p2, k2), valOf')
  BY <1>7
<1>10. k2 \in Nat \ {0} /\ p2 \in {"extens", "forward", "tree", "end", "crashed"} /\ p2 # "end"
       /\ m2 \in Seq(Values) /\ Numbered(m2)
  BY <1>1, <1>3
<1> DEFINE c2 == current'
           v2 == valOf'
<1> HIDE DEF m2, n2, p2, k2, c2, v2
<1>11. Inside(tree, p, g, Reached(p2, k2), c2) /\ Stored(tree, p, g, Reached(p2, k2), v2)
  BY <1>9 DEF c2, v2
<1>12. Generated(tree, unit, p, g, p2, k2, m2, n2, v2, c2)
  BY <1>4, <1>5, <1>6, <1>8, <1>10, <1>11 DEF Generated
<1>13. Generated(tree, unit, p, g, pass', at + 1, module', nameOf', valOf', current')
  BY <1>12 DEF p2, k2, m2, n2, v2, c2
<1>. QED BY <1>1, <1>13 DEF StillGenerated

LEMMA EndOfBodyGenerates ==
  ASSUME NEW p, NEW f, Generating(p, f), endOfBody
  PROVE  StillGenerated(p, f)
<1>1. /\ AtNode("end") /\ current' = SubSeq(current, 1, Len(current) - 1)
      /\ UNCHANGED <<pass, module, nameOf, valOf>>
  BY DEF endOfBody
<1>2. /\ AcceptedWith(p) /\ pass = "tree" /\ at \in DOMAIN tree /\ tree[at].node = "end" /\ at \in Nat
      /\ Built(tree, "tree", at) \in SUBSET DOMAIN tree
      /\ FunctionsNamed(tree, unit, f, Built(tree, "tree", at), at, module, nameOf)
      /\ Inside(tree, p, f, at, current) /\ Stored(tree, p, f, at, valOf)
      /\ module \in Seq(Values) /\ Numbered(module)
  BY <1>1, AtNodeFacts
<1>3. Paths(p, tree) /\ ~ Begins(tree[at]) /\ ~ IsLocal(tree[at]) /\ ~ IsGlobal(tree[at])
      /\ DOMAIN tree \subseteq Nat
  BY <1>2, AcceptedTyped DEF Begins, IsLocal, IsGlobal
<1>4. Built(tree, "tree", at + 1) = Built(tree, "tree", at) /\ at \notin Built(tree, "tree", at)
  BY <1>2, <1>3, BuiltStep DEF Begins
<1>5. Lengthens(module, module)
  BY <1>2, LengthensSame
<1>6. FunctionsNamed(tree, unit, f, Built(tree, "tree", at + 1), at + 1, module, nameOf)
  <2> DEFINE H == Built(tree, "tree", at)
             r2 == at + 1
  <2>1. r2 \in {at, at + 1} /\ at \notin H /\ H \in SUBSET DOMAIN tree
    BY <1>2, <1>4
  <2>2. FunctionsNamed(tree, unit, f, H, at, module, nameOf)
    BY <1>2
  <2> HIDE DEF H, r2
  <2>3. FunctionsNamed(tree, unit, f, H, r2, module, nameOf)
    BY <1>2, <1>3, <1>5, <2>1, <2>2, FunctionsAlong
  <2>. QED BY <1>4, <2>3 DEF H, r2
<1>7. Inside(tree, p, f, at + 1, current')
  BY <1>1, <1>2, <1>3, InsideEnd
<1>8. Stored(tree, p, f, at + 1, valOf')
  BY <1>1, <1>2, <1>3, StoredAlong
<1>9. /\ pass' \in {"tree", "crashed"} /\ Lengthens(module, module')
      /\ FunctionsNamed(tree, unit, f, Built(tree, "tree", at + 1), at + 1, module', nameOf')
  BY <1>1, <1>2, <1>5, <1>6
<1>. QED BY <1>1, <1>3, <1>7, <1>8, <1>9, TreeStep

\* Node at has no function, and none is made for it.
LEMMA FunctionsPass ==
  ASSUME NEW p, NEW f, Generating(p, f), NEW kind, AtNode(kind), kind \in {"end", "use", "decl"},
         NEW m2, Lengthens(module, m2), \A i \in DOMAIN module : m2[i] = module[i],
         \A i \in DOMAIN m2 : i \in DOMAIN module \/ m2[i].kind = "var"
  PROVE  FunctionsNamed(tree, unit, f, Built(tree, "tree", at + 1), at + 1, m2, nameOf)
<1>1. /\ AcceptedWith(p) /\ at \in DOMAIN tree /\ tree[at].node = kind /\ at \in Nat
      /\ Built(tree, "tree", at) \in SUBSET DOMAIN tree
      /\ FunctionsNamed(tree, unit, f, Built(tree, "tree", at), at, module, nameOf)
      /\ module \in Seq(Values) /\ Numbered(module)
  BY AtNodeFacts
<1>2. DOMAIN tree \subseteq Nat
  BY <1>1, AcceptedTyped
<1>3. Built(tree, "tree", at + 1) = Built(tree, "tree", at) /\ at \notin Built(tree, "tree", at)
  BY <1>1, BuiltStep DEF Begins
<1> DEFINE H == Built(tree, "tree", at)
           r2 == at + 1
<1>4. r2 \in {at, at + 1} /\ at \notin H /\ H \in SUBSET DOMAIN tree
  BY <1>1, <1>3
<1>5. FunctionsNamed(tree, unit, f, H, at, module, nameOf)
  BY <1>1
<1> HIDE DEF H, r2
<1>6. FunctionsNamed(tree, unit, f, H, r2, m2, nameOf)
  BY <1>1, <1>2, <1>4, <1>5, FunctionsAlong
<1>. QED BY <1>3, <1>6 DEF H, r2

LEMMA UseGenerates ==
  ASSUME NEW p, NEW f, Generating(p, f), use
  PROVE  StillGenerated(p, f)
<1>1. AtNode("use") /\ UNCHANGED <<pass, module, nameOf, valOf, current>>
  BY DEF use
<1>2. /\ AcceptedWith(p) /\ pass = "tree" /\ at \in DOMAIN tree /\ tree[at].node = "use"
      /\ Inside(tree, p, f, at, current) /\ Stored(tree, p, f, at, valOf)
      /\ module \in Seq(Values)
  BY <1>1, AtNodeFacts
<1>3. Paths(p, tree) /\ ~ Begins(tree[at]) /\ ~ IsLocal(tree[at]) /\ ~ IsGlobal(tree[at])
  BY <1>2, AcceptedTyped DEF Begins, IsLocal, IsGlobal
<1>4. Lengthens(module, module)
  BY <1>2, LengthensSame
<1>5. FunctionsNamed(tree, unit, f, Built(tree, "tree", at + 1), at + 1, module, nameOf)
  BY <1>1, <1>4, FunctionsPass
<1>6. Inside(tree, p, f, at + 1, current')
  BY <1>1, <1>2, <1>3, InsideAlong
<1>7. Stored(tree, p, f, at + 1, valOf')
  BY <1>1, <1>2, <1>3, StoredAlong
<1>8. /\ pass' \in {"tree", "crashed"} /\ Lengthens(module, module')
      /\ FunctionsNamed(tree, unit, f, Built(tree, "tree", at + 1), at + 1, module', nameOf')
  BY <1>1, <1>2, <1>4, <1>5
<1>. QED BY <1>1, <1>3, <1>6, <1>7, <1>8, TreeStep

LEMMA DeclGenerates ==
  ASSUME NEW p, NEW f, Generating(p, f), TvisitVarDeclStatement
  PROVE  StillGenerated(p, f)
<1>1. AtNode("decl") /\ UNCHANGED <<nameOf, current>>
  BY DEF TvisitVarDeclStatement
<1>2. /\ AcceptedWith(p) /\ pass = "tree" /\ at \in DOMAIN tree /\ tree[at].node = "decl"
      /\ Inside(tree, p, f, at, current) /\ Stored(tree, p, f, at, valOf)
      /\ module \in Seq(Values)
  BY <1>1, AtNodeFacts
<1>3. /\ Paths(p, tree) /\ ~ Begins(tree[at]) /\ tree[at] \in Nodes
      /\ ScopesOwned(tree, p, table, opened)
  BY <1>2, AcceptedTyped DEF Begins
<1>4. Inside(tree, p, f, at + 1, current')
  BY <1>1, <1>2, <1>3, InsideAlong
<1>5. tree[at].site \in Sites /\ tree[at].isGlobal \in BOOLEAN
  BY <1>2, <1>3, NodeFacts
<1>6. CASE tree[at].isGlobal
  <2> DEFINE v == Value("var", tree[at].site[2], tree[at].site, TRUE)
             x == tree[at].site[2]
             site == tree[at].site
  <2>1. /\ module' = Append(module, v) /\ valOf' = valOf
        /\ pass' = IF v.name[2] = 0 THEN pass ELSE "crashed"
    BY <1>6 DEF TvisitVarDeclStatement, Node
  <2>2. x \in Labels /\ site \in Nat \X Labels
    BY <1>5 DEF Sites, Labels, Ids
  <2>3. v.kind = "var" /\ v.site = site /\ IsValue(v, x, site)
    BY DEF IsValue, Value
  <2>4. v \in Values /\ v.name = Unique(v.name[1]) /\ v.name[1] = x
    <3> HIDE DEF x, site, v
    <3>. QED BY <1>2, <2>2, <2>3, ValueMade
  <2> HIDE DEF v
  <2>5. /\ Lengthens(module, module') /\ Len(module') = Len(module) + 1
        /\ module'[Len(module) + 1] = v
        /\ \A i \in DOMAIN module : module'[i] = module[i]
    BY <1>2, <2>1, <2>4, Lengthened
  <2>6. /\ Len(module) \in Nat /\ DOMAIN module = 1..Len(module) /\ DOMAIN module' = 1..Len(module')
    BY <1>1, <2>5, AtNodeFacts, LengthensFacts
  <2>7. \A i \in DOMAIN module' : i \in DOMAIN module \/ module'[i].kind = "var"
    <3>1. \A i \in DOMAIN module' : i \in DOMAIN module \/ i = Len(module) + 1
      BY <2>5, <2>6
    <3>. QED BY <2>3, <2>5, <3>1
  <2>8. FunctionsNamed(tree, unit, f, Built(tree, "tree", at + 1), at + 1, module', nameOf)
    BY <1>1, <2>5, <2>7, FunctionsPass
  <2>9. pass' = "tree" => HasVariable(module', site)
    <3>1. ASSUME pass' = "tree" PROVE v.name = <<x, 0>>
      <4>1. v.name[2] = 0 /\ v.name = <<v.name[1], v.name[2]>>
        BY <2>1, <2>4, <3>1, ValueFacts
      <4>. QED BY <2>4, <4>1
    <3>2. Len(module) + 1 \in DOMAIN module'
      BY <2>5, <2>6
    <3>. QED BY <2>3, <2>5, <3>1, <3>2 DEF HasVariable
  <2>10. ~ IsLocal(tree[at])
    BY <1>6 DEF IsLocal
  <2>11. Stored(tree, p, f, at + 1, valOf')
    BY <1>2, <1>3, <2>1, <2>10, StoredAlong
  <2>12. pass' \in {"tree", "crashed"}
    BY <1>2, <2>1
  <2>13. FunctionsNamed(tree, unit, f, Built(tree, "tree", at + 1), at + 1, module', nameOf')
    BY <1>1, <2>8
  <2>14. \A i \in DOMAIN unit.extens : i \in DOMAIN nameOf => i \in DOMAIN nameOf' /\ nameOf'[i] = nameOf[i]
    BY <1>1
  <2> HIDE DEF x
  <2>. QED BY <1>1, <1>4, <2>5, <2>9, <2>11, <2>12, <2>13, <2>14, TreeStep
<1>7. CASE ~ tree[at].isGlobal
  <2>1. valOf' = With(valOf, {tree[at].site}, Here) /\ UNCHANGED <<module, pass>>
    BY <1>7 DEF TvisitVarDeclStatement, Node
  <2>2. IsLocal(tree[at]) /\ ~ IsGlobal(tree[at])
    BY <1>2, <1>7 DEF IsLocal, IsGlobal
  <2>3. p[at - 1] # <<>>
    BY <1>2, <1>3, <2>2, StepPath
  <2>4. Here = f[Inner(p[at - 1])]
    BY <1>2, <1>3, <2>3, HereIs DEF Here
  <2>5. valOf' = With(valOf, {tree[at].site}, f[Inner(p[at - 1])])
    BY <2>1, <2>4
  <2>6. Stored(tree, p, f, at + 1, valOf')
    BY <1>2, <1>3, <2>2, <2>5, StoredLocal
  <2>7. Lengthens(module, module)
    BY <1>2, LengthensSame
  <2>8. FunctionsNamed(tree, unit, f, Built(tree, "tree", at + 1), at + 1, module, nameOf)
    BY <1>1, <2>7, FunctionsPass
  <2>9. /\ pass' \in {"tree", "crashed"} /\ Lengthens(module, module')
        /\ FunctionsNamed(tree, unit, f, Built(tree, "tree", at + 1), at + 1, module', nameOf')
    BY <1>1, <1>2, <2>1, <2>7, <2>8
  <2>. QED BY <1>1, <1>4, <2>1, <2>2, <2>6, <2>9, TreeStep
<1>. QED BY <1>6, <1>7

\* The type of a function has a name when the function is generated, exactly if it was
\* declared ahead.
LEMMA KnownIsOwn ==
  ASSUME NEW p, NEW f, Generating(p, f), AtNode("func")
  PROVE  /\ tree[at].type \in DOMAIN nameOf <=> tree[at].item # 0
         /\ tree[at].item # 0 => /\ at \in Built(tree, "tree", at)
                                 /\ FunctionOf(tree, unit, at, f[at], at, module, nameOf)
                                 /\ Named("fn", nameOf[tree[at].type]) = f[at]
<1> DEFINE H == Built(tree, "tree", at)
           n == tree[at]
<1>1. /\ AcceptedWith(p) /\ at \in DOMAIN tree /\ n.node = "func"
      /\ FunctionsNamed(tree, unit, f, H, at, module, nameOf)
      /\ module \in Seq(Values) /\ Numbered(module) /\ H \in SUBSET DOMAIN tree
  BY AtNodeFacts
<1>2. at \in H <=> n.item # 0
  BY <1>1, BuiltStep
<1>3. n.type \notin DOMAIN unit.extens
  BY <1>1, FunctionNode
<1>4. \A e \in DOMAIN tree : tree[e].node = "func" /\ tree[e].type = n.type => e = at
  BY <1>1, TypesApart
<1> HIDE DEF H
<1>5. n.type \in DOMAIN nameOf => at \in H
  BY <1>1, <1>3, <1>4 DEF FunctionsNamed
<1>6. ASSUME at \in H
      PROVE  /\ FunctionOf(tree, unit, at, f[at], at, module, nameOf)
             /\ n.type \in DOMAIN nameOf
             /\ Named("fn", nameOf[n.type]) = f[at]
  <2>1. FunctionOf(tree, unit, at, f[at], at, module, nameOf)
    BY <1>1, <1>6 DEF FunctionsNamed
  <2>2. /\ f[at] \in DOMAIN module /\ module[f[at]].kind = "fn"
        /\ n.type \in DOMAIN nameOf /\ nameOf[n.type] = module[f[at]].name
    BY <1>1, <2>1 DEF FunctionOf
  <2>3. Named(module[f[at]].kind, module[f[at]].name) = f[at]
    BY <1>1, <2>2, NamedIs
  <2>. QED BY <2>1, <2>2, <2>3
<1>. QED BY <1>2, <1>5, <1>6 DEF H

\* A body begins: the function g[at] of the node is entered.
LEMMA EntersBody ==
  ASSUME NEW p, NEW f, Generating(p, f), NEW kind, AtNode(kind), Begins(tree[at]),
         NEW g, SameBefore(f, g, at), g[at] \in Nat, Enters(g[at])
  PROVE  Inside(tree, p, g, at + 1, current') /\ Stored(tree, p, g, at + 1, valOf')
<1>1. /\ AcceptedWith(p) /\ at \in DOMAIN tree
      /\ Inside(tree, p, f, at, current) /\ Stored(tree, p, f, at, valOf)
  BY AtNodeFacts
<1>2. Paths(p, tree) /\ ScopesOwned(tree, p, table, opened)
  BY <1>1, AcceptedTyped
<1>3. /\ current' = Append(current, g[at])
      /\ valOf' = With(valOf, {tree[at].scope} \X {tree[at].params[i] : i \in DOMAIN tree[at].params},
                       g[at])
  BY DEF Enters, Node
<1>4. Inside(tree, p, g, at + 1, Append(current, g[at]))
  BY <1>1, <1>2, InsideEnter
<1>5. Stored(tree, p, g, at + 1, valOf')
  BY <1>1, <1>2, <1>3, StoredEnter
<1>. QED BY <1>3, <1>4, <1>5

LEMMA KnownGenerates ==
  ASSUME NEW p, NEW f, Generating(p, f), visitInvokeableCode, tree[at].type \in DOMAIN nameOf
  PROVE  StillGenerated(p, f)
<1> DEFINE H == Built(tree, "tree", at)
<1>1. AtNode("func") /\ UNCHANGED pass
  BY DEF visitInvokeableCode
<1>2. /\ AcceptedWith(p) /\ pass = "tree" /\ at \in DOMAIN tree /\ tree[at].node = "func"
      /\ FunctionsNamed(tree, unit, f, H, at, module, nameOf) /\ f \in [DOMAIN tree -> Nat]
      /\ module \in Seq(Values) /\ Numbered(module) /\ H \in SUBSET DOMAIN tree /\ at \in Nat
      /\ Len(unit.extens) \in 0..Len(module) /\ DOMAIN unit.extens = 1..Len(unit.extens)
  BY <1>1, AtNodeFacts
<1>3. at \in H /\ Named("fn", nameOf[tree[at].type]) = f[at]
  BY <1>1, KnownIsOwn
<1>4. module' = [module EXCEPT ![f[at]].bodies = @ + 1] /\ nameOf' = nameOf /\ Enters(f[at])
  BY <1>3 DEF visitInvokeableCode, Node
<1>5. Built(tree, "tree", at + 1) = H
  <2> DEFINE G == Built(tree, "tree", at + 1)
             A == IF Begins(tree[at]) THEN {at} ELSE {}
  <2>1. G = H \union A
    BY <1>2, BuiltStep
  <2>2. A \in SUBSET {at}
    OBVIOUS
  <2> HIDE DEF G, H, A
  <2>3. G = H
    BY <1>3, <2>1, <2>2
  <2>. QED BY <2>3 DEF G
<1>6. Begins(tree[at]) /\ ~ IsGlobal(tree[at]) /\ DOMAIN tree \subseteq Nat
  BY <1>2, AcceptedTyped DEF Begins, IsGlobal
<1> HIDE DEF H
<1>7. /\ FunctionsNamed(tree, unit, f, H, at + 1, module', nameOf)
      /\ f[at] > Len(unit.extens) /\ f[at] \in DOMAIN module
      /\ \A i \in DOMAIN module : i # f[at] => module'[i] = module[i]
      /\ Lengthens(module, module')
  <2> DEFINE m2 == module'
  <2>1. m2 = Gains(module, f[at])
    BY <1>4 DEF Gains
  <2> HIDE DEF m2
  <2>2. /\ FunctionsNamed(tree, unit, f, H, at + 1, m2, nameOf)
        /\ f[at] > Len(unit.extens) /\ f[at] \in DOMAIN module
        /\ \A i \in DOMAIN module : i # f[at] => m2[i] = module[i]
        /\ Lengthens(module, m2)
    <3>1. /\ DOMAIN tree \subseteq Nat /\ H \in SUBSET DOMAIN tree /\ at \in H
          /\ module \in Seq(Values) /\ FunctionsNamed(tree, unit, f, H, at, module, nameOf)
      BY <1>2, <1>3, <1>6
    <3>2. FunctionsNamed(tree, unit, f, H, at + 1, m2, nameOf)
      BY <2>1, <3>1, FunctionGenerated
    <3>3. f[at] > Len(unit.extens)
      BY <2>1, <3>1, FunctionGenerated
    <3>4. f[at] \in DOMAIN module
      BY <2>1, <3>1, FunctionGenerated
    <3>5. \A i \in DOMAIN module : i # f[at] => m2[i] = module[i]
      BY <2>1, <3>1, FunctionGenerated
    <3>6. Lengthens(module, m2)
      BY <2>1, <3>1, FunctionGenerated
    <3>. QED BY <3>2, <3>3, <3>4, <3>5, <3>6
  <2>. QED BY <2>2 DEF m2
<1>8. \A i \in DOMAIN unit.extens : i \in DOMAIN module => module'[i] = module[i]
  BY <1>2, <1>7
<1>9. SameBefore(f, f, at) /\ f[at] \in Nat
  BY <1>2 DEF SameBefore
<1>10. Inside(tree, p, f, at + 1, current') /\ Stored(tree, p, f, at + 1, valOf')
  BY <1>1, <1>4, <1>6, <1>9, EntersBody
<1>11. /\ pass' \in {"tree", "crashed"}
       /\ FunctionsNamed(tree, unit, f, Built(tree, "tree", at + 1), at + 1, module', nameOf')
       /\ \A i \in DOMAIN unit.extens : i \in DOMAIN nameOf => i \in DOMAIN nameOf' /\ nameOf'[i] = nameOf[i]
  BY <1>1, <1>2, <1>4, <1>5, <1>7
<1>. QED BY <1>1, <1>6, <1>7, <1>8, <1>10, <1>11, TreeStep

\* A function that is made when its body begins: v, with a body.
LEMMA MadeGenerates ==
  ASSUME NEW p, NEW f, Generating(p, f), NEW kind, AtNode(kind), Begins(tree[at]), UNCHANGED pass,
         kind = "func" => tree[at].item = 0,
         NEW x \in Labels, NEW site \in Nat \X Labels, NEW v, IsValue(v, x, site),
         v.kind = "fn", v.bodies = 1,
         module' = Append(module, v), Enters(Len(module) + 1),
         kind # "func" => nameOf' = nameOf,
         kind = "func" => nameOf' = With(nameOf, {tree[at].type}, v.name) /\ v.site = tree[at].site
  PROVE  \E g : StillGenerated(p, g)
<1> DEFINE H  == Built(tree, "tree", at)
           H2 == Built(tree, "tree", at + 1)
           r2 == at + 1
           g  == [f EXCEPT ![at] = Len(module')]
<1>1. /\ AcceptedWith(p) /\ pass = "tree" /\ at \in DOMAIN tree /\ tree[at].node = kind
      /\ FunctionsNamed(tree, unit, f, H, at, module, nameOf) /\ f \in [DOMAIN tree -> Nat]
      /\ module \in Seq(Values) /\ Numbered(module) /\ H \in SUBSET DOMAIN tree /\ at \in Nat
      /\ Len(unit.extens) \in 0..Len(module) /\ DOMAIN unit.extens = 1..Len(unit.extens)
  BY AtNodeFacts
<1>2. at \notin H /\ H2 = H \union {at}
  BY <1>1, BuiltStep
<1>3. DOMAIN tree \subseteq Nat /\ ~ IsGlobal(tree[at])
  BY <1>1, AcceptedTyped DEF Begins, IsGlobal
<1>4. v \in Values /\ v.name = Unique(v.name[1])
  BY <1>1, ValueMade
<1>5. /\ Lengthens(module, module') /\ Len(module') = Len(module) + 1
      /\ module'[Len(module')] = v
      /\ \A i \in DOMAIN module : module'[i] = module[i]
  BY <1>1, <1>4, Lengthened
<1>6. Len(module) \in Nat
  BY <1>1, ModuleFacts
<1>7. kind = "func" => /\ tree[at].type \notin DOMAIN unit.extens
                       /\ \A e \in H : tree[e].node = "func" => tree[e].type # tree[at].type
  <2>1. ASSUME kind = "func", NEW e \in H, tree[e].node = "func" PROVE tree[e].type # tree[at].type
    BY <1>1, <1>2, <2>1, TypesApart
  <2>. QED BY <1>1, <2>1, FunctionNode
<1>8. r2 \in {at, at + 1} /\ v.bodies = (IF at < r2 THEN 1 ELSE 0)
  BY <1>1
<1> HIDE DEF H, H2, r2
<1>9. FunctionsNamed(tree, unit, [f EXCEPT ![at] = Len(module')], H \union {at}, r2, module', nameOf')
  <2> DEFINE m2 == module'
             n2 == nameOf'
  <2>1. Takes(tree, at, H, nameOf, v, n2)
    <3>1. CASE kind = "func"
      <4>1. n2 = With(nameOf, {tree[at].type}, v.name) /\ v.site = tree[at].site
        BY <3>1
      <4>. QED BY <1>1, <1>7, <3>1, <4>1 DEF Takes
    <3>2. CASE kind # "func"
      BY <1>1, <3>2 DEF Takes
    <3>. QED BY <3>1, <3>2
  <2>2. Joins(module, v, m2)
    BY <1>5 DEF Joins
  <2> HIDE DEF m2, n2
  <2>4. FunctionsNamed(tree, unit, [f EXCEPT ![at] = Len(m2)], H \union {at}, r2, m2, n2)
    <3>1. /\ DOMAIN tree \subseteq Nat /\ H \in SUBSET DOMAIN tree /\ at \in Nat
          /\ FunctionsNamed(tree, unit, f, H, at, module, nameOf) /\ Numbered(module)
          /\ Len(unit.extens) \in 0..Len(module) /\ DOMAIN unit.extens = 1..Len(unit.extens)
          /\ at \in DOMAIN tree /\ at \notin H /\ Reaches(at, r2, at)
          /\ v.kind = "fn" /\ v.bodies = (IF at < r2 THEN 1 ELSE 0)
      BY <1>1, <1>2, <1>3, <1>8 DEF Reaches
    <3>. QED BY <2>1, <2>2, <3>1, FunctionAdded
  <2>. QED BY <2>4 DEF m2, n2
<1>10. FunctionsNamed(tree, unit, g, Built(tree, "tree", at + 1), at + 1, module', nameOf')
  BY <1>2, <1>9 DEF H2, r2
<1>11. SameBefore(f, g, at) /\ g[at] = Len(module) + 1 /\ g[at] \in Nat
  <2>1. \A e \in 1..(at - 1) : e # at
    BY <1>1
  <2>. QED BY <1>1, <1>5, <1>6, <2>1 DEF SameBefore
<1> HIDE DEF g
<1>12. Inside(tree, p, g, at + 1, current') /\ Stored(tree, p, g, at + 1, valOf')
  BY <1>11, EntersBody
<1>13. /\ pass' \in {"tree", "crashed"}
       /\ \A i \in DOMAIN unit.extens : i \in DOMAIN module => module'[i] = module[i]
  BY <1>1, <1>5
<1>14. \A i \in DOMAIN unit.extens : i \in DOMAIN nameOf => i \in DOMAIN nameOf' /\ nameOf'[i] = nameOf[i]
  <2>1. CASE kind = "func"
    <3>1. nameOf' = With(nameOf, {tree[at].type}, v.name) /\ tree[at].type \notin DOMAIN unit.extens
      BY <1>7, <2>1
    <3>. QED BY <3>1 DEF With
  <2>2. CASE kind # "func"
    BY <2>2
  <2>. QED BY <2>1, <2>2
<1>15. StillGenerated(p, g)
  BY <1>3, <1>5, <1>10, <1>12, <1>13, <1>14, TreeStep
<1>. QED BY <1>15

LEMMA InvokeableGenerates ==
  ASSUME NEW p, NEW f, Generating(p, f), visitInvokeableCode
  PROVE  \E g : StillGenerated(p, g)
<1>1. AtNode("func") /\ UNCHANGED pass
  BY DEF visitInvokeableCode
<1>2. CASE tree[at].type \in DOMAIN nameOf
  BY <1>2, KnownGenerates
<1>3. CASE tree[at].type \notin DOMAIN nameOf
  <2> DEFINE x    == tree[at].site[2]
             site == tree[at].site
             old  == Value("fn", x, site, FALSE)
             l    == Len(module) + 1
             v    == Bodied(old)
  <2>1. /\ module' = [Append(module, old) EXCEPT ![l].bodies = @ + 1]
        /\ nameOf' = setName(tree[at].type, old) /\ Enters(l)
    BY <1>3 DEF visitInvokeableCode, Node
  <2>2. AcceptedWith(p) /\ at \in DOMAIN tree /\ tree[at].node = "func" /\ module \in Seq(Values)
    BY <1>1, AtNodeFacts
  <2>3. tree[at].item = 0
    BY <1>1, <1>3, KnownIsOwn
  <2>4. site \in Sites
    BY <2>2, FunctionNode
  <2>5. x \in Labels /\ site \in Nat \X Labels
    BY <2>4 DEF Sites, Labels, Ids
  <2>6. /\ old.bodies = 0 /\ old.name = Unique(x) /\ old.kind = "fn" /\ old.site = site
        /\ IsValue(old, x, site)
    BY DEF Value, IsValue
  <2>8. Begins(tree[at])
    BY <2>2 DEF Begins
  <2> HIDE DEF old
  <2>9. /\ v \in Values /\ v.bodies = 1 /\ v.kind = "fn" /\ v.name = old.name /\ v.site = site
        /\ IsValue(v, x, site) /\ old \in Values
    <3> HIDE DEF x, site
    <3>. QED BY <2>2, <2>5, <2>6, BodiedFacts
  <2>10. module' = Append(module, v)
    <3>1. /\ Append(module, old) \in Seq(Values) /\ Len(module) \in Nat
          /\ Len(Append(module, old)) = l /\ Append(module, old)[l] = old
          /\ \A i \in 1..Len(module) : Append(module, old)[i] = module[i]
      BY <2>2, <2>9, AppendFacts
    <3> DEFINE made == Append(module, old)
               m2   == [made EXCEPT ![l] = v]
    <3>2. module' = [made EXCEPT ![l].bodies = made[l].bodies + 1]
      BY <2>1
    <3>3. made[l] = old /\ made[l].bodies + 1 = 1
      BY <2>6, <3>1
    <3>4. module' = m2
      <4> HIDE DEF made
      <4>. QED BY <3>2, <3>3 DEF Bodied
    <3>5. l \in DOMAIN made
      BY <3>1
    <3> HIDE DEF made, v
    <3>6. m2 \in Seq(Values) /\ Len(m2) = l /\ m2[l] = v /\ \A i \in 1..Len(module) : m2[i] = made[i]
      <4>1. made \in Seq(Values) /\ Len(made) = l /\ l \in DOMAIN made /\ v \in Values
        BY <2>9, <3>1, <3>5 DEF made
      <4>2. \A i \in 1..Len(module) : i # l
        BY <3>1 DEF l
      <4>3. 1..Len(module) \subseteq DOMAIN made
        BY <3>1, <4>1 DEF l
      <4>. QED BY <4>1, <4>2, <4>3 DEF m2
    <3>7. Append(module, v) \in Seq(Values) /\ Len(Append(module, v)) = l
          /\ Append(module, v)[l] = v
          /\ \A i \in 1..Len(module) : Append(module, v)[i] = module[i]
      BY <2>2, <2>9, AppendFacts
    <3>8. \A i \in 1..l : Append(module, v)[i] = m2[i]
      BY <3>1, <3>6, <3>7 DEF made
    <3> DEFINE a == Append(module, v)
    <3> HIDE DEF m2, a
    <3>9. a = m2
      <4>1. a \in Seq(Values) /\ m2 \in Seq(Values) /\ Len(a) = Len(m2) /\ \A i \in 1..Len(a) : a[i] = m2[i]
        BY <3>6, <3>7, <3>8 DEF a
      <4>. QED BY <4>1, SeqEqual
    <3>. QED BY <3>4, <3>9 DEF a
  <2>12. nameOf' = With(nameOf, {tree[at].type}, v.name)
    BY <2>1, <2>9 DEF setName
  <2> HIDE DEF v, x, l
  <2>13. Enters(Len(module) + 1)
    BY <2>1 DEF l
  <2>. QED BY <1>1, <2>3, <2>5, <2>8, <2>9, <2>10, <2>12, <2>13, MadeGenerates
<1>. QED BY <1>2, <1>3

LEMMA LambdaGenerates ==
  ASSUME NEW p, NEW f, Generating(p, f), TvisitLambdaConstExpr
  PROVE  \E g : StillGenerated(p, g)
<1>1. AtNode("lambda") /\ UNCHANGED <<pass, nameOf>>
  BY DEF TvisitLambdaConstExpr
<1> DEFINE site == <<tree[at].scope, "LAM">>
           old  == Value("fn", "LAM", site, FALSE)
           v    == Bodied(old)
<1>2. module' = Append(module, v) /\ Enters(Len(module) + 1)
  BY DEF TvisitLambdaConstExpr, Node, Bodied
<1>3. AcceptedWith(p) /\ at \in DOMAIN tree /\ tree[at].node = "lambda" /\ module \in Seq(Values)
  BY <1>1, AtNodeFacts
<1>4. tree[at] \in Nodes /\ Begins(tree[at])
  BY <1>3, AcceptedTyped DEF Begins
<1>5. site \in Nat \X Labels /\ "LAM" \in Labels
  BY <1>4, NodeFacts DEF Labels
<1>6. v.kind = "fn" /\ v.bodies = 1 /\ IsValue(v, "LAM", site)
  <2>1. old.kind = "fn" /\ IsValue(old, "LAM", site)
    BY DEF Value, IsValue
  <2> HIDE DEF old, site
  <2>. QED BY <1>3, <1>5, <2>1, BodiedFacts
<1> HIDE DEF v, site
<1>. QED BY <1>1, <1>2, <1>4, <1>5, <1>6, MadeGenerates

\* With NO_RUNTIME a main is added, that has a body.
LEMMA MainMade ==
  ASSUME NEW p, NEW f, Generating(p, f), finish
  PROVE  /\ Lengthens(module, module') /\ \A i \in DOMAIN module : module'[i] = module[i]
         /\ \A i \in DOMAIN module' : i \in DOMAIN module \/ module'[i].bodies = 1
<1>1. module \in Seq(Values) /\ Numbered(module)
  BY GeneratingFacts
<1>2. CASE NoRuntime
  <2> DEFINE site == <<0, Main>>
             old  == Value("fn", Main, site, TRUE)
             v    == Bodied(old)
  <2>1. module' = Append(module, v)
    BY <1>2 DEF finish, Bodied
  <2>2. site \in Nat \X Labels /\ Main \in Labels
    BY DEF Labels, Ids
  <2>3. IsValue(old, Main, site)
    BY DEF Value, IsValue
  <2>4. v.bodies = 1 /\ IsValue(v, Main, site)
    <3> HIDE DEF old, site
    <3>. QED BY <1>1, <2>2, <2>3, BodiedFacts
  <2> HIDE DEF v, site
  <2>5. v \in Values /\ v.name = Unique(v.name[1])
    BY <1>1, <2>2, <2>4, ValueMade
  <2>6. /\ Lengthens(module, module') /\ Len(module') = Len(module) + 1
        /\ module'[Len(module) + 1] = v
        /\ \A i \in DOMAIN module : module'[i] = module[i]
    BY <1>1, <2>1, <2>5, Lengthened
  <2>7. \A i \in DOMAIN module' : i \in DOMAIN module \/ i = Len(module) + 1
    BY <2>6 DEF Lengthens
  <2>. QED BY <2>4, <2>6, <2>7
<1>3. CASE ~ NoRuntime
  <2>1. module' = module
    BY <1>3 DEF finish
  <2>. QED BY <1>1, <2>1, LengthensSame
<1>. QED BY <1>2, <1>3

LEMMA FinishGenerates ==
  ASSUME NEW p, NEW f, Generating(p, f), finish
  PROVE  StillGenerated(p, f)
<1>1. /\ pass = "tree" /\ pass' = "end" /\ at > Len(tree) /\ UNCHANGED <<at, nameOf, valOf, current>>
      /\ AcceptedWith(p)
  BY DEF finish, Generating
<1>2. /\ at \in Nat \ {0} /\ module \in Seq(Values) /\ Numbered(module)
      /\ ExternsNamed(unit, "tree", at, module, nameOf)
      /\ FunctionsNamed(tree, unit, f, Built(tree, "tree", at), Reached("tree", at), module, nameOf)
      /\ VariablesNamed(tree, "tree", at, module)
      /\ Inside(tree, p, f, Reached("tree", at), current)
      /\ Stored(tree, p, f, Reached("tree", at), valOf)
      /\ Built(tree, "tree", at) \in SUBSET DOMAIN tree
  BY <1>1, GeneratingFacts
<1>3. Built(tree, "end", at) = Built(tree, "tree", at) /\ Reached("end", at) = at /\ Reached("tree", at) = at
  <2>1. Built(tree, "end", at) = Built(tree, "tree", at)
    BY DEF Built, Reached
  <2>. QED BY <2>1 DEF Reached
<1> DEFINE m2 == module'
<1>4. /\ Lengthens(module, m2) /\ \A i \in DOMAIN module : m2[i] = module[i]
      /\ \A i \in DOMAIN m2 : i \in DOMAIN module \/ m2[i].bodies = 1
  BY MainMade
<1> HIDE DEF m2
<1>5. Numbered(m2) /\ m2 \in Seq(Values) /\ DOMAIN module \subseteq DOMAIN m2
  BY <1>2, <1>4, LengthensFacts DEF Lengthens
<1>6. ExternsNamed(unit, "end", at, m2, nameOf)
  BY <1>2, <1>4, <1>5, ExternsStay
<1>7. FunctionsNamed(tree, unit, f, Built(tree, "end", at), at, m2, nameOf)
  <2> DEFINE H == Built(tree, "tree", at)
             r == at
  <2>1. DOMAIN tree \subseteq Nat
    BY <1>1, AcceptedTyped
  <2>2. /\ FunctionsNamed(tree, unit, f, H, at, module, nameOf) /\ H \in SUBSET DOMAIN tree
        /\ r \in {at, at + 1} /\ (r # at => at \notin H) /\ at \in Nat
    BY <1>2, <1>3
  <2>3. \A i \in DOMAIN m2 : i \in DOMAIN module \/ m2[i].kind = "var" \/ m2[i].bodies = 1
    BY <1>4
  <2> HIDE DEF H, r
  <2>4. FunctionsNamed(tree, unit, f, H, r, m2, nameOf)
    BY <1>2, <1>4, <2>1, <2>2, <2>3, FunctionsAlong
  <2>. QED BY <1>3, <2>4 DEF H, r
<1>8. HeadsOnly(unit, "end", at, m2)
  BY DEF HeadsOnly
<1>9. VariablesNamed(tree, "end", at, m2)
  <2>1. ASSUME NEW j \in DOMAIN tree, j < at, IsGlobal(tree[j]) PROVE HasVariable(m2, tree[j].site)
    <3>1. HasVariable(module, tree[j].site)
      BY <1>2, <2>1 DEF VariablesNamed, HasVariable
    <3>. QED BY <1>4, <1>5, <3>1 DEF HasVariable
  <2>. QED BY <2>1 DEF VariablesNamed, HasVariable
<1>10. Inside(tree, p, f, Reached("end", at), current) /\ Stored(tree, p, f, Reached("end", at), valOf)
  BY <1>2, <1>3
<1>11. FunctionsNamed(tree, unit, f, Built(tree, "end", at), Reached("end", at), m2, nameOf)
  BY <1>3, <1>7
<1>12. Generated(tree, unit, p, f, "end", at, m2, nameOf, valOf, current)
  BY <1>1, <1>2, <1>5, <1>6, <1>8, <1>9, <1>10, <1>11 DEF Generated
<1>. QED BY <1>1, <1>4, <1>12 DEF StillGenerated, m2

-----------------------------------------------------------------------------
(* What a name is found to be.                                                *)

LEMMA NamedIn ==
  ASSUME module \in Seq(Values), NEW kind, NEW name
  PROVE  Named(kind, name) \in 0..Len(module)
BY DEF Named

\* The function of a node that has one, asked for by the name of its type.
LEMMA TypeReaches ==
  ASSUME NEW p, NEW f, Generating(p, f), pass = "tree", NEW e \in Built(tree, "tree", at),
         tree[e].node = "func"
  PROVE  /\ tree[e].type \in DOMAIN nameOf /\ Named("fn", nameOf[tree[e].type]) = f[e]
         /\ f[e] \in DOMAIN module /\ f[e] # 0 /\ module[f[e]].kind = "fn"
         /\ nameOf[tree[e].type] = module[f[e]].name
         /\ module[f[e]].site = tree[e].site
         /\ tree[e].item # 0 => module[f[e]].name = <<tree[e].site[2], 0>>
<1>1. /\ FunctionsNamed(tree, unit, f, Built(tree, "tree", at), Reached("tree", at), module, nameOf)
      /\ module \in Seq(Values) /\ Numbered(module)
  BY GeneratingFacts
<1>2. FunctionOf(tree, unit, e, f[e], Reached("tree", at), module, nameOf)
  BY <1>1 DEF FunctionsNamed
<1>3. /\ f[e] \in DOMAIN module /\ module[f[e]].kind = "fn"
      /\ tree[e].type \in DOMAIN nameOf /\ nameOf[tree[e].type] = module[f[e]].name
      /\ module[f[e]].site = tree[e].site
      /\ tree[e].item # 0 => module[f[e]].name = <<tree[e].site[2], 0>>
  BY <1>2 DEF FunctionOf
<1>4. Named(module[f[e]].kind, module[f[e]].name) = f[e]
  BY <1>1, <1>3, NamedIs
<1>5. f[e] # 0
  BY <1>1, <1>3, ModuleFacts
<1>. QED BY <1>3, <1>4, <1>5

\* The function of an extern or of a function of the unit, which has the name in the
\* source.
LEMMA HeadReaches ==
  ASSUME NEW p, NEW f, Generating(p, f), pass = "tree",
         NEW t, NEW x, IsHead(t, x, types, table, unit)
  PROVE  /\ t \in DOMAIN nameOf /\ nameOf[t] = <<x, 0>>
         /\ Named("fn", <<x, 0>>) \in DOMAIN module /\ Named("fn", <<x, 0>>) # 0
         /\ module[Named("fn", <<x, 0>>)].kind = "fn"
         /\ module[Named("fn", <<x, 0>>)].site = <<0, x>>
<1>1. /\ ExternsNamed(unit, "tree", at, module, nameOf) /\ AcceptedWith(p)
      /\ module \in Seq(Values) /\ Numbered(module)
  BY GeneratingFacts DEF Generating
<1>2. \E v \in DOMAIN module : /\ t \in DOMAIN nameOf /\ nameOf[t] = <<x, 0>>
                               /\ module[v].kind = "fn" /\ module[v].name = <<x, 0>>
                               /\ module[v].site = <<0, x>>
  <2>1. CASE t \in DOMAIN unit.extens /\ unit.extens[t].name = x
    <3>1. Extern(unit, t, module, nameOf)
      BY <1>1, <2>1 DEF ExternsNamed
    <3>. QED BY <2>1, <3>1 DEF Extern
  <2>2. ASSUME NEW i \in FunctionsOf(unit), Made(types, table, unit, i, t), unit.stmts[i].heading.name = x
        PROVE  \E v \in DOMAIN module : /\ t \in DOMAIN nameOf /\ nameOf[t] = <<x, 0>>
                                        /\ module[v].kind = "fn" /\ module[v].name = <<x, 0>>
                                        /\ module[v].site = <<0, x>>
    <3>1. PICK e : IsOwn(e, i)
      BY <1>1, OwnNode
    <3>2. i \in Nat \ {0}
      <4>1. Structure
        BY <1>1, AcceptedTyped
      <4>. QED BY <4>1, UnitTyped
    <3>3. e \in DOMAIN tree /\ tree[e].node = "func" /\ tree[e].item = i /\ tree[e].item # 0
      BY <3>1, <3>2 DEF IsOwn
    <3>4. Made(types, table, unit, i, tree[e].type) /\ tree[e].site = <<0, x>>
      BY <1>1, <2>2, <3>3, FunctionNode
    <3>5. t = tree[e].type
      <4>1. Definition(t, TRUE) = Definition(tree[e].type, TRUE)
        BY <2>2, <3>4 DEF Made
      <4>. QED BY <4>1, DefinitionsDiffer
    <3>6. e \in Built(tree, "tree", at)
      BY <3>3, BuiltTree DEF Begins
    <3>7. /\ tree[e].type \in DOMAIN nameOf /\ f[e] \in DOMAIN module /\ module[f[e]].kind = "fn"
          /\ nameOf[tree[e].type] = module[f[e]].name /\ module[f[e]].site = tree[e].site
          /\ module[f[e]].name = <<tree[e].site[2], 0>>
      BY <3>3, <3>6, TypeReaches
    <3>. QED BY <3>4, <3>5, <3>7
  <2>. QED BY <2>1, <2>2 DEF IsHead
<1>3. PICK v \in DOMAIN module : /\ t \in DOMAIN nameOf /\ nameOf[t] = <<x, 0>>
                                 /\ module[v].kind = "fn" /\ module[v].name = <<x, 0>>
                                 /\ module[v].site = <<0, x>>
  BY <1>2
<1>4. Named(module[v].kind, module[v].name) = v
  BY <1>1, NamedIs
<1>5. v # 0
  BY <1>1, ModuleFacts
<1>. QED BY <1>3, <1>4, <1>5

LEMMA VariableReaches ==
  ASSUME NEW p, NEW f, Generating(p, f), pass = "tree",
         NEW j \in DOMAIN tree, j < at, IsGlobal(tree[j])
  PROVE  LET v == Named("var", <<tree[j].site[2], 0>>)
         IN  v \in DOMAIN module /\ v # 0 /\ module[v].site = tree[j].site
<1>1. /\ VariablesNamed(tree, "tree", at, module) /\ module \in Seq(Values) /\ Numbered(module)
  BY GeneratingFacts
<1>2. PICK v \in DOMAIN module : /\ module[v].kind = "var" /\ module[v].name = <<tree[j].site[2], 0>>
                                 /\ module[v].site = tree[j].site
  BY <1>1 DEF VariablesNamed
<1>3. Named(module[v].kind, module[v].name) = v
  BY <1>1, NamedIs
<1>4. v # 0
  BY <1>1, ModuleFacts
<1>. QED BY <1>2, <1>3, <1>4

\* Storage is in a function, and no function and no global has any.
LEMMA StorageReaches ==
  ASSUME NEW p, NEW f, Generating(p, f), NEW r, r = Reached(pass, at)
  PROVE  /\ \A j \in DOMAIN tree, s \in Sites : j < r /\ Writes(tree[j], s) =>
               s \in DOMAIN valOf /\ valOf[s] = f[Owner(p, j)] /\ valOf[s] \in DOMAIN module
         /\ \A s \in DOMAIN valOf : s \in Sites /\ s[1] # 0 /\ valOf[s] \in DOMAIN module
         /\ \A e \in DOMAIN tree : tree[e].node = "func" => tree[e].site \notin DOMAIN valOf
<1>1. /\ Stored(tree, p, f, r, valOf) /\ AcceptedWith(p) /\ r \in Nat
      /\ FunctionsNamed(tree, unit, f, Built(tree, pass, at), r, module, nameOf)
  <2>1. at \in Nat
    BY GeneratingFacts
  <2>2. r \in Nat
    BY <2>1 DEF Reached
  <2>. QED BY <2>2, GeneratingFacts DEF Generating
<1>2. /\ Paths(p, tree) /\ DOMAIN tree \subseteq Nat /\ ScopesOwned(tree, p, table, opened)
      /\ DOMAIN tree = 1..Len(tree) /\ Len(tree) \in Nat
      /\ \A e \in DOMAIN tree : e \in Nat \ {0} /\ tree[e] \in Nodes
  BY <1>1, AcceptedTyped
<1>3. Apart(tree, opened)
  BY <1>1 DEF AcceptedWith, Facts
<1>4. ASSUME NEW j \in DOMAIN tree, NEW s \in Sites, j < r, Writes(tree[j], s)
      PROVE  s \in DOMAIN valOf /\ valOf[s] = f[Owner(p, j)] /\ valOf[s] \in DOMAIN module
  <2>1. s \in DOMAIN valOf /\ valOf[s] = f[Owner(p, j)]
    BY <1>1, <1>4 DEF Stored
  <2>2. Owner(p, j) \in 1..j
    BY <1>2, <1>4, OwnerBefore
  <2>3. Begins(tree[Owner(p, j)])
    <3>1. IsPath(p[j], j, tree) /\ p[j] \in Seq(Nat)
      BY <1>2 DEF Paths
    <3>2. CASE Begins(tree[j])
      BY <1>2, <3>2, OwnerBefore
    <3>3. CASE ~ Begins(tree[j])
      <4>1. IsLocal(tree[j])
        BY <1>4, <3>3 DEF Writes
      <4>2. p[j - 1] # <<>> /\ p[j] = p[j - 1]
        BY <1>2, <4>1, <3>3 DEF Paths, PathAfter, IsLocal
      <4>3. Len(p[j]) \in DOMAIN p[j]
        BY <3>1, <4>2
      <4>. QED BY <3>1, <4>3 DEF IsPath, Owner, Inner
    <3>. QED BY <3>2, <3>3
  <2>4. Owner(p, j) \in Built(tree, pass, at)
    <3>1. Owner(p, j) \in DOMAIN tree /\ Owner(p, j) < r
      BY <1>1, <1>2, <1>4, <2>2
    <3>. QED BY <2>3, <3>1 DEF Built
  <2>5. f[Owner(p, j)] \in DOMAIN module
    BY <1>1, <2>4 DEF FunctionsNamed, FunctionOf
  <2>. QED BY <2>1, <2>5
<1>5. ASSUME NEW s \in DOMAIN valOf PROVE s \in Sites /\ s[1] # 0 /\ valOf[s] \in DOMAIN module
  <2>1. PICK j \in DOMAIN tree : s \in Sites /\ j < r /\ Writes(tree[j], s)
    BY <1>1 DEF Stored
  <2>2. InScope(tree[j], s[1]) /\ s[1] \in Nat
    BY <2>1 DEF Writes, InScope, Sites
  <2>3. s[1] \in 1..(opened - 1)
    BY <1>2, <2>2 DEF ScopesOwned
  <2>. QED BY <1>4, <2>1, <2>3
<1>6. ASSUME NEW e \in DOMAIN tree, tree[e].node = "func" PROVE tree[e].site \notin DOMAIN valOf
  <2>1. \A j \in DOMAIN tree : ~ Writes(tree[j], tree[e].site)
    BY <1>3, <1>6 DEF Apart
  <2>. QED BY <1>1, <2>1 DEF Stored
<1>. QED BY <1>4, <1>5, <1>6

\* The value v, that is none for 0, is what the node of a use reaches in function h.
ReachesOwn(n, v, md) == n.way = "call" /\ n.symbol.isDefinition =>
  v # 0 /\ md[v].kind = "fn" /\ md[v].site = n.site
Holds(n, v, h, md) == ~ n.symbol.isDefinition =>
  IF ~ n.symbol.isGlobal THEN v # 0 /\ v = h
  ELSE n.symbol.type = 0 => v # 0 /\ md[v].site = n.site
Finds(n, v, h) == v \in 0..Len(module) /\ ReachesOwn(n, v, module) /\ Holds(n, v, h, module)

LEMMA UseDenotes ==
  ASSUME NEW p, NEW f, Generating(p, f), use
  PROVE  Finds(tree[at], Denotes(tree[at]), Here)
<1> DEFINE n    == tree[at]
           s    == n.symbol
           site == n.site
<1>1. /\ AcceptedWith(p) /\ pass = "tree" /\ at \in DOMAIN tree /\ at \in Nat \ {0} /\ n.node = "use"
      /\ Inside(tree, p, f, at, current) /\ module \in Seq(Values)
      /\ AtNode("use")
  BY AtNodeFacts DEF use
<1>2. Paths(p, tree) /\ n \in Nodes /\ DOMAIN tree = 1..Len(tree) /\ Len(tree) \in Nat
  BY <1>1, AcceptedTyped
<1>3. /\ site \in Sites /\ s \in Flags /\ n.way \in {"call", "assign", "read"}
      /\ site[1] \in Nat /\ site[2] \in Names /\ site = <<site[1], site[2]>>
      /\ s.isDefinition \in BOOLEAN /\ s.isGlobal \in BOOLEAN /\ s # Absent
  <2>1. site \in Sites /\ s \in Flags /\ n.way \in {"call", "assign", "read"}
    BY <1>1, <1>2, NodeFacts
  <2>. QED BY <2>1, AbsentAssumption DEF Sites, Flags
<1>4. UseBound(tree, p, table, at) /\ GlobalsBound(tree, table, types, unit)
  BY <1>1 DEF AcceptedWith, Facts, UsesBound
<1>5. /\ n.way = "call" => s.type # 0
      /\ s.isGlobal <=> site[1] = 0
      /\ s.isGlobal => table[1].binds[site[2]] = s
      /\ s.isGlobal /\ ~ s.isDefinition =>
           \E j \in 1..(at - 1) : IsGlobal(tree[j]) /\ tree[j].site = site
      /\ ~ s.isGlobal /\ s.isDefinition => \E j \in 1..(at - 1) : Makes(tree[j], s.type, site)
      /\ ~ s.isGlobal /\ ~ s.isDefinition =>
           \E j \in 1..(at - 1) : Writes(tree[j], site) /\ Owner(p, j) = Inner(p[at])
      /\ ~ s.isGlobal /\ ~ s.isDefinition => p[at] # <<>>
  BY <1>4 DEF UseBound
<1>6. /\ \A j \in DOMAIN tree, u \in Sites : j < at /\ Writes(tree[j], u) =>
              u \in DOMAIN valOf /\ valOf[u] = f[Owner(p, j)] /\ valOf[u] \in DOMAIN module
      /\ \A u \in DOMAIN valOf : u \in Sites /\ u[1] # 0 /\ valOf[u] \in DOMAIN module
      /\ \A e \in DOMAIN tree : tree[e].node = "func" => tree[e].site \notin DOMAIN valOf
  BY <1>1, StorageReaches DEF Reached
<1>7. /\ \A j \in 1..(at - 1) : j \in DOMAIN tree /\ j < at
      /\ \A v \in DOMAIN module : v # 0 /\ v \in 0..Len(module)
      /\ 0 \in 0..Len(module)
  BY <1>1, <1>2, ModuleFacts
<1>8. Denotes(n) \in 0..Len(module)
  BY <1>1, <1>6, <1>7, NamedIn DEF Denotes
<1>9. CASE s.isDefinition /\ n.way = "call"
  <2>1. site \notin DOMAIN valOf /\ s.type \in DOMAIN nameOf
        /\ Named("fn", nameOf[s.type]) # 0 /\ module[Named("fn", nameOf[s.type])].kind = "fn"
        /\ module[Named("fn", nameOf[s.type])].site = site
    <3>1. CASE s.isGlobal
      <4>1. site = <<0, site[2]>> /\ site \notin DOMAIN valOf
        BY <1>3, <1>5, <1>6, <3>1
      <4>2. IsHead(s.type, site[2], types, table, unit)
        <5>1. site[2] \in Ids \ {Return}
          BY <1>3, NamesAssumption DEF Ids
        <5>2. GlobalAt(tree, s, site[2], types, table, unit)
          BY <1>4, <1>5, <3>1, <5>1 DEF GlobalsBound
        <5>. QED BY <1>3, <1>9, <5>2 DEF GlobalAt
      <4>3. /\ s.type \in DOMAIN nameOf /\ nameOf[s.type] = <<site[2], 0>>
            /\ Named("fn", <<site[2], 0>>) # 0
            /\ module[Named("fn", <<site[2], 0>>)].kind = "fn"
            /\ module[Named("fn", <<site[2], 0>>)].site = <<0, site[2]>>
        BY <1>1, <4>2, HeadReaches
      <4>. QED BY <4>1, <4>3
    <3>2. CASE ~ s.isGlobal
      <4>1. PICK j \in 1..(at - 1) : Makes(tree[j], s.type, site)
        BY <1>5, <1>9, <3>2
      <4>2. /\ j \in DOMAIN tree /\ j < at /\ tree[j].node = "func" /\ tree[j].type = s.type
            /\ tree[j].site = site
        BY <1>7, <4>1 DEF Makes
      <4>3. j \in Built(tree, "tree", at)
        BY <4>2, BuiltTree DEF Begins
      <4>4. /\ tree[j].type \in DOMAIN nameOf /\ Named("fn", nameOf[tree[j].type]) = f[j]
            /\ f[j] # 0 /\ module[f[j]].kind = "fn" /\ module[f[j]].site = tree[j].site
        BY <1>1, <4>2, <4>3, TypeReaches
      <4>. QED BY <1>6, <4>2, <4>4
    <3>. QED BY <1>3, <3>1, <3>2
  <2>2. Denotes(n) = Named("fn", nameOf[s.type])
    BY <1>5, <1>9, <2>1 DEF Denotes
  <2>3. ReachesOwn(n, Denotes(n), module)
    BY <2>1, <2>2 DEF ReachesOwn
  <2>4. Holds(n, Denotes(n), Here, module)
    BY <1>9 DEF Holds
  <2>. QED BY <1>8, <2>3, <2>4 DEF Finds
<1>10. CASE s.isDefinition /\ n.way # "call"
  BY <1>8, <1>10 DEF Finds, ReachesOwn, Holds
<1>11. CASE ~ s.isDefinition /\ ~ s.isGlobal
  <2>1. PICK j \in 1..(at - 1) : Writes(tree[j], site) /\ Owner(p, j) = Inner(p[at])
    BY <1>5, <1>11
  <2>2. site \in DOMAIN valOf /\ valOf[site] = f[Inner(p[at])] /\ valOf[site] # 0
    BY <1>3, <1>6, <1>7, <2>1
  <2>3. p[at] = p[at - 1] /\ p[at - 1] # <<>>
    <3>1. p[at] = PathAfter(p[at - 1], n, at)
      BY <1>1, <1>2 DEF Paths
    <3>. QED BY <1>1, <1>5, <1>11, <3>1 DEF PathAfter, Begins
  <2>4. Here = f[Inner(p[at - 1])]
    BY <1>1, <1>2, <2>3, HereIs DEF Here
  <2>5. Denotes(n) = valOf[site]
    BY <1>11, <2>2 DEF Denotes
  <2>6. Denotes(n) # 0 /\ Denotes(n) = Here
    BY <2>2, <2>3, <2>4, <2>5
  <2>. QED BY <1>8, <1>11, <2>6 DEF Finds, ReachesOwn, Holds
<1>12. CASE ~ s.isDefinition /\ s.isGlobal
  <2>1. PICK j \in 1..(at - 1) : IsGlobal(tree[j]) /\ tree[j].site = site
    BY <1>5, <1>12
  <2>2. Named("var", <<site[2], 0>>) # 0 /\ module[Named("var", <<site[2], 0>>)].site = site
    BY <1>1, <1>7, <2>1, VariableReaches
  <2>3. site \notin DOMAIN valOf
    BY <1>5, <1>6, <1>12
  <2>4. s.type = 0 => Denotes(n) = Named("var", <<site[2], 0>>)
    BY <1>3, <1>12, <2>3 DEF Denotes
  <2>5. s.type = 0 => Denotes(n) # 0 /\ module[Denotes(n)].site = site
    BY <2>2, <2>4
  <2>. QED BY <1>8, <1>12, <2>5 DEF Finds, ReachesOwn, Holds
<1>13. \/ s.isDefinition /\ n.way = "call"
       \/ s.isDefinition /\ n.way # "call"
       \/ ~ s.isDefinition /\ ~ s.isGlobal
       \/ ~ s.isDefinition /\ s.isGlobal
  OBVIOUS
<1>. QED BY <1>9, <1>10, <1>11, <1>12, <1>13, Zenon

\* The call of program that main makes.
LEMMA FinishDenotes ==
  ASSUME NEW p, NEW f, Generating(p, f), finish, NoRuntime
  PROVE  Finds(Use(table, Program, "call"), Named("fn", <<Program, 0>>), Len(module) + 1)
<1> DEFINE n == Use(table, Program, "call")
           s == table[1].binds[Program]
           v == Named("fn", <<Program, 0>>)
<1>1. AcceptedWith(p) /\ pass = "tree" /\ module \in Seq(Values)
  BY GeneratingFacts DEF finish, Generating
<1>2. Structure /\ Len(table) = 1 /\ ~ NoEntry
  BY <1>1, AcceptedFacts DEF AcceptedWith
<1>3. /\ table \in Seq(ScopesOf(opened, Len(types))) /\ opened \in Nat /\ Len(types) \in Nat
      /\ Program \in Ids /\ Main \in Ids
  BY <1>2, StructureFacts DEF Ids
<1>4. Lookup(table, Program) = s
  BY <1>2, <1>3, LookupAtTop
<1>5. s # Absent /\ s.type # 0
  BY <1>2, <1>4 DEF NoEntry
<1>6. GlobalAt(tree, s, Program, types, table, unit)
  <2>1. Program \in Ids \ {Return}
    BY <1>3, NamesAssumption
  <2>. QED BY <1>1, <2>1 DEF AcceptedWith, Facts, GlobalsBound
<1>7. n.site = <<0, Program>>
  <2>1. \E i \in DOMAIN table : Table(table)!Resolves(i, Program)
    BY <1>4, <1>5 DEF Lookup
  <2>2. DOMAIN table = {1}
    BY <1>2, <1>3
  <2>3. table[1].id = 0
    BY <1>1 DEF AcceptedWith, Facts, ScopesOwned
  <2> DEFINE c == CHOOSE i \in DOMAIN table : Table(table)!Resolves(i, Program)
  <2>4. c \in DOMAIN table
    BY <2>1
  <2>5. n.site = <<table[c].id, Program>>
    BY DEF Use, Site
  <2> HIDE DEF c
  <2>. QED BY <2>2, <2>3, <2>4, <2>5
<1>8. n.symbol = s /\ n.way = "call"
  BY <1>4 DEF Use
<1> HIDE DEF n, s
<1>9. v \in 0..Len(module)
  BY <1>1, NamedIn
<1>10. s.isDefinition => v # 0 /\ module[v].kind = "fn" /\ module[v].site = <<0, Program>>
  BY <1>1, <1>5, <1>6, HeadReaches DEF GlobalAt
<1>11. s.isGlobal
  BY <1>5, <1>6 DEF GlobalAt
<1> HIDE DEF v
<1>12. ReachesOwn(n, v, module) /\ Holds(n, v, Len(module) + 1, module)
  BY <1>5, <1>7, <1>8, <1>10, <1>11 DEF ReachesOwn, Holds
<1>. QED BY <1>9, <1>12 DEF Finds, n, v

-----------------------------------------------------------------------------
(* The invariant.                                                             *)

Findings == ReachedIn /\ CallsReachTheirFunction /\ StorageIsOwn

LEMMA FindingsStay ==
  ASSUME Findings, Lengthens(module, module'), UNCHANGED reached
  PROVE  Findings'
<1>1. CASE reached = Absent
  BY <1>1 DEF Findings, ReachedIn, CallsReachTheirFunction, StorageIsOwn
<1>2. CASE reached # Absent
  <2> DEFINE v == reached.value
  <2>1. /\ Len(module) \in Nat /\ Len(module') \in Nat /\ DOMAIN module = 1..Len(module)
        /\ Len(module) <= Len(module')
    BY DEF Lengthens
  <2>2. v \in 0..Len(module)
    BY <1>2 DEF Findings, ReachedIn
  <2>3. v \in 0..Len(module')
    BY <2>1, <2>2
  <2>4. v # 0 => module'[v].kind = module[v].kind /\ module'[v].site = module[v].site
    BY <2>1, <2>2 DEF Lengthens
  <2>5. ReachedIn'
    BY <2>3 DEF ReachedIn
  <2>6. CallsReachTheirFunction'
    BY <1>2, <2>4 DEF Findings, CallsReachTheirFunction
  <2>7. StorageIsOwn'
    BY <1>2, <2>4 DEF Findings, StorageIsOwn
  <2>. QED BY <2>5, <2>6, <2>7 DEF Findings
<1>. QED BY <1>1, <1>2

LEMMA FindingsMade ==
  ASSUME Lengthens(module, module'), NEW n, NEW v, NEW h, Finds(n, v, h),
         reached' = [node |-> n, value |-> v, inside |-> h]
  PROVE  Findings'
<1>1. reached'.node = n /\ reached'.value = v /\ reached'.inside = h
  OBVIOUS
<1>2. /\ Len(module) \in Nat /\ Len(module') \in Nat /\ DOMAIN module = 1..Len(module)
      /\ Len(module) <= Len(module')
  BY DEF Lengthens
<1>3. v \in 0..Len(module) /\ v \in 0..Len(module')
  BY <1>2 DEF Finds
<1>4. v # 0 => module'[v].kind = module[v].kind /\ module'[v].site = module[v].site
  BY <1>2, <1>3 DEF Lengthens
<1>5. ReachedIn'
  BY <1>1, <1>3 DEF ReachedIn
<1>6. CallsReachTheirFunction'
  BY <1>1, <1>4 DEF Finds, ReachesOwn, CallsReachTheirFunction
<1>7. StorageIsOwn'
  BY <1>1, <1>4 DEF Finds, Holds, StorageIsOwn
<1>. QED BY <1>5, <1>6, <1>7 DEF Findings

\* A step of the generation.
LEMMA StepGenerates ==
  ASSUME NEW p, NEW f, Generating(p, f), Findings, Generates
  PROVE  /\ \E g : StillGenerated(p, g)
         /\ UNCHANGED <<vars, tree>> /\ pass' # "semantic" /\ Findings'
<1>1. pass # "semantic"
  BY DEF Generating
<1>2. UNCHANGED <<vars, tree>> /\ pass' # "semantic"
  <2> DEFINE Unmoved == UNCHANGED <<vars, tree>> /\ pass' # "semantic"
  <2>1. CASE nextList
    <3>1. UNCHANGED <<vars, tree>> /\ pass \in {"extens", "forward"} /\ pass' = Starts[pass]
      BY <1>1, <2>1 DEF nextList
    <3>2. pass' \in {"forward", "tree"}
      BY <3>1 DEF Starts
    <3>. QED BY <3>1, <3>2
  <2>2. TvisitExternStatement => Unmoved
    BY <1>1 DEF TvisitExternStatement
  <2>3. predeclare => Unmoved
    BY <1>1 DEF predeclare
  <2>4. visitInvokeableCode => Unmoved
    BY <1>1 DEF visitInvokeableCode, AtNode
  <2>5. TvisitLambdaConstExpr => Unmoved
    BY <1>1 DEF TvisitLambdaConstExpr, AtNode
  <2>6. endOfBody => Unmoved
    BY <1>1 DEF endOfBody, AtNode
  <2>7. use => Unmoved
    BY <1>1 DEF use, AtNode
  <2>8. ASSUME TvisitVarDeclStatement PROVE Unmoved
    <3>1. UNCHANGED <<vars, tree>> /\ pass' \in {pass, "crashed"}
      BY <2>8 DEF TvisitVarDeclStatement, AtNode
    <3>. QED BY <1>1, <3>1
  <2>9. finish => Unmoved
    BY <1>1 DEF finish
  <2>. QED BY <2>1, <2>2, <2>3, <2>4, <2>5, <2>6, <2>7, <2>8, <2>9 DEF Generates
<1>3. \E g : StillGenerated(p, g)
  <2>1. StillGenerated(p, f) => \E g : StillGenerated(p, g)
    OBVIOUS
  <2>. QED BY <2>1, NextListGenerates, ExternGenerates, PredeclareGenerates, InvokeableGenerates,
              LambdaGenerates, EndOfBodyGenerates, UseGenerates, DeclGenerates, FinishGenerates
           DEF Generates
<1>4. Lengthens(module, module')
  BY <1>3 DEF StillGenerated
<1>5. ASSUME reached' = reached PROVE Findings'
  BY <1>4, <1>5, FindingsStay
<1>6. ASSUME use PROVE Findings'
  <2>1. reached' = [node |-> tree[at], value |-> Denotes(tree[at]), inside |-> Here]
    BY <1>6 DEF use, Node
  <2> DEFINE v == Denotes(tree[at])
             h == Here
  <2>2. Finds(tree[at], v, h)
    BY <1>6, UseDenotes
  <2>3. reached' = [node |-> tree[at], value |-> v, inside |-> h]
    BY <2>1
  <2> HIDE DEF v, h
  <2>. QED BY <1>4, <2>2, <2>3, FindingsMade
<1>7. ASSUME finish, NoRuntime PROVE Findings'
  <2> DEFINE n == Use(table, Program, "call")
             v == Named("fn", <<Program, 0>>)
             h == Len(module) + 1
  <2>1. reached' = [node |-> n, value |-> v, inside |-> h]
    BY <1>7 DEF finish
  <2>2. Finds(n, v, h)
    BY <1>7, FinishDenotes
  <2> HIDE DEF n, v, h
  <2>. QED BY <1>4, <2>1, <2>2, FindingsMade
<1>8. use \/ (finish /\ NoRuntime) \/ reached' = reached
  BY DEF Generates, nextList, TvisitExternStatement, predeclare, visitInvokeableCode,
         TvisitLambdaConstExpr, endOfBody, TvisitVarDeclStatement, finish
<1>. QED BY <1>2, <1>3, <1>5, <1>6, <1>7, <1>8

\* The generation begins, and reaches nothing yet.
LEMMA NextListBegins ==
  ASSUME NamingInv, pass = "semantic", Generates
  PROVE  /\ nextList /\ UNCHANGED <<vars, tree>> /\ Accepted /\ pass' # "semantic" /\ Findings'
         /\ \E p, g : AcceptedWith(p) /\ StillGenerated(p, g)
<1>1. nextList
  BY DEF Generates, TvisitExternStatement, predeclare, visitInvokeableCode,
         TvisitLambdaConstExpr, endOfBody, use, TvisitVarDeclStatement, finish, AtNode
<1>2. Accepted /\ UNCHANGED <<vars, tree, reached>> /\ pass' # "semantic"
  BY <1>1 DEF nextList, Starts
<1>3. PICK p : AcceptedWith(p)
  BY <1>2, AcceptedFacts DEF NamingInv
<1>4. module = <<>> /\ current = <<>> /\ DOMAIN nameOf = {} /\ DOMAIN valOf = {}
  BY DEF NamingInv
<1>5. \E g : StillGenerated(p, g)
  BY <1>1, <1>3, <1>4, StartGenerates
<1>6. Lengthens(module, module')
  BY <1>5 DEF StillGenerated
<1>7. Findings'
  BY <1>2, <1>6, FindingsStay DEF NamingInv, Findings
<1>. QED BY <1>1, <1>2, <1>3, <1>5, <1>7

LEMMA GeneratesInv ==
  ASSUME NamingInv, Generates
  PROVE  NamingInv'
<1>1. /\ UNCHANGED <<vars, tree>> /\ Accepted /\ pass' # "semantic" /\ Findings'
      /\ \E p, g : Facts(tree, p, table, opened, types, unit, next) /\ StillGenerated(p, g)
  <2>1. CASE pass = "semantic"
    BY <2>1, NextListBegins DEF AcceptedWith
  <2>2. CASE pass # "semantic"
    <3>1. PICK p, f : /\ Accepted /\ Facts(tree, p, table, opened, types, unit, next)
                      /\ Generated(tree, unit, p, f, pass, at, module, nameOf, valOf, current)
      BY <2>2 DEF NamingInv
    <3>2. Generating(p, f) /\ Findings
      BY <2>2, <3>1 DEF NamingInv, Generating, AcceptedWith, Findings
    <3>. QED BY <3>1, <3>2, StepGenerates
  <2>. QED BY <2>1, <2>2
<1>2. AnalysisInv'
  BY <1>1, AnalysisKept DEF NamingInv
<1>3. UNCHANGED <<unit, phase, next, table, opened, types, stack, errors, bodies, slips, tree>>
  BY <1>1 DEF vars
<1>4. Accepted'
  BY <1>1, <1>3 DEF Accepted
<1>5. \E p, g : /\ Facts(tree', p, table', opened', types', unit', next')
                /\ Generated(tree', unit', p, g, pass', at', module', nameOf', valOf', current')
  BY <1>1, <1>3 DEF StillGenerated
<1>. QED BY <1>1, <1>2, <1>4, <1>5 DEF NamingInv, Findings

LEMMA InitInv ==
  ASSUME NamingInit
  PROVE  NamingInv
<1>1. AnalysisInv
  BY AnalysisInit
<1>2. /\ pass = "semantic" /\ at = 1 /\ module = <<>> /\ current = <<>> /\ reached = Absent
      /\ nameOf = <<>> /\ valOf = <<>>
  BY DEF NamingInit
<1>3. DOMAIN nameOf = {} /\ DOMAIN valOf = {}
  BY <1>2
<1>. QED BY <1>1, <1>2, <1>3 DEF NamingInv, ReachedIn, CallsReachTheirFunction, StorageIsOwn

LEMMA NextInv ==
  ASSUME NamingInv, [NamingNext]_allVars
  PROVE  NamingInv'
<1>1. CASE Generates
  BY <1>1, GeneratesInv
<1>2. CASE Analyses
  <2>1. Structure
    BY DEF NamingInv, AnalysisInv
  <2>2. pass = "semantic" /\ UNCHANGED generation
    BY <1>2, <2>1, AnalysisNext
  <2>3. AnalysisInv'
    BY <1>2, AnalysisStep DEF NamingInv
  <2>4. UNCHANGED <<pass, at, module, nameOf, valOf, current, reached>>
    BY <2>2 DEF generation
  <2>5. reached' = Absent
    BY <2>2, <2>4 DEF NamingInv
  <2>. QED BY <2>2, <2>3, <2>4, <2>5
           DEF NamingInv, ReachedIn, CallsReachTheirFunction, StorageIsOwn
<1>3. CASE UNCHANGED allVars
  <2>1. UNCHANGED <<vars, tree>> /\ UNCHANGED <<pass, at, module, nameOf, valOf, current, reached>>
    BY <1>3 DEF allVars, generation
  <2>2. UNCHANGED <<unit, phase, next, table, opened, types, stack, errors, bodies, slips, tree>>
    BY <2>1 DEF vars
  <2>3. AnalysisInv'
    BY <2>1, AnalysisKept DEF NamingInv
  <2>4. ReachedIn' /\ CallsReachTheirFunction' /\ StorageIsOwn'
    BY <2>1 DEF NamingInv, ReachedIn, CallsReachTheirFunction, StorageIsOwn
  <2>5. pass' # "semantic" =>
          /\ Accepted'
          /\ \E p, f : /\ Facts(tree', p, table', opened', types', unit', next')
                       /\ Generated(tree', unit', p, f, pass', at', module', nameOf', valOf', current')
    BY <2>1, <2>2 DEF NamingInv, Accepted
  <2>6. pass' = "semantic" => /\ at' = 1 /\ module' = <<>> /\ current' = <<>> /\ reached' = Absent
                              /\ DOMAIN nameOf' = {} /\ DOMAIN valOf' = {}
    BY <2>1 DEF NamingInv
  <2>. QED BY <2>3, <2>4, <2>5, <2>6 DEF NamingInv
<1>. QED BY <1>1, <1>2, <1>3, TwoPasses

\* The invariant that the theorems rest on, which says of every node and every value
\* what the bindings of the analysis make of it.
THEOREM NamesBound == NamingSpec => []NamingInv
BY InitInv, NextInv, PTL DEF NamingSpec

LEMMA InvGenerating ==
  ASSUME NamingInv, pass # "semantic"
  PROVE  \E p, f : Generating(p, f)
BY DEF NamingInv, Generating, AcceptedWith

\* A call of a name that is a function by its declaration reaches the function made for
\* the declaration the name is resolved to: TypeInvoke::name and the bindings agree.
THEOREM CallsReach == NamingSpec => []CallsReachTheirFunction
<1>1. NamingInv => CallsReachTheirFunction
  BY DEF NamingInv
<1>. QED BY <1>1, NamesBound, PTL

\* A local variable is allocated in the function that uses it by the time it does, and
\* a global denotes its own variable.
THEOREM StorageOwn == NamingSpec => []StorageIsOwn
<1>1. NamingInv => StorageIsOwn
  BY DEF NamingInv
<1>. QED BY <1>1, NamesBound, PTL

\* Externs and functions of the unit have exactly their names in the source once they
\* were declared ahead, whatever functions and lambdas follow.
THEOREM TopLevelNames == NamingSpec => []TopLevelKeepsNames
<1>1. ASSUME NamingInv, pass \in {"tree", "end", "crashed"}, NEW h \in Heads
      PROVE  \E v \in {module[i] : i \in DOMAIN module} :
               v.kind = "fn" /\ v.name = <<h.name, 0>> /\ v.public /\ v.site = <<0, h.name>>
  <2>1. PICK p, f : Generating(p, f)
    BY <1>1, InvGenerating
  <2>2. /\ ExternsNamed(unit, pass, at, module, nameOf) /\ AcceptedWith(p)
        /\ FunctionsNamed(tree, unit, f, Built(tree, pass, at), Reached(pass, at), module, nameOf)
    BY <2>1, GeneratingFacts DEF Generating
  <2>3. CASE \E i \in DOMAIN unit.extens : h = unit.extens[i]
    <3>1. PICK i \in DOMAIN unit.extens : h = unit.extens[i]
      BY <2>3
    <3>2. Extern(unit, i, module, nameOf)
      BY <1>1, <2>2 DEF ExternsNamed
    <3>. QED BY <3>1, <3>2 DEF Extern
  <2>4. CASE \E i \in FunctionsOf(unit) : h = unit.stmts[i].heading
    <3>1. PICK i \in FunctionsOf(unit) : h = unit.stmts[i].heading
      BY <2>4
    <3>2. PICK e : IsOwn(e, i)
      BY <2>2, OwnNode
    <3>3. i # 0
      <4>1. Structure
        BY <2>2, AcceptedTyped
      <4>. QED BY <4>1, UnitTyped
    <3>4. e \in DOMAIN tree /\ tree[e].node = "func" /\ tree[e].item = i /\ tree[e].item # 0
      BY <3>2, <3>3 DEF IsOwn
    <3>5. tree[e].site = <<0, h.name>>
      BY <2>2, <3>1, <3>4, FunctionNode
    <3>6. e \in Built(tree, pass, at)
      BY <1>1, <3>4, BuiltTree DEF Begins
    <3>7. FunctionOf(tree, unit, e, f[e], Reached(pass, at), module, nameOf)
      BY <2>2, <3>6 DEF FunctionsNamed
    <3>8. /\ f[e] \in DOMAIN module /\ module[f[e]].kind = "fn"
          /\ module[f[e]].name = <<tree[e].site[2], 0>> /\ module[f[e]].public
          /\ module[f[e]].site = tree[e].site
      BY <3>4, <3>7 DEF FunctionOf
    <3>. QED BY <3>5, <3>8
  <2>. QED BY <2>3, <2>4 DEF Heads, FunctionsOf
<1>2. NamingInv => TopLevelKeepsNames
  BY <1>1 DEF TopLevelKeepsNames
<1>. QED BY <1>2, NamesBound, PTL

\* When the code is complete every function of the program has one body, and an extern
\* none: no function is forgotten, and none is generated into that of another.
THEOREM CompleteBodies == NamingSpec => []BodiesOnce
<1>1. ASSUME NamingInv, pass = "end", NEW i \in DOMAIN module, module[i].kind = "fn"
      PROVE  module[i].bodies = IF i <= Len(unit.extens) THEN 0 ELSE 1
  <2>1. PICK p, f : Generating(p, f)
    BY <1>1, InvGenerating
  <2>2. /\ ExternsNamed(unit, "end", at, module, nameOf) /\ AcceptedWith(p) /\ at > Len(tree)
        /\ FunctionsNamed(tree, unit, f, Built(tree, "end", at), Reached("end", at), module, nameOf)
        /\ Built(tree, "end", at) \in SUBSET DOMAIN tree /\ at \in Nat /\ module \in Seq(Values)
    BY <1>1, <2>1, GeneratingFacts DEF Generating
  <2>3. /\ Structure /\ DOMAIN tree = 1..Len(tree) /\ Len(tree) \in Nat
    BY <2>2, AcceptedTyped
  <2>4. DOMAIN unit.extens = 1..Len(unit.extens) /\ Len(unit.extens) \in Nat
    BY <2>3, UnitTyped
  <2>5. i \in Nat \ {0}
    BY <2>2, ModuleFacts
  <2>6. CASE i <= Len(unit.extens)
    <3>1. i \in DOMAIN unit.extens
      BY <2>4, <2>5, <2>6
    <3>2. Extern(unit, i, module, nameOf)
      BY <2>2, <3>1 DEF ExternsNamed
    <3>. QED BY <2>6, <3>2 DEF Extern
  <2>7. CASE i > Len(unit.extens)
    <3>1. module[i].bodies = 1 \/ \E e \in Built(tree, "end", at) : f[e] = i
      BY <1>1, <2>2, <2>7 DEF FunctionsNamed
    <3>2. ASSUME NEW e \in Built(tree, "end", at), f[e] = i PROVE module[i].bodies = 1
      <4>1. FunctionOf(tree, unit, e, f[e], Reached("end", at), module, nameOf)
        BY <2>2, <3>2 DEF FunctionsNamed
      <4>2. e < at
        BY <2>2, <2>3, <3>2
      <4>3. Reached("end", at) = at
        BY DEF Reached
      <4>. QED BY <3>2, <4>1, <4>2, <4>3 DEF FunctionOf
    <3>3. ~ (i <= Len(unit.extens))
      BY <2>4, <2>5, <2>7
    <3>. QED BY <3>1, <3>2, <3>3
  <2>. QED BY <2>4, <2>5, <2>6, <2>7
<1>2. NamingInv => BodiesOnce
  BY <1>1 DEF BodiesOnce
<1>. QED BY <1>2, NamesBound, PTL

\* Every variable keeps its type: names are only of types that there are, allocations
\* and code only in functions of the module.
THEOREM NamingTypes == NamingSpec => []NamingTypeOK
<1>1. ASSUME NamingInv PROVE TypeOK /\ Structure
  BY <1>1, StructureTyped DEF NamingInv, AnalysisInv
<1>2. ASSUME NamingInv, pass = "semantic" PROVE NamingTypeOK
  <2>1. /\ TypeOK /\ at = 1 /\ DOMAIN module = {} /\ DOMAIN current = {} /\ reached = Absent
        /\ DOMAIN nameOf = {} /\ DOMAIN valOf = {}
    BY <1>1, <1>2 DEF NamingInv
  <2>. QED BY <1>2, <2>1 DEF NamingTypeOK
<1>3. ASSUME NamingInv, pass # "semantic" PROVE NamingTypeOK
  <2>1. PICK p, f : Generating(p, f)
    BY <1>3, InvGenerating
  <2> DEFINE H == Built(tree, pass, at)
             r == Reached(pass, at)
  <2>2. /\ at \in Nat \ {0} /\ module \in Seq(Values) /\ AcceptedWith(p)
        /\ FunctionsNamed(tree, unit, f, H, r, module, nameOf)
        /\ Inside(tree, p, f, r, current) /\ H \in SUBSET DOMAIN tree
        /\ pass \in {"extens", "forward", "tree", "end", "crashed"}
    BY <2>1, GeneratingFacts DEF Generating, Generated
  <2>3. /\ Paths(p, tree) /\ DOMAIN tree = 1..Len(tree) /\ Len(tree) \in Nat
    BY <2>2, AcceptedTyped
  <2>4. \A i \in DOMAIN module : /\ module[i].kind \in {"fn", "var"}
                                 /\ module[i].name \in (Ids \union {"LAM"}) \X Nat
                                 /\ module[i].public \in BOOLEAN /\ module[i].bodies \in Nat
    <3>1. ASSUME NEW i \in DOMAIN module PROVE module[i] \in Values
      BY <2>2
    <3>. QED BY <3>1 DEF Values
  <2>5. DOMAIN nameOf \subseteq 1..Len(types)
    <3>1. types \in Seq(TypeInvokes)
      BY <1>1, <1>3 DEF Structure, Scalars
    <3>2. ASSUME NEW t \in DOMAIN nameOf PROVE t \in DOMAIN types
      <4>1. t \in DOMAIN unit.extens \/ \E e \in H : tree[e].node = "func" /\ tree[e].type = t
        BY <2>2 DEF FunctionsNamed
      <4>2. CASE t \in DOMAIN unit.extens
        BY <2>2, <4>2, AcceptedFacts DEF AcceptedWith
      <4>3. ASSUME NEW e \in H, tree[e].node = "func", tree[e].type = t PROVE t \in DOMAIN types
        BY <2>2, <4>3, FunctionNode
      <4>. QED BY <4>1, <4>2, <4>3
    <3>. QED BY <3>1, <3>2
  <2>6. \A s \in DOMAIN valOf : valOf[s] \in DOMAIN module
    BY <2>1, StorageReaches
  <2>7. ASSUME NEW i \in DOMAIN current
        PROVE  current[i] \in DOMAIN module /\ module[current[i]].kind = "fn"
    <3> DEFINE path == p[r - 1]
    <3>1. /\ r \in 1..(Len(tree) + 1) /\ current \in Seq(Nat) /\ Len(current) = Len(path)
          /\ current[i] = f[path[i]]
      BY <2>2, <2>7 DEF Inside
    <3>2. r - 1 \in 0..Len(tree) /\ r \in Nat
      BY <2>3, <3>1
    <3> HIDE DEF r
    <3>3. path \in Seq(Nat) /\ IsPath(path, r - 1, tree)
      BY <2>3, <3>2 DEF Paths
    <3>4. i \in DOMAIN path
      BY <2>7, <3>1, <3>3
    <3>5. path[i] \in 1..(r - 1) /\ Begins(tree[path[i]])
      BY <3>3, <3>4 DEF IsPath
    <3>6. path[i] \in DOMAIN tree /\ path[i] < r
      BY <2>3, <3>2, <3>5
    <3>7. path[i] \in H
      BY <3>5, <3>6 DEF Built, r
    <3> HIDE DEF H
    <3>8. FunctionOf(tree, unit, path[i], f[path[i]], r, module, nameOf)
      BY <2>2, <3>7 DEF FunctionsNamed, r
    <3>. QED BY <3>1, <3>8 DEF FunctionOf
  <2>8. ReachedIn
    BY <1>3 DEF NamingInv
  <2>. QED BY <1>1, <1>3, <2>2, <2>4, <2>5, <2>6, <2>7, <2>8 DEF NamingTypeOK, ReachedIn
<1>4. NamingInv => NamingTypeOK
  BY <1>2, <1>3
<1>. QED BY <1>4, NamesBound, PTL
=============================================================================
