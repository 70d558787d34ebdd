----------------------------- MODULE MCFrontend -----------------------------
EXTENDS Frontend

Few(S) == {T \in SUBSET S : Cardinality(T) <= 2}

\* Every graph of four blocks with at most two ways out of each, any entry.
AllGraphs ==
  {g \in UNION {[nodes : {1..4}, entry : {e}, succs : [1..4 -> Few((1..4) \ {e})]] : e \in 1..4} :
     Structured(Live(g))}

Shape(e, s) == [nodes |-> DOMAIN s, entry |-> e, succs |-> s]

\* What if, while, for with break, nested loops and two returns compile to.
IfElse == Shape(1, <<{2, 3}, {4}, {4}, {}>>)
While == Shape(1, <<{2}, {3, 4}, {2}, {}>>)
SmallShapes ==
  {Shape(1, <<{2, 3}, {3}, {}>>),                 \* if
   Shape(1, <<{2}, {2, 3}, {}>>),                 \* a loop of one block
   Shape(1, <<{2, 3}, {}, {}>>)}                  \* two returns
Shapes ==
  SmallShapes \cup
  {IfElse, While,
   Shape(1, <<{2}, {3, 5}, {2, 4}, {2}, {}>>),    \* if or continue in a loop
   Shape(1, <<{2}, {3, 4}, {2, 4}, {}>>),         \* break
   Shape(1, <<{2}, {3, 4}, {3, 2}, {}>>)}         \* nested loops

Def(t) == [op |-> "def", target |-> {0}, uses |-> {}, const |-> t]
Inc == [op |-> "inc", target |-> {0}, uses |-> {0}]
Append1(t) == [op |-> "append", target |-> {}, uses |-> {0}, const |-> t]
Read == [op |-> "use", target |-> {}, uses |-> {0}]
Yielding == [op |-> "yield", target |-> {}, uses |-> {}]
Term(u) == [op |-> "term", target |-> {}, uses |-> u]
One == <<"1">>

Bodies == {<<Term({})>>, <<Def(One), Term({})>>, <<Read, Term({})>>,
           <<Inc, Term({})>>, <<Read, Def(One), Term({})>>,
           <<Def(One), Yielding, Term({0})>>}

\* The shape of five blocks goes without yields and extended lifetimes.
Large(g) == Cardinality(g.nodes) = 5
Yields(body) == \E i \in DOMAIN body : body[i].op = "yield"
Codes(g) == [g.nodes -> IF Large(g) THEN {b \in Bodies : ~Yields(b)} ELSE Bodies]
Extends(g) == IF Large(g) THEN {FALSE} ELSE BOOLEAN

\* Programs for the types: each block with at most one statement, and x is
\* what is returned, or in the last block an empty return.
Plains == {Def(t) : t \in {One, <<"2">>, <<"uint64">>, <<"float64">>, <<"none">>}} \cup {Inc}
ListUses == {Def(<<"list", e>>) : e \in {"undefined", "int64", "float64"}}
           \cup {Append1(t) : t \in {One, <<"float64">>}}
Body(g, b, s) == s \o <<Term(IF g.succs[b] = {} THEN {0} ELSE {})>>
Coded(g, S) ==
  {[b \in g.nodes |-> Body(g, b, f[b])] : f \in [g.nodes -> {<<>>} \cup {<<s>> : s \in S}]}
TypedPrograms(g, S, rets) == [graph : {g}, code : Coded(g, S), extend : {FALSE}, ret : rets]

MCPrograms ==
  [graph : AllGraphs, code : {<<>>}, extend : {FALSE}, ret : {Untyped}]
    \cup UNION {[graph : {g}, code : Codes(g), extend : Extends(g), ret : {Untyped}] : g \in Shapes}
    \cup UNION {TypedPrograms(g, Plains \cup ListUses, {Untyped}) : g \in SmallShapes}
    \cup UNION {TypedPrograms(g, Plains, {<<"int64">>, <<"opt", "float64">>}) : g \in SmallShapes}
    \cup UNION {TypedPrograms(g, S, {Untyped}) : g \in {IfElse, While}, S \in {Plains \ {Def(<<"2">>)}, ListUses}}
=============================================================================
