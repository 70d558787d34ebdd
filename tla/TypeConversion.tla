--------------------------- MODULE TypeConversion ---------------------------
(***************************************************************************)
(* Conversions between number types: the casting rules and their graph      *)
(* (numba/core/typeconv/castgraph.py, rules.py), the table of the C++ type  *)
(* manager that the graph fills through a callback (typeconv.cpp), and the  *)
(* two selections of an overload, in C++ for a call of compiled code and in *)
(* Python for type inference.                                              *)
(*                                                                         *)
(* The state c of the conversions is                                       *)
(*   fwd     the level of each pair of types in _forwards, or Nil           *)
(*   back    the pairs <<b, a>> with a in _backwards[b]                     *)
(*   table   the level of each pair in the C++ table, or Nil                *)
(***************************************************************************)
EXTENDS Integers, FiniteSets, FiniteSetsExt, Sequences

\* Conversion: from the strictest to the loosest.
Exact == 1
Promote == 2
Safe == 3
Unsafe == 4
Nil == 99

Numbers == {"int32", "uint32", "int64", "uint64", "float32", "float64"}
Pairs == Numbers \X Numbers

\* The rules among these types; each says how the reverse goes, too.
Rules ==
  {<<"int32", "int64", Promote>>, <<"uint32", "uint64", Promote>>,
   <<"float32", "float64", Promote>>, <<"uint32", "int64", Safe>>,
   <<"int32", "float64", Safe>>, <<"int64", "float64", Safe>>,
   <<"uint64", "float64", Safe>>, <<"int32", "float32", Unsafe>>}

NoConversions == [fwd |-> [p \in Pairs |-> Nil], back |-> {}, table |-> [p \in Pairs |-> Nil]]

Looser(a, b) == IF a > b THEN a ELSE b
Connect(c, a, b) == [c EXCEPT !.back = @ \cup {<<b, a>>}]

\* CastSet.insert(), and the callback when that was news.
Improve(c, a, b, rel) ==
  IF rel < c.fwd[a, b]
  THEN Connect([c EXCEPT !.fwd[a, b] = rel, !.table[a, b] = rel], a, b)
  ELSE Connect(c, a, b)

\* TypeGraph.propagate(): from a, and from what leads to a, to what b leads to;
\* then from what leads to a to b.
\* Mutant of Spread: what leads to a is not told where b leads.
SpreadForward(c, a, b, rel) ==
  LET On(child, d) == IF child = a THEN d ELSE Improve(d, a, child, Looser(rel, d.fwd[b, child]))
      In(child, d) == IF child = b THEN d ELSE Improve(d, child, b, Looser(rel, d.fwd[child, a]))
      ahead == FoldSet(On, c, {t \in Numbers : c.fwd[b, t] # Nil})
  IN FoldSet(In, ahead, {t \in Numbers : <<a, t>> \in ahead.back})

Spread(c, a, b, rel) ==
  LET Through(child, d) ==
        LET r == Looser(rel, d.fwd[b, child])
            Back(node, e) == IF node = child THEN e
                             ELSE Improve(e, node, child, Looser(r, e.fwd[node, a]))
            own == IF child = a THEN d ELSE Improve(d, a, child, r)
        IN FoldSet(Back, own, {t \in Numbers : <<a, t>> \in own.back})
      In(child, d) == IF child = b THEN d ELSE Improve(d, child, b, Looser(rel, d.fwd[child, a]))
      ahead == FoldSet(Through, c, {t \in Numbers : c.fwd[b, t] # Nil})
  IN FoldSet(In, ahead, {t \in Numbers : <<a, t>> \in ahead.back})

\* TypeGraph.insert_rule(): here the callback is told the rule itself.
InsertRule(c, a, b, rel) ==
  Spread([Improve(c, a, b, rel) EXCEPT !.table[a, b] = rel], a, b, rel)

\* promote_unsafe(), safe_unsafe() and unsafe_unsafe()
AddRule(c, rule) ==
  InsertRule(InsertRule(c, rule[1], rule[2], rule[3]), rule[2], rule[1], Unsafe)

\* TypeManager.isCompatible()
Compatible(c, from, to) ==
  IF from = to THEN Exact
  ELSE IF <<from, to>> \in Pairs THEN c.table[from, to] ELSE Nil

(***************************************************************************)
(* Selection of an overload.  `levels` has the level of every argument for  *)
(* each case; `mode` says what the function template or the caller allows.  *)
(***************************************************************************)
Allowed(levels, mode) ==
  \A j \in DOMAIN levels : /\ levels[j] # Nil
                           /\ levels[j] = Unsafe => mode.unsafe
                           /\ levels[j] # Exact => ~mode.exact

Rating(levels) ==
  [k \in 1..3 |-> Cardinality({j \in DOMAIN levels : levels[j] = <<Unsafe, Safe, Promote>>[k]})]

Better(r, s) == \E k \in 1..3 : r[k] < s[k] /\ \A i \in 1..(k - 1) : r[i] = s[i]

\* resolve_overload(): the first of the cases with the best rating, or 0.
ResolveOverload(levels, mode) ==
  LET candidates == {i \in DOMAIN levels : Allowed(levels[i], mode)}
      Beats(i, j) == \/ Better(Rating(levels[i]), Rating(levels[j]))
                     \/ Rating(levels[i]) = Rating(levels[j]) /\ i <= j
  IN IF candidates = {} THEN 0
     ELSE CHOOSE i \in candidates : \A j \in candidates : Beats(i, j)

Tied(levels, mode, best) ==
  Cardinality({i \in DOMAIN levels : Allowed(levels[i], mode)
                                     /\ Rating(levels[i]) = Rating(levels[best])}) > 1

\* _selectOverload(): one scan with the best so far and how many are as good.
RECURSIVE SelectFrom(_, _, _, _)
SelectFrom(levels, mode, i, best) ==
  LET here == Rating(levels[i])
      next == IF ~Allowed(levels[i], mode) THEN best
              ELSE IF best.count = 0 \/ Better(here, best.rating)
                   THEN [selected |-> i, rating |-> here, count |-> 1]
              ELSE IF here = best.rating THEN [best EXCEPT !.count = @ + 1]
              ELSE best
  IN IF i > Len(levels) THEN best ELSE SelectFrom(levels, mode, i + 1, next)

SelectOverload(levels, mode) ==
  SelectFrom(levels, mode, 1, [selected |-> 0, rating |-> <<0, 0, 0>>, count |-> 0])

LevelsOf(c, cases, args) ==
  [i \in DOMAIN cases |-> [j \in DOMAIN args |-> Compatible(c, args[j], cases[i][j])]]

(***************************************************************************)
(* What the graph and the selections should be.                            *)
(***************************************************************************)
\* Each rule and its reverse, as steps between types.
Steps(declared, level) ==
  {<<a, b>> \in Pairs : \/ \E r \in declared : r[1] = a /\ r[2] = b /\ r[3] <= level
                        \/ level = Unsafe /\ \E r \in declared : r[1] = b /\ r[2] = a}

RECURSIVE Closed(_)
Closed(R) ==
  LET more == R \cup {<<a, b>> \in Pairs : \E m \in Numbers : <<a, m>> \in R /\ <<m, b>> \in R}
  IN IF more = R THEN R ELSE Closed(more)

\* A conversion is as good as the worst step of the best way there is, in
\* whatever order the rules were declared, and the C++ table has it, too.
ConversionsRight(c, declared) ==
  /\ \A level \in {Promote, Safe, Unsafe} :
       LET ways == Closed(Steps(declared, level))
       IN \A a, b \in Numbers : a # b => (c.fwd[a, b] <= level <=> <<a, b>> \in ways)
  /\ c.table = c.fwd
  /\ c.back = {<<b, a>> \in Pairs : c.fwd[a, b] # Nil}

Modes == {[unsafe |-> TRUE, exact |-> FALSE], [unsafe |-> FALSE, exact |-> FALSE],
          [unsafe |-> TRUE, exact |-> TRUE]}

\* A call of compiled code and type inference pick the same overload, and take
\* the same calls for ambiguous.
SelectionsAgree(c, cases, args) ==
  \A mode \in Modes :
    LET levels == LevelsOf(c, cases, args)
        fast == SelectOverload(levels, mode)
        best == ResolveOverload(levels, mode)
    IN /\ fast.selected = best
       /\ best # 0 => (fast.count > 1 <=> Tied(levels, mode, best))
=============================================================================
