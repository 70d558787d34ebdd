---------------------------- MODULE ControlFlow ----------------------------
(***************************************************************************)
(* The control flow graph of numba/core/controlflow.py, as operators on a  *)
(* graph g = [nodes, entry, succs].  The order in which a Python set is     *)
(* iterated is that of the node numbers: numbers are slots of the hash      *)
(* table, and any node may be the entry.                                    *)
(***************************************************************************)
EXTENDS Integers, FiniteSets, SequencesExt

Exit == -1        \* the dummy exit point of the post-dominators

Preds(g, n) == {m \in g.nodes : n \in g.succs[m]}

Ascending(S) ==
  [i \in 1..Cardinality(S) |-> CHOOSE n \in S : Cardinality({m \in S : m < n}) = i - 1]

RECURSIVE ReachedFrom(_, _)
ReachedFrom(g, S) ==
  LET T == S \cup UNION {g.succs[n] : n \in S}
  IN IF T = S THEN S ELSE ReachedFrom(g, T)

\* _eliminate_dead_blocks()
Live(g) ==
  LET live == ReachedFrom(g, {g.entry})
  IN [g EXCEPT !.nodes = live, !.succs = [n \in live |-> g.succs[n]]]

ExitPoints(g) == {n \in g.nodes : g.succs[n] = {}}

(***************************************************************************)
(* Orders.                                                                 *)
(***************************************************************************)
\* The depth-first search of _find_back_edges(): `path` is on_stack, the
\* successors are taken from the end of their list.
RECURSIVE Descend(_, _, _, _)
Descend(g, n, path, found) ==
  LET Check(acc, m) ==
        IF m \in path THEN [acc EXCEPT !.back = @ \cup {<<n, m>>}]
        ELSE IF m \in acc.checked THEN acc
        ELSE Descend(g, m, path \cup {m}, acc)
      after == FoldLeft(Check, found, Reverse(Ascending(g.succs[n])))
  IN [after EXCEPT !.checked = @ \cup {n}]

BackEdges(g) == Descend(g, g.entry, {g.entry}, [checked |-> {}, back |-> {}]).back

\* The loop of _find_postorder(): a child is marked as seen when it is pushed.
RECURSIVE Unwind(_, _, _, _, _)
Unwind(g, back, stack, seen, out) ==
  IF stack = <<>> THEN out
  ELSE LET n == Last(stack).node
           children == Ascending({m \in g.succs[n] : <<n, m>> \notin back /\ m \notin seen})
           pushed == [i \in DOMAIN children |-> [node |-> children[i], pushed |-> FALSE]]
       IN IF Last(stack).pushed
          THEN Unwind(g, back, Front(stack), seen, Append(out, n))
          ELSE Unwind(g, back,
                      Append(Front(stack), [node |-> n, pushed |-> TRUE]) \o pushed,
                      seen \cup ToSet(children), out)

Postorder(g) ==
  Unwind(g, BackEdges(g), <<[node |-> g.entry, pushed |-> FALSE]>>, {g.entry}, <<>>)

TopoOrder(g) == Reverse(Postorder(g))

\* ir_utils.find_topo_order(), on the same graph: a node stays on the stack
\* until its children have left it.
RECURSIVE VisitLast(_, _, _, _, _)
VisitLast(g, back, stack, seen, out) ==
  IF stack = <<>> THEN Reverse(out)
  ELSE LET n == Last(stack)
           done == ToSet(out)
       IN IF n \notin done /\ n \notin seen
          THEN LET new == seen \cup {n}
               IN VisitLast(g, back,
                    stack \o Ascending({m \in g.succs[n] : <<n, m>> \notin back /\ m \notin new}),
                    new, out)
          ELSE VisitLast(g, back, Front(stack), seen \ {n},
                         IF n \in done THEN out ELSE Append(out, n))

FindTopoOrder(g) == VisitLast(g, BackEdges(g), <<g.entry>>, {}, <<>>)

(***************************************************************************)
(* Dominators: the iteration of Cooper, Harvey and Kennedy.                *)
(***************************************************************************)
RECURSIVE Intersect(_, _, _, _)
Intersect(idx, idom, u, v) ==
  IF u = v THEN u
  ELSE IF idx[u] < idx[v] THEN Intersect(idx, idom, idom[u], v)
  ELSE Intersect(idx, idom, u, idom[v])

Sweep(g, order, idx, idom) ==
  LET Visit(acc, u) ==
        LET known == Ascending({v \in Preds(g, u) : v \in DOMAIN acc})
            Meet(a, v) == Intersect(idx, acc, a, v)
        IN (u :> FoldLeft(Meet, Head(known), Tail(known))) @@ acc
  IN FoldLeft(Visit, idom, order)

\* Until a sweep changes nothing.
RECURSIVE Settle(_, _, _, _, _)
Settle(g, order, idx, before, idom) ==
  IF idom = before THEN idom
  ELSE Settle(g, order, idx, idom, Sweep(g, order, idx, idom))

Rank(post) == [n \in ToSet(post) |-> CHOOSE i \in DOMAIN post : post[i] = n]

\* _find_immediate_dominators()
IdomsAlong(g, post) ==
  Settle(g, Reverse(Front(post)), Rank(post), <<>>, g.entry :> g.entry)

Idoms(g) == IdomsAlong(g, Postorder(g))

\* _find_dominators_from_immediate_doms()
RECURSIVE UpTo(_, _, _)
UpTo(idom, n, stop) == IF n = stop THEN {} ELSE {n} \cup UpTo(idom, idom[n], stop)

DominatorsFrom(g, idom) ==
  [n \in DOMAIN idom |-> {g.entry} \cup UpTo(idom, n, g.entry)]

Dominators(g) == DominatorsFrom(g, Idoms(g))

\* _find_dominance_frontier(): each join is in the frontier of the nodes
\* between one of its predecessors and its immediate dominator.
FrontierFrom(g, idom) ==
  LET joins == {u \in g.nodes : Cardinality(Preds(g, u)) >= 2}
  IN [v \in g.nodes |->
        {u \in joins : \E p \in Preds(g, u) : v \in UpTo(idom, p, idom[u])}]

DominanceFrontier(g) == FrontierFrom(g, Idoms(g))

(***************************************************************************)
(* Loops, and the post-dominators that need them.                          *)
(***************************************************************************)
RECURSIVE Gather(_, _, _)
Gather(g, queue, body) ==
  IF queue \subseteq body THEN body
  ELSE Gather(g, UNION {Preds(g, n) : n \in queue \ body}, body \cup queue)

\* _find_loops()
Loop(g, h, body) ==
  [header |-> h, body |-> body, entries |-> UNION {Preds(g, n) : n \in body} \ body,
   exits |-> UNION {g.succs[n] : n \in body} \ body]

LoopsOf(g, back) ==
  [h \in {e[2] : e \in back} |->
     Loop(g, h, UNION {Gather(g, {e[1]}, {h}) : e \in {b \in back : b[2] = h}})]

Loops(g) == LoopsOf(g, BackEdges(g))

\* _find_in_loops(): the headers of the loops of a node, by size of the body.
InLoops(loops, n) ==
  LET mine == {h \in DOMAIN loops : n \in loops[h].body}
      Before(a, b) == \/ Cardinality(loops[a].body) < Cardinality(loops[b].body)
                      \/ Cardinality(loops[a].body) = Cardinality(loops[b].body) /\ a < b
  IN [i \in 1..Cardinality(mine) |->
        CHOOSE h \in mine : Cardinality({k \in mine : Before(k, h)}) = i - 1]

\* The graph from the dummy exit backwards, of _find_post_dominators().
FromExit(g, loops) ==
  LET endless == UNION {loops[h].body : h \in {k \in DOMAIN loops : loops[k].exits = {}}}
      last == ExitPoints(g) \cup endless
  IN [nodes |-> g.nodes \cup {Exit}, entry |-> Exit,
      succs |-> (Exit :> last) @@ [n \in g.nodes |-> Preds(g, n)]]

WithoutExit(pdoms) == [n \in DOMAIN pdoms \ {Exit} |-> pdoms[n] \ {Exit}]

PostDominators(g) == WithoutExit(Dominators(FromExit(g, Loops(g))))

(***************************************************************************)
(* canonicalize_cfg() of transforms.py: a loop with several back edges gets *)
(* a tail block, with a new number, that has the only one.                 *)
(***************************************************************************)
AddTail(g, loop) ==
  LET tail == 1 + CHOOSE n \in g.nodes : \A m \in g.nodes : m <= n
      Retarget(n) == IF n \in loop.body /\ loop.header \in g.succs[n]
                     THEN (g.succs[n] \ {loop.header}) \cup {tail} ELSE g.succs[n]
  IN [g EXCEPT !.nodes = @ \cup {tail},
               !.succs = (tail :> {loop.header}) @@ [n \in g.nodes |-> Retarget(n)]]

AddTails(g, loops) ==
  LET several == {h \in DOMAIN loops :
                    Cardinality({n \in loops[h].body : h \in g.succs[n]}) > 1}
      Rewrite(acc, h) == AddTail(acc, loops[h])
  IN FoldLeft(Rewrite, g, Ascending(several))

Canonical(g) == AddTails(g, Loops(g))

(***************************************************************************)
(* Reference definitions.                                                  *)
(***************************************************************************)
RECURSIVE ReachedAvoiding(_, _, _)
ReachedAvoiding(g, S, a) ==
  LET T == (S \cup UNION {g.succs[n] : n \in S}) \ {a}
  IN IF T = S THEN S ELSE ReachedAvoiding(g, T, a)

\* "A node D dominates a node N when any path leading to N must go through D."
Dominates(g, d, n) == n \notin ReachedAvoiding(g, {g.entry} \ {d}, d)

\* A path that goes on for ever ends in a set of nodes that has no way out.
Ends(g) ==
  {n \in g.nodes : \A m \in ReachedFrom(g, {n}) : n \in ReachedFrom(g, {m})}

\* "A node P post-dominates a node N when any path starting from N must go
\* through P."
PostDominates(g, p, n) == ReachedAvoiding(g, {n} \ {p}, p) \cap Ends(g) = {}

\* What the compilers of Python produce: nothing jumps to the entry, and a
\* loop is entered only at its header.
Structured(g) ==
  /\ Preds(g, g.entry) = {}
  /\ \A e \in BackEdges(g) : Dominates(g, e[2], e[1])
=============================================================================
