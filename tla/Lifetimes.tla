----------------------------- MODULE Lifetimes -----------------------------
(***************************************************************************)
(* Variable lifetimes: numba/core/analysis.py (uses and definitions, live   *)
(* and dead maps) and numba/core/postproc.py (where `del` statements go,    *)
(* what a generator saves).  Codes and statements are those of SSA.         *)
(***************************************************************************)
EXTENDS SSA

Named(s) == s.target \cup s.uses        \* stmt.list_vars()
Terminator(body) == Last(body)

\* compute_use_defs() of one block
UseDefs(body) ==
  LET Scan(acc, s) ==
        LET def == acc.def \cup (s.target \ s.uses)
        IN [def |-> def, use |-> acc.use \cup (Named(s) \ def)]
  IN FoldLeft(Scan, [def |-> {}, use |-> {}], body)

\* The two passes of compute_live_map(), each over the blocks in topological
\* order, repeated until nothing grows.
RECURSIVE Reaching(_, _, _, _)
Reaching(g, ud, before, d) ==
  LET Pass(acc, b) ==
        LET here == acc[b] \cup ud[b].def \cup ud[b].use
        IN [n \in g.nodes |-> IF n = b THEN here
                              ELSE IF n \in g.succs[b] THEN acc[n] \cup here ELSE acc[n]]
  IN IF d = before THEN d ELSE Reaching(g, ud, d, FoldLeft(Pass, d, TopoOrder(g)))

RECURSIVE Backward(_, _, _, _, _)
Backward(g, ud, reach, before, d) ==
  LET Pass(acc, b) ==
        [n \in g.nodes |-> IF b \in g.succs[n]
                           THEN acc[n] \cup ((acc[b] \cap reach[n]) \ ud[n].def) ELSE acc[n]]
  IN IF d = before THEN d
     ELSE Backward(g, ud, reach, d, FoldLeft(Pass, d, Postorder(g)))

LiveMap(g, ud) ==
  Backward(g, ud, Reaching(g, ud, <<>>, [n \in g.nodes |-> {}]), <<>>,
           [n \in g.nodes |-> ud[n].use])

(***************************************************************************)
(* compute_dead_maps(): what dies inside a block, and what dies on the edge *)
(* to a successor and is deleted at its start.                             *)
(***************************************************************************)
Inside(g, code, ud, live, b) ==
  (live[b] \cup ud[b].def)
    \ (Terminator(code[b]).uses \cup UNION {live[s] : s \in g.succs[b]})

\* Mutant of Escaping: nothing dies on an edge.
NoneEscapes(g, code, ud, live, b) == {}

Escaping(g, code, ud, live, b) ==
  UNION {((live[p] \cup ud[p].def) \ Inside(g, code, ud, live, p)) \ (live[b] \cup ud[b].def)
           : p \in Preds(g, b)}

\* The check at the end: the live variables that no map mentions, which the
\* code reports as an error where the function can end.
Missing(g, code, ud, live) ==
  IF ExitPoints(g) = {} THEN {}
  ELSE UNION {live[b] : b \in g.nodes}
       \ UNION {Inside(g, code, ud, live, b) \cup Escaping(g, code, ud, live, b)
                 \cup (IF g.succs[b] = {} THEN Terminator(code[b]).uses ELSE {}) : b \in g.nodes}

\* compute_live_variables(): what may hold a value at the start of a block.
RECURSIVE Available(_, _, _, _, _)
Available(g, ud, dead, before, d) ==
  LET Pass(acc, b) ==
        LET avail == (acc[b] \cup ud[b].def) \ dead[b]
        IN [n \in g.nodes |-> IF n \in g.succs[b] THEN acc[n] \cup avail ELSE acc[n]]
  IN IF d = before THEN d ELSE Available(g, ud, dead, d, FoldLeft(Pass, d, TopoOrder(g)))

(***************************************************************************)
(* _patch_var_dels(): after its last use in the block, or, when lifetimes   *)
(* are extended, at its end; those that escape go to the front.             *)
(***************************************************************************)
Del(v) == [op |-> "del", target |-> {v}, uses |-> {}]
Dels(V) == [i \in DOMAIN Ascending(V) |-> Del(Ascending(V)[i])]

WithDels(body, inside, escaping, extend) ==
  LET n == Len(body) - 1
      LastUse(v) == CHOOSE i \in 1..n : v \in Named(body[i])
                                        /\ \A j \in (i + 1)..n : v \notin Named(body[j])
      used == {v \in inside : \E i \in 1..n : v \in Named(body[i])}
      After(i) == Reverse(Dels({v \in used : LastUse(v) = i}))
      Keep(acc, i) == Append(acc, body[i]) \o (IF extend THEN <<>> ELSE After(i))
      Late(acc, i) == acc \o After(i)
      order == [i \in 1..n |-> i]
      kept == FoldLeft(Keep, Reverse(Dels(escaping)), order)
  IN Append(IF extend THEN FoldLeft(Late, kept, order) ELSE kept, Terminator(body))

\* The code with its dels.
Finish(g, code, ud, live, extend) ==
  [b \in g.nodes |-> WithDels(code[b], Inside(g, code, ud, live, b),
                              Escaping(g, code, ud, live, b), extend)]

\* block_entry_vars
EntryVars(g, code, ud, live) ==
  Available(g, ud,
    [b \in g.nodes |-> Inside(g, code, ud, live, b) \cup Escaping(g, code, ud, live, b)],
    <<>>, [b \in g.nodes |-> {}])

(***************************************************************************)
(* _compute_generator_info(): what is saved at the yield at position i of   *)
(* a block, given what may hold a value at its start.                      *)
(***************************************************************************)
Saved(body, i, entry) ==
  LET Step(acc, s) == IF s.op = "del" THEN acc \ s.target ELSE acc \cup s.target
  IN FoldLeft(Step, entry, SubSeq(body, 1, i - 1))
=============================================================================
