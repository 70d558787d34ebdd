-------------------------------- MODULE SSA --------------------------------
(***************************************************************************)
(* numba/core/ssa.py and the strip_phis pass of typed_passes.py, for one   *)
(* variable of the user.                                                   *)
(*                                                                         *)
(* A statement is [op, target, uses]; `target` and `uses` are sets of       *)
(* versions of the variable, the target having at most one.  Version 0 is  *)
(* the variable itself and k the k-th name that scope.redefine() returns.   *)
(* A code is a function from blocks to their statements; the last one is    *)
(* the terminator.                                                         *)
(***************************************************************************)
EXTENDS ControlFlow

Undefined == -1            \* ir.UNDEFINED

\* _find_defs_violators(): several assignments, or a use that the only one
\* does not dominate.  An assignment's use of its own target does not count.
Violates(g, code) ==
  LET defs == {<<b, i>> \in g.nodes \X (1..20) :
                 i \in DOMAIN code[b] /\ code[b][i].target # {}}
      users == {b \in g.nodes :
                  \E i \in DOMAIN code[b] : code[b][i].uses # {} /\ code[b][i].target = {}}
      doms == Dominators(g)
  IN \/ Cardinality(defs) > 1
     \/ \E b \in users : {d[1] : d \in defs} \cap doms[b] = {}

(***************************************************************************)
(* _fresh_vars(): a new name for each assignment but the first; `defmap`    *)
(* has the versions that a block defines, in order.                         *)
(***************************************************************************)
FreshVars(g, code) ==
  LET Rename(acc, s) ==
        IF s.target = {} THEN [acc EXCEPT !.body = Append(@, s)]
        ELSE [acc EXCEPT !.body = Append(@, [s EXCEPT !.target = {acc.next}]),
                         !.defs = Append(@, acc.next), !.next = @ + 1]
      Block(acc, b) ==
        LET done == FoldLeft(Rename, [body |-> <<>>, defs |-> <<>>, next |-> acc.next], code[b])
        IN [code |-> (b :> done.body) @@ acc.code,
            defmap |-> (b :> done.defs) @@ acc.defmap, next |-> done.next]
  IN FoldLeft(Block, [code |-> <<>>, defmap |-> <<>>, next |-> 0], Ascending(g.nodes))

\* _iterated_domfronts()
RECURSIVE GrowFronts(_, _)
GrowFronts(before, df) ==
  IF df = before THEN df
  ELSE GrowFronts(df, [b \in DOMAIN df |-> df[b] \cup UNION {df[c] : c \in df[b]}])

FrontsOf(plus, blocks) == UNION {plus[b] : b \in blocks}

\* _compute_phi_locations()
PhiLocations(g, defmap) ==
  FrontsOf(GrowFronts(<<>>, DominanceFrontier(g)), {b \in g.nodes : defmap[b] # <<>>})

(***************************************************************************)
(* The definition that reaches a use.  What the search changes is st:       *)
(* defmap, phimap (the phis of a block), incoming (per phi, its block and   *)
(* its values), next (the next version).  c = [g, idom, locations] stays.   *)
(***************************************************************************)
RECURSIVE FindDefFromTop(_, _, _), FindDefFromBottom(_, _, _)

FindDefFromTop(c, st, b) ==
  IF b \in c.locations
  THEN LET phi == st.next
           placed == [st EXCEPT !.defmap[b] = <<phi>> \o @, !.phimap[b] = Append(@, phi),
                                !.incoming = (phi :> [block |-> b, values |-> <<>>]) @@ @,
                                !.next = @ + 1]
           Record(r, p) == [r.st EXCEPT !.incoming[phi].values = (p :> r.def) @@ @]
           Incoming(acc, p) == Record(FindDefFromBottom(c, acc, p), p)
       IN [def |-> phi, st |-> FoldLeft(Incoming, placed, Ascending(Preds(c.g, b)))]
  ELSE IF c.idom[b] = b THEN [def |-> Undefined, st |-> st]
  ELSE FindDefFromBottom(c, st, c.idom[b])

FindDefFromBottom(c, st, b) ==
  IF st.defmap[b] # <<>> THEN [def |-> Last(st.defmap[b]), st |-> st]
  ELSE FindDefFromTop(c, st, b)

\* _find_def(): the last assignment before statement i of the block, else its
\* phi, else what reaches the top of the block.
FindDef(c, st, b, body, i) ==
  LET before == {k \in 1..(i - 1) : body[k].target # {}}
  IN IF before # {}
     THEN LET k == CHOOSE k \in before : \A j \in before : j <= k
          IN [def |-> CHOOSE v \in body[k].target : TRUE, st |-> st]
     ELSE IF st.phimap[b] # <<>> THEN [def |-> Last(st.phimap[b]), st |-> st]
     ELSE FindDefFromTop(c, st, b)

\* _FixSSAVars over a block: a use keeps its name where nothing reaches it.
FixBlock(c, st, b, body) ==
  LET Record(acc, i, r) ==
        [st |-> r.st, body |-> Append(acc.body, IF r.def = Undefined THEN body[i]
                                                ELSE [body[i] EXCEPT !.uses = {r.def}])]
      Fix(acc, i) ==
        IF body[i].uses = {} THEN [acc EXCEPT !.body = Append(@, body[i])]
        ELSE Record(acc, i, FindDef(c, acc.st, b, body, i))
  IN FoldLeft(Fix, [st |-> st, body |-> <<>>], [i \in DOMAIN body |-> i])

\* The blocks one after the other, with what the search has changed so far.
FixBlocks(g, fresh) ==
  LET c == [g |-> g, idom |-> Idoms(g), locations |-> PhiLocations(g, fresh.defmap)]
      start == [defmap |-> fresh.defmap, phimap |-> [b \in g.nodes |-> <<>>],
                incoming |-> <<>>, next |-> fresh.next]
      Add(acc, b, done) == [st |-> done.st, code |-> (b :> done.body) @@ acc.code]
      Block(acc, b) == Add(acc, b, FixBlock(c, acc.st, b, fresh.code[b]))
  IN FoldLeft(Block, [st |-> start, code |-> <<>>], Ascending(g.nodes))

Rewritten(end) == [code |-> end.code, phis |-> end.st.incoming]

\* reconstruct_ssa(): the rewritten code and its phis.
Reconstruct(g, code) ==
  IF Violates(g, code) THEN Rewritten(FixBlocks(g, FreshVars(g, code)))
  ELSE [code |-> code, phis |-> <<>>]

(***************************************************************************)
(* _strip_phi_nodes(): each incoming value is copied to the phi's variable  *)
(* in the incoming block, after the last assignment of the value there, or  *)
(* first; an undefined one becomes a null.                                  *)
(***************************************************************************)
\* Mutant of Export: always first.
ExportFirst(body, phi, value) ==
  <<[op |-> "copy", target |-> {phi}, uses |-> IF value = Undefined THEN {} ELSE {value}]>> \o body

Export(body, phi, value) ==
  LET copy == [op |-> "copy", target |-> {phi},
               uses |-> IF value = Undefined THEN {} ELSE {value}]
      sets == {i \in DOMAIN body : body[i].target = {value}}
      at == IF sets = {} THEN 0 ELSE CHOOSE i \in sets : \A j \in sets : j <= i
  IN SubSeq(body, 1, at) \o <<copy>> \o SubSeq(body, at + 1, Len(body))

StripPhis(g, ssa) ==
  LET Block(b) ==
        LET mine == Ascending({phi \in DOMAIN ssa.phis : b \in DOMAIN ssa.phis[phi].values})
            Next1(body, phi) == Export(body, phi, ssa.phis[phi].values[b])
        IN FoldLeft(Next1, ssa.code[b], mine)
  IN [b \in g.nodes |-> Block(b)]
=============================================================================
