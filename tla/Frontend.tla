------------------------------ MODULE Frontend ------------------------------
(***************************************************************************)
(* The way of a function through the compiler's front end (control flow,   *)
(* SSA reconstruction, type inference, removal of the phis, insertion of    *)
(* dels), and then its execution, statement by statement, beside that of    *)
(* the source.  Before the first function is compiled, the conversions      *)
(* between number types are declared, in any order.                         *)
(*                                                                         *)
(* A program is [graph, code, extend, ret]: the graph as it was populated,  *)
(* the statements of each block about one variable x, the option            *)
(* dbg_extend_lifetimes and the return type that the user gave, if any.     *)
(* Statements are "def" (x = a constant, the argument or a list, of the     *)
(* type `const`), "inc" (x = x + x), "use" (y = x), "append" (to x an item  *)
(* of the type `const`), "yield", and "term", the terminator, that may read *)
(* x.                                                                      *)
(***************************************************************************)
EXTENDS TypeInference

CONSTANTS Programs,      \* the programs that are compiled
          Tokens         \* values are numbered modulo this

VARIABLES conv,          \* the conversions between number types
          declared,      \* the rules they come from
          prog,          \* the program
          cfg,           \* its graph: populated, then processed
          ssa,           \* its code and phis after SSA
          inf,           \* the state of type inference
          ir,            \* what is lowered
          entry,         \* block_entry_vars
          stage,         \* "declare", "source", "typing", "run", and how it ended
          pc,            \* the block and the position in it
          x,             \* the value of x in the source, or Unset
          held,          \* the type of that value
          env,           \* the values of the versions that hold one
          made,          \* number of the next value
          lost           \* a yield left a value behind

running == <<pc, x, held, env, made, lost>>
vars == <<conv, declared, prog, cfg, ssa, inf, ir, entry, stage, running>>

Unset == -1
NoCode == <<>>
NoGraph == [nodes |-> {1}, entry |-> 1, succs |-> <<{}>>]
NoProgram == [graph |-> NoGraph, code |-> NoCode, extend |-> FALSE, ret |-> Untyped]
Stopped == {"rejected", "unlowered", "raised", "returned"}

TypeOK ==
  /\ stage \in {"declare", "source", "typing", "run"} \cup Stopped
  /\ pc \in cfg.nodes \X Nat
  /\ x \in {Unset} \cup 0..(Tokens - 1)
  /\ \A v \in DOMAIN env : v \in Nat /\ env[v] \in 0..(Tokens - 1)
  /\ made \in 0..(Tokens - 1) /\ lost \in BOOLEAN

Init ==
  /\ conv = NoConversions /\ declared = {}
  /\ prog = NoProgram /\ cfg = NoGraph
  /\ ssa = NoCode /\ inf = NoCode /\ ir = NoCode /\ entry = NoCode
  /\ stage = "declare" /\ pc = <<1, 1>>
  /\ x = Unset /\ held = Untyped /\ env = <<>> /\ made = 0 /\ lost = FALSE

\* One call of promote_unsafe(), safe_unsafe() or unsafe_unsafe().
Declare ==
  /\ stage = "declare"
  /\ \E rule \in Rules \ declared :
        conv' = AddRule(conv, rule) /\ declared' = declared \cup {rule}
  /\ UNCHANGED <<prog, cfg, ssa, inf, ir, entry, stage, running>>

\* A function comes to the compiler.
Submit ==
  /\ stage = "declare" /\ declared = Rules
  /\ prog' \in Programs
  /\ cfg' = prog'.graph /\ pc' = <<prog'.graph.entry, 1>>
  /\ stage' = "source"
  /\ UNCHANGED <<conv, declared, ssa, inf, ir, entry, x, held, env, made, lost>>

Padded(g, code) ==
  [b \in g.nodes |-> IF b \in DOMAIN code THEN code[b]
                     ELSE <<[op |-> "term", target |-> {}, uses |-> {}]>>]

\* PostProcessor.run(), on the code without phis.
PostProcess(g, flat, ud, live) ==
  /\ entry' = EntryVars(g, flat, ud, live)
  /\ ir' = Finish(g, flat, ud, live, prog.extend)

AllUseDefs(code) == [b \in DOMAIN code |-> UseDefs(code[b])]
Flattened(g, flat, ud) == PostProcess(g, flat, ud, LiveMap(g, ud))
Lower(g, flat) == Flattened(g, flat, AllUseDefs(flat))

\* build_constraint(), after the seeds.
ThroughSSA(g, s) == ssa' = s /\ inf' = Seed(g, s, Network(g, s), prog.ret)
ThroughGraph(g) == cfg' = g /\ ThroughSSA(g, Reconstruct(g, Padded(g, prog.code)))

\* The passes up to type inference, in the order of the pipeline.
Compile ==
  /\ stage = "source"
  /\ ThroughGraph(Canonical(Live(prog.graph)))
  /\ stage' = "typing"
  /\ UNCHANGED <<conv, declared, prog, ir, entry, running>>

net == Network(cfg, ssa)

\* TypeInferer.propagate(): one more round, as long as it changes a type.
\* Mutant of Settled: it ends when a round goes without an error.
SettledEarly(next) == ~next.errors

Settled(next) == next.types = inf.types

Infer ==
  /\ stage = "typing"
  /\ inf' = Round(conv, net, inf)
  /\ ~Settled(inf')
  /\ UNCHANGED <<conv, declared, prog, cfg, ssa, ir, entry, stage, running>>

\* The last round, unify(), and the passes after type inference.
Reject ==
  /\ stage = "typing"
  /\ inf' = Round(conv, net, inf)
  /\ Settled(inf') /\ ~Typed(conv, inf')
  /\ stage' = "rejected"
  /\ UNCHANGED <<conv, declared, prog, cfg, ssa, ir, entry, running>>

Accept ==
  /\ stage = "typing"
  /\ inf' = Round(conv, net, inf)
  /\ Settled(inf') /\ Typed(conv, inf')
  /\ IF Lowered(conv, net, inf')
     THEN stage' = "run" /\ Lower(cfg, StripPhis(cfg, ssa))
     ELSE stage' = "unlowered" /\ UNCHANGED <<ir, entry>>
  /\ UNCHANGED <<conv, declared, prog, cfg, ssa, running>>

(***************************************************************************)
(* Execution.                                                              *)
(***************************************************************************)
Stmt == ir[pc[1]][pc[2]]
At(op) == stage = "run" /\ Stmt.op = op
Forward == pc' = <<pc[1], pc[2] + 1>>
Frame == UNCHANGED <<conv, declared, prog, cfg, ssa, inf, ir, entry>>
TypeOf(v) == inf.types[X(v)]

Hold(v, value) == env' = (v :> value) @@ env
Drop(V) == env' = [v \in DOMAIN env \ V |-> env[v]]

\* What the source has after the assignment: a list is laid out as it was
\* compiled, a sum has the type of what was added.
NewlyHeld(v) ==
  CASE At("def") -> IF IsList(Stmt.const) THEN TypeOf(v) ELSE Stmt.const
    [] At("inc") /\ IsList(held) -> TypeOf(v)
    [] OTHER -> Unliteral(held)

Defined(v) == Hold(v, made) /\ held' = NewlyHeld(v)

Assign ==
  /\ At("def") \/ (At("inc") /\ held # <<"none">>)
  /\ \A v \in Stmt.target : Defined(v)
  /\ x' = made /\ made' = (made + 1) % Tokens
  /\ Forward /\ Frame /\ UNCHANGED <<stage, lost>>

Use ==
  /\ At("use") \/ (At("append") /\ held # <<"none">>)
  /\ Forward /\ Frame /\ UNCHANGED <<stage, x, held, env, made, lost>>

\* None has neither a sum nor an append(): the compiled code finds that the
\* optional value has none.
RaiseOnNone ==
  /\ At("inc") \/ At("append")
  /\ held = <<"none">>
  /\ stage' = "raised"
  /\ Frame /\ UNCHANGED running

\* A copy made for a phi; a null leaves the variable without a value.
Copy ==
  /\ At("copy")
  /\ \A t \in Stmt.target :
        IF Stmt.uses \subseteq DOMAIN env /\ Stmt.uses # {}
        THEN \A v \in Stmt.uses : Hold(t, env[v])
        ELSE Drop({t})
  /\ Forward /\ Frame /\ UNCHANGED <<stage, x, held, made, lost>>

Delete ==
  /\ At("del") /\ Drop(Stmt.target)
  /\ Forward /\ Frame /\ UNCHANGED <<stage, x, held, made, lost>>

\* Suspended and resumed: only what was saved is left.
Yield ==
  /\ At("yield")
  /\ LET saved == Saved(ir[pc[1]], pc[2], entry[pc[1]])
     IN Drop(DOMAIN env \ saved) /\ lost' = (lost \/ ~(DOMAIN env \subseteq saved))
  /\ Forward /\ Frame /\ UNCHANGED <<stage, x, held, made>>

Branch ==
  /\ At("term")
  /\ \E b \in cfg.succs[pc[1]] : pc' = <<b, 1>>
  /\ Frame /\ UNCHANGED <<stage, x, held, env, made, lost>>

Return ==
  /\ At("term") /\ cfg.succs[pc[1]] = {}
  /\ stage' = "returned"
  /\ Frame /\ UNCHANGED running

Ended == stage \in Stopped /\ UNCHANGED vars

Next ==
  \/ Declare \/ Submit \/ Compile \/ Infer \/ Reject \/ Accept
  \/ Assign \/ Use \/ RaiseOnNone \/ Copy \/ Delete \/ Yield \/ Branch \/ Return \/ Ended

Spec == Init /\ [][Next]_vars

(***************************************************************************)
(* Properties of the graph, for the graphs that Python code gives.         *)
(***************************************************************************)
Fresh == stage = "source" /\ prog.code = <<>>

\* Dominators are those of the definition: what no path to a block avoids.
DominatorsRight(g, dom) ==
  \A n \in g.nodes : dom[n] = {d \in g.nodes : Dominates(g, d, n)}

\* So are the post-dominators, loops without an exit included, and every block
\* has an entry in their table.
PostDominatorsRight(g, pdom) ==
  /\ DOMAIN pdom = g.nodes
  /\ \A n \in g.nodes : pdom[n] = {p \in g.nodes : PostDominates(g, p, n)}

\* The frontier of a block has the blocks where what it dominates ends.
FrontierRight(g, df) ==
  \A n \in g.nodes :
     df[n] = {u \in g.nodes : /\ \E p \in Preds(g, u) : Dominates(g, n, p)
                              /\ u = n \/ ~Dominates(g, n, u)}

Inwards(loops, order) ==
  \A i \in 1..(Len(order) - 1) : /\ loops[order[i]].body \subseteq loops[order[i + 1]].body
                                 /\ order[i] # order[i + 1]

\* Two blocks are in a common loop exactly when a cycle passes through both,
\* and the loops of a block are listed from the innermost outwards.
LoopsRight(g, loops) ==
  LET Onward(n) == ReachedFrom(g, g.succs[n])
  IN /\ \A n, m \in g.nodes :
          (m \in Onward(n) /\ n \in Onward(m)) <=>
          \E h \in DOMAIN loops : {n, m} \subseteq loops[h].body
     /\ \A n \in g.nodes : Inwards(loops, InLoops(loops, n))

Place(order, n) == CHOOSE i \in DOMAIN order : order[i] = n
Lists(order, g) == ToSet(order) = g.nodes /\ Len(order) = Cardinality(g.nodes)
Forwards(order, g, back) ==
  \A n \in g.nodes : \A m \in g.succs[n] :
     <<n, m>> \notin back => Place(order, n) < Place(order, m)

\* The order of ir_utils is topological, back edges aside; that of the graph
\* has each block after its dominators, which the passes that use it need.
OrdersRight(g, find, topo) ==
  /\ Lists(find, g) /\ Forwards(find, g, BackEdges(g))
  /\ Lists(topo, g)
  /\ \A n, d \in g.nodes : n # d /\ Dominates(g, d, n) => Place(topo, d) < Place(topo, n)

GraphRight(g) ==
  /\ DominatorsRight(g, Dominators(g))
  /\ PostDominatorsRight(g, PostDominators(g))
  /\ FrontierRight(g, DominanceFrontier(g))
  /\ LoopsRight(g, Loops(g))
  /\ OrdersRight(g, FindTopoOrder(g), TopoOrder(g))

\* "Return the sequence of nodes in topological order (ignoring back edges)."
TopologicalOf(g) == Forwards(TopoOrder(g), g, BackEdges(g))
Topological == Fresh => TopologicalOf(Live(cfg))

(***************************************************************************)
(* Properties of the compiled code.                                        *)
(***************************************************************************)
Compiled == stage \notin {"declare", "source"}

\* The phis are minimal: each joins at least two values other than its own.
PhisJoin ==
  Compiled => \A phi \in DOMAIN ssa.phis :
                LET values == ssa.phis[phi].values
                IN /\ DOMAIN values = Preds(cfg, ssa.phis[phi].block)
                   /\ Cardinality({values[p] : p \in DOMAIN values} \ {phi}) >= 2

Reading == stage = "run" /\ Stmt.op \in {"inc", "use", "append", "term"}

\* What a statement reads is the value that x has in the source: the version
\* is the one that was assigned last, phis carry values over the right edges,
\* and nothing is deleted or lost at a yield before its last use.
ReadsLastAssigned ==
  (Reading /\ x # Unset) =>
     \A v \in Stmt.uses : v \in DOMAIN env /\ env[v] = x

\* Values are released: at the return only what the terminator hands over is
\* left, and what a suspended generator does not save was released before.
NoLeak ==
  /\ stage = "returned" => DOMAIN env \subseteq Stmt.uses
  /\ lost => prog.extend

\* A version is read before it is assigned on some path from the start of b.
RECURSIVE ReadFrom(_, _, _)
ReadFrom(v, blocks, done) ==
  LET named(b) == {i \in DOMAIN ir[b] : v \in Named(ir[b][i]) /\ ir[b][i].op # "del"}
      First(b) == CHOOSE i \in named(b) : \A j \in named(b) : i <= j
      on == {b \in blocks : named(b) = {}}
      next == UNION {cfg.succs[b] : b \in on} \ (done \cup blocks)
  IN \/ \E b \in blocks \ on : v \in ir[b][First(b)].uses
     \/ next # {} /\ ReadFrom(v, next, done \cup blocks)

\* Nothing is kept that is not needed: at the end of a block, a variable with
\* a value is read by the terminator or on some path from here.
ReleasedInTime ==
  (At("term") /\ ~prog.extend) =>
     \A v \in DOMAIN env : v \in Stmt.uses \/ ReadFrom(v, cfg.succs[pc[1]], {})

\* The liveness analysis passes its own check: compute_dead_maps() does not
\* raise "liveness info missing".
CoversAll(flat, ud) == Missing(cfg, flat, ud, LiveMap(cfg, ud)) = {}
CoversIn(flat) == CoversAll(flat, AllUseDefs(flat))
LivenessCovers ==
  (stage = "run" /\ pc = <<cfg.entry, 1>>) => CoversIn(StripPhis(cfg, ssa))

\* The two selections agree, on single arguments with up to three cases and
\* on two arguments with the cases of an addition.
Singles == {<<<<t>>>> : t \in Numbers}
CaseLists == {p \o q : p, q \in Singles} \cup {p \o q \o r : p, q, r \in Singles}
OverloadsAgree ==
  /\ \A cases \in CaseLists : \A t \in Numbers : SelectionsAgree(conv, cases, <<t>>)
  /\ \A s, t \in Numbers : SelectionsAgree(conv, AddCases, <<s, t>>)

\* Each table the passes compute is the one its definition asks for.
AnalysesRight ==
  /\ stage = "declare" => ConversionsRight(conv, declared)
  /\ stage = "declare" /\ declared = Rules => OverloadsAgree
  /\ Fresh => GraphRight(Live(cfg))
  /\ PhisJoin /\ LivenessCovers

(***************************************************************************)
(* Properties of the types.                                                *)
(***************************************************************************)
\* What was inferred describes the program: when it is accepted every phi has
\* the least type for what flows into it, every call the signature of its
\* arguments' types in the end, and, when it runs, the value that a statement
\* reads or that is returned is one of the type it is read at.
Returning == At("term") /\ cfg.succs[pc[1]] = {} /\ prog.ret = Untyped
TypesRight ==
  /\ (stage = "run" /\ pc = <<cfg.entry, 1>>) => ConstraintsMet(conv, ssa, net, inf)
  /\ (Reading /\ x # Unset /\ held # Untyped) =>
       /\ \A v \in Stmt.uses : Fits(held, TypeOf(v))
       /\ Returning /\ Stmt.uses # {} => Fits(held, ReturnType(conv, inf))

\* "The algorithm is monotonic.  It can only grow or 'refine' the typevar map":
\* no round makes a type narrower, and one that is not the last makes some type
\* wider; as no type can grow for ever, inference ends.
Grows ==
  stage = "typing" =>
    /\ \A v \in DOMAIN inf.types : Below(inf.types[v], inf'.types[v])
    /\ stage' = "typing" => \E v \in DOMAIN inf.types : ~Below(inf'.types[v], inf.types[v])
TypesOnlyGrow == [][Grows]_vars

\* Each variable is deleted after its last use and not later.
ReleasedExactly == TypeOK /\ NoLeak /\ ReleasedInTime
=============================================================================
