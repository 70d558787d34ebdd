--------------------------- MODULE TypeInference ---------------------------
(***************************************************************************)
(* Type inference (numba/core/typeinfer.py): the constraint network over    *)
(* the variables of a function after SSA, its propagation round by round,   *)
(* the refinement that flows backwards, and the final unification.          *)
(*                                                                         *)
(* A type is a sequence of names: <<"1">> and <<"2">>, the types of the two *)
(* literals, <<"int64">>, <<"uint64">>, <<"float64">>, <<"none">>,          *)
(* <<"opt">> \o t, <<"list", e>> and <<"append">> \o t, the method of a     *)
(* list of type t.  An empty list has the element type "undefined".         *)
(*                                                                         *)
(* Variables are <<"x", v>> for version v, <<"ret", b>> for the value that  *)
(* block b returns, <<"m", b, i>> for the bound method of a call, <<"arg">>  *)
(* and <<"None">>.                                                          *)
(***************************************************************************)
EXTENDS Lifetimes, TypeConversion

Untyped == <<>>
Failed == <<"failed">>
Ints == {"1", "2", "int64", "uint64"}
IsNumber(t) == Len(t) = 1 /\ t[1] \in Ints \cup {"float64"}
IsLiteral(t) == t \in {<<"1">>, <<"2">>}
IsOpt(t) == t # Untyped /\ t[1] = "opt"
IsList(t) == t # Untyped /\ t[1] = "list"
IsMethod(t) == t # Untyped /\ t[1] = "append"
Opt(t) == <<"opt">> \o t
Unliteral(t) == IF IsLiteral(t) THEN <<"int64">> ELSE t
Bare(t) == IF IsOpt(t) THEN Tail(t) ELSE t

\* is_precise(): an optional type is, whatever is in it.
Precise(t) == t \notin {Untyped, <<"undefined">>, <<"list", "undefined">>}

(***************************************************************************)
(* BaseContext.can_convert(): the table of the type manager, else the       *)
(* stricter of what the two types say.                                      *)
(***************************************************************************)
Stricter(r, q) == IF r < q THEN r ELSE q

RECURSIVE CanConvert(_, _, _)
ConvertTo(c, s, t) ==
  CASE IsLiteral(s) -> Looser(CanConvert(c, Unliteral(s), t), Promote)
    [] IsOpt(s) /\ IsOpt(t) -> CanConvert(c, Tail(s), Tail(t))
    [] IsOpt(s) /\ ~IsOpt(t) -> Looser(CanConvert(c, Tail(s), t), Safe)
    [] OTHER -> Nil
ConvertFrom(c, s, t) ==
  CASE ~IsOpt(t) -> Nil
    [] IsOpt(t) /\ s = <<"none">> -> Promote
    [] IsOpt(t) /\ IsOpt(s) -> CanConvert(c, Tail(s), Tail(t))
    [] OTHER -> Looser(CanConvert(c, s, Tail(t)), Promote)

CanConvert(c, s, t) ==
  IF s = t THEN Exact
  ELSE IF Len(s) = 1 /\ Len(t) = 1 /\ Compatible(c, s[1], t[1]) # Nil
       THEN Compatible(c, s[1], t[1])
  ELSE Stricter(ConvertTo(c, s, t), ConvertFrom(c, s, t))

\* numpy.promote_types() on these types.
Promoted(s, t) == IF Unliteral(s) = Unliteral(t) THEN Unliteral(s) ELSE <<"float64">>

\* The unify() methods of the types, and unify_pairs().
RECURSIVE UnifyPairs(_, _, _)
Rewrap(head, t) == IF t = Failed THEN Failed ELSE IF head = "opt" /\ IsOpt(t) THEN t ELSE <<head>> \o t

UnifyWith(c, s, t) ==
  CASE IsNumber(s) /\ IsNumber(t) -> Promoted(s, t)
    [] s = <<"none">> -> IF IsOpt(t) THEN t ELSE Opt(Unliteral(t))
    [] IsOpt(s) -> Rewrap("opt", UnifyPairs(c, Tail(s), Bare(t)))
    [] IsList(s) /\ IsList(t) -> Rewrap("list", UnifyPairs(c, Tail(s), Tail(t)))
    [] IsMethod(s) /\ IsMethod(t) -> Rewrap("append", UnifyPairs(c, Tail(s), Tail(t)))
    [] OTHER -> Failed

UnifyByRank(c, s, t) ==
  IF CanConvert(c, s, t) <= Safe THEN t
  ELSE IF CanConvert(c, t, s) <= Safe THEN s
  ELSE IF IsLiteral(s) \/ IsLiteral(t) THEN UnifyPairs(c, Unliteral(s), Unliteral(t))
  ELSE Failed

Else(t, u) == IF t # Failed THEN t ELSE u

UnifyPairs(c, s, t) ==
  IF s = t THEN s
  ELSE IF s = <<"undefined">> THEN t
  ELSE IF t = <<"undefined">> THEN s
  ELSE Else(UnifyWith(c, s, t), Else(UnifyWith(c, t, s), UnifyByRank(c, s, t)))

\* unify_types(): by bit width, of which only the numbers have one.
UnifyTypes(c, S) ==
  LET Wide(b) == {t \in S : IsNumber(t) = b}
      Both(t, u) == IF u = Untyped THEN t ELSE IF u = Failed THEN u ELSE UnifyPairs(c, u, t)
  IN FoldSet(Both, FoldSet(Both, Untyped, Wide(FALSE)), Wide(TRUE))

\* x + x: lists are added, numbers by the cases of BinOp.
AddCases == <<<<"int64", "int64">>, <<"int64", "uint64">>, <<"uint64", "int64">>,
              <<"uint64", "uint64">>, <<"float32", "float32">>, <<"float64", "float64">>>>
AddResults == <<"int64", "int64", "int64", "uint64", "float32", "float64">>

ResolveAdd(c, t) ==
  LET arg == Unliteral(t)
      levels == [i \in DOMAIN AddCases |->
                   [j \in 1..2 |-> CanConvert(c, arg, <<AddCases[i][j]>>)]]
      best == ResolveOverload(levels, [unsafe |-> TRUE, exact |-> FALSE])
  IN IF IsList(Bare(t)) THEN Bare(t) ELSE IF best = 0 THEN Failed ELSE <<AddResults[best]>>

(***************************************************************************)
(* The network of a program: what its statements give, in their order.      *)
(* Numbers and None have their type from the start.                         *)
(***************************************************************************)
X(v) == <<"x", v>>
OneOf(S) == CHOOSE v \in S : TRUE
NoConstraint == [kind |-> "none", dst |-> <<>>, src |-> <<>>, type |-> Untyped]
Constraint(kind, dst, src, t) == [kind |-> kind, dst |-> dst, src |-> src, type |-> t]

PhiConstraints(ssa, phi) ==
  LET values == ssa.phis[phi].values
      known == Ascending({p \in DOMAIN values : values[p] # Undefined})
  IN [i \in DOMAIN known |-> Constraint("propagate", X(phi), X(values[known[i]]), Untyped)]

OfStatement(g, b, i, s) ==
  CASE s.op = "def" /\ (IsList(s.const) \/ s.const = <<"uint64">>) ->
         <<Constraint("give", X(OneOf(s.target)), <<>>, s.const)>>
    [] s.op = "inc" -> <<Constraint("add", X(OneOf(s.target)), X(OneOf(s.uses)), Untyped)>>
    [] s.op = "append" -> <<Constraint("getattr", <<"m", b, i>>, X(OneOf(s.uses)), Untyped),
                            Constraint("call", <<"m", b, i>>, X(OneOf(s.uses)), s.const)>>
    [] s.op = "term" /\ g.succs[b] = {} ->
         <<Constraint("propagate", <<"ret", b>>,
                      IF s.uses = {} THEN <<"None">> ELSE X(OneOf(s.uses)), Untyped)>>
    [] OTHER -> <<>>

Network(g, ssa) ==
  LET Statements(b) == FlattenSeq([i \in DOMAIN ssa.code[b] |-> OfStatement(g, b, i, ssa.code[b][i])])
      Phis(b) == FlattenSeq(LET mine == Ascending({p \in DOMAIN ssa.phis : ssa.phis[p].block = b})
                            IN [i \in DOMAIN mine |-> PhiConstraints(ssa, mine[i])])
      blocks == Ascending(g.nodes)
  IN FlattenSeq([k \in DOMAIN blocks |-> Phis(blocks[k]) \o Statements(blocks[k])])

Versions(g, ssa) ==
  DOMAIN ssa.phis \cup UNION {UNION {Named(ssa.code[b][i]) : i \in DOMAIN ssa.code[b]} : b \in g.nodes}

Constant(g, ssa, v) ==
  LET given == {<<b, i>> \in g.nodes \X (1..20) :
                  /\ i \in DOMAIN ssa.code[b]
                  /\ ssa.code[b][i].op = "def" /\ ssa.code[b][i].target = {v}
                  /\ ~IsList(ssa.code[b][i].const) /\ ssa.code[b][i].const # <<"uint64">>}
  IN IF given = {} THEN Untyped ELSE LET d == OneOf(given) IN ssa.code[d[1]][d[2]].const

\* The seeds; `ret` is the return type that the user gave, or Untyped.
Seed(g, ssa, network, ret) ==
  LET returns == {<<"ret", b>> : b \in {n \in g.nodes : g.succs[n] = {}}}
      vars == {X(v) : v \in Versions(g, ssa)} \cup returns \cup {<<"None">>}
                \cup {network[i].dst : i \in DOMAIN network}
  IN [types |-> [v \in vars |-> CASE v = <<"None">> -> <<"none">>
                                  [] v[1] = "x" -> Constant(g, ssa, v[2])
                                  [] v \in returns -> ret
                                  [] OTHER -> Untyped],
      locked |-> IF ret = Untyped THEN {} ELSE returns,
      refine |-> [v \in vars |-> NoConstraint],
      sigs |-> [v \in vars |-> Untyped],
      failed |-> FALSE, errors |-> FALSE]

(***************************************************************************)
(* Types are added to variables.  A TypingError leaves the constraint: what *)
(* follows in it is skipped (failed), what it did before stays.             *)
(***************************************************************************)
Raise(inf) == [inf EXCEPT !.failed = TRUE]

\* Mutant of TypeVarAdd: the type that comes last counts.
TypeVarAddLast(c, old, locked, t) ==
  IF locked /\ CanConvert(c, t, old) = Nil THEN Failed ELSE IF locked THEN old ELSE t

\* TypeVar.add_type()
TypeVarAdd(c, old, locked, t) ==
  CASE locked -> IF CanConvert(c, t, old) = Nil THEN Failed ELSE old
    [] ~locked /\ old = Untyped -> t
    [] OTHER -> UnifyPairs(c, old, t)

\* TypeInferer.add_type(), and propagate_refined_type() with the refine()
\* methods of the constraints.
RECURSIVE AddType(_, _, _, _), Refined(_, _, _, _)
Grown(c, inf, v, unified) ==
  IF unified = Failed THEN Raise(inf)
  ELSE IF unified = inf.types[v] THEN inf
  ELSE Refined(c, [inf EXCEPT !.types[v] = unified], v, unified)

AddType(c, inf, v, t) ==
  IF inf.failed THEN inf
  ELSE Grown(c, inf, v, TypeVarAdd(c, inf.types[v], v \in inf.locked, t))

RefinedBy(c, inf, k, t) ==
  CASE k.kind = "propagate" /\ k.src \notin inf.locked -> AddType(c, inf, k.src, t)
    [] k.kind = "getattr" -> Refined(c, AddType(c, inf, k.src, Tail(t)), k.src, Tail(t))
    [] OTHER -> inf

Refined(c, inf, v, t) == IF inf.failed THEN inf ELSE RefinedBy(c, inf, inf.refine[v], t)

Signed(inf, v, sig) == IF inf.failed THEN inf ELSE [inf EXCEPT !.sigs[v] = sig]
Awaiting(inf, k) == IF inf.failed THEN inf ELSE [inf EXCEPT !.refine[k.dst] = k]

\* Propagate: copy_type() tells nobody of the change.
Copied(inf, v, unified) == IF unified = Failed THEN Raise(inf) ELSE [inf EXCEPT !.types[v] = unified]
Union(c, inf, k, t) ==
  IF t = Untyped THEN inf
  ELSE Copied(inf, k.dst, TypeVarAdd(c, inf.types[k.dst], k.dst \in inf.locked, t))
Propagated(c, inf, k) == Awaiting(Union(c, inf, k, inf.types[k.src]), k)

\* CallConstraint of an addition: not before the argument is precise.
Summed(c, inf, k, sum) ==
  IF sum = Failed THEN Raise(inf) ELSE Signed(AddType(c, inf, k.dst, sum), k.dst, sum)
Added(c, inf, k) ==
  IF ~Precise(inf.types[k.src]) THEN inf
  ELSE Summed(c, inf, k, ResolveAdd(c, inf.types[k.src]))

\* GetAttrConstraint, of the method append.
Resolved(c, inf, k, t) ==
  CASE t = Untyped -> inf
    [] IsList(t) -> AddType(c, inf, k.dst, <<"append">> \o t)
    [] OTHER -> Raise(inf)
Attribute(c, inf, k) == Awaiting(Resolved(c, inf, k, Bare(inf.types[k.src])), k)

\* CallConstraint of append(): when the call refines the list, the method's
\* variable tells the list's, and that one what it was assigned from.
Appended(c, inf, k, this, item) ==
  Signed(IF this = <<"list">> \o item THEN inf
         ELSE Refined(c, inf, k.dst, <<"append">> \o UnifyPairs(c, <<"list">> \o item, this)),
         k.dst, item)
Called(c, inf, k) ==
  IF inf.types[k.dst] = Untyped THEN Raise(inf)
  ELSE Appended(c, inf, k, Tail(inf.types[k.dst]),
                UnifyPairs(c, Tail(Tail(inf.types[k.dst])), Unliteral(k.type)))

Satisfy(c, inf, k) ==
  CASE k.kind = "propagate" -> Propagated(c, inf, k)
    [] k.kind = "give" -> AddType(c, inf, k.dst, k.type)
    [] k.kind = "add" -> Added(c, inf, k)
    [] k.kind = "getattr" -> Attribute(c, inf, k)
    [] k.kind = "call" -> Called(c, inf, k)

\* ConstraintNetwork.propagate(): all constraints, whichever of them fail.
Round(c, network, inf) ==
  LET Noted(done) == [done EXCEPT !.errors = @ \/ done.failed, !.failed = FALSE]
      Take(acc, k) == Noted(Satisfy(c, acc, k))
  IN FoldLeft(Take, [inf EXCEPT !.errors = FALSE], network)

(***************************************************************************)
(* TypeInferer.unify(): every variable has a precise type, and the values   *)
(* returned have a common one.                                             *)
(***************************************************************************)
ReturnVars(inf) == {v \in DOMAIN inf.types : v[1] = "ret"}
ReturnType(c, inf) ==
  IF ReturnVars(inf) = {} THEN <<"none">>
  ELSE UnifyTypes(c, {inf.types[v] : v \in ReturnVars(inf)})

Typed(c, inf) ==
  /\ ~inf.errors
  /\ \A v \in DOMAIN inf.types : Precise(inf.types[v])
  /\ Precise(ReturnType(c, inf)) /\ ReturnType(c, inf) # Failed

\* Casts that lowering has: a list goes as it is.
RECURSIVE CanCast(_, _)
CanCast(s, t) ==
  \/ s = t
  \/ IsNumber(s) /\ IsNumber(t) /\ ~IsLiteral(t)
  \/ IsOpt(s) /\ CanCast(Tail(s), Bare(t))
  \/ ~IsOpt(s) /\ IsOpt(t) /\ (s = <<"none">> \/ CanCast(s, Tail(t)))

\* Lowering casts what is copied, what is returned and the sum of two lists.
Lowered(c, network, inf) ==
  \A i \in DOMAIN network :
    LET k == network[i]
        dst == IF k.dst[1] = "ret" THEN ReturnType(c, inf) ELSE inf.types[k.dst]
    IN /\ k.kind = "propagate" => CanCast(inf.types[k.src], dst)
       /\ k.kind = "add" => CanCast(inf.sigs[k.dst], dst)

(***************************************************************************)
(* What the types should be.                                               *)
(***************************************************************************)
\* t holds every value of s; a list of another element type is a refinement.
RECURSIVE Below(_, _)
Below(s, t) ==
  \/ s \in {Untyped, <<"undefined">>, t}
  \/ IsLiteral(s) /\ t = <<"int64">>
  \/ IsNumber(s) /\ t = <<"float64">>
  \/ IsOpt(t) /\ (s = <<"none">> \/ Below(Bare(s), Tail(t)))
  \/ IsList(s) /\ IsList(t) /\ Below(Tail(s), Tail(t))
  \/ IsMethod(s) /\ IsMethod(t) /\ Below(Tail(s), Tail(t))

\* A value of type s may be read as one of type t: the elements of a list are
\* laid out as its type says.
Fits(s, t) == IF IsList(s) THEN Bare(t) = s ELSE Below(s, t)

\* Of the types of numbers, None and both, t is the least that holds all of S.
Plain == {<<"1">>, <<"2">>, <<"int64">>, <<"uint64">>, <<"float64">>, <<"none">>}
           \cup {Opt(<<n>>) : n \in {"int64", "uint64", "float64"}}
Tightest(S, t) ==
  /\ \A s \in S : Below(s, t)
  /\ \A u \in Plain : (u # t /\ \A s \in S : Below(s, u)) => ~Below(u, t)

\* Every phi has the least type for what flows into it, and every call the
\* signature of the types its arguments have in the end.
ConstraintsMet(c, ssa, network, inf) ==
  /\ \A phi \in DOMAIN ssa.phis :
       LET values == ssa.phis[phi].values
           into == {inf.types[X(values[p])] : p \in {q \in DOMAIN values : values[q] # Undefined}}
       IN into \subseteq Plain => Tightest(into, inf.types[X(phi)])
  /\ \A i \in DOMAIN network :
       LET k == network[i]
           t == inf.types[k.src]
       IN CASE k.kind = "add" -> /\ inf.sigs[k.dst] = ResolveAdd(c, t)
                                 /\ Below(inf.sigs[k.dst], inf.types[k.dst])
            [] k.kind = "getattr" -> inf.types[k.dst] = <<"append">> \o Bare(t)
            [] k.kind = "call" -> /\ inf.sigs[k.dst] = Tail(Bare(t))
                                  /\ Below(Unliteral(k.type), inf.sigs[k.dst])
            [] OTHER -> TRUE
=============================================================================
