----------------------------- MODULE SetAlgebra -----------------------------
(***************************************************************************)
(* What compiled code may expect of two sets "a" and "b": the operations   *)
(* of Python's sets, each with its answer.                                 *)
(***************************************************************************)
EXTENDS FiniteSets

CONSTANT Keys
VARIABLES sets, did

Names == {"a", "b"}
Nothing == "nothing"

\* What was called, on which set, with which key or set, and what it answered.
Report(op, on, arg, answer) == did' = [op |-> op, on |-> on, arg |-> arg, answer |-> answer]

Init == sets = [x \in Names |-> {}] /\ did = [op |-> Nothing]

Becomes(x, S) == sets' = [sets EXCEPT ![x] = S]

OfOne(x) ==
  \/ \E k \in Keys : Becomes(x, sets[x] \cup {k}) /\ Report("add", x, k, Nothing)
  \/ \E k \in Keys : Becomes(x, sets[x] \ {k}) /\ Report("discard", x, k, k \in sets[x])
  \/ \E k \in Keys : UNCHANGED sets /\ Report("contains", x, k, k \in sets[x])
  \/ \E k \in sets[x] : Becomes(x, sets[x] \ {k}) /\ Report("pop", x, Nothing, k)
  \/ Becomes(x, {}) /\ Report("clear", x, Nothing, Nothing)

OfTwo(x, y) ==
  \/ Becomes(x, sets[x] \cup sets[y]) /\ Report("update", x, y, Nothing)
  \/ Becomes(x, sets[x] \cap sets[y]) /\ Report("intersect", x, y, Nothing)
  \/ Becomes(x, sets[x] \ sets[y]) /\ Report("difference", x, y, Nothing)
  \/ Becomes(x, (sets[x] \cup sets[y]) \ (sets[x] \cap sets[y]))
       /\ Report("symmetric_difference", x, y, Nothing)
  \/ UNCHANGED sets /\ Report("issubset", x, y, sets[x] \subseteq sets[y])
  \/ UNCHANGED sets /\ Report("is_strict_subset", x, y,
                              sets[x] \subseteq sets[y] /\ sets[x] # sets[y])
  \/ UNCHANGED sets /\ Report("isdisjoint", x, y, sets[x] \cap sets[y] = {})
  \/ UNCHANGED sets /\ Report("equals", x, y, sets[x] = sets[y])

Next ==
  \/ \E P \in SUBSET Keys : sets' = [a |-> P, b |-> {}] /\ Report("call", "a", Nothing, Nothing)
  \/ sets' = [a |-> {}, b |-> {}] /\ Report("return", "a", Nothing, Nothing)
  \/ Becomes("b", sets["a"]) /\ Report("copy", "a", "b", Nothing)
  \/ \E x \in Names : OfOne(x) \/ \E y \in Names : OfTwo(x, y)

Spec == Init /\ [][Next]_<<sets, did>>
=============================================================================
