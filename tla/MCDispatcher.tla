---- MODULE MCDispatcher ----
(* Bounded instances of Dispatcher: outer calls inner. *)
EXTENDS Dispatcher, TLC
CONSTANTS t1, t2, inner, outer, s1, s2

MCCallees == [x \in Funcs |-> IF x = outer THEN {inner} ELSE {}]
MCFails == {<<inner, s2, 0>>, <<inner, s1, 1>>}
SomeFits == {<<s2, s1>>}
====
