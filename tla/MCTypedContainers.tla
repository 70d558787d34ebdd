-------------------------- MODULE MCTypedContainers --------------------------
(***************************************************************************)
(* A dictionary or a set with three keys that begin their probe sequences  *)
(* at the same slot of every table: two with the same hash, and one whose  *)
(* hash is negative and differs in the bits that the perturbation brings   *)
(* in; or a list, with bounds inside, at the ends and beyond.              *)
(***************************************************************************)
EXTENDS TypedContainers, TLC
CONSTANTS u, v, A, B
HashDef == [k \in Keys |-> IF k = "b" THEN -29 ELSE 3]
SomeBounds == {-5, -2, 0, 1, 3, 5}
SomeSteps == {-2, -1, 1, 2}
Interchangeable == Permutations(Vals) \cup Permutations(Addrs)

(* No step reads status, call or result: states that differ in them alone  *)
(* have the same futures, and every step into them is still checked.       *)
WithoutStatus == <<kind, used, keys, refs, it, n_keys, inserted, list, loop>>
=============================================================================
