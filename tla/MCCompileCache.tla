--------------------------- MODULE MCCompileCache ---------------------------
(***************************************************************************)
(* CompileCache with model values.  Processes, keys and versions are       *)
(* interchangeable: the specification only compares them for equality.     *)
(***************************************************************************)
EXTENDS CompileCache, TLC

CONSTANTS p1, p2, k1, k2, v1, v2

TwoProcs == {p1, p2}
TwoKeys == {k1, k2}
TwoVersions == {v1, v2}

Symmetry ==
  Permutations(Procs) \cup Permutations(Keys) \cup Permutations(Versions)

=============================================================================
