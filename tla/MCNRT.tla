------------------------------- MODULE MCNRT -------------------------------
(* Instances of NRT for TLC.                                               *)
EXTENDS NRT, TLC

Symmetry == Permutations(Addrs) \cup Permutations(Threads)
AllKinds == {"plain", "external", "managed", "varsize"}
ListOfArrays == {"plain", "varsize"}

=============================================================================
