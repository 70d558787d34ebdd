---- MODULE MCCudaMemory ----
(* Bounded instances of CudaMemory. *)
EXTENDS CudaMemory, TLC
CONSTANTS t1, t2
Symm == Permutations(Threads)
====
