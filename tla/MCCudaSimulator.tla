---- MODULE MCCudaSimulator ----
(* Bounded instances of CudaSimulator. *)
EXTENDS CudaSimulator, TLC
CONSTANTS t1, t2, t3
====
