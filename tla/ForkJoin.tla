------------------------------ MODULE ForkJoin ------------------------------
(***************************************************************************)
(* What a threading layer promises to the code that calls                  *)
(* numba_parallel_for (see build_gufunc_kernel in                          *)
(* numba/np/ufunc/parallel.py): between the call and its return every item *)
(* of the outermost dimension is given to the kernel exactly once, in any  *)
(* order and by any thread.                                                *)
(***************************************************************************)
EXTENDS Naturals

CONSTANTS
  Callers,   \* the Python threads
  Totals     \* the sizes of the outermost dimension, by caller

VARIABLES
  open,      \* the callers inside numba_parallel_for
  runs       \* how often each item of a caller's region was run

fjvars == <<open, runs>>

NoRuns == [j \in {} |-> 0]

Init == open = {} /\ runs = [c \in Callers |-> NoRuns]

Begin(c) ==
  /\ c \notin open
  /\ open' = open \cup {c}
  /\ \E n \in Totals[c] : runs' = [runs EXCEPT ![c] = [j \in 0 .. n - 1 |-> 0]]

(* A chunk of items that no thread has run is run.                         *)
Run(c) ==
  /\ c \in open
  /\ \E chunk \in SUBSET {j \in DOMAIN runs[c] : runs[c][j] = 0} :
       runs' = [runs EXCEPT ![c] =
                  [j \in DOMAIN @ |-> IF j \in chunk THEN 1 ELSE @[j]]]
  /\ UNCHANGED open

End(c) ==
  /\ c \in open
  /\ \A j \in DOMAIN runs[c] : runs[c][j] = 1
  /\ open' = open \ {c}
  /\ runs' = [runs EXCEPT ![c] = NoRuns]

Next == \E c \in Callers : Begin(c) \/ Run(c) \/ End(c)

Spec == Init /\ [][Next]_fjvars

=============================================================================
