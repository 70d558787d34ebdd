--------------------------- MODULE ChunkScheduler ---------------------------
(***************************************************************************)
(* Parallel loops as generated code runs them (call_parallel_gufunc() in   *)
(* numba/parfors/parfor_lowering.py), with the chunk size that every       *)
(* thread keeps (numba/np/ufunc/gufunc_scheduler.cpp) and the context      *)
(* manager that changes it (numba/core/withcontexts.py).                   *)
(*                                                                         *)
(* Each thread has a stack of what it is in: a with statement, a parallel  *)
(* region it waits for, a kernel call on one row of a region.  Which       *)
(* thread runs which row is the threading layer's business, as is the size *)
(* of the mask: any thread that has nothing else to do may take a row.     *)
(***************************************************************************)
EXTENDS Schedule, FiniteSets

CONSTANTS
  Callers,       \* threads that run Python code and start regions
  Workers,       \* threads of the threading layer
  NumThreads,    \* masks are 1..NumThreads
  Spaces,        \* iteration spaces of the outermost regions
  InnerSpaces,   \* iteration spaces of the regions that kernels start
  ChunkSizes,    \* arguments of set_parallel_chunksize
  MaxDepth,      \* the longest stack
  PyNested,      \* may Python code nest the context manager?
  KernelsSet     \* may a kernel set its thread's chunk size and leave it set?

ASSUME ChunkAssumption ==
  /\ Callers \cap Workers = {}
  /\ NumThreads \in Nat /\ MaxDepth \in Nat
  /\ ChunkSizes \subseteq Nat
  /\ \A space \in Spaces \cup InnerSpaces : total_size(space) \in Nat
  /\ {PyNested, KernelsSet} \subseteq BOOLEAN

Threads == Callers \cup Workers

VARIABLES
  parallel_chunksize,  \* the thread-local chunk sizes
  stack,               \* what each thread is in, outermost first
  manager,             \* numba.parallel_chunksize: one object for all
  made                 \* the schedule each thread made last, and for what

vars == <<parallel_chunksize, stack, manager, made>>
-----------------------------------------------------------------------------
(* A frame: what it is, the value it will restore, how many rows of a      *)
(* region nobody has taken, and which region a kernel call belongs to.     *)
(* old is for the properties: the chunk size when the frame was entered.   *)
Kinds == {"region", "kernel", "with", "called", "entering", "managed"}
Frames == [kind : Kinds, old : Nat, saved : Nat, todo : Int,
           of : {<<>>} \cup (Threads \X Nat)]

Frame(t, kind, saved, todo, of) ==
  [kind |-> kind, old |-> parallel_chunksize[t], saved |-> saved, todo |-> todo, of |-> of]

Top(t) == stack[t][Len(stack[t])]
In(t, kind) == stack[t] # <<>> /\ Top(t).kind = kind
InKernel(t) == \E n \in DOMAIN stack[t] : stack[t][n].kind = "kernel"

(* Thread t executes code: Python's, or a kernel's.                        *)
Executes(t) == IF stack[t] = <<>> THEN t \in Callers
               ELSE Top(t).kind \in {"kernel", "with", "managed"}

Push(t, frame) == stack' = [stack EXCEPT ![t] = Append(@, frame)]
Pop(t) == stack' = [stack EXCEPT ![t] = SubSeq(@, 1, Len(@) - 1)]

set_parallel_chunksize(t, n) == parallel_chunksize' = [parallel_chunksize EXCEPT ![t] = n]

NotMade == [space |-> <<>>, mask |-> 0, chunksize |-> 0, sched |-> <<>>]

Init ==
  /\ parallel_chunksize = [t \in Threads |-> 0]
  /\ stack = [t \in Threads |-> <<>>]
  /\ manager = [chunksize |-> 0, orig_chunksize |-> 0]
  /\ made = [t \in Threads |-> NotMade]
-----------------------------------------------------------------------------
(* A parallel region.                                                      *)

(* Mutant of Before: the chunk size is read after it was reset.            *)
BeforeReset(t) == 0
Before(t) == parallel_chunksize[t]

(* Mutant of ChunkInside: nested regions inherit the chunk size.           *)
ChunkInherited(t) == parallel_chunksize[t]
ChunkInside(t) == 0

(* The generated code up to the call of the kernel: the chunk size is      *)
(* remembered, the schedule is made, and the chunk size is reset.          *)
Enter(t) ==
  /\ Executes(t) /\ Len(stack[t]) < MaxDepth - 1
  /\ \E mask \in 1..NumThreads,
        space \in IF InKernel(t) THEN InnerSpaces ELSE Spaces :
       LET num_divisions == get_sched_size(mask, parallel_chunksize[t], space)
       IN /\ \E sched \in create_schedule(space, num_divisions) :
               made' = [made EXCEPT ![t] =
                          [space |-> space, mask |-> mask, sched |-> sched,
                           chunksize |-> parallel_chunksize[t]]]
          /\ Push(t, Frame(t, "region", Before(t), num_divisions, <<>>))
  /\ set_parallel_chunksize(t, ChunkInside(t))
  /\ UNCHANGED manager

(* Region n of thread o, and the threads that run a row of it.             *)
IsRegion(o, n) == stack[o][n].kind = "region"
Running(o, n) ==
  {t \in Threads : \E m \in DOMAIN stack[t] : stack[t][m].of = <<o, n>>}

Waiting(o, n) == IsRegion(o, n) /\ stack[o][n].todo > 0

(* The layer gives a row of a region to thread t: to a worker without      *)
(* work, or to a thread that waits for a region.  Which of the rows it is  *)
(* makes no difference here.                                               *)
TakeRow(t) ==
  /\ IF stack[t] = <<>> THEN t \in Workers ELSE Top(t).kind = "region"
  /\ Len(stack[t]) < MaxDepth
  /\ \E o \in Threads : \E n \in DOMAIN stack[o] :
       /\ Waiting(o, n)
       /\ LET taken == [stack EXCEPT ![o][n].todo = @ - 1]
          IN stack' = [taken EXCEPT ![t] = Append(@, Frame(t, "kernel", 0, 0, <<o, n>>))]
  /\ UNCHANGED <<parallel_chunksize, manager, made>>

FinishRow(t) ==
  /\ In(t, "kernel")
  /\ Pop(t)
  /\ UNCHANGED <<parallel_chunksize, manager, made>>

(* The kernel's wrapper returns when all rows are done.                    *)
Leave(t) ==
  /\ In(t, "region")
  /\ Top(t).todo = 0 /\ Running(t, Len(stack[t])) = {}
  /\ set_parallel_chunksize(t, Top(t).saved)
  /\ made' = [made EXCEPT ![t] = NotMade]
  /\ Pop(t)
  /\ UNCHANGED manager
-----------------------------------------------------------------------------
(* set_parallel_chunksize() on its own, from Python or from compiled code. *)
Set(t) ==
  /\ Executes(t)
  /\ InKernel(t) => KernelsSet
  /\ \E n \in ChunkSizes : set_parallel_chunksize(t, n)
  /\ UNCHANGED <<stack, manager, made>>

(* "with parallel_chunksize(n)" in compiled code: the saved value is a     *)
(* variable of the function.                                               *)
With(t) ==
  /\ Executes(t) /\ Len(stack[t]) < MaxDepth
  /\ Push(t, Frame(t, "with", parallel_chunksize[t], 0, <<>>))
  /\ \E n \in ChunkSizes : set_parallel_chunksize(t, n)
  /\ UNCHANGED <<manager, made>>

EndWith(t) ==
  /\ In(t, "with")
  /\ set_parallel_chunksize(t, Top(t).saved)
  /\ Pop(t)
  /\ UNCHANGED <<manager, made>>
-----------------------------------------------------------------------------
(* "with parallel_chunksize(n)" in Python, outside compiled code: the      *)
(* object is called, saves the chunk size in itself, and sets the new one. *)

PyKinds == {"called", "entering", "managed"}
InPyWith(t) == \E n \in DOMAIN stack[t] : stack[t][n].kind \in PyKinds

PyCall(t) ==
  /\ t \in Callers /\ Executes(t) /\ Len(stack[t]) < MaxDepth
  /\ \A n \in DOMAIN stack[t] : stack[t][n].kind = "managed"
  /\ PyNested \/ \A u \in Threads : ~InPyWith(u)
  /\ \E n \in ChunkSizes : manager' = [manager EXCEPT !.chunksize = n]
  /\ Push(t, Frame(t, "called", 0, 0, <<>>))
  /\ UNCHANGED <<parallel_chunksize, made>>

PyGo(t, kind) == stack' = [stack EXCEPT ![t][Len(stack[t])].kind = kind]

(* __enter__(), its two statements.                                        *)
PySave(t) ==
  /\ In(t, "called")
  /\ manager' = [manager EXCEPT !.orig_chunksize = parallel_chunksize[t]]
  /\ PyGo(t, "entering")
  /\ UNCHANGED <<parallel_chunksize, made>>

PySet(t) ==
  /\ In(t, "entering")
  /\ set_parallel_chunksize(t, manager.chunksize)
  /\ PyGo(t, "managed")
  /\ UNCHANGED <<manager, made>>

(* __exit__().                                                             *)
PyExit(t) ==
  /\ In(t, "managed")
  /\ set_parallel_chunksize(t, manager.orig_chunksize)
  /\ Pop(t)
  /\ UNCHANGED <<manager, made>>

Next ==
  \E t \in Threads :
    \/ Enter(t) \/ TakeRow(t) \/ FinishRow(t) \/ Leave(t)
    \/ Set(t) \/ With(t) \/ EndWith(t)
    \/ PyCall(t) \/ PySave(t) \/ PySet(t) \/ PyExit(t)

Spec == Init /\ [][Next]_vars
-----------------------------------------------------------------------------
TypeOK ==
  /\ parallel_chunksize \in [Threads -> Nat]
  /\ manager \in [chunksize : Nat, orig_chunksize : Nat]
  /\ stack \in [Threads -> Seq(Frames)]
  /\ \A t \in Threads : \A n \in DOMAIN stack[t] : stack[t][n].todo >= 0

(* Each iteration of the loop is in exactly one row, no row reaches        *)
(* outside the space, and the rows have the shape that flatten_schedule()  *)
(* copies: the kernels run every iteration once, for every space (empty,   *)
(* reversed, shorter than the number of rows), mask and chunk size.        *)
EachIterationOnce ==
  \A t \in Threads :
    LET space == made[t].space
        row == made[t].sched
        busy == {i \in DOMAIN row : total_size(row[i]) > 0}
    IN /\ \A i \in DOMAIN row : Len(row[i]) = Len(row[1])
       /\ \A i \in busy :
            /\ Len(row[i]) = Len(space)
            /\ \A j \in DOMAIN space : /\ row[i][j].start >= space[j].start
                                       /\ row[i][j].end <= space[j].end
       /\ \A h, i \in busy : h = i \/ \E j \in DOMAIN space :
            row[h][j].end < row[i][j].start \/ row[i][j].end < row[h][j].start
       /\ made[t] # NotMade =>
            FoldLeft(LAMBDA n, r : n + total_size(r), 0, row) = total_size(space)

(* "approximately, equally sized": no thread of the mask is left out, and  *)
(* in one dimension the rows differ by at most one iteration, and when     *)
(* there is enough work for the chunk size the thread had before the       *)
(* region, each row has at least that many iterations and less than twice  *)
(* as many.                                                                *)
ChunksAsRequested ==
  \A t \in Threads :
    LET m == made[t]
        size(i) == Length(m.sched[i][1])
        rows == DOMAIN m.sched
    IN /\ Len(m.sched) >= m.mask
       /\ Len(m.space) = 1 =>
            /\ \A i, j \in rows : size(i) <= size(j) + 1
            /\ m.chunksize > 0 /\ total_size(m.space) >= m.chunksize * m.mask =>
                 \A i \in rows : size(i) >= m.chunksize /\ size(i) < 2 * m.chunksize

(* A schedule covers its space exactly, in rows of the size asked for.     *)
ScheduleRight == EachIterationOnce /\ ChunksAsRequested

(* "the chunksize that each worker thread sees has been reset to 0", on    *)
(* the thread that runs the row, whatever that thread was doing before.    *)
KernelSeesZero ==
  \A t \in Threads : \A n \in DOMAIN stack[t] :
    stack[t][n].kind = "kernel" => stack[t][n].old = 0

(* Leaving a region, a with statement or a kernel call finds the thread's  *)
(* chunk size as it was on entry.                                          *)
Popped(t) == Len(stack'[t]) < Len(stack[t])
Restored ==
  [][\A t \in Threads : Popped(t) => parallel_chunksize'[t] = Top(t).old]_vars

(* "On exit the original chunksize is restored": the same, of the context  *)
(* manager alone.                                                          *)
ManagerRestores ==
  [][\A t \in Threads : Popped(t) /\ In(t, "managed")
                          => parallel_chunksize'[t] = Top(t).old]_vars
=============================================================================
