----------------------------- MODULE WorkQueue -----------------------------
(***************************************************************************)
(* The built-in threading layer (numba/np/ufunc/workqueue.c): one queue of *)
(* one task and one worker thread per queue; a caller fills the queues,    *)
(* releases the workers and waits for them.                                *)
(*                                                                         *)
(* A queue's mutex is held for a few assignments only, so that a pass      *)
(* through queue_state_wait is one step, and so is going to sleep on the   *)
(* queue's condition variable; everything outside the mutexes (the pivot,  *)
(* the task slots, queue_count, the nesting level) is unprotected.         *)
(***************************************************************************)
EXTENDS Integers, FiniteSets

CONSTANTS
  Callers,        \* the Python threads
  NumThreads,     \* NUM_THREADS: how many queues and workers there are
  Totals,         \* the sizes of the outermost dimension, by caller
  Racing,         \* may two callers be in the nesting test at once?
  ForkMidRegion   \* may the process fork while a caller is in a region?

Q == 0 .. NumThreads - 1

ASSUME WorkQueueAssumption ==
  /\ NumThreads \in Nat \ {0}
  /\ Callers # {} /\ Callers \cap Q = {}
  /\ Totals \in [Callers -> SUBSET Nat]
  /\ {Racing, ForkMidRegion} \subseteq BOOLEAN

(* Worker q serves queue q.                                                *)
Threads == Callers \cup Q
Masks == 1 .. NumThreads

VARIABLES
  launched,       \* queues # NULL
  queue_count,    \* how many queues ready() and synchronize() go through
  queue_pivot,    \* the queue add_task_internal() fills next
  nesting_level,  \* _nesting_level
  state,          \* the state of each queue
  task,           \* the task in each queue
  waiters,        \* the threads asleep on each queue's condition variable
  pc,             \* where each thread is
  num_threads,    \* _TLS_num_threads of each thread
  tid,            \* the id set_thread_id() gave each worker
  i,              \* each caller's loop variable
  region,         \* each caller's arguments and locals of parallel_for()
  runs            \* how often each item of a caller's region was run

queues  == <<state, task, waiters>>
globals == <<launched, queue_count, queue_pivot, nesting_level>>
tls     == <<num_threads, tid>>
vars == <<globals, queues, pc, tls, i, region, runs>>

States == {"IDLE", "READY", "RUNNING", "DONE"}
CallerPC == {"idle", "check", "enter", "add_sync", "ready_sync", "wait_sync",
             "swap", "add_chunk", "ready_chunk", "wait_chunk", "leave"}
WorkerPC == {"none", "wait_ready", "run", "wait_running"}
StoppedPC == {"aborted", "crashed"}

(* Mutant of SyncTask: the workers get the initial mask.                   *)
SyncTaskInitial(n, t) == [fn |-> "sync_tls", mask |-> NumThreads, tid |-> t]

(* A task is the synchronisation of the mask or a chunk of a region.       *)
NoTask == [fn |-> "none"]
SyncTask(n, t) == [fn |-> "sync_tls", mask |-> n, tid |-> t]
ChunkTask(c, first, size, t) ==
  [fn |-> "chunk", caller |-> c, first |-> first, size |-> size, tid |-> t]

NoRegion == [total |-> 0, mask |-> 0, remain |-> 0, old_queue_count |-> 0]
NoRuns == [j \in {} |-> 0]

(* The state launch_threads() leaves the queues and workers in.            *)
Launched ==
  /\ launched' = TRUE
  /\ queue_count' = NumThreads
  /\ pc' = [t \in Threads |-> IF t \in Q THEN "wait_ready" ELSE pc[t]]

(* _launch_threads() ran when the first parallel function was compiled; it *)
(* also sets the mask of its own thread.                                   *)
Init ==
  /\ launched = TRUE
  /\ queue_count = NumThreads
  /\ queue_pivot = 0
  /\ nesting_level = 0
  /\ state = [q \in Q |-> "IDLE"]
  /\ task = [q \in Q |-> NoTask]
  /\ waiters = [q \in Q |-> {}]
  /\ pc = [t \in Threads |-> IF t \in Q THEN "wait_ready" ELSE "idle"]
  /\ \E main \in Callers :
       num_threads = [t \in Threads |-> IF t = main THEN NumThreads ELSE 0]
  /\ tid = [q \in Q |-> 0]
  /\ i = [c \in Callers |-> 0]
  /\ region = [c \in Callers |-> NoRegion]
  /\ runs = [c \in Callers |-> NoRuns]

-----------------------------------------------------------------------------
(* queue_state_wait(queue, old, repl)                                      *)

(* Mutant of Signal: nobody is woken.                                      *)
SignalNobody(q) == q \in Q /\ UNCHANGED waiters

(* pthread_cond_signal wakes one of the sleeping threads, if there is one. *)
Signal(q) ==
  \/ waiters[q] = {} /\ UNCHANGED waiters
  \/ \E w \in waiters[q] : waiters' = [waiters EXCEPT ![q] = @ \ {w}]

Pass(t, q, old, repl) ==
  /\ t \notin waiters[q]
  /\ state[q] = old
  /\ state' = [state EXCEPT ![q] = repl]
  /\ Signal(q)

(* The queue and the state a thread's queue_state_wait() call is about.    *)
Awaited(t) ==
  CASE pc[t] = "wait_ready" -> <<t, "READY">>
    [] pc[t] = "wait_running" -> <<t, "RUNNING">>
    [] pc[t] \in {"ready_sync", "ready_chunk"} -> <<i[t], "IDLE">>
    [] pc[t] \in {"wait_sync", "wait_chunk"} -> <<i[t], "DONE">>
    [] OTHER -> <<NumThreads, "none">>

(* The state is not the wanted one: the thread sleeps on the condition     *)
(* variable and looks again when it is woken.                              *)
Sleep(t) ==
  LET q == Awaited(t)[1] IN
    /\ q \in Q
    /\ t \in Callers => q < queue_count
    /\ t \notin waiters[q]
    /\ state[q] # Awaited(t)[2]
    /\ waiters' = [waiters EXCEPT ![q] = @ \cup {t}]
    /\ UNCHANGED <<globals, state, task, pc, tls, i, region, runs>>

Goto(t, l) == pc' = [pc EXCEPT ![t] = l]

(* The whole process ends: SIGABRT, or whatever a write behind the array   *)
(* of queues leads to.                                                     *)
Stop(why) == pc' = [t \in Threads |-> why]

-----------------------------------------------------------------------------
(* thread_worker(): wait until the queue is READY and take its task.       *)
WorkerStart(q) ==
  /\ pc[q] = "wait_ready"
  /\ Pass(q, q, "READY", "RUNNING")
  /\ tid' = [tid EXCEPT ![q] = task[q].tid]
  /\ Goto(q, "run")
  /\ UNCHANGED <<globals, task, num_threads, i, region, runs>>

(* The task runs: sync_tls() or the kernel on a chunk of the items.        *)
WorkerRun(q) ==
  /\ pc[q] = "run"
  /\ \/ /\ task[q].fn = "sync_tls"
        /\ num_threads' = [num_threads EXCEPT ![q] = task[q].mask]
        /\ UNCHANGED runs
     \/ /\ task[q].fn = "chunk"
        /\ LET c == task[q].caller
               chunk == task[q].first .. task[q].first + task[q].size - 1
           IN  runs' = [runs EXCEPT ![c] =
                          [j \in DOMAIN @ |->
                             IF j \in chunk THEN @[j] + 1 ELSE @[j]]]
        /\ UNCHANGED num_threads
  /\ Goto(q, "wait_running")
  /\ UNCHANGED <<globals, queues, tid, i, region>>

WorkerDone(q) ==
  /\ pc[q] = "wait_running"
  /\ Pass(q, q, "RUNNING", "DONE")
  /\ Goto(q, "wait_ready")
  /\ UNCHANGED <<globals, task, tls, i, region, runs>>

(* A kernel changes the mask of the thread it runs on.                     *)
KernelSetNumThreads(q, n) ==
  /\ pc[q] = "run"
  /\ task[q].fn = "chunk"
  /\ num_threads' = [num_threads EXCEPT ![q] = n]
  /\ UNCHANGED <<globals, queues, pc, tid, i, region, runs>>

(* A kernel calls parallel_for(): SIGABRT.  (That the test never lets it   *)
(* through is the invariant NestingSeen.)                                  *)
KernelNests(q) ==
  /\ pc[q] = "run"
  /\ task[q].fn = "chunk"
  /\ nesting_level >= 1
  /\ Stop("aborted")
  /\ UNCHANGED <<globals, queues, tls, i, region, runs>>

-----------------------------------------------------------------------------
(* set_num_threads(n) in a Python thread; a forked child that has no       *)
(* threads yet launches them.                                              *)
SetNumThreads(c, n) ==
  /\ pc[c] = "idle"
  /\ num_threads' = [num_threads EXCEPT ![c] = n]
  /\ \/ launched /\ UNCHANGED <<launched, queue_count, pc>>
     \/ ~ launched /\ Launched
  /\ UNCHANGED <<queue_pivot, nesting_level, queues, tid, i, region, runs>>

(* The kernel wrapper asks get_num_threads() and calls parallel_for().  A  *)
(* thread that never set its mask gets the initial one.                    *)
Call(c, n) ==
  /\ pc[c] = "idle"
  /\ Racing \/ \A d \in Callers : pc[d] \notin {"check", "enter"}
  /\ LET mask == IF num_threads[c] = 0 THEN NumThreads ELSE num_threads[c] IN
       /\ num_threads' = [num_threads EXCEPT ![c] = mask]
       /\ region' = [region EXCEPT ![c] =
                       [total |-> n, mask |-> mask, remain |-> n,
                        old_queue_count |-> 0]]
  /\ runs' = [runs EXCEPT ![c] = [j \in 0 .. n - 1 |-> 0]]
  /\ launched' = TRUE
  /\ queue_count' = IF launched THEN queue_count ELSE NumThreads
  /\ pc' = [t \in Threads |->
              IF t = c THEN "check"
              ELSE IF t \in Q /\ ~ launched THEN "wait_ready" ELSE pc[t]]
  /\ UNCHANGED <<queue_pivot, nesting_level, queues, tid, i>>

(* Another region is open: SIGABRT.                                        *)
CheckAborts(c) ==
  /\ pc[c] = "check"
  /\ nesting_level >= 1
  /\ Stop("aborted")
  /\ UNCHANGED <<globals, queues, tls, i, region, runs>>

CheckPasses(c) ==
  /\ pc[c] = "check"
  /\ nesting_level < 1
  /\ Goto(c, "enter")
  /\ UNCHANGED <<globals, queues, tls, i, region, runs>>

(* _nesting_level += 1, in whatever order the threads that passed the test *)
(* load and store it.                                                      *)
Enter(c) ==
  /\ pc[c] = "enter"
  /\ nesting_level' \in {nesting_level + 1, 1}
  /\ i' = [i EXCEPT ![c] = 0]
  /\ Goto(c, "add_sync")
  /\ UNCHANGED <<launched, queue_count, queue_pivot, queues, tls, region, runs>>

(* Mutant of AddTask: the pivot wraps at the number of threads.            *)
AddTaskWrapsLate(tk) ==
  /\ task' = [task EXCEPT ![queue_pivot] = tk]
  /\ queue_pivot' = IF queue_pivot + 1 = NumThreads THEN 0 ELSE queue_pivot + 1
  /\ UNCHANGED pc

(* add_task_internal(): fill the slot at the pivot and move the pivot.     *)
AddTask(tk) ==
  \/ /\ queue_pivot \in Q
     /\ task' = [task EXCEPT ![queue_pivot] = tk]
     /\ queue_pivot' =
          IF queue_pivot + 1 = queue_count THEN 0 ELSE queue_pivot + 1
     /\ UNCHANGED pc
  \/ /\ queue_pivot \notin Q
     /\ Stop("crashed")
     /\ UNCHANGED <<task, queue_pivot>>

AddSync(c) ==
  /\ pc[c] = "add_sync"
  /\ \/ /\ i[c] < NumThreads
        /\ AddTask(SyncTask(region[c].mask, i[c]))
        /\ i' = [i EXCEPT ![c] = @ + 1]
     \/ /\ i[c] >= NumThreads
        /\ i' = [i EXCEPT ![c] = 0]
        /\ Goto(c, "ready_sync")
        /\ UNCHANGED <<task, queue_pivot>>
  /\ UNCHANGED <<launched, queue_count, nesting_level, state, waiters, tls,
                 region, runs>>

(* ready() and synchronize(): one queue after the other.                   *)
ForQueues(c, here, old, repl, next) ==
  /\ pc[c] = here
  /\ \/ /\ i[c] < queue_count
        /\ Pass(c, i[c], old, repl)
        /\ i' = [i EXCEPT ![c] = @ + 1]
        /\ UNCHANGED pc
     \/ /\ i[c] >= queue_count
        /\ i' = [i EXCEPT ![c] = 0]
        /\ Goto(c, next)
        /\ UNCHANGED <<state, waiters>>
  /\ UNCHANGED <<globals, task, tls, region, runs>>

(* Mutants of WaitSync and WaitChunk: synchronize() is left out.           *)
WaitSyncOmitted(c) ==
  /\ pc[c] = "wait_sync"
  /\ Goto(c, "swap")
  /\ UNCHANGED <<globals, queues, tls, i, region, runs>>
WaitChunkOmitted(c) ==
  /\ pc[c] = "wait_chunk"
  /\ Goto(c, "leave")
  /\ UNCHANGED <<globals, queues, tls, i, region, runs>>

ReadySync(c)  == ForQueues(c, "ready_sync", "IDLE", "READY", "wait_sync")
WaitSync(c)   == ForQueues(c, "wait_sync", "DONE", "IDLE", "swap")
ReadyChunk(c) == ForQueues(c, "ready_chunk", "IDLE", "READY", "wait_chunk")
WaitChunk(c)  == ForQueues(c, "wait_chunk", "DONE", "IDLE", "leave")

(* Restrict ready(), synchronize() and the pivot to the masked queues.     *)
Swap(c) ==
  /\ pc[c] = "swap"
  /\ region' = [region EXCEPT ![c].old_queue_count = queue_count]
  /\ queue_count' = region[c].mask
  /\ Goto(c, "add_chunk")
  /\ UNCHANGED <<launched, queue_pivot, nesting_level, queues, tls, i, runs>>

(* The chunk of the i-th thread; the last one takes the leftover.          *)
Count(r) == r.total \div r.mask

ChunkSize(r, k) == IF k = r.mask - 1 THEN r.remain ELSE Count(r)

AddChunk(c) ==
  /\ pc[c] = "add_chunk"
  /\ LET r == region[c] IN
     \/ /\ i[c] < r.mask
        /\ AddTask(ChunkTask(c, Count(r) * i[c], ChunkSize(r, i[c]), i[c]))
        /\ region' = [region EXCEPT ![c].remain =
                        IF i[c] = r.mask - 1 THEN @ ELSE @ - Count(r)]
        /\ i' = [i EXCEPT ![c] = @ + 1]
     \/ /\ i[c] >= r.mask
        /\ i' = [i EXCEPT ![c] = 0]
        /\ Goto(c, "ready_chunk")
        /\ UNCHANGED <<task, queue_pivot, region>>
  /\ UNCHANGED <<launched, queue_count, nesting_level, state, waiters, tls,
                 runs>>

(* Restore the globals and return.                                         *)
Leave(c) ==
  /\ pc[c] = "leave"
  /\ queue_count' = region[c].old_queue_count
  /\ nesting_level' = nesting_level - 1
  /\ region' = [region EXCEPT ![c] = NoRegion]
  /\ runs' = [runs EXCEPT ![c] = NoRuns]
  /\ Goto(c, "idle")
  /\ UNCHANGED <<launched, queue_pivot, queues, tls, i>>

-----------------------------------------------------------------------------
(* A Python thread forks and the child goes on: reset_after_fork().  Only  *)
(* the forking thread lives on; the other callers stand for threads the    *)
(* child may start.  queue_count and queue_pivot are not reset.            *)
Fork(c) ==
  /\ pc[c] = "idle"
  /\ ForkMidRegion \/ \A d \in Callers : pc[d] = "idle"
  /\ launched' = FALSE
  /\ nesting_level' = 0
  /\ state' = [q \in Q |-> "IDLE"]
  /\ task' = [q \in Q |-> NoTask]
  /\ waiters' = [q \in Q |-> {}]
  /\ pc' = [t \in Threads |-> IF t \in Q THEN "none" ELSE "idle"]
  /\ num_threads' =
       [t \in Threads |-> IF t = c THEN num_threads[c] ELSE 0]
  /\ tid' = [q \in Q |-> 0]
  /\ i' = [d \in Callers |-> 0]
  /\ region' = [d \in Callers |-> NoRegion]
  /\ runs' = [d \in Callers |-> NoRuns]
  /\ UNCHANGED <<queue_count, queue_pivot>>

-----------------------------------------------------------------------------
WorkerStep(q) ==
  WorkerStart(q) \/ WorkerRun(q) \/ WorkerDone(q) \/ Sleep(q)

(* What a caller does inside parallel_for().                               *)
RegionStep(c) ==
  \/ CheckAborts(c) \/ CheckPasses(c) \/ Enter(c)
  \/ AddSync(c) \/ ReadySync(c) \/ WaitSync(c) \/ Swap(c)
  \/ AddChunk(c) \/ ReadyChunk(c) \/ WaitChunk(c) \/ Leave(c)
  \/ Sleep(c)

(* The process is gone.                                                    *)
Stopped == (\A t \in Threads : pc[t] \in StoppedPC) /\ UNCHANGED vars

Next ==
  \/ \E q \in Q :
       \/ WorkerStep(q)
       \/ KernelNests(q)
       \/ \E n \in Masks : KernelSetNumThreads(q, n)
  \/ \E c \in Callers :
       \/ RegionStep(c)
       \/ Fork(c)
       \/ \E n \in Masks : SetNumThreads(c, n)
       \/ \E n \in Totals[c] : Call(c, n)
  \/ Stopped

(* The operating system runs every thread that is not asleep.  Nothing     *)
(* makes a Python thread start a region or a kernel change its mask.       *)
Fairness ==
  /\ \A q \in Q : WF_vars(WorkerStep(q))
  /\ \A c \in Callers : WF_vars(RegionStep(c))

Spec == Init /\ [][Next]_vars
FairSpec == Spec /\ Fairness

-----------------------------------------------------------------------------
(* Properties                                                              *)

ChunkTasks ==
  [fn : {"chunk"}, caller : Callers, first : Nat, size : Nat, tid : Q]
Tasks ==
  {NoTask} \cup [fn : {"sync_tls"}, mask : Masks, tid : Q] \cup ChunkTasks

TypeOK ==
  /\ launched \in BOOLEAN
  /\ queue_count \in Masks
  /\ queue_pivot \in Nat
  /\ nesting_level \in Int
  /\ state \in [Q -> States]
  /\ task \in [Q -> Tasks]
  /\ waiters \in [Q -> SUBSET Threads]
  /\ pc \in [Threads -> CallerPC \cup WorkerPC \cup StoppedPC]
  /\ \A c \in Callers : pc[c] \notin WorkerPC
  /\ \A q \in Q : pc[q] \notin CallerPC
  /\ num_threads \in [Threads -> Masks \cup {0}]
  /\ tid \in [Q -> Q]
  /\ i \in [Callers -> Nat]
  /\ region \in [Callers -> [total : Nat, mask : Nat, remain : Int,
                             old_queue_count : Nat]]
  /\ runs = [c \in Callers |-> runs[c]]

RunsChunk(q) == pc[q] = "run" /\ task[q].fn = "chunk"

(* Two kernels that run at the same time have different thread ids below   *)
(* the mask, so that the per-thread slots they index do not collide.       *)
DistinctIds ==
  \A q, r \in Q : RunsChunk(q) /\ RunsChunk(r) =>
    /\ tid[q] < region[task[q].caller].mask
    /\ tid[q] = tid[r] => q = r

(* A kernel that calls parallel_for() again always meets a nesting level   *)
(* that makes it abort "in preference to just hanging or segfaulting".     *)
NestingSeen == \A q \in Q : RunsChunk(q) => nesting_level >= 1

(* Between two regions the unprotected globals are back where the next     *)
(* region expects them: otherwise it would fill queues nobody releases.    *)
RestoredBetween ==
  (\A c \in Callers : pc[c] = "idle") =>
    /\ queue_pivot = 0
    /\ queue_count = NumThreads
    /\ nesting_level = 0
    /\ \A q \in Q : state[q] = "IDLE"

(* No task slot is written while its queue is released, running or done.   *)
SlotsSafe ==
  [][\A q \in Q : state[q] # "IDLE" => task'[q] = task[q]]_vars

(* A kernel starts on a thread whose mask is the one of its region, even   *)
(* when an earlier kernel changed the mask of that thread.                 *)
MaskSynced ==
  [][\A q \in Q : WorkerStart(q) /\ task[q].fn = "chunk" =>
       num_threads[q] = region[task[q].caller].mask]_vars

(* Kernels find their team as parallel_for() promises it: distinct thread  *)
(* ids, the mask of the region, and a level that forbids nesting.          *)
TeamSound == [](TypeOK /\ DistinctIds /\ NestingSeen) /\ MaskSynced

(* A region that passed the nesting test ends, or the process aborts: no   *)
(* wake-up is lost between the callers and the workers.                    *)
RegionEnds ==
  \A c \in Callers : pc[c] = "add_sync" ~> pc[c] \in {"idle"} \cup StoppedPC

(* The threading layer keeps its promise to its callers.                   *)
FJ == INSTANCE ForkJoin WITH open <- {c \in Callers : region[c] # NoRegion}
ForkJoinSpec == FJ!Spec

=============================================================================
