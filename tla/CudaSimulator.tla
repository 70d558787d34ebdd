--------------------------- MODULE CudaSimulator ---------------------------
(***************************************************************************)
(* One thread block of the CUDA simulator, numba/cuda/simulator/kernel.py. *)
(* Every CUDA thread is a host thread with an event, a flag that says it   *)
(* is blocked, and an abort flag; the BlockManager polls the flags,        *)
(* releases everybody when all live threads are blocked, and aborts the    *)
(* block when it meets an exception.                                       *)
(*                                                                         *)
(* The kernel is any program in which the threads that make the n-th       *)
(* synchronizing call make the same call; a thread may also return or      *)
(* raise at any point.                                                     *)
(***************************************************************************)
EXTENDS Naturals, Sequences, FiniteSets

CONSTANTS Threads,   \* the threads of the block
          MayExit,   \* may a thread return while others go on?
          MaxCalls   \* bound: synchronizing calls of one thread

ASSUME CudaSimulatorAssumption ==
  MaxCalls \in Nat /\ MayExit \in BOOLEAN /\ IsFiniteSet(Threads)

VARIABLES
  pc,        \* [Threads -> where a thread is]
  blocked,   \* [Threads -> BOOLEAN]: syncthreads_blocked
  event,     \* [Threads -> BOOLEAN]: syncthreads_event
  abort,     \* [Threads -> BOOLEAN]
  exception, \* [Threads -> BOOLEAN]
  state,     \* [Threads -> BOOLEAN]: block_state, shared
  second,    \* [Threads -> BOOLEAN]: in the second barrier of a vote
  count,     \* [Threads -> Nat]: what the last vote counted
  mpc,       \* where the BlockManager is
  todo,      \* the threads its current loop has yet to visit
  live,      \* livethreads
  waiting,   \* blockedthreads
  calls,     \* [1 .. n -> "sync" or "vote"]: the calls of the kernel
  made,      \* [Threads -> Nat]: the calls a thread has begun
  arrived,   \* [Threads -> Nat]: barriers reached
  passed,    \* [Threads -> Nat]: barriers left
  tally,     \* [1 .. MaxCalls -> Nat]: the threads that voted true in each call
  raised     \* [Threads -> BOOLEAN]: threads whose kernel code raised by itself

flags   == <<blocked, event, abort, exception>>
manager == <<mpc, todo, live, waiting>>
ghosts  == <<calls, made, arrived, passed, tally, raised>>
vars    == <<pc, flags, state, second, count, manager, ghosts>>

Init ==
  /\ pc = [t \in Threads |-> "run"]
  /\ blocked = [t \in Threads |-> FALSE] /\ event = [t \in Threads |-> FALSE]
  /\ abort = [t \in Threads |-> FALSE] /\ exception = [t \in Threads |-> FALSE]
  /\ state = [t \in Threads |-> FALSE] /\ second = [t \in Threads |-> FALSE]
  /\ count = [t \in Threads |-> 0]
  /\ mpc = "poll" /\ todo = Threads /\ live = Threads /\ waiting = {}
  /\ calls = <<>> /\ made = [t \in Threads |-> 0]
  /\ arrived = [t \in Threads |-> 0] /\ passed = [t \in Threads |-> 0]
  /\ tally = [n \in 1 .. MaxCalls |-> 0]
  /\ raised = [t \in Threads |-> FALSE]

----------------------------------------------------------------------------
(* A CUDA thread *)

\* The entry of syncthreads(): an aborted thread raises, another one is blocked.
Arrive(t) ==
  IF abort[t]
    THEN /\ exception' = [exception EXCEPT ![t] = TRUE]
         /\ pc' = [pc EXCEPT ![t] = "ended"]
         /\ UNCHANGED <<blocked, arrived>>
    ELSE /\ blocked' = [blocked EXCEPT ![t] = TRUE]
         /\ pc' = [pc EXCEPT ![t] = "wait"]
         /\ arrived' = [arrived EXCEPT ![t] = @ + 1]
         /\ UNCHANGED exception

\* syncthreads() and syncthreads_count(v), called by the kernel.
Call(t, kind, v) ==
  /\ pc[t] = "run" /\ ~second[t] /\ made[t] < MaxCalls
  /\ made[t] < Len(calls) => calls[made[t] + 1] = kind
  /\ calls' = IF made[t] < Len(calls) THEN calls ELSE Append(calls, kind)
  /\ made' = [made EXCEPT ![t] = @ + 1]
  /\ kind = "sync" => ~v
  /\ state' = IF kind = "vote" THEN [state EXCEPT ![t] = v] ELSE state
  /\ tally' = IF v THEN [tally EXCEPT ![made[t] + 1] = @ + 1] ELSE tally
  /\ Arrive(t)
  /\ UNCHANGED <<event, abort, second, count, manager, passed, raised>>

Wake(t) ==
  /\ pc[t] = "wait" /\ event[t]
  /\ pc' = [pc EXCEPT ![t] = "woken"]
  /\ UNCHANGED <<flags, state, second, count, manager, ghosts>>

\* syncthreads() clears its event, looks at the abort flag again and returns, to
\* the kernel or into a vote.
Pass(t) ==
  LET voting == calls[made[t]] = "vote" /\ ~second[t] IN
  /\ pc[t] = "woken"
  /\ event' = [event EXCEPT ![t] = FALSE]
  /\ IF abort[t]
       THEN /\ exception' = [exception EXCEPT ![t] = TRUE]
            /\ pc' = [pc EXCEPT ![t] = "ended"]
            /\ UNCHANGED <<second, passed>>
       ELSE /\ pc' = [pc EXCEPT ![t] = IF voting THEN "count" ELSE "run"]
            /\ second' = [second EXCEPT ![t] = FALSE]
            /\ passed' = [passed EXCEPT ![t] = @ + 1]
            /\ UNCHANGED exception
  /\ UNCHANGED <<blocked, abort, state, count, manager, calls, made, arrived, tally, raised>>

\* Mutant of Again: a vote has one barrier.
AgainNot(t) ==
  /\ pc' = [pc EXCEPT ![t] = "run"] /\ UNCHANGED <<blocked, arrived, exception, second>>
\* The second barrier of a vote keeps the others from voting again too soon.
Again(t) == Arrive(t) /\ second' = [second EXCEPT ![t] = TRUE]

Counts(t) ==
  /\ pc[t] = "count"
  /\ count' = [count EXCEPT ![t] = Cardinality({u \in Threads : state[u]})]
  /\ Again(t)
  /\ UNCHANGED <<event, abort, state, manager, calls, made, passed, tally, raised>>

Exit(t) ==
  /\ pc[t] = "run" /\ (MayExit \/ made[t] = MaxCalls)
  /\ pc' = [pc EXCEPT ![t] = "ended"]
  /\ UNCHANGED <<flags, state, second, count, manager, ghosts>>

Raise(t) ==
  /\ pc[t] = "run"
  /\ pc' = [pc EXCEPT ![t] = "ended"]
  /\ exception' = [exception EXCEPT ![t] = TRUE]
  /\ raised' = [raised EXCEPT ![t] = TRUE]
  /\ UNCHANGED <<blocked, event, abort, state, second, count, manager, calls, made,
                 arrived, passed, tally>>

----------------------------------------------------------------------------
(* The BlockManager *)

Threadside == <<pc, state, second, count, ghosts>>

\* Polling one thread; an exception that it meets aborts the block.
Poll(t) ==
  /\ mpc = "poll" /\ t \in todo
  /\ IF ~blocked[t] /\ exception[t]
       THEN mpc' = "abort" /\ todo' = Threads /\ UNCHANGED waiting
       ELSE /\ todo' = todo \ {t}
            /\ waiting' = IF blocked[t] THEN waiting \cup {t} ELSE waiting
            /\ UNCHANGED mpc
  /\ UNCHANGED <<Threadside, flags, live>>

\* Mutant of AllBlocked: the first threads that wait are let go.
SomeBlocked == waiting # {}
AllBlocked == waiting = live

Compare ==
  /\ mpc = "poll" /\ todo = {}
  /\ IF AllBlocked
       THEN mpc' = "release" /\ todo' = waiting
       ELSE mpc' = "alive" /\ todo' = live
  /\ UNCHANGED <<Threadside, flags, live, waiting>>

Release(t) ==
  /\ mpc = "release" /\ t \in todo
  /\ blocked' = [blocked EXCEPT ![t] = FALSE]
  /\ event' = [event EXCEPT ![t] = TRUE]
  /\ todo' = todo \ {t}
  /\ UNCHANGED <<Threadside, abort, exception, mpc, live, waiting>>

Forgotten == {}

Released ==
  /\ mpc = "release" /\ todo = {}
  /\ waiting' = Forgotten
  /\ mpc' = "alive" /\ todo' = live
  /\ UNCHANGED <<Threadside, flags, live>>

Alive(t) ==
  /\ mpc = "alive" /\ t \in todo
  /\ todo' = todo \ {t}
  /\ live' = IF pc[t] = "ended" THEN live \ {t} ELSE live
  /\ UNCHANGED <<Threadside, flags, mpc, waiting>>

Verdict == IF \E t \in Threads : exception[t] THEN "failed" ELSE "returned"

NextRound ==
  /\ mpc = "alive" /\ todo = {}
  /\ IF live = {} THEN mpc' = Verdict /\ UNCHANGED todo
                  ELSE mpc' = "poll" /\ todo' = live
  /\ UNCHANGED <<Threadside, flags, live, waiting>>

\* Mutant of Roused: a thread that waits is not woken.
RousedNot(t) == event
Roused(t) == [event EXCEPT ![t] = TRUE]

Abort(t) ==
  /\ mpc = "abort" /\ t \in todo
  /\ abort' = [abort EXCEPT ![t] = TRUE]
  /\ blocked' = [blocked EXCEPT ![t] = FALSE]
  /\ event' = Roused(t)
  /\ todo' = todo \ {t}
  /\ UNCHANGED <<Threadside, exception, mpc, live, waiting>>

Aborted ==
  /\ mpc = "abort" /\ todo = {}
  /\ mpc' = "failed"
  /\ UNCHANGED <<Threadside, flags, todo, live, waiting>>

----------------------------------------------------------------------------
Manage ==
  \/ Compare \/ Released \/ NextRound \/ Aborted
  \/ \E t \in Threads : Poll(t) \/ Release(t) \/ Alive(t) \/ Abort(t)

Thread(t) ==
  \/ \E kind \in {"sync", "vote"}, v \in BOOLEAN : Call(t, kind, v)
  \/ Wake(t) \/ Pass(t) \/ Counts(t) \/ Exit(t) \/ Raise(t)

Run == \E t \in Threads : Thread(t)

Next == Manage \/ Run

\* The host schedules the manager, and a thread as long as any can go on; a kernel
\* that loops for ever without a barrier is not modelled.
Spec == Init /\ [][Next]_vars /\ WF_vars(Manage) /\ WF_vars(Run)

----------------------------------------------------------------------------
(* Properties *)

Over == mpc \in {"returned", "failed"}
Aborting == mpc \in {"abort", "failed"}

TypeOK ==
  /\ pc \in [Threads -> {"run", "wait", "woken", "count", "ended"}]
  /\ mpc \in {"poll", "release", "alive", "abort", "returned", "failed"}
  /\ live \subseteq Threads /\ todo \subseteq Threads /\ count \in [Threads -> Nat]
  /\ waiting \subseteq live
  /\ \A t \in Threads : pc[t] = "ended" => ~blocked[t]

\* No thread leaves its n-th barrier before every thread that has not ended has
\* reached its own n-th one.
BarrierHolds ==
  ~Aborting => \A t, u \in Threads : pc[u] # "ended" => passed[t] <= arrived[u]

\* While no thread has ended, the count a vote returns is the number of threads
\* that voted true in this call, not in the one before or after it.
VoteExact ==
  \A t \in Threads :
    (pc[t] = "run" /\ made[t] > 0 /\ calls[made[t]] = "vote"
       /\ \A u \in Threads : pc[u] # "ended") =>
      count[t] = tally[made[t]]

\* The barrier separates what it should, on the flags and in what it returns, over
\* a state that the manager and the threads agree on.
BarrierSound == TypeOK /\ BarrierHolds /\ VoteExact

\* The kernel launch fails if and only if the code of some thread raised.
FailureReported == Over => (mpc = "failed" <=> \E t \in Threads : raised[t])

\* The launch ends, whichever threads return early, raise, or wait.
RunEnds == <>Over

\* After the launch every thread of the block ends too, also when it was aborted.
ThreadsEnd == Over ~> \A t \in Threads : pc[t] = "ended"

\* The launch and its threads end, and with the right outcome.
LaunchEnds == []FailureReported /\ RunEnds /\ ThreadsEnd

\* A vote counts the threads that voted true in this call.
VotesOfThisCall ==
  \A t \in Threads :
    pc[t] = "run" /\ made[t] > 0 /\ calls[made[t]] = "vote" =>
      count[t] = tally[made[t]]
============================================================================
