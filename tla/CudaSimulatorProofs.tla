------------------------ MODULE CudaSimulatorProofs ------------------------
(***************************************************************************)
(* Theorems about CudaSimulator for any block of finitely many threads and *)
(* any number of synchronizing calls.                                      *)
(***************************************************************************)
EXTENDS CudaSimulator, FiniteSetTheorems, TLAPS

USE CudaSimulatorAssumption DEF flags, manager, ghosts, Threadside

----------------------------------------------------------------------------
(* The inductive invariant.  As long as no thread has raised, the threads  *)
(* that have not ended are in step: they agree on how many barriers have   *)
(* been opened and on the call and the barrier of it that was the last.    *)

Types ==
  /\ blocked \in [Threads -> BOOLEAN] /\ event \in [Threads -> BOOLEAN]
  /\ abort \in [Threads -> BOOLEAN] /\ exception \in [Threads -> BOOLEAN]
  /\ state \in [Threads -> BOOLEAN] /\ second \in [Threads -> BOOLEAN]
  /\ raised \in [Threads -> BOOLEAN]
  /\ calls \in Seq({"sync", "vote"})
  /\ made \in [Threads -> 0 .. MaxCalls] /\ \A t \in Threads : made[t] <= Len(calls)
  /\ arrived \in [Threads -> Nat] /\ passed \in [Threads -> Nat]
  /\ tally \in [1 .. MaxCalls -> Nat]

Ended(t) == pc[t] = "ended"

(* The flags and the counters of a thread fit the place it is at.          *)
Sane(t) ==
  /\ blocked[t] => pc[t] = "wait" /\ ~event[t] /\ ~abort[t]
  /\ event[t] => abort[t] \/ pc[t] \in {"wait", "woken"}
  /\ exception[t] => Ended(t)
  /\ pc[t] \in {"wait", "woken", "count"} => made[t] > 0
  /\ pc[t] \in {"wait", "woken"} => arrived[t] = passed[t] + 1
  /\ pc[t] \in {"run", "count"} => arrived[t] = passed[t] /\ ~second[t]
  /\ second[t] \/ pc[t] = "count" => made[t] > 0 /\ calls[made[t]] = "vote"

(* What the BlockManager knows of the threads.                             *)
Manager ==
  /\ \A t \in Threads : ~Ended(t) => t \in live
  /\ mpc = "poll" => todo \subseteq live
  /\ mpc \in {"poll", "alive"} => \A t \in waiting : blocked[t]
  /\ mpc = "release" => todo \subseteq waiting /\ \A t \in todo : blocked[t]
  /\ ~Aborting => \A t \in Threads : ~abort[t]
  /\ mpc = "returned" => \A t \in Threads : Ended(t)

(* A thread that waits for a barrier the manager has yet to open; one that *)
(* the manager is about to release waits for one it has opened.            *)
Held(t) == blocked[t] /\ ~(mpc = "release" /\ t \in todo)

(* The last barrier that was opened for a thread: its number, and the call *)
(* and the barrier of the call that it belongs to.                         *)
Opened(t) == IF Held(t) THEN arrived[t] - 1 ELSE arrived[t]

Last(n) == IF n > 0 /\ calls[n] = "vote" THEN 1 ELSE 0

Place(t) ==
  IF Held(t)
  THEN IF second[t] THEN 2 * made[t] ELSE 2 * (made[t] - 1) + Last(made[t] - 1)
  ELSE IF pc[t] = "run" THEN 2 * made[t] + Last(made[t])
  ELSE IF second[t] THEN 2 * made[t] + 1 ELSE 2 * made[t]

InStep ==
  ~Aborting =>
    \A u \in Threads : ~Ended(u) =>
      /\ \A t \in Threads : passed[t] <= Opened(u)
      /\ \A t \in Threads : ~Ended(t) => Opened(t) = Opened(u) /\ Place(t) = Place(u)

(* The threads that voted true in call n so far.                           *)
Yes(n) == {u \in Threads : made[u] = n /\ state[u] /\ calls[n] = "vote"}

Votes ==
  (\A u \in Threads : ~Ended(u)) =>
    /\ \A n \in 1 .. MaxCalls :
         (\A u \in Threads : made[u] <= n) => tally[n] = Cardinality(Yes(n))
    /\ \A t \in Threads :
         (pc[t] = "run" \/ second[t]) /\ Last(made[t]) = 1 => count[t] = tally[made[t]]

(* Exceptions come from kernel code, until the block is aborted.           *)
Failures ==
  /\ ~Aborting => \A t \in Threads : exception[t] <=> raised[t]
  /\ mpc = "returned" => \A t \in Threads : ~raised[t]
  /\ Aborting => \E t \in Threads : raised[t] /\ Ended(t)

Base == TypeOK /\ Types /\ (\A t \in Threads : Sane(t)) /\ Manager /\ Failures

Inv == Base /\ InStep /\ Votes

----------------------------------------------------------------------------
(* Every action keeps the flags and the manager's view of them right.      *)

EffectTypes ==
  /\ pc' \in [Threads -> {"run", "wait", "woken", "count", "ended"}]
  /\ exception' \in [Threads -> BOOLEAN] /\ blocked' \in [Threads -> BOOLEAN]
  /\ arrived' \in [Threads -> Nat]

(* What arriving at a barrier does to each thread.                         *)
Effect(t) ==
  /\ \A u \in Threads : u # t =>
       /\ pc'[u] = pc[u] /\ arrived'[u] = arrived[u]
       /\ exception'[u] <=> exception[u]
       /\ blocked'[u] <=> blocked[u]
  /\ abort[t] => /\ pc'[t] = "ended" /\ arrived'[t] = arrived[t]
                 /\ exception'[t] /\ (blocked'[t] <=> blocked[t])
  /\ ~ abort[t] => /\ pc'[t] = "wait" /\ arrived'[t] = arrived[t] + 1
                   /\ (exception'[t] <=> exception[t]) /\ blocked'[t]

LEMMA ArriveTypes ==
  ASSUME Base, NEW t \in Threads, Arrive(t)
  PROVE  EffectTypes
<1>1. CASE abort[t]
  BY <1>1 DEF Base, TypeOK, Types, Arrive, EffectTypes
<1>2. CASE ~ abort[t]
  <2>1. pc' \in [Threads -> {"run", "wait", "woken", "count", "ended"}]
    BY <1>2 DEF Base, TypeOK, Arrive
  <2>2. blocked' \in [Threads -> BOOLEAN]
    BY <1>2 DEF Base, Types, Arrive
  <2>3. arrived' \in [Threads -> Nat]
    BY <1>2 DEF Base, Types, Arrive
  <2>4. exception' = exception
    BY <1>2 DEF Arrive
  <2>5. QED
    BY <2>1, <2>2, <2>3, <2>4 DEF Base, Types, EffectTypes
<1>3. QED
  BY <1>1, <1>2

LEMMA ArriveEffect ==
  ASSUME Base, NEW t \in Threads, Arrive(t)
  PROVE  Effect(t)
<1>1. CASE abort[t]
  BY <1>1 DEF Base, TypeOK, Types, Arrive, Effect
<1>2. CASE ~ abort[t]
  BY <1>2 DEF Base, TypeOK, Types, Arrive, Effect
<1>3. QED
  BY <1>1, <1>2

LEMMA ArriveKeeps ==
  ASSUME Base, NEW t \in Threads, Arrive(t), pc[t] # "ended",
         UNCHANGED <<mpc, todo, live, waiting, abort, raised>>
  PROVE  Manager' /\ Failures'
<1>1. EffectTypes /\ Effect(t)
  BY ArriveTypes, ArriveEffect
<1>2. \A u \in Threads : /\ ~ Ended(u)' => ~ Ended(u)
                         /\ Ended(u) => Ended(u)'
                         /\ blocked[u] => blocked'[u]
  BY <1>1 DEF Effect, Ended
<1>3. Manager'
  BY <1>2 DEF Base, TypeOK, Manager, Aborting
<1>4. ~ Aborting => \A u \in Threads : exception'[u] <=> exception[u]
  BY <1>1 DEF Base, Manager, Effect
<1>5. Failures'
  BY <1>2, <1>4 DEF Base, Failures, Aborting
<1>6. QED
  BY <1>3, <1>5

LEMMA CallBase ==
  ASSUME Base, NEW t \in Threads, NEW kind \in {"sync", "vote"}, NEW v \in BOOLEAN,
         Call(t, kind, v)
  PROVE  Base'
<1>1. /\ pc[t] = "run" /\ made[t] \in Nat /\ made[t] < MaxCalls /\ made[t] <= Len(calls)
      /\ Len(calls) \in Nat /\ calls' \in Seq({"sync", "vote"})
      /\ made[t] + 1 <= Len(calls') /\ Len(calls) <= Len(calls') /\ Len(calls') \in Nat
      /\ calls'[made[t] + 1] = kind
      /\ \A n \in 1 .. Len(calls) : calls'[n] = calls[n]
  BY DEF Base, Types, Call
<1>2. EffectTypes /\ Effect(t)
  BY ArriveTypes, ArriveEffect DEF Call
<1>3. /\ made' = [made EXCEPT ![t] = @ + 1] /\ Arrive(t)
      /\ UNCHANGED <<event, abort, second, passed, raised>>
  BY DEF Call
<1>4. tally' \in [1 .. MaxCalls -> Nat]
  BY <1>1 DEF Base, Types, Call
<1>5. state' \in [Threads -> BOOLEAN]
  BY DEF Base, Types, Call
<1>6. TypeOK'
  <2>1. ~ blocked[t]
    BY <1>1 DEF Base, Sane
  <2>2. ASSUME NEW u \in Threads, pc'[u] = "ended" PROVE ~ blocked'[u]
    BY <1>2, <2>1, <2>2 DEF Effect, Base, TypeOK
  <2>3. UNCHANGED <<mpc, live, todo, waiting, count>>
    BY DEF Call
  <2>4. QED
    BY <1>2, <2>2, <2>3 DEF EffectTypes, Base, TypeOK
<1>7. Types'
  <2>1. made' \in [Threads -> 0 .. MaxCalls]
    BY <1>1, <1>3 DEF Base, Types
  <2>2. \A u \in Threads : made'[u] <= Len(calls')
    BY <1>1, <1>3 DEF Base, Types
  <2>3. QED
    BY <1>1, <1>3, <1>4, <1>5, <2>1, <2>2, <1>2 DEF Effect, EffectTypes, Base, Types
<1>8. ASSUME NEW u \in Threads PROVE Sane(u)'
  <2>1. CASE u = t
    BY SMTT(30), <1>1, <1>3, <2>1, <1>2
       DEF Effect, EffectTypes, Base, TypeOK, Types, Sane, Manager, Ended, Aborting
  <2>2. CASE u # t
    <3>1. made[u] \in Nat /\ made'[u] = made[u] /\ made[u] <= Len(calls)
      BY <1>3, <2>2 DEF Base, Types
    <3>2. made[u] > 0 => calls'[made[u]] = calls[made[u]]
      BY <1>1, <3>1
    <3>3. QED
      BY <1>3, <2>2, <3>1, <3>2, <1>2
         DEF Effect, EffectTypes, Base, TypeOK, Types, Sane, Ended
  <2>3. QED
    BY <2>1, <2>2
<1>9. Manager' /\ Failures'
  BY <1>1, <1>3, ArriveKeeps DEF Call
<1>10. QED
  BY <1>6, <1>7, <1>8, <1>9 DEF Base

LEMMA WakeBase ==
  ASSUME Base, NEW t \in Threads, Wake(t)
  PROVE  Base'
<1>1. TypeOK'
  BY DEF Base, TypeOK, Types, Sane, Manager, Wake
<1>2. Types'
  BY DEF Base, TypeOK, Types, Wake
<1>3. ASSUME NEW u \in Threads PROVE Sane(u)'
  BY <1>3
     DEF Base, TypeOK, Types, Sane, Manager, Ended, Aborting, Wake
<1>4. Manager'
  BY
     DEF Base, TypeOK, Types, Sane, Manager, Ended, Aborting, Wake
<1>5. Failures'
  BY
     DEF Base, TypeOK, Types, Sane, Manager, Failures, Ended, Aborting, Wake
<1>6. QED
  BY <1>1, <1>2, <1>3, <1>4, <1>5 DEF Base

LEMMA PassBase ==
  ASSUME Base, NEW t \in Threads, Pass(t)
  PROVE  Base'
<1>1. TypeOK'
  BY SMTT(30) DEF Base, TypeOK, Types, Sane, Manager, Pass
<1>2. Types'
  <2>1. CASE abort[t]
    BY <2>1 DEF Base, TypeOK, Types, Pass
  <2>2. CASE ~ abort[t]
    <3>1. second' \in [Threads -> BOOLEAN] /\ event' \in [Threads -> BOOLEAN]
      BY <2>2 DEF Base, Types, Pass
    <3>2. passed' \in [Threads -> Nat]
      BY <2>2 DEF Base, Types, Pass
    <3>3. QED
      BY <2>2, <3>1, <3>2 DEF Base, Types, Pass
  <2>3. QED
    BY <2>1, <2>2
<1>3. ASSUME NEW u \in Threads PROVE Sane(u)'
  BY <1>3
     DEF Base, TypeOK, Types, Sane, Manager, Ended, Aborting, Pass
<1>4. Manager'
  BY
     DEF Base, TypeOK, Types, Sane, Manager, Ended, Aborting, Pass
<1>5. Failures'
  BY
     DEF Base, TypeOK, Types, Sane, Manager, Failures, Ended, Aborting, Pass
<1>6. QED
  BY <1>1, <1>2, <1>3, <1>4, <1>5 DEF Base

LEMMA CountsBase ==
  ASSUME Base, NEW t \in Threads, Counts(t)
  PROVE  Base'
<1>1. /\ pc[t] = "count" /\ Arrive(t) /\ second' = [second EXCEPT ![t] = TRUE]
      /\ UNCHANGED <<event, abort, state, manager, calls, made, passed, tally, raised>>
  BY DEF Counts, Again
<1>2. EffectTypes /\ Effect(t)
  BY <1>1, ArriveTypes, ArriveEffect
<1>3. TypeOK'
  <2>1. IsFiniteSet({u \in Threads : state[u]})
    BY FS_Subset, {u \in Threads : state[u]} \in SUBSET Threads
  <2>2. count' \in [Threads -> Nat]
    BY <2>1, FS_CardinalityType DEF Base, TypeOK, Counts
  <2>3. ~ blocked[t]
    BY <1>1 DEF Base, Sane
  <2>4. ASSUME NEW u \in Threads, pc'[u] = "ended" PROVE ~ blocked'[u]
    BY <1>2, <2>3, <2>4 DEF Effect, Base, TypeOK
  <2>5. UNCHANGED <<mpc, live, todo, waiting>>
    BY <1>1
  <2>6. QED
    BY <1>2, <2>2, <2>4, <2>5 DEF EffectTypes, Base, TypeOK
<1>4. Types'
  BY <1>1, <1>2 DEF Effect, EffectTypes, Base, Types
<1>5. ASSUME NEW u \in Threads PROVE Sane(u)'
  BY <1>1, <1>2
     DEF Effect, EffectTypes, Base, TypeOK, Types, Sane, Manager, Ended, Aborting
<1>6. Manager' /\ Failures'
  BY <1>1, ArriveKeeps
<1>7. QED
  BY <1>3, <1>4, <1>5, <1>6 DEF Base

LEMMA ExitBase ==
  ASSUME Base, NEW t \in Threads, Exit(t)
  PROVE  Base'
<1>1. TypeOK'
  BY DEF Base, TypeOK, Types, Sane, Manager, Exit
<1>2. Types'
  BY DEF Base, TypeOK, Types, Exit
<1>3. ASSUME NEW u \in Threads PROVE Sane(u)'
  BY <1>3
     DEF Base, TypeOK, Types, Sane, Manager, Ended, Aborting, Exit
<1>4. Manager'
  BY
     DEF Base, TypeOK, Types, Sane, Manager, Ended, Aborting, Exit
<1>5. Failures'
  BY
     DEF Base, TypeOK, Types, Sane, Manager, Failures, Ended, Aborting, Exit
<1>6. QED
  BY <1>1, <1>2, <1>3, <1>4, <1>5 DEF Base

LEMMA RaiseBase ==
  ASSUME Base, NEW t \in Threads, Raise(t)
  PROVE  Base'
<1>1. TypeOK'
  BY DEF Base, TypeOK, Types, Sane, Manager, Raise
<1>2. Types'
  BY DEF Base, TypeOK, Types, Raise
<1>3. ASSUME NEW u \in Threads PROVE Sane(u)'
  BY <1>3
     DEF Base, TypeOK, Types, Sane, Manager, Ended, Aborting, Raise
<1>4. Manager'
  BY
     DEF Base, TypeOK, Types, Sane, Manager, Ended, Aborting, Raise
<1>5. Failures'
  BY
     DEF Base, TypeOK, Types, Sane, Manager, Failures, Ended, Aborting, Raise
<1>6. QED
  BY <1>1, <1>2, <1>3, <1>4, <1>5 DEF Base

LEMMA PollBase ==
  ASSUME Base, NEW t \in Threads, Poll(t)
  PROVE  Base'
<1>1. TypeOK'
  BY DEF Base, TypeOK, Types, Sane, Manager, Poll
<1>2. Types'
  BY DEF Base, TypeOK, Types, Poll
<1>3. ASSUME NEW u \in Threads PROVE Sane(u)'
  BY <1>3
     DEF Base, TypeOK, Types, Sane, Manager, Ended, Aborting, Poll
<1>4. Manager'
  BY
     DEF Base, TypeOK, Types, Sane, Manager, Ended, Aborting, Poll
<1>5. Failures'
  BY
     DEF Base, TypeOK, Types, Sane, Manager, Failures, Ended, Aborting, Poll
<1>6. QED
  BY <1>1, <1>2, <1>3, <1>4, <1>5 DEF Base

LEMMA CompareBase ==
  ASSUME Base, Compare
  PROVE  Base'
<1>1. TypeOK'
  BY
     DEF Base, TypeOK, Types, Sane, Manager, Compare, AllBlocked
<1>2. Types'
  BY DEF Base, TypeOK, Types, Compare, AllBlocked
<1>3. ASSUME NEW u \in Threads PROVE Sane(u)'
  BY <1>3
     DEF Base, TypeOK, Types, Sane, Manager, Ended, Aborting, Compare, AllBlocked
<1>4. Manager'
  BY
     DEF Base, TypeOK, Types, Sane, Manager, Ended, Aborting, Compare, AllBlocked
<1>5. Failures'
  BY
     DEF Base, TypeOK, Types, Sane, Manager, Failures, Ended, Aborting, Compare, AllBlocked
<1>6. QED
  BY <1>1, <1>2, <1>3, <1>4, <1>5 DEF Base

LEMMA ReleaseBase ==
  ASSUME Base, NEW t \in Threads, Release(t)
  PROVE  Base'
<1>1. TypeOK'
  BY DEF Base, TypeOK, Types, Sane, Manager, Release
<1>2. Types'
  BY DEF Base, TypeOK, Types, Release
<1>3. ASSUME NEW u \in Threads PROVE Sane(u)'
  BY <1>3
     DEF Base, TypeOK, Types, Sane, Manager, Ended, Aborting, Release
<1>4. Manager'
  BY
     DEF Base, TypeOK, Types, Sane, Manager, Ended, Aborting, Release
<1>5. Failures'
  BY
     DEF Base, TypeOK, Types, Sane, Manager, Failures, Ended, Aborting, Release
<1>6. QED
  BY <1>1, <1>2, <1>3, <1>4, <1>5 DEF Base

LEMMA ReleasedBase ==
  ASSUME Base, Released
  PROVE  Base'
<1>1. TypeOK'
  BY
     DEF Base, TypeOK, Types, Sane, Manager, Released, Forgotten
<1>2. Types'
  BY DEF Base, TypeOK, Types, Released, Forgotten
<1>3. ASSUME NEW u \in Threads PROVE Sane(u)'
  BY <1>3
     DEF Base, TypeOK, Types, Sane, Manager, Ended, Aborting, Released, Forgotten
<1>4. Manager'
  BY
     DEF Base, TypeOK, Types, Sane, Manager, Ended, Aborting, Released, Forgotten
<1>5. Failures'
  BY
     DEF Base, TypeOK, Types, Sane, Manager, Failures, Ended, Aborting, Released, Forgotten
<1>6. QED
  BY <1>1, <1>2, <1>3, <1>4, <1>5 DEF Base

LEMMA AliveBase ==
  ASSUME Base, NEW t \in Threads, Alive(t)
  PROVE  Base'
<1>1. TypeOK'
  BY DEF Base, TypeOK, Types, Sane, Manager, Alive
<1>2. Types'
  BY DEF Base, TypeOK, Types, Alive
<1>3. ASSUME NEW u \in Threads PROVE Sane(u)'
  BY <1>3
     DEF Base, TypeOK, Types, Sane, Manager, Ended, Aborting, Alive
<1>4. Manager'
  BY
     DEF Base, TypeOK, Types, Sane, Manager, Ended, Aborting, Alive
<1>5. Failures'
  BY
     DEF Base, TypeOK, Types, Sane, Manager, Failures, Ended, Aborting, Alive
<1>6. QED
  BY <1>1, <1>2, <1>3, <1>4, <1>5 DEF Base

LEMMA NextRoundBase ==
  ASSUME Base, NextRound
  PROVE  Base'
<1>1. TypeOK'
  BY
     DEF Base, TypeOK, Types, Sane, Manager, NextRound, Verdict
<1>2. Types'
  BY DEF Base, TypeOK, Types, NextRound, Verdict
<1>3. ASSUME NEW u \in Threads PROVE Sane(u)'
  BY <1>3
     DEF Base, TypeOK, Types, Sane, Manager, Ended, Aborting, NextRound, Verdict
<1>4. Manager'
  BY
     DEF Base, TypeOK, Types, Sane, Manager, Ended, Aborting, NextRound, Verdict
<1>5. Failures'
  BY
     DEF Base, TypeOK, Types, Sane, Manager, Failures, Ended, Aborting, NextRound, Verdict
<1>6. QED
  BY <1>1, <1>2, <1>3, <1>4, <1>5 DEF Base

LEMMA AbortBase ==
  ASSUME Base, NEW t \in Threads, Abort(t)
  PROVE  Base'
<1>1. TypeOK'
  BY
     DEF Base, TypeOK, Types, Sane, Manager, Abort, Roused
<1>2. Types'
  BY DEF Base, TypeOK, Types, Abort, Roused
<1>3. ASSUME NEW u \in Threads PROVE Sane(u)'
  BY <1>3
     DEF Base, TypeOK, Types, Sane, Manager, Ended, Aborting, Abort, Roused
<1>4. Manager'
  BY
     DEF Base, TypeOK, Types, Sane, Manager, Ended, Aborting, Abort, Roused
<1>5. Failures'
  BY
     DEF Base, TypeOK, Types, Sane, Manager, Failures, Ended, Aborting, Abort, Roused
<1>6. QED
  BY <1>1, <1>2, <1>3, <1>4, <1>5 DEF Base

LEMMA AbortedBase ==
  ASSUME Base, Aborted
  PROVE  Base'
<1>1. TypeOK'
  BY DEF Base, TypeOK, Types, Sane, Manager, Aborted
<1>2. Types'
  BY DEF Base, TypeOK, Types, Aborted
<1>3. ASSUME NEW u \in Threads PROVE Sane(u)'
  BY <1>3
     DEF Base, TypeOK, Types, Sane, Manager, Ended, Aborting, Aborted
<1>4. Manager'
  BY
     DEF Base, TypeOK, Types, Sane, Manager, Ended, Aborting, Aborted
<1>5. Failures'
  BY
     DEF Base, TypeOK, Types, Sane, Manager, Failures, Ended, Aborting, Aborted
<1>6. QED
  BY <1>1, <1>2, <1>3, <1>4, <1>5 DEF Base

----------------------------------------------------------------------------
(* The threads stay in step.                                               *)

(* A step of one thread that leaves the manager alone moves neither what   *)
(* was opened for it nor its place.                                        *)
Steady(t) ==
  /\ ~ Ended(t)' => ~ Ended(t) /\ Opened(t)' = Opened(t) /\ Place(t)' = Place(t)
  /\ passed'[t] = passed[t] \/ (~ Ended(t) /\ passed'[t] <= Opened(t))

Same(t) ==
  /\ Ended(t)' <=> Ended(t)
  /\ Opened(t)' = Opened(t) /\ Place(t)' = Place(t) /\ passed'[t] = passed[t]

LEMMA SteadyStep ==
  ASSUME InStep, UNCHANGED mpc, NEW t \in Threads, ~ Aborting => Steady(t),
         \A u \in Threads : u # t => Same(u)
  PROVE  InStep'
<1> SUFFICES ASSUME ~ Aborting', NEW u \in Threads, ~ Ended(u)', NEW w \in Threads
             PROVE  /\ passed'[w] <= Opened(u)'
                    /\ ~ Ended(w)' => Opened(w)' = Opened(u)' /\ Place(w)' = Place(u)'
  BY DEF InStep
<1>1. ~ Aborting /\ Steady(t)
  BY DEF Aborting
<1>2. \A x \in Threads : ~ Ended(x)' =>
        ~ Ended(x) /\ Opened(x)' = Opened(x) /\ Place(x)' = Place(x)
  BY <1>1 DEF Steady, Same
<1>3. \/ passed'[w] = passed[w]
      \/ w = t /\ ~ Ended(t) /\ passed'[t] <= Opened(t)
  BY <1>1 DEF Steady, Same
<1>4. QED
  BY <1>1, <1>2, <1>3 DEF InStep

LEMMA SameStep ==
  ASSUME InStep, Aborting' \/ ~ Aborting, \A u \in Threads : Same(u)
  PROVE  InStep'
BY DEF InStep, Same

LEMMA CallInStep ==
  ASSUME Base, InStep, NEW t \in Threads, NEW kind \in {"sync", "vote"}, NEW v \in BOOLEAN,
         Call(t, kind, v)
  PROVE  InStep'
<1>1. /\ pc[t] = "run" /\ ~ second[t] /\ Effect(t) /\ made' = [made EXCEPT ![t] = @ + 1]
      /\ UNCHANGED <<second, mpc, todo, passed>>
  BY ArriveEffect DEF Call
<1>2. \A n \in 1 .. Len(calls) : calls'[n] = calls[n]
  BY DEF Base, Types, Call
<1>3. \A u \in Threads : made[u] \in Nat /\ made[u] <= Len(calls) /\ Len(calls) \in Nat
  BY DEF Base, Types
<1>4. \A n \in Int : n <= Len(calls) =>
        (IF n > 0 /\ calls'[n] = "vote" THEN 1 ELSE 0) = Last(n)
  BY <1>2, <1>3 DEF Last
<1>5. ASSUME NEW u \in Threads, u # t PROVE Same(u)
  <2>1. /\ Held(u)' <=> Held(u)
        /\ Ended(u)' <=> Ended(u)
        /\ made'[u] = made[u]
    BY <1>1, <1>5 DEF Base, Types, Effect, Held, Ended
  <2>2. Last(made[u])' = Last(made[u]) /\ Last(made[u] - 1)' = Last(made[u] - 1)
    BY <1>3, <1>4, <2>1 DEF Last
  <2>3. QED
    BY <1>1, <1>5, <2>1, <2>2 DEF Same, Effect, Opened, Place
<1>6. ASSUME ~ Aborting PROVE Steady(t)
  <2>1. ~ abort[t] /\ ~ blocked[t] /\ (mpc = "release" => t \notin todo)
    BY <1>1, <1>6 DEF Base, Manager, Sane
  <2>2. ~ Held(t) /\ Held(t)' /\ ~ Ended(t)
    BY <1>1, <2>1 DEF Held, Effect, Ended
  <2>3. Opened(t)' = Opened(t)
    <3>1. arrived[t] \in Nat /\ arrived'[t] = arrived[t] + 1
      BY <1>1, <2>1 DEF Base, Types, Effect
    <3>2. QED
      BY <2>2, <3>1 DEF Opened
  <2>4. made'[t] - 1 = made[t] /\ Last(made[t] - 1)' = Last(made[t])
    BY <1>1, <1>3, <1>4 DEF Base, Types, Last
  <2>5. Place(t)' = Place(t)
    BY <1>1, <2>2, <2>4 DEF Place
  <2>6. QED
    BY <1>1, <2>2, <2>3, <2>5 DEF Steady
<1>7. QED
  BY <1>1, <1>5, <1>6, SteadyStep

LEMMA WakeInStep ==
  ASSUME Base, InStep, NEW t \in Threads, Wake(t)
  PROVE  InStep'
<1>1. /\ pc[t] = "wait" /\ event[t] /\ pc' = [pc EXCEPT ![t] = "woken"]
      /\ UNCHANGED <<blocked, second, mpc, todo, made, calls, arrived, passed>>
  BY DEF Wake
<1>2. \A u \in Threads : (Held(u)' <=> Held(u)) /\ (\A n : Last(n)' = Last(n))
  BY <1>1 DEF Held, Last
<1>3. ASSUME NEW u \in Threads, u # t PROVE Same(u)
  BY <1>1, <1>2, <1>3 DEF Base, TypeOK, Same, Ended, Opened, Place
<1>4. ~ Held(t)
  BY <1>1 DEF Base, Sane, Held
<1>5. Steady(t)
  BY <1>1, <1>2, <1>4 DEF Base, TypeOK, Steady, Ended, Opened, Place
<1>6. QED
  BY <1>1, <1>3, <1>5, SteadyStep

(* The voter that passes the first barrier goes on to count, the others go *)
(* back to the kernel; none passes one that was not opened.                *)
LEMMA PassInStep ==
  ASSUME Base, InStep, NEW t \in Threads, Pass(t)
  PROVE  InStep'
<1>1. /\ pc[t] = "woken" /\ UNCHANGED <<blocked, mpc, todo, made, calls, arrived>>
      /\ \A u \in Threads : u # t => pc'[u] = pc[u] /\ second'[u] = second[u] /\ passed'[u] = passed[u]
  BY DEF Base, TypeOK, Types, Pass
<1>2. \A u \in Threads : (Held(u)' <=> Held(u)) /\ (\A n : Last(n)' = Last(n))
  BY <1>1 DEF Held, Last
<1>3. ASSUME NEW u \in Threads, u # t PROVE Same(u)
  BY <1>1, <1>2, <1>3 DEF Same, Ended, Opened, Place
<1>4. ASSUME ~ Aborting PROVE Steady(t)
  <2>1. /\ ~ abort[t] /\ ~ Held(t) /\ ~ Held(t)' /\ made[t] \in Nat /\ made[t] > 0
        /\ second[t] => calls[made[t]] = "vote"
        /\ second[t] \in BOOLEAN
    BY <1>1, <1>2, <1>4 DEF Base, Types, Sane, Manager, Held
  <2>2. /\ passed'[t] = passed[t] + 1 /\ arrived[t] = passed[t] + 1 /\ ~ second'[t]
        /\ pc'[t] = IF calls[made[t]] = "vote" /\ ~ second[t] THEN "count" ELSE "run"
    BY <1>1, <2>1 DEF Base, TypeOK, Types, Sane, Pass
  <2>3. Place(t)' = Place(t)
    BY <1>1, <1>2, <2>1, <2>2 DEF Place, Last
  <2>4. QED
    BY <1>1, <2>1, <2>2, <2>3 DEF Base, Types, Steady, Ended, Opened
<1>5. QED
  BY <1>1, <1>3, <1>4, SteadyStep

LEMMA CountsInStep ==
  ASSUME Base, InStep, NEW t \in Threads, Counts(t)
  PROVE  InStep'
<1>1. /\ pc[t] = "count" /\ second' = [second EXCEPT ![t] = TRUE] /\ Effect(t)
      /\ UNCHANGED <<mpc, todo, made, calls, passed>>
  BY ArriveEffect DEF Counts, Again
<1>2. \A n : Last(n)' = Last(n)
  BY <1>1 DEF Last
<1>3. ASSUME NEW u \in Threads, u # t PROVE Same(u)
  <2>1. (Held(u)' <=> Held(u)) /\ (second'[u] = second[u])
    BY <1>1, <1>3 DEF Base, Types, Held, Effect
  <2>2. QED
    BY <1>1, <1>2, <1>3, <2>1 DEF Same, Effect, Ended, Opened, Place
<1>4. ASSUME ~ Aborting PROVE Steady(t)
  <2>1. ~ abort[t] /\ ~ blocked[t] /\ ~ second[t] /\ (mpc = "release" => t \notin todo)
    BY <1>1, <1>4 DEF Base, Manager, Sane
  <2>2. ~ Held(t) /\ Held(t)' /\ ~ Ended(t) /\ second'[t]
    BY <1>1, <2>1 DEF Base, Types, Held, Effect, Ended
  <2>3. Opened(t)' = Opened(t)
    <3>1. arrived[t] \in Nat /\ arrived'[t] = arrived[t] + 1
      BY <1>1, <2>1 DEF Base, Types, Effect
    <3>2. QED
      BY <2>2, <3>1 DEF Opened
  <2>4. Place(t)' = Place(t)
    BY <1>1, <2>1, <2>2 DEF Place
  <2>5. QED
    BY <1>1, <2>2, <2>3, <2>4 DEF Steady
<1>5. QED
  BY <1>1, <1>3, <1>4, SteadyStep

LEMMA EndInStep ==
  ASSUME Base, InStep, NEW t \in Threads, Exit(t) \/ Raise(t)
  PROVE  InStep'
<1>1. /\ pc' = [pc EXCEPT ![t] = "ended"]
      /\ UNCHANGED <<blocked, second, mpc, todo, made, calls, arrived, passed>>
  BY DEF Exit, Raise
<1>2. \A u \in Threads : (Held(u)' <=> Held(u)) /\ (\A n : Last(n)' = Last(n))
  BY <1>1 DEF Held, Last
<1>3. ASSUME NEW u \in Threads, u # t PROVE Same(u)
  BY <1>1, <1>2, <1>3 DEF Base, TypeOK, Same, Ended, Opened, Place
<1>4. Steady(t)
  BY <1>1 DEF Base, TypeOK, Steady, Ended
<1>5. QED
  BY <1>1, <1>3, <1>4, SteadyStep

LEMMA Parity ==
  ASSUME NEW a \in Int, NEW b \in Int, NEW x \in {0, 1}, 2 * a = 2 * b + x
  PROVE  a = b /\ x = 0
OBVIOUS

(* When all live threads wait for the same barrier, of the same call, the  *)
(* manager opens it for all of them.                                       *)
LEMMA CompareInStep ==
  ASSUME Base, InStep, Compare
  PROVE  InStep'
<1>1. /\ mpc = "poll"
      /\ UNCHANGED <<pc, blocked, second, made, calls, arrived, passed, live, waiting>>
      /\ \A u \in Threads : Held(u) <=> blocked[u]
      /\ \A n : Last(n)' = Last(n)
  BY DEF Compare, Held, Last
<1>2. CASE ~ AllBlocked
  <2>1. mpc' = "alive"
    BY <1>2 DEF Compare
  <2>2. \A u \in Threads : Held(u)' <=> Held(u)
    BY <1>1, <2>1 DEF Held
  <2>3. \A u \in Threads : Same(u)
    BY <1>1, <2>2 DEF Same, Ended, Opened, Place
  <2>4. QED
    BY <1>1, <2>3, SameStep DEF Aborting
<1>3. CASE AllBlocked
  <2>1. mpc' = "release" /\ todo' = waiting /\ waiting = live
    BY <1>3 DEF Compare, AllBlocked
  <2>2. ASSUME NEW u \in Threads, ~ Ended(u)
        PROVE  /\ Held(u) /\ ~ Held(u)' /\ pc[u] = "wait"
               /\ made[u] \in Nat /\ made[u] > 0 /\ (second[u] => Last(made[u]) = 1)
               /\ Opened(u)' = Opened(u) + 1 /\ Opened(u) \in Int
               /\ Place(u) = IF second[u] THEN 2 * made[u] ELSE 2 * (made[u] - 1) + Last(made[u] - 1)
               /\ Place(u)' = IF second[u] THEN 2 * made[u] + 1 ELSE 2 * made[u]
    <3>1. blocked[u] /\ Held(u) /\ ~ Held(u)'
      BY <1>1, <2>1, <2>2 DEF Base, Manager, Held
    <3>2. pc[u] = "wait"
      BY <3>1 DEF Base, Sane
    <3>3. made[u] \in Nat /\ made[u] > 0 /\ (second[u] => Last(made[u]) = 1)
      BY <3>2 DEF Base, Types, Sane, Last
    <3>4. arrived[u] \in Nat
      BY DEF Base, Types
    <3>5. QED
      BY <1>1, <3>1, <3>2, <3>3, <3>4 DEF Opened, Place
  <2>3. \A u \in Threads : Last(made[u] - 1) \in {0, 1}
    BY DEF Last
  <2>4. ASSUME NEW u \in Threads, ~ Ended(u), NEW w \in Threads, ~ Ended(w)
        PROVE  Place(u)' = Place(w)'
    <3>1. Place(u) = Place(w)
      BY <1>1, <2>4 DEF InStep, Aborting
    <3>2. CASE second[u] /\ second[w]
      BY <2>2, <2>4, <3>1, <3>2
    <3>3. CASE ~ second[u] /\ ~ second[w]
      BY <2>2, <2>3, <2>4, <3>1, <3>3
    <3>4. CASE second[u] /\ ~ second[w]
      <4>1. 2 * made[u] = 2 * (made[w] - 1) + Last(made[w] - 1)
        BY <2>2, <2>4, <3>1, <3>4
      <4>2. made[u] \in Int /\ made[w] - 1 \in Int
        BY <2>2, <2>4
      <4>3. made[u] = made[w] - 1 /\ Last(made[w] - 1) = 0
        BY <2>3, <4>1, <4>2, Parity
      <4>4. QED
        BY <2>2, <2>4, <3>4, <4>3
    <3>5. CASE ~ second[u] /\ second[w]
      <4>1. 2 * made[w] = 2 * (made[u] - 1) + Last(made[u] - 1)
        BY <2>2, <2>4, <3>1, <3>5
      <4>2. made[w] \in Int /\ made[u] - 1 \in Int
        BY <2>2, <2>4
      <4>3. made[w] = made[u] - 1 /\ Last(made[u] - 1) = 0
        BY <2>3, <4>1, <4>2, Parity
      <4>4. QED
        BY <2>2, <2>4, <3>5, <4>3
    <3>6. QED
      BY <3>2, <3>3, <3>4, <3>5
  <2>5. ASSUME NEW u \in Threads, ~ Ended(u), NEW w \in Threads
        PROVE  /\ passed'[w] <= Opened(u)'
               /\ ~ Ended(w) => Opened(w)' = Opened(u)'
    <3>1. passed[w] \in Nat /\ passed[w] <= Opened(u) /\ (~ Ended(w) => Opened(w) = Opened(u))
      BY <1>1, <2>5 DEF Base, Types, InStep, Aborting
    <3>2. QED
      BY <1>1, <2>2, <2>5, <3>1
  <2>6. \A u \in Threads : Ended(u)' <=> Ended(u)
    BY <1>1 DEF Ended
  <2>7. QED
    BY <2>4, <2>5, <2>6 DEF InStep
<1>4. QED
  BY <1>2, <1>3

LEMMA ReleaseInStep ==
  ASSUME Base, InStep, NEW t \in Threads, Release(t)
  PROVE  InStep'
<1>1. /\ mpc = "release" /\ mpc' = mpc /\ t \in todo /\ todo' = todo \ {t}
      /\ UNCHANGED <<pc, second, made, calls, arrived, passed>>
      /\ blocked' = [blocked EXCEPT ![t] = FALSE]
  BY DEF Release
<1>2. \A u \in Threads : Held(u)' <=> Held(u)
  BY <1>1 DEF Base, Types, Held
<1>3. \A u \in Threads : Same(u)
  BY <1>1, <1>2 DEF Same, Ended, Opened, Place, Last
<1>4. QED
  BY <1>1, <1>3, SameStep DEF Aborting

LEMMA ManageInStep ==
  ASSUME Base, InStep,
         \/ Released \/ NextRound \/ Aborted
         \/ \E t \in Threads : Poll(t) \/ Alive(t) \/ Abort(t)
  PROVE  InStep'
<1>1. /\ UNCHANGED <<pc, second, made, calls, arrived, passed>>
      /\ Aborting => Aborting'
      /\ ~ Aborting' => /\ UNCHANGED blocked
                        /\ mpc = "release" => todo = {}
                        /\ mpc' # "release"
  BY DEF Released, NextRound, Verdict, Aborted, Poll, Alive, Abort, Aborting
<1>2. CASE Aborting'
  BY <1>2 DEF InStep
<1>3. CASE ~ Aborting'
  <2>1. \A u \in Threads : Held(u)' <=> Held(u)
    BY <1>1, <1>3 DEF Held
  <2>2. \A u \in Threads : Same(u)
    BY <1>1, <2>1 DEF Same, Ended, Opened, Place, Last
  <2>3. QED
    BY <1>1, <1>3, <2>2, SameStep
<1>4. QED
  BY <1>2, <1>3

----------------------------------------------------------------------------
(* The votes add up.                                                       *)

AllLive == \A u \in Threads : ~ Ended(u)

Tallies ==
  \A n \in 1 .. MaxCalls : (\A u \in Threads : made[u] <= n) => tally[n] = Cardinality(Yes(n))

Counted(t) == (pc[t] = "run" \/ second[t]) /\ Last(made[t]) = 1 => count[t] = tally[made[t]]

LEMMA VotesDef == Votes <=> (AllLive => Tallies /\ \A t \in Threads : Counted(t))
BY DEF Votes, AllLive, Tallies, Counted

(* While no thread has ended the block is not aborted, and all threads are *)
(* in one place.                                                           *)
LEMMA LiveInStep ==
  ASSUME Base, InStep, AllLive
  PROVE  /\ ~ Aborting
         /\ \A t, u \in Threads : Place(t) = Place(u)
BY DEF Base, Failures, InStep, AllLive

LEMMA LastValue == \A n : Last(n) \in {0, 1}
BY DEF Last

(* A thread can begin a call only while no other has counted its votes.    *)
LEMMA CallVotes ==
  ASSUME Base, InStep, Votes, NEW t \in Threads, NEW kind \in {"sync", "vote"},
         NEW v \in BOOLEAN, Call(t, kind, v)
  PROVE  Votes'
<1> DEFINE k == made[t] + 1
<1>1. /\ pc[t] = "run" /\ ~ second[t] /\ Effect(t) /\ made' = [made EXCEPT ![t] = @ + 1]
      /\ state' = IF kind = "vote" THEN [state EXCEPT ![t] = v] ELSE state
      /\ tally' = IF v THEN [tally EXCEPT ![k] = @ + 1] ELSE tally
      /\ v => kind = "vote"
      /\ UNCHANGED <<second, mpc, todo, passed, count>>
  BY ArriveEffect DEF Call
<1>2. \A u \in Threads : made[u] \in Nat /\ made[u] <= Len(calls) /\ Len(calls) \in Nat
  BY DEF Base, Types
<1>3. /\ \A n \in 1 .. Len(calls) : calls'[n] = calls[n]
      /\ calls'[k] = kind /\ k \in 1 .. MaxCalls
  BY DEF Base, Types, Call
<1>4. \A u \in Threads : u # t => made'[u] = made[u] /\ state'[u] = state[u]
  BY <1>1 DEF Base, Types
<1>5. made'[t] = k /\ (kind = "vote" => state'[t] = v) /\ \A n \in 1 .. MaxCalls : n # k => tally'[n] = tally[n]
  BY <1>1, <1>2, <1>3 DEF Base, Types
<1> HIDE DEF k
<1> SUFFICES ASSUME AllLive' PROVE Tallies' /\ \A u \in Threads : Counted(u)'
  BY DEF Votes, AllLive, Tallies, Counted
<1>6. AllLive
  BY <1>1 DEF AllLive, Ended, Effect
<1>7. ASSUME NEW n \in 1 .. MaxCalls, \A u \in Threads : made'[u] <= n
      PROVE  tally'[n] = Cardinality(Yes(n)')
  <2>1. k <= n
    BY <1>5, <1>7
  <2>2. \A u \in Threads : made[u] <= n
    BY <1>2, <1>4, <1>7, <2>1 DEF k
  <2>3. tally[n] = Cardinality(Yes(n))
    BY <1>6, <2>2, VotesDef DEF Tallies
  <2>4. \A u \in Threads : u # t => (u \in Yes(n)' <=> u \in Yes(n))
    BY <1>2, <1>3, <1>4 DEF Yes
  <2>5. t \notin Yes(n)
    BY <1>2, <2>1 DEF Yes, k
  <2>6. t \in Yes(n)' <=> n = k /\ v
    BY <1>1, <1>3, <1>5 DEF Yes
  <2>7. Yes(n) \subseteq Threads /\ Yes(n)' \subseteq Threads
    BY DEF Yes
  <2>8. CASE n = k /\ v
    <3>1. Yes(n)' = Yes(n) \cup {t}
      BY <2>4, <2>6, <2>7, <2>8
    <3>2. Cardinality(Yes(n)') = Cardinality(Yes(n)) + 1
      BY <2>5, <2>7, <3>1, FS_Subset, FS_AddElement
    <3>3. tally'[n] = tally[n] + 1
      BY <1>1, <1>3, <2>8 DEF Base, Types
    <3>4. QED
      BY <2>3, <3>2, <3>3
  <2>9. CASE ~ (n = k /\ v)
    <3>1. Yes(n)' = Yes(n)
      BY <2>4, <2>5, <2>6, <2>7, <2>9
    <3>2. tally'[n] = tally[n]
      BY <1>1, <1>5, <2>9
    <3>3. QED
      BY <2>3, <3>1, <3>2
  <2>10. QED
    BY <2>8, <2>9
<1>8. ASSUME NEW u \in Threads, pc'[u] = "run" \/ second'[u], Last(made[u])' = 1
      PROVE  count'[u] = tally'[made'[u]]
  <2>1. u # t
    BY <1>1, <1>6, <1>8, LiveInStep DEF Base, Manager, Effect
  <2>2. (pc[u] = "run" \/ second[u]) /\ made'[u] = made[u] /\ made[u] \in 1 .. MaxCalls
    BY <1>1, <1>2, <1>3, <1>4, <1>8, <2>1 DEF Base, Types, Effect, Last
  <2>3. Last(made[u]) = 1
    BY <1>2, <1>3, <1>8, <2>2 DEF Last
  <2>4. count[u] = tally[made[u]]
    BY <1>6, <2>2, <2>3, VotesDef DEF Counted
  <2>5. made[u] # k
    <3>1. Place(u) = Place(t)
      BY <1>6, LiveInStep
    <3>2. Place(t) = 2 * made[t] + Last(made[t])
      BY <1>1 DEF Base, Sane, Held, Place
    <3>3. Place(u) >= 2 * made[u]
      BY <1>2, <2>2, <2>3 DEF Base, Sane, Held, Place
    <3>4. QED
      BY <1>2, <3>1, <3>2, <3>3, LastValue DEF k
  <2>6. QED
    BY <1>1, <1>5, <2>2, <2>4, <2>5
<1>9. QED
  BY <1>7, <1>8 DEF Tallies, Counted

(* The voters count when all have voted and none has begun another call.   *)
LEMMA CountsVotes ==
  ASSUME Base, InStep, Votes, NEW t \in Threads, Counts(t)
  PROVE  Votes'
<1>1. /\ pc[t] = "count" /\ Effect(t) /\ second' = [second EXCEPT ![t] = TRUE]
      /\ count' = [count EXCEPT ![t] = Cardinality({u \in Threads : state[u]})]
      /\ UNCHANGED <<state, calls, made, tally>>
  BY ArriveEffect DEF Counts, Again
<1> SUFFICES ASSUME AllLive' PROVE Tallies' /\ \A u \in Threads : Counted(u)'
  BY DEF Votes, AllLive, Tallies, Counted
<1>2. AllLive /\ ~ Ended(t)'
  BY <1>1 DEF AllLive, Ended, Effect
<1>3. Tallies /\ Tallies'
  BY <1>1, <1>2, VotesDef DEF Tallies, Yes
<1>4. /\ made[t] \in 1 .. MaxCalls /\ calls[made[t]] = "vote" /\ Last(made[t]) = 1
      /\ Place(t) = 2 * made[t]
  BY <1>1 DEF Base, Types, Sane, Last, Held, Place
<1>5. ASSUME NEW u \in Threads PROVE made[u] = made[t]
  <2>1. Place(u) = 2 * made[t] /\ ~ Ended(u)
    BY <1>2, <1>4, LiveInStep DEF AllLive
  <2>2. made[u] \in Nat /\ made[t] \in Nat
    BY DEF Base, Types
  <2>3. Last(made[u]) \in {0, 1} /\ Last(made[u] - 1) \in {0, 1}
    BY LastValue
  <2>4. CASE Held(u) /\ ~ second[u]
    <3>1. 2 * made[t] = 2 * (made[u] - 1) + Last(made[u] - 1)
      BY <2>1, <2>4 DEF Place
    <3>2. made[t] = made[u] - 1 /\ Last(made[u] - 1) = 0
      BY SMTT(30), <2>2, <2>3, <3>1, made[u] - 1 \in Int, Parity
    <3>3. QED
      BY <1>4, <3>2
  <2>5. CASE ~ Held(u) /\ pc[u] = "run"
    <3>1. 2 * made[t] = 2 * made[u] + Last(made[u])
      BY <2>1, <2>5 DEF Place
    <3>2. QED
      BY <2>2, <2>3, <3>1, Parity
  <2>6. CASE ~ Held(u) /\ pc[u] # "run" /\ second[u]
    <3>1. 2 * made[t] = 2 * made[u] + 1
      BY <2>1, <2>6 DEF Place
    <3>2. QED
      BY <2>2, <3>1, Parity
  <2>7. CASE (Held(u) /\ second[u]) \/ (~ Held(u) /\ pc[u] # "run" /\ ~ second[u])
    BY <2>1, <2>2, <2>7 DEF Place
  <2>8. QED
    BY <2>4, <2>5, <2>6, <2>7
<1>6. tally[made[t]] = Cardinality({u \in Threads : state[u]})
  <2>1. Yes(made[t]) = {u \in Threads : state[u]}
    BY <1>4, <1>5 DEF Yes
  <2>2. \A u \in Threads : made[u] <= made[t]
    BY <1>4, <1>5
  <2>3. QED
    BY <1>3, <1>4, <2>1, <2>2 DEF Tallies
<1>7. ASSUME NEW u \in Threads PROVE Counted(u)'
  <2>1. CASE u = t
    BY <1>1, <1>6, <2>1 DEF Counted, Base, TypeOK
  <2>2. CASE u # t
    <3>1. Counted(u)
      BY <1>2, VotesDef
    <3>2. pc'[u] = pc[u] /\ second'[u] = second[u] /\ count'[u] = count[u]
      BY <1>1, <2>2 DEF Effect, Base, Types, TypeOK
    <3>3. Last(made[u])' = Last(made[u])
      BY <1>1 DEF Last
    <3>4. QED
      BY <1>1, <3>1, <3>2, <3>3 DEF Counted
  <2>3. QED
    BY <2>1, <2>2
<1>8. QED
  BY <1>3, <1>7

LEMMA PassVotes ==
  ASSUME Base, InStep, Votes, NEW t \in Threads, Pass(t)
  PROVE  Votes'
<1>1. /\ pc[t] = "woken" /\ UNCHANGED <<state, count, calls, made, tally>>
      /\ \A u \in Threads : u # t => pc'[u] = pc[u] /\ second'[u] = second[u]
  BY DEF Base, TypeOK, Types, Pass
<1> SUFFICES ASSUME AllLive' PROVE Tallies' /\ \A u \in Threads : Counted(u)'
  BY DEF Votes, AllLive, Tallies, Counted
<1>2. AllLive
  BY <1>1 DEF AllLive, Ended
<1>3. Tallies'
  BY <1>1, <1>2, VotesDef DEF Tallies, Yes
<1>4. \A n : Last(n)' = Last(n)
  BY <1>1 DEF Last
<1>5. /\ second'[t] = FALSE /\ made[t] \in Nat
      /\ pc'[t] = "run" => second[t] \/ Last(made[t]) = 0
  <2>1. ~ abort[t]
    BY <1>2, LiveInStep DEF Base, Manager
  <2>2. QED
    BY <1>1, <2>1 DEF Base, TypeOK, Types, Sane, Pass, Last
<1>6. \A u \in Threads : Counted(u)
  BY <1>2, VotesDef
<1>7. ASSUME NEW u \in Threads PROVE Counted(u)'
  <2>1. CASE u = t
    BY <1>1, <1>4, <1>5, <1>6, <2>1 DEF Counted
  <2>2. CASE u # t
    BY <1>1, <1>4, <1>6, <2>2 DEF Counted
  <2>3. QED
    BY <2>1, <2>2
<1>8. QED
  BY <1>3, <1>7

(* What is left does not touch the votes, or ends a thread.                *)
LEMMA OtherVotes ==
  ASSUME Base, Votes,
         Manage \/ \E t \in Threads : Wake(t) \/ Exit(t) \/ Raise(t)
  PROVE  Votes'
<1>1. CASE \E t \in Threads : Exit(t) \/ Raise(t)
  <2>1. ~ AllLive'
    BY <1>1 DEF Base, TypeOK, AllLive, Ended, Exit, Raise
  <2>2. QED
    BY <2>1 DEF Votes, AllLive
<1>2. CASE Manage \/ \E t \in Threads : Wake(t)
  <2>1. /\ UNCHANGED <<state, second, count, calls, made, tally>>
        /\ \A u \in Threads : (pc'[u] = "run" <=> pc[u] = "run") /\ (Ended(u)' <=> Ended(u))
    BY <1>2 DEF Base, TypeOK, Manage, Wake, Compare, Released, NextRound, Aborted, Poll,
                Release, Alive, Abort, Ended
  <2>2. QED
    BY <2>1 DEF Votes, Yes, Last
<1>3. QED
  BY <1>1, <1>2

----------------------------------------------------------------------------
(* The invariant holds, and what follows from it.                          *)

LEMMA InitInv == ASSUME Init PROVE Inv
<1>1. Base
  BY DEF Init, Base, TypeOK, Types, Sane, Manager, Failures, Ended, Aborting
<1>2. InStep
  BY DEF Init, InStep, Opened, Place, Held, Last
<1>3. Votes
  <2>1. ASSUME NEW n \in 1 .. MaxCalls PROVE Cardinality(Yes(n)) = 0
    <3>1. Yes(n) = {}
      BY DEF Init, Yes
    <3>2. QED
      BY <3>1, FS_EmptySet
  <2>2. QED
    BY <2>1 DEF Init, Votes, Last
<1>4. QED
  BY <1>1, <1>2, <1>3 DEF Inv

LEMMA NextInv == ASSUME Inv, [Next]_vars PROVE Inv'
<1>1. CASE Next
  <2>1. Base /\ InStep /\ Votes
    BY DEF Inv
  <2>2. Base'
    BY <1>1, <2>1, CallBase, WakeBase, PassBase, CountsBase, ExitBase, RaiseBase, PollBase,
       CompareBase, ReleaseBase, ReleasedBase, AliveBase, NextRoundBase, AbortBase,
       AbortedBase DEF Next, Manage, Run, Thread
  <2>3. InStep'
    BY <1>1, <2>1, CallInStep, WakeInStep, PassInStep, CountsInStep, EndInStep,
       CompareInStep, ReleaseInStep, ManageInStep DEF Next, Manage, Run, Thread
  <2>4. Votes'
    BY <1>1, <2>1, CallVotes, CountsVotes, PassVotes, OtherVotes DEF Next, Run, Thread
  <2>5. QED
    BY <2>2, <2>3, <2>4 DEF Inv
<1>2. CASE UNCHANGED vars
  <2>1. Base'
    BY <1>2 DEF vars, Inv, Base, TypeOK, Types, Sane, Manager, Failures, Ended, Aborting
  <2>2. InStep'
    BY <1>2 DEF vars, Inv, InStep, Ended, Aborting, Opened, Place, Held, Last
  <2>3. Votes'
    BY <1>2 DEF vars, Inv, Votes, Ended, Last, Yes
  <2>4. QED
    BY <2>1, <2>2, <2>3 DEF Inv
<1>3. QED
  BY <1>1, <1>2

(* In every state the flags, the counters and the manager's lists agree,   *)
(* the live threads are in step and the votes add up.                      *)
THEOREM InvAlways == Spec => []Inv
<1>1. QED
  BY InitInv, NextInv, PTL DEF Spec

(* No thread of the block leaves a barrier that a live thread has yet to   *)
(* reach, whichever threads return early, and a vote returns the number of *)
(* the threads that voted true in this call: BlockManager.run() and the    *)
(* two barriers of syncthreads_count() separate what they should.          *)
THEOREM BarrierAlwaysSound == Spec => []BarrierSound
<1>1. Inv => BarrierHolds
  <2> SUFFICES ASSUME Inv, ~ Aborting, NEW t \in Threads, NEW u \in Threads, pc[u] # "ended"
               PROVE  passed[t] <= arrived[u]
    BY DEF BarrierHolds
  <2>1. passed[t] <= Opened(u)
    BY DEF Inv, InStep, Ended
  <2>2. passed[t] \in Nat /\ arrived[u] \in Nat
    BY DEF Inv, Base, Types
  <2>3. QED
    BY <2>1, <2>2 DEF Opened
<1>2. Inv => VoteExact
  BY DEF Inv, Votes, VoteExact, Last, Ended
<1>3. Inv => BarrierSound
  BY <1>1, <1>2 DEF Inv, Base, BarrierSound
<1>4. QED
  BY <1>3, InvAlways, PTL

(* A launch that is over failed if and only if the code of one of its      *)
(* threads raised: threads that were aborted because another one raised    *)
(* make no failure of their own, and no exception goes unnoticed.          *)
THEOREM FailureAlwaysReported == Spec => []FailureReported
<1>1. Inv => FailureReported
  BY DEF Inv, Base, TypeOK, Failures, FailureReported, Over, Aborting
<1>2. QED
  BY <1>1, InvAlways, PTL

============================================================================
