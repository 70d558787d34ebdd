--------------------------- MODULE WorkQueueProofs ---------------------------
(***************************************************************************)
(* Theorems about WorkQueue for any number of threads and callers and any  *)
(* region sizes, as long as no two callers are in the nesting test at once *)
(* and no process forks inside a region (the two things parallel_for() has *)
(* no protection against).                                                 *)
(***************************************************************************)
EXTENDS WorkQueue, TLAPS

USE WorkQueueAssumption

-----------------------------------------------------------------------------
(* The inductive invariant.  While the process runs, at most one caller is *)
(* past the nesting test, and where it is determines the state of every    *)
(* queue, what is in its slot, and which mask its worker has.              *)

AddPC  == {"add_sync", "add_chunk"}
SyncPC == {"add_sync", "ready_sync", "wait_sync", "swap"}
ChunkPC == {"add_chunk", "ready_chunk", "wait_chunk", "leave"}
RegionPC == SyncPC \cup ChunkPC
TestPC == {"check", "enter"}

InRegion(c) == pc[c] \in RegionPC

(* At most one caller is past the test, and none is in the test meanwhile. *)
Exclusion ==
  \A c, d \in Callers :
    /\ pc[c] \in TestPC /\ pc[d] \in TestPC => c = d
    /\ pc[c] \in RegionPC \cup {"enter"} /\ pc[d] \in RegionPC \cup {"enter"} => c = d

Level ==
  /\ \A c \in Callers : InRegion(c) => nesting_level = 1
  /\ (\A c \in Callers : ~ InRegion(c)) => nesting_level = 0

(* A worker is inside a task exactly while its queue is RUNNING.           *)
Workers ==
  \A q \in Q :
    /\ launched => pc[q] # "none"
    /\ state[q] = "RUNNING" <=> pc[q] \in {"run", "wait_running"}
    /\ pc[q] = "run" => tid[q] = task[q].tid

Quiet ==
  (\A c \in Callers : ~ InRegion(c)) =>
    /\ queue_count = NumThreads
    /\ queue_pivot = 0
    /\ \A q \in Q : state[q] = "IDLE"

(* What a caller found when it called.                                     *)
Opened(c) ==
  /\ pc[c] = "idle" => region[c] = NoRegion /\ runs[c] = NoRuns
  /\ pc[c] # "idle" =>
       /\ launched
       /\ region[c].mask \in Masks

(* The globals on the way through the region.                              *)
Globals(c) ==
  /\ pc[c] \in SyncPC => queue_count = NumThreads
  /\ pc[c] \in ChunkPC => /\ queue_count = region[c].mask
                          /\ region[c].old_queue_count = NumThreads
  /\ i[c] \in 0 .. queue_count
  /\ pc[c] \in {"swap", "leave"} => i[c] = 0
  /\ queue_pivot = IF pc[c] \in AddPC /\ i[c] < queue_count THEN i[c] ELSE 0

(* The queues the caller has released and not yet taken back.              *)
Released(c, q) ==
  \/ pc[c] \in {"ready_sync", "ready_chunk"} /\ q < i[c]
  \/ pc[c] \in {"wait_sync", "wait_chunk"} /\ i[c] <= q /\ q < queue_count

(* The queues whose slot holds a task of the caller's current round.       *)
Filled(c, q) ==
  \/ pc[c] \in AddPC /\ q < i[c]
  \/ pc[c] \in {"ready_sync", "wait_sync", "ready_chunk", "wait_chunk"}
     /\ q < queue_count

(* The share of the k-th thread.                                           *)
Share(r, k) ==
  IF k = r.mask - 1 THEN r.total - Count(r) * k ELSE Count(r)

Chunk(c, k) ==
  ChunkTask(c, Count(region[c]) * k, Share(region[c], k), k)

Slots(c) ==
  \A q \in Q :
    /\ state[q] # "IDLE" <=> Released(c, q)
    /\ Filled(c, q) =>
         task[q] = IF pc[c] \in SyncPC THEN SyncTask(region[c].mask, q)
                   ELSE Chunk(c, q)

(* What is left for the last thread.                                       *)
Remains(c) ==
  /\ pc[c] \in TestPC \cup SyncPC => region[c].remain = region[c].total
  /\ pc[c] = "add_chunk" =>
       region[c].remain =
         region[c].total - Count(region[c]) *
           (IF i[c] = region[c].mask THEN i[c] - 1 ELSE i[c])

(* The workers whose mask is the one of the region.                        *)
Masked(c) ==
  \A q \in Q :
    \/ pc[c] \in {"ready_sync", "wait_sync"}
       /\ (state[q] = "DONE" \/ pc[q] = "wait_running")
    \/ pc[c] = "wait_sync" /\ q < i[c]
    \/ pc[c] \in {"swap", "add_chunk"}
    \/ pc[c] = "ready_chunk" /\ q >= i[c]
    \/ pc[c] \in {"ready_chunk", "wait_chunk"} /\ state[q] = "READY"
    => num_threads[q] = region[c].mask

(* The threads that have run their chunk, and the items they were given.   *)
Ran(c, k) ==
  \/ pc[c] \in {"ready_chunk", "wait_chunk"}
     /\ (state[k] = "DONE" \/ pc[k] = "wait_running")
  \/ pc[c] = "wait_chunk" /\ k < i[c]
  \/ pc[c] = "leave"

Items(r, k) == Count(r) * k .. Count(r) * k + Share(r, k) - 1

Counted(c) ==
  /\ runs[c] \in [0 .. region[c].total - 1 -> {0, 1}]
  /\ \A k \in 0 .. region[c].mask - 1 : \A j \in Items(region[c], k) :
       runs[c][j] = 1 <=> Ran(c, k)

Running ==
  /\ \A t \in Threads : pc[t] \notin StoppedPC
  /\ Exclusion
  /\ Level
  /\ Workers
  /\ Quiet
  /\ \A c \in Callers :
       /\ Opened(c)
       /\ Remains(c)
       /\ pc[c] # "idle" => Counted(c)
       /\ InRegion(c) => Globals(c) /\ Slots(c) /\ Masked(c)

Gone == \A t \in Threads : pc[t] \in StoppedPC

Inv == TypeOK /\ (Running \/ Gone)

-----------------------------------------------------------------------------
(* The shares of the threads cover the items without overlap.              *)

(* A region's share per thread is what the integer division gives.         *)
LEMMA CountBounds ==
  ASSUME NEW n \in Nat, NEW m \in Nat \ {0}
  PROVE  /\ n \div m \in Nat
         /\ (n \div m) * m <= n
         /\ n \div m = 0 \/ n \div m > 0
  OBVIOUS

(* A longer run of equal shares is at least as long.                       *)
LEMMA Monotone ==
  ASSUME NEW s \in Nat, NEW a \in Nat, NEW b \in Nat, a <= b
  PROVE  /\ s * a \in Nat /\ s * b \in Nat
         /\ s * a <= s * b
         /\ s * (a + 1) = s * a + s
<1>1. PICK d \in Nat : b = a + d
  BY b - a \in Nat, b = a + (b - a)
<1>2. s * b = s * a + s * d /\ s * d \in Nat
  BY <1>1
<1>3. QED
  BY <1>2

(* Every thread's share is a part of the items.                            *)
LEMMA ShareBounds ==
  ASSUME NEW r, r.total \in Nat, r.mask \in Nat \ {0},
         NEW k \in 0 .. r.mask - 1
  PROVE  /\ Count(r) \in Nat
         /\ Count(r) * k \in Nat
         /\ Share(r, k) \in Nat
         /\ Count(r) * k + Share(r, k) <= r.total
<1> DEFINE s == Count(r)  l == r.mask - 1
<1>1. s \in Nat /\ s * r.mask <= r.total
  BY CountBounds DEF Count
<1>2. k \in Nat /\ l \in Nat /\ k <= l /\ r.mask = l + 1
  OBVIOUS
<1> HIDE DEF s, l
<1>3. /\ s * k \in Nat /\ s * l \in Nat
      /\ s * k <= s * l
      /\ s * (k + 1) = s * k + s
      /\ s * (l + 1) = s * l + s
  BY <1>1, <1>2, Monotone
<1>4. CASE k = l
  <2>1. Share(r, k) = r.total - s * k
    BY <1>4 DEF Share, s, l
  <2>2. QED
    BY <1>1, <1>2, <1>3, <1>4, <2>1 DEF s
<1>5. CASE k # l
  <2>1. Share(r, k) = s
    BY <1>5 DEF Share, s, l
  <2>2. QED
    BY <1>1, <1>2, <1>3, <2>1 DEF s
<1>6. QED
  BY <1>4, <1>5

(* No item is in the shares of two threads.                                *)
LEMMA SharesDisjoint ==
  ASSUME NEW r, r.total \in Nat, r.mask \in Nat \ {0},
         NEW k \in 0 .. r.mask - 1, NEW l \in 0 .. r.mask - 1,
         NEW j \in Items(r, k), j \in Items(r, l)
  PROVE  k = l
<1> DEFINE s == Count(r)
<1>1. \A a, b \in 0 .. r.mask - 1 : a < b => s * a + Share(r, a) <= s * b
  <2> SUFFICES ASSUME NEW a \in 0 .. r.mask - 1, NEW b \in 0 .. r.mask - 1, a < b
               PROVE  s * a + Share(r, a) <= s * b
    OBVIOUS
  <2>1. Share(r, a) = s
    BY DEF Share
  <2>2. s \in Nat
    BY ShareBounds
  <2> HIDE DEF s
  <2>3. a \in Nat /\ b \in Nat /\ a + 1 \in Nat /\ a + 1 <= b
    OBVIOUS
  <2>4. s * (a + 1) <= s * b
    BY <2>2, <2>3, Monotone
  <2>5. s * (a + 1) = s * a + s
    BY <2>2, <2>3, Monotone
  <2>6. QED
    BY <2>1, <2>4, <2>5
<1>2. /\ s * k \in Nat /\ s * l \in Nat /\ Share(r, k) \in Nat /\ Share(r, l) \in Nat
  BY ShareBounds
<1>3. /\ j \in Int
      /\ s * k <= j /\ j < s * k + Share(r, k)
      /\ s * l <= j /\ j < s * l + Share(r, l)
  BY <1>2 DEF Items
<1> HIDE DEF s
<1>4. ~ k < l /\ ~ l < k
  BY <1>1, <1>2, <1>3
<1>5. QED
  BY <1>4

(* Every item is in the share of a thread.                                 *)
LEMMA SharesCover ==
  ASSUME NEW r, r.total \in Nat, r.mask \in Nat \ {0},
         NEW j \in 0 .. r.total - 1
  PROVE  \E k \in 0 .. r.mask - 1 : j \in Items(r, k)
<1> DEFINE s == Count(r)  l == r.mask - 1
<1>1. l \in 0 .. r.mask - 1 /\ s \in Nat /\ s * l \in Nat
  BY ShareBounds
<1>2. CASE s * l <= j
  <2>1. Share(r, l) = r.total - s * l
    BY DEF Share
  <2>2. j \in Items(r, l)
    BY <1>1, <1>2, <2>1 DEF Items
  <2>3. QED
    BY <1>1, <2>2
<1>3. CASE ~ s * l <= j
  <2> HIDE DEF s, l
  <2>1. s \in Nat \ {0}
    BY <1>1, <1>3
  <2> DEFINE k == j \div s
  <2>2. k \in Nat /\ s * k <= j /\ j < s * k + s
    BY <2>1
  <2> HIDE DEF k
  <2>3. k < l
    <3>1. SUFFICES ASSUME l <= k PROVE FALSE
      BY <1>1, <2>2
    <3>2. s * l <= s * k
      BY <1>1, <2>2, <3>1, Monotone
    <3>3. s * k \in Int
      BY <2>1, <2>2
    <3>4. QED
      BY <1>1, <1>3, <2>2, <3>2, <3>3
  <2>4. Share(r, k) = s
    BY <2>2, <2>3 DEF Share, s, l
  <2>5. s * k \in Int
    BY <2>1, <2>2
  <2>6. j \in Items(r, k)
    BY <2>1, <2>2, <2>4, <2>5 DEF Items, s
  <2>7. k \in 0 .. r.mask - 1
    BY <2>2, <2>3 DEF l
  <2>8. QED
    BY <2>6, <2>7
<1>4. QED
  BY <1>2, <1>3

-----------------------------------------------------------------------------
(* Every step keeps the invariant.                                         *)

(* What the invariant says of the other callers of a region.               *)
LEMMA Alone ==
  ASSUME TypeOK, Running, NEW c \in Callers, pc[c] \in RegionPC \cup {"enter"},
         NEW d \in Callers, d # c
  PROVE  pc[d] \in {"idle", "check"}
<1>1. pc[d] \in CallerPC
  BY DEF TypeOK, Running, Threads
<1>2. pc[d] \notin RegionPC \cup {"enter"}
  BY DEF Running, Exclusion
<1>3. QED
  BY <1>1, <1>2 DEF CallerPC, RegionPC, SyncPC, ChunkPC

(* A queue that is not IDLE was released by the caller of a region.        *)
LEMMA ReleasedBySome ==
  ASSUME TypeOK, Running, NEW q \in Q, state[q] # "IDLE"
  PROVE  \E c \in Callers : InRegion(c) /\ Released(c, q)
  BY DEF Running, Quiet, Slots

(* The process is gone at once, whatever it was doing.                     *)
LEMMA StopStep ==
  ASSUME TypeOK, NEW why \in StoppedPC, Stop(why),
         UNCHANGED <<globals, queues, tls, i, region, runs>>
  PROVE  Inv'
<1>1. pc' \in [Threads -> StoppedPC] /\ \A t \in Threads : pc'[t] \in StoppedPC
  BY DEF Stop
<1>2. TypeOK'
  BY <1>1 DEF TypeOK, globals, queues, tls, Threads, StoppedPC, WorkerPC, CallerPC
<1>3. QED
  BY <1>1, <1>2 DEF Inv, Gone

LEMMA SleepStep ==
  ASSUME TypeOK, Running, NEW t \in Threads, Sleep(t)
  PROVE  TypeOK' /\ Running'
<1>1. /\ \E q \in Q : waiters' = [waiters EXCEPT ![q] = @ \cup {t}]
      /\ UNCHANGED <<launched, queue_count, queue_pivot, nesting_level,
                     state, task, pc, num_threads, tid, i, region, runs>>
  BY DEF Sleep, globals, tls
<1>2. TypeOK'
  BY <1>1 DEF TypeOK
<1>3. Running'
  BY <1>1 DEF Running, Exclusion, Level, Workers, Quiet, Opened, Remains,
       Counted, Globals, Slots, Masked, InRegion, Released, Filled, Ran, Chunk
<1>4. QED
  BY <1>2, <1>3

LEMMA CheckPassesStep ==
  ASSUME TypeOK, Running, NEW c \in Callers, CheckPasses(c)
  PROVE  TypeOK' /\ Running'
<1> USE DEF CheckPasses, Goto, globals, queues, tls, Threads
<1>1. TypeOK'
  BY DEF TypeOK, CallerPC, WorkerPC
<1>2. \A d \in Callers : ~ InRegion(d)
  BY DEF Running, Level
<1>3. /\ pc' = [pc EXCEPT ![c] = "enter"] /\ pc[c] = "check"
      /\ \A d \in Callers : ~ InRegion(d)'
  BY <1>2 DEF TypeOK, InRegion, RegionPC, SyncPC, ChunkPC
<1>4. Exclusion'
  BY <1>2, <1>3 DEF Running, Exclusion, InRegion, TestPC, TypeOK
<1>5. Level' /\ Workers' /\ Quiet'
  BY <1>2, <1>3 DEF Running, Level, Workers, Quiet, TypeOK
<1>6. ASSUME NEW d \in Callers
      PROVE  Opened(d)' /\ Remains(d)' /\ (pc'[d] # "idle" => Counted(d)')
  BY SMTT(30), <1>2, <1>3, <1>6 DEF Running, Opened, Remains, Counted, TypeOK, Ran, TestPC, RegionPC, SyncPC, ChunkPC, InRegion
<1>7. \A t \in Threads : pc'[t] \notin StoppedPC
  BY <1>3 DEF Running, StoppedPC, TypeOK
<1>8. QED
  BY <1>1, <1>3, <1>4, <1>5, <1>6, <1>7 DEF Running

(* A step of the caller of a region changes nothing the other callers'     *)
(* parts of the invariant are about.                                       *)
LEMMA CallerMoves ==
  ASSUME TypeOK, Running, NEW c \in Callers, InRegion(c), InRegion(c)',
         \A t \in Threads : t # c => pc'[t] = pc[t],
         UNCHANGED <<launched, nesting_level>>,
         \A d \in Callers : d # c => region'[d] = region[d] /\ runs'[d] = runs[d],
         Workers', Opened(c)', Remains(c)', Counted(c)',
         Globals(c)', Slots(c)', Masked(c)'
  PROVE  Running'
<1>1. ASSUME NEW d \in Callers, d # c
      PROVE  /\ pc[d] \in {"idle", "check"} /\ pc'[d] = pc[d]
             /\ Opened(d)' /\ Remains(d)' /\ ~ InRegion(d)'
             /\ pc'[d] # "idle" => Counted(d)'
  <2>1. pc[d] \in {"idle", "check"} /\ pc'[d] = pc[d]
    BY <1>1, Alone DEF InRegion, Threads
  <2>2. Opened(d)' /\ Remains(d)' /\ ~ InRegion(d)'
    BY <1>1, <2>1 DEF Running, Opened, Remains, InRegion, TestPC, RegionPC,
         SyncPC, ChunkPC
  <2>3. pc'[d] # "idle" => Counted(d)'
    BY <1>1, <2>1 DEF Running, Counted, Ran
  <2>4. QED
    BY <2>1, <2>2, <2>3
<1>2. Exclusion'
  BY <1>1 DEF Running, Exclusion, InRegion, TestPC, RegionPC, SyncPC, ChunkPC
<1>3. Level' /\ Quiet'
  BY <1>1 DEF Running, Level, Quiet
<1>4. \A t \in Threads : pc'[t] \notin StoppedPC
  BY DEF Running, InRegion, StoppedPC, RegionPC, SyncPC, ChunkPC
<1>5. QED
  BY <1>1, <1>2, <1>3, <1>4 DEF Running

(* What the type invariant says of a caller inside a region.               *)
LEMMA RegionTypes ==
  ASSUME TypeOK, Running, NEW c \in Callers, InRegion(c)
  PROVE  /\ region[c].total \in Nat /\ region[c].mask \in Masks
         /\ region[c].mask \in Nat \ {0} /\ region[c].mask <= NumThreads
         /\ region[c].remain \in Int
         /\ i[c] \in Nat /\ i[c] <= queue_count
         /\ queue_count \in Masks /\ queue_count <= NumThreads
         /\ c \notin Q
         /\ pc[c] \in RegionPC /\ pc[c] # "idle"
  BY DEF TypeOK, Running, Globals, Opened, InRegion, RegionPC, SyncPC, ChunkPC, Masks

LEMMA EnterStep ==
  ASSUME TypeOK, Running, NEW c \in Callers, Enter(c)
  PROVE  TypeOK' /\ Running'
<1> USE DEF Enter, Goto, queues, tls, Threads
<1>1. ASSUME NEW d \in Callers, d # c
      PROVE  pc[d] \in {"idle", "check"} /\ pc'[d] = pc[d] /\ i'[d] = i[d]
  BY <1>1, Alone DEF TypeOK
<1>2. pc[c] = "enter" /\ pc'[c] = "add_sync" /\ i'[c] = 0
  BY DEF TypeOK
<1>3. \A d \in Callers : ~ InRegion(d)
  BY <1>1, <1>2 DEF InRegion, RegionPC, SyncPC, ChunkPC
<1>4. nesting_level = 0 /\ nesting_level' = 1
  BY <1>3 DEF Running, Level
<1>5. TypeOK'
  BY <1>4 DEF TypeOK, CallerPC, WorkerPC
<1>6. Exclusion' /\ Level' /\ Quiet'
  BY <1>1, <1>2, <1>4 DEF Running, Exclusion, Level, Quiet, InRegion, TestPC,
       RegionPC, SyncPC, ChunkPC
<1>7. Workers'
  BY DEF Running, Workers, TypeOK
<1>8. ASSUME NEW d \in Callers
      PROVE  Opened(d)' /\ Remains(d)' /\ (pc'[d] # "idle" => Counted(d)')
  <2>1. Opened(d)' /\ Remains(d)'
    BY <1>1, <1>2 DEF Running, Opened, Remains, TestPC, SyncPC
  <2>2. pc'[d] # "idle" => Counted(d)'
    BY <1>1, <1>2 DEF Running, Counted, Ran
  <2>3. QED
    BY <2>1, <2>2
<1>9. Globals(c)' /\ Slots(c)' /\ Masked(c)'
  BY SMTT(30), <1>2, <1>3 DEF Running, Quiet, Globals, Slots, Masked, Released, Filled,
       SyncPC, ChunkPC, AddPC, TypeOK, Masks, Q
<1>10. \A t \in Threads : pc'[t] \notin StoppedPC
  BY DEF Running, StoppedPC, TypeOK
<1>11. QED
  BY <1>1, <1>2, <1>5, <1>6, <1>7, <1>8, <1>9, <1>10
     DEF Running, InRegion, RegionPC, SyncPC, ChunkPC

LEMMA SwapStep ==
  ASSUME TypeOK, Running, NEW c \in Callers, Swap(c)
  PROVE  TypeOK' /\ Running'
<1> USE DEF Swap, Goto, queues, tls
<1>1. InRegion(c) /\ pc[c] = "swap" /\ c \in Threads
  BY DEF InRegion, RegionPC, SyncPC, Threads
<1>2. /\ pc' = [pc EXCEPT ![c] = "add_chunk"]
      /\ pc'[c] = "add_chunk" /\ InRegion(c)'
      /\ \A t \in Threads : t # c => pc'[t] = pc[t]
  BY <1>1 DEF TypeOK, InRegion, RegionPC, ChunkPC
<1>3. /\ queue_count = NumThreads /\ i[c] = 0 /\ queue_pivot = 0
      /\ region[c].mask \in Masks
      /\ \A q \in Q : state[q] = "IDLE" /\ num_threads[q] = region[c].mask
  BY <1>1 DEF Running, Globals, Slots, Masked, Released, SyncPC, AddPC, Opened
<1>4. /\ region' \in [Callers -> [total : Nat, mask : Nat, remain : Int,
                                  old_queue_count : Nat]]
      /\ region'[c] = [region[c] EXCEPT !.old_queue_count = NumThreads]
      /\ region'[c].total = region[c].total /\ region'[c].mask = region[c].mask
      /\ region'[c].remain = region[c].remain
      /\ region'[c].old_queue_count = NumThreads
      /\ \A d \in Callers : d # c => region'[d] = region[d]
  BY SMTT(30), <1>3 DEF TypeOK
<1>5. TypeOK'
  BY <1>2, <1>3, <1>4 DEF TypeOK, CallerPC, WorkerPC
<1>6. Workers'
  BY <1>1, <1>2 DEF Running, Workers, Q, Threads, TypeOK
<1>7. Count(region[c])' = Count(region[c]) /\ Count(region[c]) \in Nat
  BY <1>4, RegionTypes, <1>1, CountBounds DEF Count
<1>8. Opened(c)' /\ Remains(c)'
  BY <1>1, <1>2, <1>3, <1>4, <1>7, RegionTypes
     DEF Running, Opened, Remains, TestPC, SyncPC, Masks
<1>9. Counted(c)'
  <2>1. \A k \in 0 .. region[c].mask - 1 :
          /\ Items(region[c], k)' = Items(region[c], k)
          /\ ~ Ran(c, k) /\ ~ Ran(c, k)'
    BY <1>1, <1>2, <1>4, <1>7 DEF Items, Share, Ran
  <2>2. QED
    BY <1>1, <1>4, <2>1 DEF Running, Counted
<1>10. Globals(c)'
  BY <1>1, <1>2, <1>3, <1>4 DEF Globals, SyncPC, ChunkPC, AddPC, Masks
<1>11. Slots(c)' /\ Masked(c)'
  BY <1>1, <1>2, <1>3, <1>4 DEF Slots, Masked, Released, Filled, AddPC, SyncPC, Q
<1>12. QED
  BY <1>1, <1>2, <1>4, <1>5, <1>6, <1>8, <1>9, <1>10, <1>11, CallerMoves

(* add_task_internal() fills the slot of the loop variable, and the pivot  *)
(* follows it.                                                             *)
LEMMA AddTaskFills ==
  ASSUME TypeOK, Running, NEW c \in Callers, pc[c] \in AddPC,
         i[c] < queue_count, NEW tk \in Tasks, AddTask(tk),
         i' = [i EXCEPT ![c] = @ + 1], UNCHANGED <<launched, queue_count>>
  PROVE  /\ task' = [task EXCEPT ![i[c]] = tk] /\ i[c] \in Q
         /\ task' \in [Q -> Tasks]
         /\ i'[c] = i[c] + 1 /\ i' \in [Callers -> Nat]
         /\ queue_pivot' \in Nat
         /\ queue_pivot' = IF i'[c] < queue_count THEN i'[c] ELSE 0
         /\ pc' = pc
         /\ state[i[c]] = "IDLE"
<1>1. InRegion(c)
  BY DEF InRegion, RegionPC, SyncPC, ChunkPC, AddPC
<1>2. queue_pivot = i[c] /\ i[c] \in Q /\ queue_count \in Nat
  BY <1>1, RegionTypes DEF Running, Globals, Q, Masks
<1>3. state[i[c]] = "IDLE"
  BY <1>1, <1>2 DEF Running, Slots, Released, AddPC
<1>4. /\ task' = [task EXCEPT ![i[c]] = tk]
      /\ queue_pivot' = IF i[c] + 1 = queue_count THEN 0 ELSE i[c] + 1
      /\ pc' = pc
  BY <1>2 DEF AddTask
<1>5. task' \in [Q -> Tasks]
  BY <1>4 DEF TypeOK
<1>6. i'[c] = i[c] + 1 /\ i' \in [Callers -> Nat] /\ i[c] \in Nat
  BY DEF TypeOK
<1>7. QED
  BY <1>2, <1>3, <1>4, <1>5, <1>6

LEMMA AddSyncStep ==
  ASSUME TypeOK, Running, NEW c \in Callers, AddSync(c)
  PROVE  TypeOK' /\ Running'
<1> USE DEF queues, tls
<1>1. /\ InRegion(c) /\ pc[c] = "add_sync" /\ c \in Threads
      /\ UNCHANGED <<launched, queue_count, nesting_level, state, waiters,
                     num_threads, tid, region, runs>>
  BY DEF AddSync, InRegion, RegionPC, SyncPC, Threads
<1>2. /\ queue_count = NumThreads /\ i[c] \in 0 .. NumThreads
      /\ queue_pivot = IF i[c] < NumThreads THEN i[c] ELSE 0
  BY <1>1 DEF Running, Globals, SyncPC, AddPC
<1>3. CASE i[c] < NumThreads
  <2> DEFINE tk == SyncTask(region[c].mask, i[c])
  <2>1. tk \in Tasks
    BY <1>1, <1>2, <1>3, RegionTypes DEF SyncTask, Tasks, Q, Masks
  <2>2. AddTask(tk) /\ i' = [i EXCEPT ![c] = @ + 1]
    BY <1>2, <1>3 DEF AddSync
  <2> HIDE DEF tk
  <2>3. /\ task' = [task EXCEPT ![i[c]] = tk] /\ i[c] \in Q
        /\ task' \in [Q -> Tasks]
        /\ i'[c] = i[c] + 1 /\ i' \in [Callers -> Nat]
        /\ queue_pivot' \in Nat
        /\ queue_pivot' = IF i'[c] < queue_count THEN i'[c] ELSE 0
        /\ pc' = pc
        /\ state[i[c]] = "IDLE"
    BY <1>1, <1>2, <1>3, <2>1, <2>2, AddTaskFills DEF AddPC
  <2>4. TypeOK'
    BY <1>1, <2>3 DEF TypeOK
  <2>5. Workers'
    BY <1>1, <2>3 DEF Running, Workers, TypeOK
  <2>6. Opened(c)' /\ Remains(c)' /\ Counted(c)'
    BY <1>1, <2>3 DEF Running, Opened, Remains, Counted, Ran
  <2>7. Globals(c)'
    BY <1>1, <1>2, <1>3, <2>3 DEF Globals, SyncPC, ChunkPC, AddPC
  <2>8. Slots(c)' /\ Masked(c)'
    <3>1. ASSUME NEW q \in Q
          PROVE  /\ state[q] = "IDLE"
                 /\ q < i[c] => task[q] = SyncTask(region[c].mask, q)
                 /\ task'[q] = IF q = i[c] THEN tk ELSE task[q]
                 /\ q < i'[c] => q < i[c] \/ q = i[c]
      <4>1. /\ state[q] = "IDLE"
            /\ q < i[c] => task[q] = SyncTask(region[c].mask, q)
        BY <1>1, <3>1 DEF Running, Slots, Released, Filled, AddPC, SyncPC
      <4>2. task'[q] = IF q = i[c] THEN tk ELSE task[q]
        BY <2>3, <3>1 DEF TypeOK
      <4>3. q < i'[c] => q < i[c] \/ q = i[c]
        BY <2>3, <3>1 DEF Q
      <4>4. QED
        BY <4>1, <4>2, <4>3
    <3>2. Slots(c)'
      BY <1>1, <2>3, <3>1 DEF Slots, Released, Filled, tk, AddPC, SyncPC
    <3>3. Masked(c)'
      BY <1>1, <2>3 DEF Masked
    <3>4. QED
      BY <3>2, <3>3
  <2>9. QED
    BY <1>1, <2>3, <2>4, <2>5, <2>6, <2>7, <2>8, CallerMoves DEF InRegion
<1>4. CASE i[c] >= NumThreads
  <2>1. /\ i[c] = NumThreads /\ queue_pivot = 0
        /\ i' = [i EXCEPT ![c] = 0]
        /\ pc' = [pc EXCEPT ![c] = "ready_sync"]
        /\ UNCHANGED <<task, queue_pivot>>
    BY <1>2, <1>4 DEF AddSync, Goto
  <2>2. pc'[c] = "ready_sync" /\ \A t \in Threads : t # c => pc'[t] = pc[t]
    BY <1>1, <2>1 DEF TypeOK
  <2>3. i'[c] = 0
    BY <2>1 DEF TypeOK
  <2>4. TypeOK'
    BY <1>1, <2>1, <2>2 DEF TypeOK, CallerPC, WorkerPC, Threads
  <2>5. Workers'
    BY <1>1, <2>1, <2>2 DEF Running, Workers, Threads
  <2>6. Opened(c)' /\ Remains(c)' /\ Counted(c)'
    <3>1. \A q \in Q : state[q] # "DONE" /\ pc[q] # "wait_running"
      BY <1>1 DEF Running, Slots, Workers, Released
    <3>2. Opened(c)' /\ Remains(c)'
      BY <1>1, <2>2 DEF Running, Opened, Remains, TestPC, SyncPC
    <3>3. Counted(c)'
      BY <1>1, <2>2 DEF Running, Counted, Ran
    <3>4. QED
      BY <3>2, <3>3
  <2>7. Globals(c)'
    BY <1>1, <1>2, <2>1, <2>2, <2>3 DEF Globals, SyncPC, ChunkPC, AddPC
  <2>8. Slots(c)' /\ Masked(c)'
    <3>1. \A q \in Q : state[q] = "IDLE" /\ pc[q] # "wait_running" /\ pc'[q] = pc[q]
                       /\ task[q] = SyncTask(region[c].mask, q)
      BY <1>1, <2>1, <2>2, RegionTypes DEF Running, Slots, Workers, Released, Filled, AddPC,
           SyncPC, Q, Threads
    <3>2. QED
      BY <1>1, <2>1, <2>2, <2>3, <3>1 DEF Slots, Masked, Released, Filled, AddPC,
           SyncPC, Q
  <2>9. QED
    BY <1>1, <2>2, <2>4, <2>5, <2>6, <2>7, <2>8, CallerMoves
       DEF InRegion, RegionPC, SyncPC
<1>5. QED
  BY <1>2, <1>3, <1>4

(* A chunk of the region is a task.                                        *)
LEMMA ChunkTyped ==
  ASSUME TypeOK, Running, NEW c \in Callers, pc[c] = "add_chunk",
         i[c] < region[c].mask
  PROVE  /\ ChunkTask(c, Count(region[c]) * i[c], ChunkSize(region[c], i[c]), i[c])
              = Chunk(c, i[c])
         /\ Chunk(c, i[c]) \in Tasks
<1>1. InRegion(c)
  BY DEF InRegion, RegionPC, ChunkPC
<1>2. /\ i[c] \in 0 .. region[c].mask - 1 /\ i[c] \in Q
      /\ region[c].total \in Nat /\ region[c].mask \in Nat \ {0}
  BY <1>1, RegionTypes DEF Q
<1>3. ChunkSize(region[c], i[c]) = Share(region[c], i[c])
  BY <1>1, <1>2 DEF ChunkSize, Share, Running, Remains
<1>4. Count(region[c]) * i[c] \in Nat /\ Share(region[c], i[c]) \in Nat
  BY <1>2, ShareBounds
<1>5. QED
  BY <1>2, <1>3, <1>4 DEF Chunk, ChunkTask, Tasks, ChunkTasks

(* Taking the share of a thread leaves the rest for the later ones.        *)
LEMMA AddChunkRemains ==
  ASSUME TypeOK, Running, NEW c \in Callers, pc[c] = "add_chunk",
         i[c] < region[c].mask, i' = [i EXCEPT ![c] = @ + 1], pc' = pc,
         region' = [region EXCEPT ![c].remain =
                      IF i[c] = region[c].mask - 1 THEN @ ELSE @ - Count(region[c])]
  PROVE  /\ region' \in [Callers -> [total : Nat, mask : Nat, remain : Int,
                                     old_queue_count : Nat]]
         /\ region'[c].total = region[c].total /\ region'[c].mask = region[c].mask
         /\ region'[c].old_queue_count = region[c].old_queue_count
         /\ \A d \in Callers : d # c => region'[d] = region[d]
         /\ Remains(c)'
<1>1. InRegion(c)
  BY DEF InRegion, RegionPC, ChunkPC
<1>2. /\ i[c] \in Nat /\ region[c].total \in Nat /\ region[c].mask \in Nat \ {0}
      /\ Count(region[c]) \in Nat /\ i'[c] = i[c] + 1
  BY <1>1, RegionTypes, CountBounds DEF Count, TypeOK
<1> DEFINE s == Count(region[c])
           left == IF i[c] = region[c].mask - 1 THEN region[c].remain
                   ELSE region[c].remain - s
<1>3. left \in Int
  BY <1>1, <1>2, RegionTypes
<1>4. region' = [region EXCEPT ![c] = [region[c] EXCEPT !.remain = left]]
  OBVIOUS
<1> HIDE DEF left
<1>5. /\ region' \in [Callers -> [total : Nat, mask : Nat, remain : Int,
                                  old_queue_count : Nat]]
      /\ region'[c].total = region[c].total /\ region'[c].mask = region[c].mask
      /\ region'[c].old_queue_count = region[c].old_queue_count
      /\ region'[c].remain = left
      /\ \A d \in Callers : d # c => region'[d] = region[d]
  BY <1>3, <1>4 DEF TypeOK
<1>6. Count(region[c])' = s
  BY <1>5 DEF Count
<1>7. region[c].remain = region[c].total - s * i[c]
  BY <1>2 DEF Running, Remains
<1>8. left = region[c].total - s * (IF i'[c] = region[c].mask THEN i'[c] - 1 ELSE i'[c])
  <2> HIDE DEF s
  <2>1. s \in Nat
    BY <1>2 DEF s
  <2>2. s * (i[c] + 1) = s * i[c] + s /\ s * i[c] \in Nat
    BY <1>2, <2>1, Monotone
  <2>3. CASE i[c] = region[c].mask - 1
    <3>1. i'[c] = region[c].mask /\ i'[c] - 1 = i[c]
      BY <1>2, <2>3
    <3>2. QED
      BY <1>7, <2>3, <3>1 DEF left
  <2>4. CASE i[c] # region[c].mask - 1
    <3>1. i'[c] # region[c].mask
      BY <1>2, <2>4
    <3>2. QED
      BY <1>2, <1>7, <2>1, <2>2, <2>4, <3>1 DEF left
  <2>5. QED
    BY <2>3, <2>4
<1>9. Remains(c)'
  BY <1>5, <1>6, <1>8 DEF Remains, TestPC, SyncPC
<1>10. QED
  BY <1>5, <1>9

LEMMA AddChunkStep ==
  ASSUME TypeOK, Running, NEW c \in Callers, AddChunk(c)
  PROVE  TypeOK' /\ Running'
<1> USE DEF queues, tls
<1>1. /\ InRegion(c) /\ pc[c] = "add_chunk" /\ c \in Threads
      /\ UNCHANGED <<launched, queue_count, nesting_level, state, waiters,
                     num_threads, tid, runs>>
  BY DEF AddChunk, InRegion, RegionPC, ChunkPC, Threads
<1>2. /\ queue_count = region[c].mask /\ region[c].old_queue_count = NumThreads
      /\ i[c] \in 0 .. region[c].mask
      /\ queue_pivot = IF i[c] < region[c].mask THEN i[c] ELSE 0
  BY <1>1 DEF Running, Globals, ChunkPC, AddPC
<1>3. \A q \in Q : state[q] = "IDLE" /\ num_threads[q] = region[c].mask
  BY <1>1 DEF Running, Slots, Masked, Released
<1>4. CASE i[c] < region[c].mask
  <2> DEFINE tk == Chunk(c, i[c])
  <2>1. tk \in Tasks
    BY <1>1, <1>4, ChunkTyped
  <2>2. /\ AddTask(tk) /\ i' = [i EXCEPT ![c] = @ + 1]
        /\ region' = [region EXCEPT ![c].remain =
                        IF i[c] = region[c].mask - 1 THEN @ ELSE @ - Count(region[c])]
    BY <1>1, <1>2, <1>4, ChunkTyped, RegionTypes DEF AddChunk
  <2> HIDE DEF tk
  <2>3. /\ task' = [task EXCEPT ![i[c]] = tk] /\ i[c] \in Q
        /\ task' \in [Q -> Tasks]
        /\ i'[c] = i[c] + 1 /\ i' \in [Callers -> Nat]
        /\ queue_pivot' \in Nat
        /\ queue_pivot' = IF i'[c] < queue_count THEN i'[c] ELSE 0
        /\ pc' = pc
        /\ state[i[c]] = "IDLE"
    BY <1>1, <1>2, <1>4, <2>1, <2>2, AddTaskFills DEF AddPC
  <2>4. /\ region' \in [Callers -> [total : Nat, mask : Nat, remain : Int,
                                    old_queue_count : Nat]]
        /\ region'[c].total = region[c].total /\ region'[c].mask = region[c].mask
        /\ region'[c].old_queue_count = region[c].old_queue_count
        /\ \A d \in Callers : d # c => region'[d] = region[d]
        /\ Remains(c)'
    BY <1>1, <1>4, <2>2, <2>3, AddChunkRemains
  <2>5. TypeOK'
    BY <1>1, <2>3, <2>4 DEF TypeOK
  <2>6. Workers'
    BY <1>1, <2>3 DEF Running, Workers, TypeOK
  <2>7. /\ Count(region[c])' = Count(region[c])
        /\ \A k : Share(region[c], k)' = Share(region[c], k)
        /\ \A k : Chunk(c, k)' = Chunk(c, k)
    BY <2>4 DEF Count, Share, Chunk
  <2>8. Counted(c)'
    <3>1. \A k : Items(region[c], k)' = Items(region[c], k)
      BY <2>7 DEF Items
    <3>2. \A k : (~ Ran(c, k) /\ ~ Ran(c, k)') \/ Ran(c, k)' = Ran(c, k)
      BY <1>1, <2>3 DEF Ran
    <3>3. Counted(c)
      BY <1>1 DEF Running
    <3>4. QED
      BY <1>1, <2>4, <3>1, <3>2, <3>3 DEF Counted
  <2>9. Opened(c)'
    BY <1>1, <2>3, <2>4 DEF Running, Opened
  <2>10. Globals(c)'
    BY <1>1, <1>2, <1>4, <2>3, <2>4 DEF Globals, SyncPC, ChunkPC, AddPC
  <2>11. Slots(c)'
    <3>1. ASSUME NEW q \in Q
          PROVE  /\ q < i[c] => task[q] = Chunk(c, q)
                 /\ task'[q] = IF q = i[c] THEN tk ELSE task[q]
                 /\ q < i'[c] => q < i[c] \/ q = i[c]
      <4>1. q < i[c] => task[q] = Chunk(c, q)
        BY <1>1, <3>1 DEF Running, Slots, Filled, AddPC, SyncPC
      <4>2. task'[q] = IF q = i[c] THEN tk ELSE task[q]
        BY <2>3, <3>1 DEF TypeOK
      <4>3. q < i'[c] => q < i[c] \/ q = i[c]
        BY <2>3, <3>1 DEF Q
      <4>4. QED
        BY <4>1, <4>2, <4>3
    <3>2. QED
      BY <1>1, <1>3, <2>3, <2>7, <3>1 DEF Slots, Released, Filled, tk, AddPC, SyncPC
  <2>12. Masked(c)'
    BY <1>1, <1>3, <2>4 DEF Masked
  <2>13. QED
    BY <1>1, <2>3, <2>4, <2>5, <2>6, <2>8, <2>9, <2>10, <2>11, <2>12,
       CallerMoves DEF InRegion
<1>5. CASE i[c] >= region[c].mask
  <2>1. /\ i[c] = region[c].mask /\ queue_pivot = 0
        /\ i' = [i EXCEPT ![c] = 0]
        /\ pc' = [pc EXCEPT ![c] = "ready_chunk"]
        /\ UNCHANGED <<task, queue_pivot, region>>
    BY <1>1, <1>2, <1>5, RegionTypes DEF AddChunk, Goto
  <2>2. pc'[c] = "ready_chunk" /\ \A t \in Threads : t # c => pc'[t] = pc[t]
    BY <1>1, <2>1 DEF TypeOK
  <2>3. i'[c] = 0
    BY <2>1 DEF TypeOK
  <2>4. TypeOK'
    BY <1>1, <2>1, <2>2 DEF TypeOK, CallerPC, WorkerPC, Threads
  <2>5. Workers'
    BY <1>1, <2>1, <2>2 DEF Running, Workers, Threads
  <2>6. \A q \in Q : /\ pc[q] # "wait_running" /\ pc'[q] = pc[q]
                     /\ q < region[c].mask => task[q] = Chunk(c, q)
    BY <1>1, <1>3, <2>1, <2>2, RegionTypes DEF Running, Slots, Workers, Filled,
       AddPC, SyncPC, Threads
  <2>7. Opened(c)' /\ Remains(c)'
    BY <1>1, <2>1, <2>2 DEF Running, Opened, Remains, TestPC, SyncPC
  <2>8. Counted(c)'
    <3>1. \A k \in 0 .. region[c].mask - 1 : k \in Q /\ ~ Ran(c, k) /\ ~ Ran(c, k)'
      <4>1. \A k \in 0 .. region[c].mask - 1 : k \in Q
        BY <1>1, RegionTypes DEF Q
      <4>2. QED
        BY <1>1, <1>3, <2>2, <2>6, <4>1 DEF Ran
    <3>2. QED
      BY <1>1, <2>1, <3>1 DEF Running, Counted
  <2>9. Globals(c)'
    BY <1>1, <1>2, <2>1, <2>2, <2>3 DEF Globals, SyncPC, ChunkPC, AddPC
  <2>10. Slots(c)'
    BY <1>1, <1>2, <1>3, <2>1, <2>2, <2>3, <2>6
       DEF Slots, Released, Filled, Chunk, AddPC, SyncPC, Q
  <2>11. Masked(c)'
    BY <1>1, <1>3, <2>1, <2>2 DEF Masked
  <2>12. QED
    BY <1>1, <2>1, <2>2, <2>4, <2>5, <2>7, <2>8, <2>9, <2>10, <2>11, CallerMoves
       DEF InRegion, RegionPC, ChunkPC
<1>6. QED
  BY <1>1, <1>2, <1>4, <1>5, RegionTypes

(* A pass through queue_state_wait().                                      *)
LEMMA PassTypes ==
  ASSUME TypeOK, NEW t, NEW q \in Q, NEW old \in States, NEW repl \in States,
         Pass(t, q, old, repl)
  PROVE  /\ state[q] = old /\ state' = [state EXCEPT ![q] = repl]
         /\ state' \in [Q -> States] /\ state'[q] = repl
         /\ \A r \in Q : r # q => state'[r] = state[r]
         /\ waiters' \in [Q -> SUBSET Threads]
  BY DEF Pass, Signal, TypeOK

(* A caller that passes a queue in ready() or synchronize(), or ends its   *)
(* loop, leaves its region as it is.                                       *)
LEMMA QueueMoves ==
  ASSUME TypeOK, Running, NEW c \in Callers, InRegion(c), NEW l \in RegionPC,
         pc' = [pc EXCEPT ![c] = l], pc[c] \notin TestPC \cup SyncPC \/ l # "add_chunk",
         l \in SyncPC => pc[c] \in SyncPC, l # "add_chunk",
         NEW n \in Nat, i' = [i EXCEPT ![c] = n],
         UNCHANGED <<launched, queue_count, queue_pivot, nesting_level, task,
                     num_threads, tid, region, runs>>,
         state' \in [Q -> States], waiters' \in [Q -> SUBSET Threads],
         \A q \in Q : state'[q] = "RUNNING" <=> state[q] = "RUNNING",
         \A k \in Q : Ran(c, k)' <=> Ran(c, k),
         Globals(c)', Slots(c)', Masked(c)'
  PROVE  TypeOK' /\ Running'
<1>1. pc'[c] = l /\ c \in Threads /\ \A t \in Threads : t # c => pc'[t] = pc[t]
  BY DEF TypeOK, Threads
<1>2. TypeOK'
  BY <1>1 DEF TypeOK, CallerPC, WorkerPC, Threads, RegionPC, SyncPC, ChunkPC
<1>3. Workers'
  BY <1>1 DEF Running, Workers, Threads
<1>4. InRegion(c)'
  BY <1>1 DEF InRegion
<1>5. pc[c] # "idle" /\ l # "idle" /\ l \notin TestPC
  BY DEF InRegion, RegionPC, SyncPC, ChunkPC, TestPC
<1>6. Opened(c)' /\ Remains(c)'
  BY <1>1, <1>5 DEF Running, Opened, Remains
<1>7. Counted(c)'
  <2>1. \A k \in 0 .. region[c].mask - 1 : k \in Q
    BY RegionTypes DEF Q
  <2>2. Counted(c)
    BY <1>5 DEF Running
  <2>3. QED
    BY <2>1, <2>2 DEF Counted
<1>8. QED
  BY <1>1, <1>2, <1>3, <1>4, <1>6, <1>7, CallerMoves

LEMMA ReadySyncStep ==
  ASSUME TypeOK, Running, NEW c \in Callers, ReadySync(c)
  PROVE  TypeOK' /\ Running'
<1>1. /\ InRegion(c) /\ pc[c] = "ready_sync" /\ c \in Threads
      /\ UNCHANGED <<launched, queue_count, queue_pivot, nesting_level, task,
                     num_threads, tid, region, runs>>
  BY DEF ReadySync, ForQueues, InRegion, RegionPC, SyncPC, Threads, globals, tls
<1>2. /\ queue_count = NumThreads /\ i[c] \in 0 .. NumThreads /\ queue_pivot = 0
      /\ \A q \in Q : /\ state[q] # "IDLE" <=> q < i[c]
                      /\ task[q] = SyncTask(region[c].mask, q)
                      /\ state[q] = "DONE" \/ pc[q] = "wait_running"
                           => num_threads[q] = region[c].mask
  BY <1>1 DEF Running, Globals, SyncPC, AddPC, Slots, Released, Filled, Masked, Q
<1>3. CASE i[c] < NumThreads
  <2>1. i[c] \in Q /\ Pass(c, i[c], "IDLE", "READY") /\ i' = [i EXCEPT ![c] = @ + 1]
        /\ pc' = pc
    BY <1>2, <1>3 DEF ReadySync, ForQueues, Q
  <2>2. /\ state[i[c]] = "IDLE" /\ state' \in [Q -> States] /\ state'[i[c]] = "READY"
        /\ \A r \in Q : r # i[c] => state'[r] = state[r]
        /\ waiters' \in [Q -> SUBSET Threads]
    BY <2>1, PassTypes DEF States
  <2>3. i'[c] = i[c] + 1 /\ i[c] + 1 \in Nat /\ i' = [i EXCEPT ![c] = i[c] + 1]
    BY <2>1 DEF TypeOK
  <2>4. pc' = [pc EXCEPT ![c] = "ready_sync"]
    BY <1>1, <2>1 DEF TypeOK
  <2>5. Globals(c)'
    BY <1>1, <1>2, <1>3, <2>1, <2>3 DEF Globals, SyncPC, ChunkPC, AddPC
  <2>6. Slots(c)'
    <3>1. ASSUME NEW q \in Q PROVE state'[q] # "IDLE" <=> q < i'[c]
      <4>1. CASE q = i[c]
        BY <2>2, <2>3, <4>1 DEF Q
      <4>2. CASE q # i[c]
        BY <1>2, <2>2, <2>3, <4>2, <3>1 DEF Q
      <4>3. QED
        BY <4>1, <4>2
    <3>2. QED
      BY <1>1, <1>2, <2>1, <3>1 DEF Slots, Released, Filled, AddPC, SyncPC
  <2>7. Masked(c)'
    BY <1>1, <1>2, <2>1, <2>2 DEF Masked
  <2>8. \A k \in Q : Ran(c, k)' <=> Ran(c, k)
    BY <1>1, <2>1 DEF Ran
  <2>9. \A q \in Q : state'[q] = "RUNNING" <=> state[q] = "RUNNING"
    BY <2>2
  <2>10. QED
    BY <1>1, <2>2, <2>3, <2>4, <2>5, <2>6, <2>7, <2>8, <2>9, QueueMoves
       DEF RegionPC, SyncPC
<1>4. CASE i[c] >= NumThreads
  <2>1. /\ i[c] = NumThreads /\ i' = [i EXCEPT ![c] = 0]
        /\ pc' = [pc EXCEPT ![c] = "wait_sync"] /\ UNCHANGED <<state, waiters>>
    BY <1>2, <1>4 DEF ReadySync, ForQueues, Goto
  <2>2. i'[c] = 0 /\ pc'[c] = "wait_sync" /\ \A q \in Q : pc'[q] = pc[q]
    BY <1>1, <2>1, RegionTypes DEF TypeOK, Threads
  <2>3. Globals(c)'
    BY <1>1, <1>2, <2>2 DEF Globals, SyncPC, ChunkPC, AddPC
  <2>4. Slots(c)' /\ Masked(c)'
    BY <1>1, <1>2, <2>1, <2>2 DEF Slots, Masked, Released, Filled, AddPC, SyncPC, Q
  <2>5. \A k \in Q : Ran(c, k)' <=> Ran(c, k)
    BY <1>1, <2>2 DEF Ran
  <2>6. QED
    BY <1>1, <2>1, <2>3, <2>4, <2>5, QueueMoves DEF RegionPC, SyncPC, TypeOK
<1>5. QED
  BY <1>2, <1>3, <1>4

LEMMA WaitSyncStep ==
  ASSUME TypeOK, Running, NEW c \in Callers, WaitSync(c)
  PROVE  TypeOK' /\ Running'
<1>1. /\ InRegion(c) /\ pc[c] = "wait_sync" /\ c \in Threads
      /\ UNCHANGED <<launched, queue_count, queue_pivot, nesting_level, task,
                     num_threads, tid, region, runs>>
  BY DEF WaitSync, ForQueues, InRegion, RegionPC, SyncPC, Threads, globals, tls
<1>2. /\ queue_count = NumThreads /\ i[c] \in 0 .. NumThreads /\ queue_pivot = 0
      /\ \A q \in Q : /\ state[q] # "IDLE" <=> i[c] <= q
                      /\ task[q] = SyncTask(region[c].mask, q)
                      /\ state[q] = "DONE" \/ pc[q] = "wait_running" \/ q < i[c]
                           => num_threads[q] = region[c].mask
  BY <1>1 DEF Running, Globals, SyncPC, AddPC, Slots, Released, Filled, Masked, Q
<1>3. CASE i[c] < NumThreads
  <2>1. i[c] \in Q /\ Pass(c, i[c], "DONE", "IDLE") /\ i' = [i EXCEPT ![c] = @ + 1]
        /\ pc' = pc
    BY <1>2, <1>3 DEF WaitSync, ForQueues, Q
  <2>2. /\ state[i[c]] = "DONE" /\ state' \in [Q -> States] /\ state'[i[c]] = "IDLE"
        /\ \A r \in Q : r # i[c] => state'[r] = state[r]
        /\ waiters' \in [Q -> SUBSET Threads]
    BY <2>1, PassTypes DEF States
  <2>3. i'[c] = i[c] + 1 /\ i[c] + 1 \in Nat /\ i' = [i EXCEPT ![c] = i[c] + 1]
    BY <2>1 DEF TypeOK
  <2>4. pc' = [pc EXCEPT ![c] = "wait_sync"]
    BY <1>1, <2>1 DEF TypeOK
  <2>5. Globals(c)'
    BY <1>1, <1>2, <1>3, <2>1, <2>3 DEF Globals, SyncPC, ChunkPC, AddPC
  <2>6. \A q \in Q : /\ state'[q] # "IDLE" <=> i'[c] <= q
                     /\ q < i'[c] => num_threads[q] = region[c].mask
    <3>1. ASSUME NEW q \in Q
          PROVE  /\ state'[q] # "IDLE" <=> i'[c] <= q
                 /\ q < i'[c] => num_threads[q] = region[c].mask
      <4>1. CASE q = i[c]
        BY <1>2, <2>2, <2>3, <4>1 DEF Q
      <4>2. CASE q # i[c]
        BY <1>2, <2>2, <2>3, <4>2, <3>1 DEF Q
      <4>3. QED
        BY <4>1, <4>2
    <3>2. QED
      BY <3>1
  <2>7. Slots(c)' /\ Masked(c)'
    <3>1. \A q \in Q : q < NumThreads /\ (state'[q] = "DONE" => state[q] = "DONE")
      BY <2>2 DEF Q
    <3>2. Slots(c)'
      BY <1>1, <1>2, <2>1, <2>6, <3>1 DEF Slots, Released, Filled, AddPC, SyncPC
    <3>3. Masked(c)'
      BY <1>1, <1>2, <2>1, <2>6, <3>1 DEF Masked
    <3>4. QED
      BY <3>2, <3>3
  <2>8. \A k \in Q : Ran(c, k)' <=> Ran(c, k)
    BY <1>1, <2>1 DEF Ran
  <2>9. \A q \in Q : state'[q] = "RUNNING" <=> state[q] = "RUNNING"
    BY <2>2
  <2>10. QED
    BY <1>1, <2>2, <2>3, <2>4, <2>5, <2>7, <2>8, <2>9, QueueMoves
       DEF RegionPC, SyncPC
<1>4. CASE i[c] >= NumThreads
  <2>1. /\ i[c] = NumThreads /\ i' = [i EXCEPT ![c] = 0]
        /\ pc' = [pc EXCEPT ![c] = "swap"] /\ UNCHANGED <<state, waiters>>
    BY <1>2, <1>4 DEF WaitSync, ForQueues, Goto
  <2>2. i'[c] = 0 /\ pc'[c] = "swap" /\ \A q \in Q : pc'[q] = pc[q]
    BY <1>1, <2>1, RegionTypes DEF TypeOK, Threads
  <2>3. Globals(c)'
    BY <1>1, <1>2, <2>2 DEF Globals, SyncPC, ChunkPC, AddPC
  <2>4. Slots(c)' /\ Masked(c)'
    BY <1>1, <1>2, <2>1, <2>2 DEF Slots, Masked, Released, Filled, AddPC, SyncPC, Q
  <2>5. \A k \in Q : Ran(c, k)' <=> Ran(c, k)
    BY <1>1, <2>2 DEF Ran
  <2>6. QED
    BY <1>1, <2>1, <2>3, <2>4, <2>5, QueueMoves DEF RegionPC, SyncPC, TypeOK
<1>5. QED
  BY <1>2, <1>3, <1>4

LEMMA ReadyChunkStep ==
  ASSUME TypeOK, Running, NEW c \in Callers, ReadyChunk(c)
  PROVE  TypeOK' /\ Running'
<1> DEFINE m == region[c].mask
<1>1. /\ InRegion(c) /\ pc[c] = "ready_chunk" /\ c \in Threads
      /\ UNCHANGED <<launched, queue_count, queue_pivot, nesting_level, task,
                     num_threads, tid, region, runs>>
      /\ m \in Nat /\ m <= NumThreads
  BY RegionTypes DEF ReadyChunk, ForQueues, InRegion, RegionPC, ChunkPC, Threads,
     globals, tls
<1>2. /\ queue_count = m /\ i[c] \in 0 .. m /\ queue_pivot = 0
      /\ region[c].old_queue_count = NumThreads
      /\ \A q \in Q : /\ state[q] # "IDLE" <=> q < i[c]
                      /\ q < m => task[q] = Chunk(c, q)
                      /\ q >= i[c] \/ state[q] = "READY" => num_threads[q] = m
  BY <1>1 DEF Running, Globals, SyncPC, ChunkPC, AddPC, Slots, Released, Filled,
       Masked, Q
<1>3. CASE i[c] < m
  <2>1. i[c] \in Q /\ Pass(c, i[c], "IDLE", "READY") /\ i' = [i EXCEPT ![c] = @ + 1]
        /\ pc' = pc
    BY <1>1, <1>2, <1>3 DEF ReadyChunk, ForQueues, Q
  <2>2. /\ state[i[c]] = "IDLE" /\ state' \in [Q -> States] /\ state'[i[c]] = "READY"
        /\ \A r \in Q : r # i[c] => state'[r] = state[r]
        /\ waiters' \in [Q -> SUBSET Threads]
    BY <2>1, PassTypes DEF States
  <2>3. i'[c] = i[c] + 1 /\ i[c] + 1 \in Nat /\ i' = [i EXCEPT ![c] = i[c] + 1]
    BY <2>1 DEF TypeOK
  <2>4. pc' = [pc EXCEPT ![c] = "ready_chunk"]
    BY <1>1, <2>1 DEF TypeOK
  <2>5. Globals(c)'
    BY <1>1, <1>2, <1>3, <2>1, <2>3 DEF Globals, SyncPC, ChunkPC, AddPC
  <2>6. \A q \in Q : /\ state'[q] # "IDLE" <=> q < i'[c]
                     /\ q >= i'[c] \/ state'[q] = "READY" => num_threads[q] = m
    <3>1. ASSUME NEW q \in Q
          PROVE  /\ state'[q] # "IDLE" <=> q < i'[c]
                 /\ q >= i'[c] \/ state'[q] = "READY" => num_threads[q] = m
      <4> HIDE DEF m
      <4>1. CASE q = i[c]
        BY <1>2, <2>2, <2>3, <4>1 DEF Q
      <4>2. CASE q # i[c]
        BY <1>2, <2>2, <2>3, <4>2, <3>1 DEF Q
      <4>3. QED
        BY <4>1, <4>2
    <3>2. QED
      BY <3>1
  <2>7. \A k : Chunk(c, k)' = Chunk(c, k)
    BY <1>1 DEF Chunk
  <2>8. Slots(c)'
    BY <1>1, <1>2, <2>1, <2>6, <2>7 DEF Slots, Released, Filled, AddPC, SyncPC
  <2>9. Masked(c)'
    BY <1>1, <2>1, <2>6 DEF Masked
  <2>10. \A k \in Q : Ran(c, k)' <=> Ran(c, k)
    BY <1>1, <2>1, <2>2 DEF Ran
  <2>11. \A q \in Q : state'[q] = "RUNNING" <=> state[q] = "RUNNING"
    BY <2>2
  <2>12. QED
    BY <1>1, <2>2, <2>3, <2>4, <2>5, <2>8, <2>9, <2>10, <2>11, QueueMoves
       DEF RegionPC, SyncPC, ChunkPC
<1>4. CASE i[c] >= m
  <2>1. /\ i[c] = m /\ i' = [i EXCEPT ![c] = 0]
        /\ pc' = [pc EXCEPT ![c] = "wait_chunk"] /\ UNCHANGED <<state, waiters>>
    BY <1>1, <1>2, <1>4 DEF ReadyChunk, ForQueues, Goto
  <2>2. i'[c] = 0 /\ pc'[c] = "wait_chunk" /\ \A q \in Q : pc'[q] = pc[q]
    BY <1>1, <2>1, RegionTypes DEF TypeOK, Threads
  <2>3. Globals(c)'
    BY <1>1, <1>2, <2>2 DEF Globals, SyncPC, ChunkPC, AddPC
  <2>4. \A k : Chunk(c, k)' = Chunk(c, k)
    BY <1>1 DEF Chunk
  <2>5. Slots(c)'
    BY <1>1, <1>2, <2>1, <2>2, <2>4 DEF Slots, Released, Filled, AddPC, SyncPC, Q
  <2>6. Masked(c)'
    BY <1>1, <1>2, <2>1, <2>2 DEF Masked, Q
  <2>7. \A k \in Q : Ran(c, k)' <=> Ran(c, k)
    BY <1>1, <2>1, <2>2 DEF Ran, Q
  <2>8. QED
    BY <1>1, <2>1, <2>3, <2>5, <2>6, <2>7, QueueMoves
       DEF RegionPC, SyncPC, ChunkPC, TypeOK
<1>5. QED
  BY <1>1, <1>2, <1>3, <1>4

LEMMA WaitChunkStep ==
  ASSUME TypeOK, Running, NEW c \in Callers, WaitChunk(c)
  PROVE  TypeOK' /\ Running'
<1> DEFINE m == region[c].mask
<1>1. /\ InRegion(c) /\ pc[c] = "wait_chunk" /\ c \in Threads
      /\ UNCHANGED <<launched, queue_count, queue_pivot, nesting_level, task,
                     num_threads, tid, region, runs>>
      /\ m \in Nat /\ m <= NumThreads
  BY RegionTypes DEF WaitChunk, ForQueues, InRegion, RegionPC, ChunkPC, Threads,
     globals, tls
<1>2. /\ queue_count = m /\ i[c] \in 0 .. m /\ queue_pivot = 0
      /\ region[c].old_queue_count = NumThreads
      /\ \A q \in Q : /\ state[q] # "IDLE" <=> i[c] <= q /\ q < m
                      /\ q < m => task[q] = Chunk(c, q)
                      /\ state[q] = "READY" => num_threads[q] = m
                      /\ Ran(c, q) <=> \/ state[q] = "DONE" \/ pc[q] = "wait_running"
                                       \/ q < i[c]
  BY <1>1 DEF Running, Globals, SyncPC, ChunkPC, AddPC, Slots, Released, Filled,
       Masked, Ran
<1>3. CASE i[c] < m
  <2>1. i[c] \in Q /\ Pass(c, i[c], "DONE", "IDLE") /\ i' = [i EXCEPT ![c] = @ + 1]
        /\ pc' = pc
    BY <1>1, <1>2, <1>3 DEF WaitChunk, ForQueues, Q
  <2>2. /\ state[i[c]] = "DONE" /\ state' \in [Q -> States] /\ state'[i[c]] = "IDLE"
        /\ \A r \in Q : r # i[c] => state'[r] = state[r]
        /\ waiters' \in [Q -> SUBSET Threads]
    BY <2>1, PassTypes DEF States
  <2>3. i'[c] = i[c] + 1 /\ i[c] + 1 \in Nat /\ i' = [i EXCEPT ![c] = i[c] + 1]
    BY <2>1 DEF TypeOK
  <2>4. pc' = [pc EXCEPT ![c] = "wait_chunk"]
    BY <1>1, <2>1 DEF TypeOK
  <2>5. Globals(c)'
    BY <1>1, <1>2, <1>3, <2>1, <2>3 DEF Globals, SyncPC, ChunkPC, AddPC
  <2>6. \A q \in Q : /\ state'[q] # "IDLE" <=> i'[c] <= q /\ q < m
                     /\ state'[q] = "READY" => state[q] = "READY"
                     /\ state'[q] = "DONE" \/ q < i'[c] <=> state[q] = "DONE" \/ q < i[c]
    <3>1. ASSUME NEW q \in Q
          PROVE  /\ state'[q] # "IDLE" <=> i'[c] <= q /\ q < m
                 /\ state'[q] = "READY" => state[q] = "READY"
                 /\ state'[q] = "DONE" \/ q < i'[c] <=> state[q] = "DONE" \/ q < i[c]
      <4> HIDE DEF m
      <4>1. CASE q = i[c]
        BY <1>1, <1>2, <2>2, <2>3, <4>1 DEF Q
      <4>2. CASE q # i[c]
        BY <1>1, <1>2, <2>2, <2>3, <4>2, <3>1 DEF Q
      <4>3. QED
        BY <4>1, <4>2
    <3>2. QED
      BY <3>1
  <2>7. \A k : Chunk(c, k)' = Chunk(c, k)
    BY <1>1 DEF Chunk
  <2>8. Slots(c)'
    BY <1>1, <1>2, <2>1, <2>6, <2>7 DEF Slots, Released, Filled, AddPC, SyncPC
  <2>9. Masked(c)'
    BY <1>1, <1>2, <2>1, <2>6 DEF Masked
  <2>10. \A k \in Q : Ran(c, k)' <=> Ran(c, k)
    BY <1>1, <2>1, <2>6 DEF Ran
  <2>11. \A q \in Q : state'[q] = "RUNNING" <=> state[q] = "RUNNING"
    BY <2>2
  <2>12. QED
    BY <1>1, <2>2, <2>3, <2>4, <2>5, <2>8, <2>9, <2>10, <2>11, QueueMoves
       DEF RegionPC, SyncPC, ChunkPC
<1>4. CASE i[c] >= m
  <2>1. /\ i[c] = m /\ i' = [i EXCEPT ![c] = 0]
        /\ pc' = [pc EXCEPT ![c] = "leave"] /\ UNCHANGED <<state, waiters>>
    BY <1>1, <1>2, <1>4 DEF WaitChunk, ForQueues, Goto
  <2>2. i'[c] = 0 /\ pc'[c] = "leave" /\ \A q \in Q : pc'[q] = pc[q]
    BY <1>1, <2>1, RegionTypes DEF TypeOK, Threads
  <2>3. \A q \in Q : state[q] = "IDLE"
    BY <1>1, <1>2, <2>1 DEF Q
  <2>4. Globals(c)'
    BY <1>1, <1>2, <2>2 DEF Globals, SyncPC, ChunkPC, AddPC
  <2>5. Slots(c)' /\ Masked(c)'
    BY <2>1, <2>2, <2>3 DEF Slots, Masked, Released, Filled, AddPC
  <2>6. Counted(c)'
    <3>1. \A k \in 0 .. m - 1 : k \in Q /\ k < i[c] /\ Ran(c, k) /\ Ran(c, k)'
      BY <1>1, <2>1, <2>2 DEF Ran, Q
    <3>2. Counted(c)
      BY <1>1 DEF Running
    <3>3. QED
      BY <1>1, <3>1, <3>2 DEF Counted
  <2>7. TypeOK'
    BY <1>1, <2>1, <2>2 DEF TypeOK, CallerPC, WorkerPC, Threads
  <2>8. Workers' /\ Opened(c)' /\ Remains(c)' /\ InRegion(c)'
    BY <1>1, <2>1, <2>2 DEF Running, Workers, Opened, Remains, InRegion, RegionPC,
         TestPC, SyncPC, ChunkPC
  <2>9. \A t \in Threads : t # c => pc'[t] = pc[t]
    BY <2>1 DEF TypeOK
  <2>10. QED
    BY <1>1, <2>4, <2>5, <2>6, <2>7, <2>8, <2>9, CallerMoves
<1>5. QED
  BY <1>1, <1>2, <1>3, <1>4

(* The task of a queue that is not IDLE is the one its caller filled in,   *)
(* and its thread id is the number of the queue.                           *)
LEMMA BusyTask ==
  ASSUME TypeOK, Running, NEW q \in Q, state[q] # "IDLE"
  PROVE  \E c \in Callers :
           /\ InRegion(c) /\ Released(c, q) /\ pc[c] \notin TestPC \cup {"idle"}
           /\ task[q].tid = q
           /\ \/ /\ pc[c] \in {"ready_sync", "wait_sync"}
                 /\ task[q] = SyncTask(region[c].mask, q) /\ task[q].fn = "sync_tls"
              \/ /\ pc[c] \in {"ready_chunk", "wait_chunk"}
                 /\ task[q] = Chunk(c, q) /\ task[q].fn = "chunk"
                 /\ task[q].caller = c
                 /\ q \in 0 .. region[c].mask - 1
<1>1. PICK c \in Callers : InRegion(c) /\ Released(c, q)
  BY ReleasedBySome
<1>2. Globals(c) /\ Slots(c)
  BY <1>1 DEF Running
<1>3. CASE pc[c] \in {"ready_sync", "wait_sync"}
  <2>1. Filled(c, q)
    BY <1>1, <1>2, <1>3, RegionTypes DEF Released, Filled, Globals, SyncPC, Q
  <2>2. task[q] = SyncTask(region[c].mask, q)
    BY <1>2, <1>3, <2>1 DEF Slots, SyncPC
  <2>3. QED
    BY <1>1, <1>3, <2>2 DEF SyncTask, TestPC
<1>4. CASE pc[c] \in {"ready_chunk", "wait_chunk"}
  <2>1. Filled(c, q) /\ queue_count = region[c].mask /\ q < region[c].mask
    BY <1>1, <1>2, <1>4, RegionTypes DEF Released, Filled, Globals, ChunkPC, Q
  <2>2. task[q] = Chunk(c, q)
    BY <1>2, <1>4, <2>1 DEF Slots, SyncPC
  <2>3. q \in 0 .. region[c].mask - 1
    BY <1>1, <2>1, RegionTypes DEF Q
  <2>4. task[q].tid = q /\ task[q].fn = "chunk" /\ task[q].caller = c
    BY <2>2 DEF Chunk, ChunkTask
  <2>5. pc[c] \notin TestPC \cup {"idle"}
    BY <1>4 DEF TestPC
  <2>6. QED
    BY <1>1, <1>4, <2>2, <2>3, <2>4, <2>5
<1>5. QED
  BY <1>1, <1>3, <1>4 DEF Released

(* A worker in a task changes nothing but what depends on its progress.    *)
LEMMA WorkerMoves ==
  ASSUME TypeOK, Running, NEW q \in Q, state[q] # "IDLE",
         NEW c \in Callers, InRegion(c),
         NEW l \in {"wait_ready", "run", "wait_running"},
         pc' = [pc EXCEPT ![q] = l],
         NEW s \in {"RUNNING", "DONE"},
         state' = [state EXCEPT ![q] = s],
         s = "RUNNING" <=> l \in {"run", "wait_running"},
         UNCHANGED <<launched, queue_count, queue_pivot, nesting_level, task,
                     i, region>>,
         l = "run" => tid'[q] = task[q].tid,
         \A r \in Q : r # q => tid'[r] = tid[r],
         \A d \in Callers : d # c => runs'[d] = runs[d],
         Counted(c)', Masked(c)'
  PROVE  Running'
<1>1. /\ \A d \in Callers : pc'[d] = pc[d]
      /\ pc'[q] = l /\ state'[q] = s
      /\ \A r \in Q : r # q => pc'[r] = pc[r] /\ state'[r] = state[r]
  BY DEF TypeOK, Threads
<1>2. Workers'
  BY <1>1 DEF Running, Workers
<1>3. \A d \in Callers : d # c => pc[d] \in {"idle", "check"}
  BY Alone DEF InRegion
<1>4. Exclusion' /\ Level' /\ Quiet'
  BY <1>1 DEF Running, Exclusion, Level, Quiet, InRegion
<1>5. \A d \in Callers : d # c => (Counted(d) => Counted(d)')
  BY <1>1, <1>3 DEF Counted, Ran
<1>6. \A d \in Callers : d # c => (Opened(d) => Opened(d)')
  BY <1>1 DEF Opened
<1>7. Opened(c)'
  BY <1>1 DEF Running, Opened, InRegion, RegionPC, SyncPC, ChunkPC
<1>8. \A d \in Callers : Remains(d) => Remains(d)'
  BY <1>1 DEF Remains
<1>9. Globals(c)'
  BY <1>1 DEF Running, Globals
<1>10. Slots(c)'
  <2>1. Slots(c)
    BY DEF Running
  <2>2. \A r \in Q : /\ state'[r] = "IDLE" <=> state[r] = "IDLE"
                     /\ Released(c, r)' <=> Released(c, r)
                     /\ Filled(c, r)' <=> Filled(c, r)
    BY <1>1 DEF Released, Filled
  <2>3. \A k : Chunk(c, k)' = Chunk(c, k)
    BY DEF Chunk
  <2>4. QED
    BY <1>1, <2>1, <2>2, <2>3 DEF Slots
<1>11. \A d \in Callers : InRegion(d)' => d = c
  BY <1>1, <1>3 DEF InRegion, RegionPC, SyncPC, ChunkPC
<1>12. \A t \in Threads : pc'[t] \notin StoppedPC
  BY <1>1 DEF Running, StoppedPC, Threads
<1>13. \A d \in Callers : pc'[d] # "idle" => Counted(d)'
  BY <1>1, <1>5 DEF Running
<1>14. QED
  BY <1>2, <1>4, <1>6, <1>7, <1>8, <1>9, <1>10, <1>11, <1>12, <1>13 DEF Running

LEMMA WorkerStartStep ==
  ASSUME TypeOK, Running, NEW q \in Q, WorkerStart(q)
  PROVE  TypeOK' /\ Running'
<1>1. /\ pc[q] = "wait_ready" /\ Pass(q, q, "READY", "RUNNING")
      /\ tid' = [tid EXCEPT ![q] = task[q].tid]
      /\ pc' = [pc EXCEPT ![q] = "run"]
      /\ UNCHANGED <<launched, queue_count, queue_pivot, nesting_level, task,
                     num_threads, i, region, runs>>
  BY DEF WorkerStart, Goto, globals
<1>2. /\ state[q] = "READY" /\ state' = [state EXCEPT ![q] = "RUNNING"]
      /\ state' \in [Q -> States] /\ waiters' \in [Q -> SUBSET Threads]
      /\ state'[q] = "RUNNING" /\ \A r \in Q : r # q => state'[r] = state[r]
  BY <1>1, PassTypes DEF States
<1>3. PICK c \in Callers :
        /\ InRegion(c) /\ pc[c] \notin TestPC \cup {"idle"} /\ task[q].tid = q
  BY <1>2, BusyTask
<1>4. TypeOK'
  BY <1>1, <1>2, <1>3 DEF TypeOK, WorkerPC, CallerPC, Threads
<1>5. tid'[q] = task[q].tid /\ \A r \in Q : r # q => tid'[r] = tid[r]
  BY <1>1 DEF TypeOK
<1>6. /\ pc'[c] = pc[c] /\ pc'[q] = "run" /\ c \notin Q
      /\ \A r \in Q : r # q => pc'[r] = pc[r]
  BY <1>1 DEF TypeOK, Threads
<1>7. \A k \in Q : Ran(c, k)' <=> Ran(c, k)
  BY <1>1, <1>2, <1>6 DEF Ran
<1>8. Counted(c)'
  <2>1. \A k \in 0 .. region[c].mask - 1 : k \in Q
    BY <1>3, RegionTypes DEF Q
  <2>2. Counted(c)
    BY <1>3 DEF Running
  <2>3. QED
    BY <1>1, <1>7, <2>1, <2>2 DEF Counted
<1>9. Masked(c)'
  <2>1. Masked(c)
    BY <1>3 DEF Running
  <2>2. QED
    BY <1>1, <1>2, <1>6, <2>1 DEF Masked
<1>10. QED
  BY <1>1, <1>2, <1>3, <1>4, <1>5, <1>8, <1>9, WorkerMoves

LEMMA WorkerDoneStep ==
  ASSUME TypeOK, Running, NEW q \in Q, WorkerDone(q)
  PROVE  TypeOK' /\ Running'
<1>1. /\ pc[q] = "wait_running" /\ Pass(q, q, "RUNNING", "DONE")
      /\ pc' = [pc EXCEPT ![q] = "wait_ready"]
      /\ UNCHANGED <<launched, queue_count, queue_pivot, nesting_level, task,
                     num_threads, tid, i, region, runs>>
  BY DEF WorkerDone, Goto, globals, tls
<1>2. /\ state[q] = "RUNNING" /\ state' = [state EXCEPT ![q] = "DONE"]
      /\ state' \in [Q -> States] /\ waiters' \in [Q -> SUBSET Threads]
      /\ state'[q] = "DONE" /\ \A r \in Q : r # q => state'[r] = state[r]
  BY <1>1, PassTypes DEF States
<1>3. PICK c \in Callers : InRegion(c) /\ pc[c] \notin TestPC \cup {"idle"}
  BY <1>2, BusyTask
<1>4. TypeOK'
  BY <1>1, <1>2, <1>3 DEF TypeOK, WorkerPC, CallerPC, Threads
<1>5. /\ pc'[c] = pc[c] /\ pc'[q] = "wait_ready" /\ c \notin Q
      /\ \A r \in Q : r # q => pc'[r] = pc[r]
  BY <1>1 DEF TypeOK, Threads
<1>6. \A k \in Q : Ran(c, k)' <=> Ran(c, k)
  BY <1>1, <1>2, <1>5 DEF Ran
<1>7. Counted(c)'
  <2>1. \A k \in 0 .. region[c].mask - 1 : k \in Q
    BY <1>3, RegionTypes DEF Q
  <2>2. Counted(c)
    BY <1>3 DEF Running
  <2>3. QED
    BY <1>1, <1>6, <2>1, <2>2 DEF Counted
<1>8. Masked(c)'
  <2>1. Masked(c)
    BY <1>3 DEF Running
  <2>2. QED
    BY <1>1, <1>2, <1>5, <2>1 DEF Masked
<1>9. QED
  BY <1>1, <1>2, <1>3, <1>4, <1>7, <1>8, WorkerMoves

LEMMA KernelSetNumThreadsStep ==
  ASSUME TypeOK, Running, NEW q \in Q, NEW n \in Masks, KernelSetNumThreads(q, n)
  PROVE  TypeOK' /\ Running'
<1>1. /\ pc[q] = "run" /\ task[q].fn = "chunk"
      /\ num_threads' = [num_threads EXCEPT ![q] = n]
      /\ UNCHANGED <<launched, queue_count, queue_pivot, nesting_level, state,
                     task, waiters, pc, tid, i, region, runs>>
  BY DEF KernelSetNumThreads, globals, queues
<1>2. TypeOK'
  BY <1>1 DEF TypeOK
<1>3. state[q] = "RUNNING"
  BY <1>1 DEF Running, Workers
<1>4. PICK c \in Callers : /\ InRegion(c) /\ Released(c, q)
                           /\ pc[c] \in {"ready_chunk", "wait_chunk"}
  BY <1>1, <1>3, BusyTask
<1>5. Masked(c)'
  <2>1. Masked(c)
    BY <1>4 DEF Running
  <2>2. \A r \in Q : r # q => num_threads'[r] = num_threads[r]
    BY <1>1 DEF TypeOK, Threads
  <2>3. pc[c] = "ready_chunk" => q < i[c]
    BY <1>4 DEF Released
  <2>4. i[c] \in Nat
    BY DEF TypeOK
  <2>5. QED
    BY <1>1, <1>3, <1>4, <2>1, <2>2, <2>3, <2>4 DEF Masked, Q
<1>6. \A d \in Callers : InRegion(d) => d = c
  BY <1>4 DEF Running, Exclusion, InRegion
<1>7. Running'
  BY <1>1, <1>5, <1>6 DEF Running, Exclusion, Level, Workers, Quiet, Opened, Remains,
       Counted, Globals, Slots, InRegion, Released, Filled, Ran, Chunk
<1>8. QED
  BY <1>2, <1>7

(* The chunk of a worker is run: exactly its items are counted.            *)
LEMMA WorkerRunStep ==
  ASSUME TypeOK, Running, NEW q \in Q, WorkerRun(q)
  PROVE  TypeOK' /\ Running'
<1>1. /\ pc[q] = "run" /\ state[q] = "RUNNING" /\ state[q] # "IDLE"
      /\ pc' = [pc EXCEPT ![q] = "wait_running"]
      /\ UNCHANGED <<launched, queue_count, queue_pivot, nesting_level, state,
                     task, waiters, tid, i, region>>
      /\ state' = [state EXCEPT ![q] = "RUNNING"]
  BY DEF WorkerRun, Goto, globals, queues, Running, Workers, TypeOK
<1>2. PICK c \in Callers :
        /\ InRegion(c) /\ Released(c, q) /\ pc[c] \notin TestPC \cup {"idle"}
        /\ task[q].tid = q
        /\ \/ /\ pc[c] \in {"ready_sync", "wait_sync"}
              /\ task[q] = SyncTask(region[c].mask, q) /\ task[q].fn = "sync_tls"
           \/ /\ pc[c] \in {"ready_chunk", "wait_chunk"}
              /\ task[q] = Chunk(c, q) /\ task[q].fn = "chunk"
              /\ task[q].caller = c
              /\ q \in 0 .. region[c].mask - 1
  BY <1>1, BusyTask
<1>3. /\ pc'[c] = pc[c] /\ pc'[q] = "wait_running" /\ c \notin Q
      /\ \A r \in Q : r # q => pc'[r] = pc[r]
  BY <1>1 DEF TypeOK, Threads
<1>4. Counted(c) /\ Masked(c)
  BY <1>2 DEF Running
<1>5. /\ region[c].mask \in Masks /\ region[c].total \in Nat
      /\ region[c].mask \in Nat \ {0} /\ i[c] \in Nat
      /\ \A k \in 0 .. region[c].mask - 1 : k \in Q
  BY <1>2, RegionTypes DEF Q
<1>6. CASE pc[c] \in {"ready_sync", "wait_sync"}
  <2>1. /\ num_threads' = [num_threads EXCEPT ![q] = region[c].mask]
        /\ UNCHANGED runs
    BY <1>2, <1>6 DEF WorkerRun, SyncTask
  <2>2. TypeOK'
    BY <1>1, <1>5, <2>1 DEF TypeOK, WorkerPC, CallerPC, Threads
  <2>3. Counted(c)'
    BY <1>1, <1>3, <1>4, <1>6, <2>1 DEF Counted, Ran
  <2>4. num_threads'[q] = region[c].mask
        /\ \A r \in Q : r # q => num_threads'[r] = num_threads[r]
    BY <2>1 DEF TypeOK, Threads
  <2>5. Masked(c)'
    BY <1>1, <1>3, <1>4, <1>6, <2>4 DEF Masked
  <2>6. QED
    BY <1>1, <1>2, <2>1, <2>2, <2>3, <2>5, WorkerMoves
<1>7. CASE pc[c] \in {"ready_chunk", "wait_chunk"}
  <2> DEFINE r == region[c]
             chunk == Items(r, q)
  <2>1. /\ q \in 0 .. r.mask - 1
        /\ runs' = [runs EXCEPT ![c] =
                      [j \in DOMAIN @ |-> IF j \in chunk THEN @[j] + 1 ELSE @[j]]]
        /\ UNCHANGED num_threads
    BY <1>2, <1>7 DEF WorkerRun, Chunk, ChunkTask, Items
  <2>2. TypeOK'
    BY <1>1, <2>1 DEF TypeOK, WorkerPC, CallerPC, Threads
  <2>3. runs[c] \in [0 .. r.total - 1 -> {0, 1}]
    BY <1>4 DEF Counted
  <2>4. ~ Ran(c, q)
    BY <1>1, <1>2, <1>5, <1>7 DEF Ran, Released, Q
  <2>5. \A j \in chunk : runs[c][j] = 0
    <3>1. ASSUME NEW j \in chunk PROVE runs[c][j] = 0
      <4>1. j \in 0 .. r.total - 1
        BY <1>5, <2>1, <3>1, ShareBounds DEF Items
      <4>2. runs[c][j] # 1
        BY <1>4, <2>1, <2>4, <3>1 DEF Counted
      <4>3. QED
        BY <2>3, <4>1, <4>2
    <3>2. QED
      BY <3>1
  <2>6. /\ runs'[c] = [j \in DOMAIN runs[c] |->
                         IF j \in chunk THEN runs[c][j] + 1 ELSE runs[c][j]]
        /\ \A d \in Callers : d # c => runs'[d] = runs[d]
    BY <2>1 DEF TypeOK
  <2>7. /\ runs'[c] \in [0 .. r.total - 1 -> {0, 1}]
        /\ \A j \in 0 .. r.total - 1 :
             runs'[c][j] = IF j \in chunk THEN 1 ELSE runs[c][j]
    <3> DEFINE N == 0 .. r.total - 1
               f == runs[c]
    <3> HIDE DEF chunk, N, f
    <3>1. f \in [N -> {0, 1}] /\ (\A j \in chunk : f[j] = 0)
      BY <2>3, <2>5 DEF N, f
    <3>2. runs'[c] = [j \in N |-> IF j \in chunk THEN f[j] + 1 ELSE f[j]]
      BY <2>6, <3>1 DEF f
    <3>3. \A j \in N : runs'[c][j] = IF j \in chunk THEN 1 ELSE f[j]
      BY <3>1, <3>2
    <3>4. runs'[c] \in [N -> {0, 1}]
      BY <3>1, <3>2, <3>3
    <3>5. QED
      BY <3>3, <3>4 DEF N, f
  <2>8. Counted(c)'
    <3>1. ASSUME NEW k \in 0 .. r.mask - 1, NEW j \in Items(r, k)
          PROVE  runs'[c][j] = 1 <=> Ran(c, k)'
      <4>1. j \in 0 .. r.total - 1
        BY <1>5, <3>1, ShareBounds DEF Items
      <4>2. CASE k = q
        <5>1. Ran(c, k)'
          BY <1>3, <1>7, <4>2 DEF Ran
        <5>2. QED
          BY <2>7, <3>1, <4>1, <4>2, <5>1
      <4>3. CASE k # q
        <5>1. j \notin chunk
          BY <1>5, <2>1, <3>1, <4>3, SharesDisjoint
        <5>2. Ran(c, k)' <=> Ran(c, k)
          BY <1>1, <1>3, <1>5, <4>3, <3>1 DEF Ran
        <5>3. QED
          BY <1>4, <2>7, <3>1, <4>1, <5>1, <5>2 DEF Counted
      <4>4. QED
        BY <4>2, <4>3
    <3>2. QED
      BY <1>1, <2>7, <3>1 DEF Counted
  <2>9. Masked(c)'
    BY <1>1, <1>3, <1>4, <1>7, <2>1 DEF Masked
  <2>10. QED
    BY <1>1, <1>2, <2>2, <2>6, <2>8, <2>9, WorkerMoves
<1>8. QED
  BY <1>2, <1>6, <1>7

LEMMA NothingOpen ==
  /\ NoRegion \in [total : Nat, mask : Nat, remain : Int, old_queue_count : Nat]
  /\ NoRegion.remain = NoRegion.total /\ NoRegion.mask = 0
  BY DEF NoRegion

LEMMA LeaveStep ==
  ASSUME TypeOK, Running, NEW c \in Callers, Leave(c)
  PROVE  TypeOK' /\ Running'
<1>1. /\ InRegion(c) /\ pc[c] = "leave" /\ c \in Threads /\ c \notin Q
      /\ queue_count' = region[c].old_queue_count
      /\ nesting_level' = nesting_level - 1
      /\ region' = [region EXCEPT ![c] = NoRegion]
      /\ runs' = [runs EXCEPT ![c] = NoRuns]
      /\ pc' = [pc EXCEPT ![c] = "idle"]
      /\ UNCHANGED <<launched, queue_pivot, state, task, waiters, num_threads, tid, i>>
  BY DEF Leave, Goto, InRegion, RegionPC, ChunkPC, Threads, queues, tls
<1>2. /\ queue_count' = NumThreads /\ nesting_level' = 0 /\ queue_pivot = 0
      /\ \A q \in Q : state[q] = "IDLE"
  BY <1>1 DEF Running, Globals, Level, Slots, Released, ChunkPC, AddPC
<1>3. /\ pc'[c] = "idle" /\ \A t \in Threads : t # c => pc'[t] = pc[t]
      /\ region'[c] = NoRegion /\ runs'[c] = NoRuns
      /\ \A d \in Callers : d # c => region'[d] = region[d] /\ runs'[d] = runs[d]
  BY <1>1 DEF TypeOK
<1>4. ASSUME NEW d \in Callers, d # c
      PROVE  pc[d] \in {"idle", "check"} /\ pc'[d] = pc[d] /\ d \in Threads
  BY <1>1, <1>3, <1>4, Alone DEF InRegion, Threads
<1>5. TypeOK'
  <2>1. runs' = [d \in Callers |-> runs'[d]]
    BY <1>1 DEF TypeOK
  <2>2. queue_count' \in Masks /\ nesting_level' \in Int
    BY <1>2 DEF Masks
  <2>3. region' \in [Callers -> [total : Nat, mask : Nat, remain : Int,
                                old_queue_count : Nat]]
    BY <1>1, NothingOpen DEF TypeOK
  <2>4. QED
    BY <1>1, <2>1, <2>2, <2>3 DEF TypeOK, Threads, CallerPC, WorkerPC
<1>6. Exclusion' /\ Level' /\ Quiet'
  BY <1>1, <1>2, <1>3, <1>4 DEF Running, Exclusion, Level, Quiet, InRegion, TestPC,
       RegionPC, SyncPC, ChunkPC
<1>7. Workers'
  BY <1>1, <1>3 DEF Running, Workers, Threads
<1>8. ASSUME NEW d \in Callers
      PROVE  Opened(d)' /\ Remains(d)' /\ (pc'[d] # "idle" => Counted(d)') /\ ~ InRegion(d)'
  <2>1. CASE d = c
    BY <1>3, <2>1 DEF Opened, Remains, InRegion, RegionPC, TestPC, SyncPC, ChunkPC
  <2>2. CASE d # c
    <3>1. Opened(d)' /\ Remains(d)' /\ ~ InRegion(d)'
      BY <1>1, <1>3, <1>4, <2>2 DEF Running, Opened, Remains, InRegion, RegionPC,
         TestPC, SyncPC, ChunkPC
    <3>2. pc'[d] # "idle" => Counted(d)'
      BY <1>3, <1>4, <2>2 DEF Running, Counted, Ran
    <3>3. QED
      BY <3>1, <3>2
  <2>3. QED
    BY <2>1, <2>2
<1>9. \A t \in Threads : pc'[t] \notin StoppedPC
  BY <1>3 DEF Running, StoppedPC
<1>10. QED
  BY <1>5, <1>6, <1>7, <1>8, <1>9 DEF Running

(* While the workers are not launched, nothing is going on.                *)
LEMMA NotLaunched ==
  ASSUME TypeOK, Running, ~ launched
  PROVE  /\ \A d \in Callers : pc[d] = "idle" /\ ~ InRegion(d)
         /\ \A q \in Q : state[q] = "IDLE" /\ pc[q] \notin {"run", "wait_running"}
         /\ queue_count = NumThreads
  BY DEF Running, Opened, Workers, Quiet, InRegion, RegionPC, SyncPC, ChunkPC

LEMMA SetNumThreadsStep ==
  ASSUME TypeOK, Running, NEW c \in Callers, NEW n \in Masks, SetNumThreads(c, n)
  PROVE  TypeOK' /\ Running'
<1>1. /\ pc[c] = "idle" /\ num_threads' = [num_threads EXCEPT ![c] = n]
      /\ c \in Threads /\ c \notin Q
      /\ UNCHANGED <<queue_pivot, nesting_level, state, task, waiters, tid, i,
                     region, runs>>
  BY DEF SetNumThreads, Threads, queues
<1>2. \A q \in Q : num_threads'[q] = num_threads[q]
  BY <1>1 DEF TypeOK, Threads
<1>3. num_threads' \in [Threads -> Masks \cup {0}]
  BY <1>1 DEF TypeOK
<1>4. CASE launched /\ UNCHANGED <<launched, queue_count, pc>>
  <2>1. TypeOK'
    BY <1>1, <1>3, <1>4 DEF TypeOK
  <2>2. \A d \in Callers : Masked(d)' <=> Masked(d)
    BY <1>1, <1>2, <1>4 DEF Masked
  <2>3. Running'
    BY <1>1, <1>4, <2>2 DEF Running, Exclusion, Level, Workers, Quiet, Opened, Remains,
         Counted, Globals, Slots, InRegion, Released, Filled, Ran, Chunk
  <2>4. QED
    BY <2>1, <2>3
<1>5. CASE ~ launched /\ Launched
  <2>1. /\ launched' = TRUE /\ queue_count' = NumThreads
        /\ \A d \in Callers : pc'[d] = "idle" /\ d \in Threads
        /\ \A q \in Q : pc'[q] = "wait_ready" /\ q \in Threads
        /\ pc' \in [Threads -> {"idle", "wait_ready"}]
    <3>1. \A d \in Callers : pc[d] = "idle" /\ d \notin Q
      BY <1>5, NotLaunched
    <3>2. QED
      BY <1>5, <3>1 DEF Launched, Threads
  <2>2. TypeOK'
    BY <1>1, <1>3, <2>1 DEF TypeOK, Masks, CallerPC, WorkerPC
  <2>3. \A d \in Callers : ~ InRegion(d)' /\ ~ InRegion(d) /\ pc[d] = "idle"
    BY <1>5, <2>1, NotLaunched DEF InRegion, RegionPC, SyncPC, ChunkPC
  <2>4. Exclusion' /\ Level' /\ Quiet'
    BY <1>1, <1>5, <2>1, <2>3, NotLaunched DEF Running, Exclusion, Level, Quiet,
         TestPC, RegionPC, SyncPC, ChunkPC
  <2>5. Workers'
    BY <1>1, <1>5, <2>1, NotLaunched DEF Workers
  <2>6. \A d \in Callers : Opened(d)' /\ Remains(d)'
    BY <1>1, <2>1, <2>3 DEF Running, Opened, Remains, TestPC, SyncPC
  <2>7. \A t \in Threads : pc'[t] \notin StoppedPC
    BY <2>1 DEF StoppedPC
  <2>8. QED
    BY <2>1, <2>2, <2>3, <2>4, <2>5, <2>6, <2>7 DEF Running
<1>6. QED
  BY <1>4, <1>5 DEF SetNumThreads

LEMMA CallStep ==
  ASSUME ~ Racing, TypeOK, Running, NEW c \in Callers, NEW n \in Totals[c], Call(c, n)
  PROVE  TypeOK' /\ Running'
<1> DEFINE mask == IF num_threads[c] = 0 THEN NumThreads ELSE num_threads[c]
           r == [total |-> n, mask |-> mask, remain |-> n, old_queue_count |-> 0]
           zeros == [j \in 0 .. n - 1 |-> 0]
<1>1. /\ n \in Nat /\ c \in Threads /\ c \notin Q /\ mask \in Masks
      /\ r \in [total : Nat, mask : Nat, remain : Int, old_queue_count : Nat]
  BY DEF Threads, TypeOK, Masks
<1>2. /\ pc[c] = "idle" /\ \A d \in Callers : pc[d] \notin TestPC
      /\ num_threads' = [num_threads EXCEPT ![c] = mask]
      /\ region' = [region EXCEPT ![c] = r]
      /\ runs' = [runs EXCEPT ![c] = zeros]
      /\ launched' = TRUE
      /\ queue_count' = IF launched THEN queue_count ELSE NumThreads
      /\ pc' = [t \in Threads |->
                  IF t = c THEN "check"
                  ELSE IF t \in Q /\ ~ launched THEN "wait_ready" ELSE pc[t]]
      /\ UNCHANGED <<queue_pivot, nesting_level, state, task, waiters, tid, i>>
  BY DEF Call, TestPC, queues
<1>3. queue_count' = queue_count
  BY <1>2, NotLaunched
<1>4. /\ pc'[c] = "check" /\ \A d \in Callers : d # c => pc'[d] = pc[d]
      /\ \A q \in Q : /\ pc'[q] = IF launched THEN pc[q] ELSE "wait_ready"
                      /\ num_threads'[q] = num_threads[q]
      /\ region'[c] = r /\ runs'[c] = zeros
      /\ \A d \in Callers : d # c => region'[d] = region[d] /\ runs'[d] = runs[d]
  BY <1>1, <1>2 DEF TypeOK, Threads
<1> HIDE DEF mask, r
<1>5. TypeOK'
  <2>1. /\ num_threads' \in [Threads -> Masks \cup {0}]
        /\ region' \in [Callers -> [total : Nat, mask : Nat, remain : Int,
                                    old_queue_count : Nat]]
        /\ runs' = [d \in Callers |-> runs'[d]]
    BY <1>1, <1>2 DEF TypeOK
  <2>2. /\ pc' \in [Threads -> CallerPC \cup WorkerPC \cup StoppedPC]
        /\ \A d \in Callers : pc'[d] \notin WorkerPC
        /\ \A q \in Q : pc'[q] \notin CallerPC
    <3>1. \A t \in Threads : pc[t] \in CallerPC \cup WorkerPC \cup StoppedPC
      BY DEF TypeOK
    <3>2. pc' \in [Threads -> CallerPC \cup WorkerPC \cup StoppedPC]
      BY <1>2, <3>1 DEF CallerPC, WorkerPC
    <3>3. \A d \in Callers : pc'[d] \notin WorkerPC
      BY <1>4 DEF TypeOK, WorkerPC
    <3>4. \A q \in Q : pc'[q] \notin CallerPC
      BY <1>4 DEF TypeOK, CallerPC
    <3>5. QED
      BY <3>2, <3>3, <3>4
  <2>3. QED
    BY <1>2, <1>3, <2>1, <2>2 DEF TypeOK
<1>6. \A d \in Callers : /\ InRegion(d)' <=> InRegion(d)
                         /\ InRegion(d) => d # c
                         /\ pc'[d] \in TestPC => d = c
  BY <1>2, <1>4 DEF InRegion, RegionPC, SyncPC, ChunkPC, TestPC
<1>7. Exclusion'
  BY <1>2, <1>4, <1>6 DEF Running, Exclusion, InRegion, TestPC, RegionPC, SyncPC, ChunkPC
<1>8. Level' /\ Quiet'
  BY <1>2, <1>3, <1>6 DEF Running, Level, Quiet
<1>9. Workers'
  <2>1. CASE launched
    BY <1>2, <1>4, <2>1 DEF Running, Workers
  <2>2. CASE ~ launched
    BY <1>2, <1>4, <2>2, NotLaunched DEF Workers
  <2>3. QED
    BY <2>1, <2>2
<1>10. Opened(c)' /\ Remains(c)' /\ Counted(c)'
  <2>1. r.total = n /\ r.mask = mask /\ r.remain = n
    BY DEF r
  <2>2. Opened(c)' /\ Remains(c)'
    BY <1>1, <1>2, <1>4, <2>1 DEF Opened, Remains
  <2>3. runs'[c] \in [0 .. n - 1 -> {0, 1}] /\ \A j \in 0 .. n - 1 : runs'[c][j] = 0
    BY <1>1, <1>4
  <2>4. \A k \in 0 .. mask - 1 : \A j \in Items(r, k) : j \in 0 .. n - 1 /\ ~ Ran(c, k)'
    <3>1. ASSUME NEW k \in 0 .. mask - 1, NEW j \in Items(r, k)
          PROVE  j \in 0 .. n - 1 /\ ~ Ran(c, k)'
      <4>1. ~ Ran(c, k)'
        BY <1>4 DEF Ran
      <4>2. mask \in Nat \ {0}
        BY <1>1 DEF Masks
      <4>3. /\ Count(r) * k \in Nat /\ Share(r, k) \in Nat
            /\ Count(r) * k + Share(r, k) <= n
        BY <1>1, <2>1, <4>2, ShareBounds
      <4>4. QED
        BY <1>1, <3>1, <4>1, <4>3 DEF Items
    <3>2. QED
      BY <3>1
  <2>5. Counted(c)'
    BY <1>4, <2>1, <2>3, <2>4 DEF Counted
  <2>6. QED
    BY <2>2, <2>5
<1>11. ASSUME NEW d \in Callers, d # c
       PROVE  /\ Opened(d)' /\ Remains(d)'
              /\ pc'[d] # "idle" => Counted(d)'
              /\ InRegion(d) => Globals(d)' /\ Slots(d)' /\ Masked(d)'
  <2>1. Opened(d)' /\ Remains(d)'
    BY <1>2, <1>4, <1>11 DEF Running, Opened, Remains
  <2>2. CASE ~ launched
    BY <1>2, <1>4, <1>11, <2>1, <2>2, NotLaunched
  <2>3. CASE launched
    <3>1. \A q \in Q : pc'[q] = pc[q]
      BY <1>4, <2>3
    <3>2. pc[d] # "idle" => \A k \in 0 .. region[d].mask - 1 : k \in Q
      BY DEF Running, Opened, Masks, Q
    <3>3. \A k \in Q : Ran(d, k)' <=> Ran(d, k)
      BY <1>2, <1>4, <1>11, <3>1 DEF Ran
    <3>4. pc'[d] # "idle" => Counted(d)'
      BY <1>4, <1>11, <3>2, <3>3 DEF Running, Counted
    <3>5. InRegion(d) => Globals(d)' /\ Slots(d)' /\ Masked(d)'
      <4>1. SUFFICES ASSUME InRegion(d) PROVE Globals(d)' /\ Slots(d)' /\ Masked(d)'
        OBVIOUS
      <4>2. Globals(d) /\ Slots(d) /\ Masked(d)
        BY <4>1 DEF Running
      <4>3. Globals(d)'
        BY <1>2, <1>3, <1>4, <1>11, <4>2 DEF Globals
      <4>4. \A k : Chunk(d, k)' = Chunk(d, k)
        BY <1>4, <1>11 DEF Chunk
      <4>5. Slots(d)'
        <5>1. /\ pc'[d] = pc[d] /\ region'[d] = region[d]
              /\ UNCHANGED <<state, task>>
              /\ i'[d] = i[d] /\ UNCHANGED queue_count
          BY <1>2, <1>3, <1>4, <1>11
        <5>2. ASSUME NEW q \in Q
              PROVE  /\ Released(d, q)' <=> Released(d, q)
                     /\ Filled(d, q)' <=> Filled(d, q)
          BY <5>1 DEF Released, Filled
        <5>3. QED
          BY <4>2, <4>4, <5>1, <5>2 DEF Slots
      <4>6. Masked(d)'
        BY <1>2, <1>4, <1>11, <3>1, <4>2 DEF Masked
      <4>7. QED
        BY <4>3, <4>5, <4>6
    <3>6. QED
      BY <2>1, <3>4, <3>5
  <2>4. QED
    BY <2>2, <2>3
<1>12. \A t \in Threads : pc'[t] \notin StoppedPC
  BY <1>2 DEF Running, StoppedPC
<1>13. QED
  BY <1>5, <1>6, <1>7, <1>8, <1>9, <1>10, <1>11, <1>12 DEF Running

LEMMA ForkStep ==
  ASSUME ~ ForkMidRegion, TypeOK, Running, NEW c \in Callers, Fork(c)
  PROVE  TypeOK' /\ Running'
<1>1. \A d \in Callers : pc[d] = "idle" /\ ~ InRegion(d)
  BY DEF Fork, InRegion, RegionPC, SyncPC, ChunkPC
<1>2. queue_count = NumThreads /\ queue_pivot = 0
  BY <1>1 DEF Running, Quiet
<1>3. /\ pc' \in [Threads -> {"idle", "none"}] /\ launched' = FALSE /\ nesting_level' = 0
      /\ \A d \in Callers : pc'[d] = "idle" /\ region'[d] = NoRegion /\ runs'[d] = NoRuns
      /\ \A q \in Q : pc'[q] = "none" /\ state'[q] = "IDLE"
      /\ queue_count' = NumThreads /\ queue_pivot' = 0
  BY <1>2 DEF Fork, Threads
<1>4. TypeOK'
  <2>1. /\ num_threads' \in [Threads -> Masks \cup {0}]
        /\ region' \in [Callers -> [total : Nat, mask : Nat, remain : Int,
                                    old_queue_count : Nat]]
        /\ runs' = [d \in Callers |-> runs'[d]]
    BY NothingOpen DEF Fork, TypeOK, Threads
  <2>2. /\ state' \in [Q -> States] /\ task' \in [Q -> Tasks]
        /\ waiters' \in [Q -> SUBSET Threads] /\ tid' \in [Q -> Q]
        /\ i' \in [Callers -> Nat]
    <3>1. /\ state' = [q \in Q |-> "IDLE"] /\ task' = [q \in Q |-> NoTask]
          /\ waiters' = [q \in Q |-> {}] /\ tid' = [q \in Q |-> 0]
          /\ i' = [d \in Callers |-> 0]
      BY DEF Fork
    <3>2. "IDLE" \in States /\ NoTask \in Tasks /\ 0 \in Q
      BY DEF States, Tasks, Q
    <3>3. QED
      BY <3>1, <3>2
  <2>3. /\ pc' \in [Threads -> CallerPC \cup WorkerPC \cup StoppedPC]
        /\ \A d \in Callers : pc'[d] \notin WorkerPC
        /\ \A q \in Q : pc'[q] \notin CallerPC
    BY <1>3 DEF CallerPC, WorkerPC
  <2>4. /\ launched' \in BOOLEAN /\ queue_count' \in Masks /\ queue_pivot' \in Nat
        /\ nesting_level' \in Int
    <3>1. NumThreads \in Masks
      BY DEF Masks
    <3>2. launched' \in BOOLEAN
      BY Zenon DEF Fork
    <3>3. QED
      BY <1>3, <3>1, <3>2
  <2>5. QED
    BY <2>1, <2>2, <2>3, <2>4 DEF TypeOK
<1>5. \A d \in Callers : ~ InRegion(d)' /\ Opened(d)' /\ Remains(d)'
  BY <1>3 DEF InRegion, Opened, Remains, RegionPC, TestPC, SyncPC, ChunkPC
<1>6. Exclusion' /\ Level' /\ Quiet' /\ Workers'
  BY <1>3, <1>5 DEF Exclusion, Level, Quiet, Workers, TestPC, RegionPC, SyncPC, ChunkPC
<1>7. \A t \in Threads : pc'[t] \notin StoppedPC
  BY <1>3 DEF StoppedPC
<1>8. QED
  BY <1>3, <1>4, <1>5, <1>6, <1>7 DEF Running

-----------------------------------------------------------------------------
(* The invariant holds.                                                    *)

LEMMA InitInv == Init => Inv
<1> SUFFICES ASSUME Init PROVE TypeOK /\ Running
  BY DEF Inv
<1>1. /\ \A d \in Callers : pc[d] = "idle" /\ region[d] = NoRegion /\ runs[d] = NoRuns
      /\ \A q \in Q : pc[q] = "wait_ready" /\ state[q] = "IDLE"
      /\ pc \in [Threads -> {"idle", "wait_ready"}]
  BY DEF Init, Threads
<1>2. TypeOK
  <2>1. /\ num_threads \in [Threads -> Masks \cup {0}]
        /\ region \in [Callers -> [total : Nat, mask : Nat, remain : Int,
                                   old_queue_count : Nat]]
        /\ runs = [d \in Callers |-> runs[d]]
    BY NothingOpen DEF Init, Masks
  <2>2. /\ state \in [Q -> States] /\ task \in [Q -> Tasks]
        /\ waiters \in [Q -> SUBSET Threads] /\ tid \in [Q -> Q]
        /\ i \in [Callers -> Nat]
    BY DEF Init, States, Tasks, Q
  <2>3. /\ pc \in [Threads -> CallerPC \cup WorkerPC \cup StoppedPC]
        /\ \A d \in Callers : pc[d] \notin WorkerPC
        /\ \A q \in Q : pc[q] \notin CallerPC
    BY <1>1 DEF CallerPC, WorkerPC
  <2>4. /\ launched \in BOOLEAN /\ queue_count \in Masks /\ queue_pivot \in Nat
        /\ nesting_level \in Int
    BY DEF Init, Masks
  <2>5. QED
    BY <2>1, <2>2, <2>3, <2>4 DEF TypeOK
<1>3. \A d \in Callers : ~ InRegion(d) /\ Opened(d) /\ Remains(d)
  BY <1>1 DEF InRegion, Opened, Remains, RegionPC, TestPC, SyncPC, ChunkPC
<1>4. Exclusion /\ Level /\ Quiet /\ Workers
  BY <1>1, <1>3 DEF Init, Exclusion, Level, Quiet, Workers, TestPC, RegionPC, SyncPC,
     ChunkPC
<1>5. \A t \in Threads : pc[t] \notin StoppedPC
  BY <1>1 DEF StoppedPC
<1>6. QED
  BY <1>1, <1>2, <1>3, <1>4, <1>5 DEF Running

(* Once the process is gone nothing happens any more.                      *)
LEMMA GoneStep == TypeOK /\ Gone /\ [Next]_vars => UNCHANGED vars
<1> SUFFICES ASSUME TypeOK, Gone, Next PROVE UNCHANGED vars
  OBVIOUS
<1>1. \A t \in Threads : pc[t] \in StoppedPC
  BY DEF Gone
<1>2. ASSUME NEW q \in Q
      PROVE  /\ ~ WorkerStart(q) /\ ~ WorkerRun(q) /\ ~ WorkerDone(q) /\ ~ KernelNests(q)
             /\ \A n \in Masks : ~ KernelSetNumThreads(q, n)
  BY <1>1 DEF WorkerStart, WorkerRun, WorkerDone, KernelNests, KernelSetNumThreads,
     Threads, StoppedPC
<1>3. ASSUME NEW c \in Callers
      PROVE  /\ ~ CheckAborts(c) /\ ~ CheckPasses(c) /\ ~ Enter(c) /\ ~ AddSync(c)
             /\ ~ ReadySync(c) /\ ~ WaitSync(c) /\ ~ Swap(c) /\ ~ AddChunk(c)
             /\ ~ ReadyChunk(c) /\ ~ WaitChunk(c) /\ ~ Leave(c) /\ ~ Fork(c)
             /\ \A n \in Masks : ~ SetNumThreads(c, n)
             /\ \A n \in Totals[c] : ~ Call(c, n)
  <2>1. pc[c] \in {"aborted", "crashed"}
    BY <1>1 DEF Threads, StoppedPC
  <2>2. QED
    BY <2>1 DEF CheckAborts, CheckPasses, Enter, AddSync, ReadySync, WaitSync, Swap,
       AddChunk, ReadyChunk, WaitChunk, ForQueues, Leave, Fork, SetNumThreads, Call
<1>4. ASSUME NEW t \in Threads PROVE ~ Sleep(t)
  <2>1. pc[t] \in {"aborted", "crashed"}
    BY <1>1 DEF StoppedPC
  <2>2. Awaited(t) = <<NumThreads, "none">>
    BY <2>1 DEF Awaited
  <2>3. QED
    BY <2>2 DEF Sleep, Q
<1>5. QED
  BY <1>2, <1>3, <1>4 DEF Next, WorkerStep, RegionStep, Stopped, Threads

(* One action at a time, the process goes on or is gone.                   *)
LEMMA NextInv ==
  ASSUME ~ Racing, ~ ForkMidRegion
  PROVE  Inv /\ [Next]_vars => Inv'
<1> SUFFICES ASSUME Inv, [Next]_vars PROVE Inv'
  OBVIOUS
<1>1. CASE UNCHANGED vars
  <2>1. UNCHANGED <<launched, queue_count, queue_pivot, nesting_level, state, task,
                     waiters, pc, num_threads, tid, i, region, runs>>
    BY <1>1 DEF vars, globals, queues, tls
  <2>2. TypeOK' /\ (Gone => Gone')
    BY <2>1 DEF Inv, TypeOK, Gone
  <2>3. Running => Running'
    BY <2>1 DEF Running, Exclusion, Level, Workers, Quiet, Opened, Remains, Counted,
       Globals, Slots, Masked, InRegion, Released, Filled, Ran, Chunk
  <2>4. QED
    BY <2>2, <2>3 DEF Inv
<1>2. CASE Gone
  BY <1>1, <1>2, GoneStep DEF Inv
<1> SUFFICES ASSUME TypeOK, Running, Next PROVE Inv'
  BY <1>1, <1>2 DEF Inv
<1>3. ASSUME NEW q \in Q, WorkerStep(q) PROVE Inv'
  BY <1>3, WorkerStartStep, WorkerRunStep, WorkerDoneStep, SleepStep
     DEF WorkerStep, Inv, Threads
<1>4. ASSUME NEW q \in Q, KernelNests(q) PROVE Inv'
  BY <1>4, StopStep DEF KernelNests, StoppedPC
<1>5. ASSUME NEW q \in Q, NEW n \in Masks, KernelSetNumThreads(q, n) PROVE Inv'
  BY <1>5, KernelSetNumThreadsStep DEF Inv
<1>6. ASSUME NEW c \in Callers, RegionStep(c) PROVE Inv'
  <2>1. CASE CheckAborts(c)
    BY <2>1, StopStep DEF CheckAborts, StoppedPC
  <2>2. CASE CheckPasses(c) \/ Enter(c) \/ Swap(c) \/ Leave(c) \/ Sleep(c)
    BY <2>2, CheckPassesStep, EnterStep, SwapStep, LeaveStep, SleepStep DEF Inv, Threads
  <2>3. CASE AddSync(c) \/ ReadySync(c) \/ WaitSync(c)
    BY <2>3, AddSyncStep, ReadySyncStep, WaitSyncStep DEF Inv
  <2>4. CASE AddChunk(c) \/ ReadyChunk(c) \/ WaitChunk(c)
    BY <2>4, AddChunkStep, ReadyChunkStep, WaitChunkStep DEF Inv
  <2>5. QED
    BY <1>6, <2>1, <2>2, <2>3, <2>4 DEF RegionStep
<1>7. ASSUME NEW c \in Callers, Fork(c) PROVE Inv'
  BY <1>7, ForkStep DEF Inv
<1>8. ASSUME NEW c \in Callers, NEW n \in Masks, SetNumThreads(c, n) PROVE Inv'
  BY <1>8, SetNumThreadsStep DEF Inv
<1>9. ASSUME NEW c \in Callers, NEW n \in Totals[c], Call(c, n) PROVE Inv'
  BY <1>9, CallStep DEF Inv
<1>10. CASE Stopped
  BY <1>1, <1>10 DEF Stopped
<1>11. QED
  BY <1>3, <1>4, <1>5, <1>6, <1>7, <1>8, <1>9, <1>10 DEF Next

(* The state of the queues, the workers and the globals is at all times    *)
(* the one that the place of the caller in parallel_for() calls for.       *)
THEOREM InvAlways ==
  ASSUME ~ Racing, ~ ForkMidRegion
  PROVE  Spec => []Inv
<1>1. Init => Inv
  BY InitInv
<1>2. Inv /\ [Next]_vars => Inv'
  BY NextInv
<1>3. QED
  BY <1>1, <1>2, PTL DEF Spec

-----------------------------------------------------------------------------
(* What the invariant shows.                                               *)

(* Between two regions the globals are back where the next region expects  *)
(* them.                                                                   *)
THEOREM Restored ==
  ASSUME ~ Racing, ~ ForkMidRegion
  PROVE  Spec => []RestoredBetween
<1>1. Inv => RestoredBetween
  BY DEF RestoredBetween, Inv, Running, Gone, Quiet, Level, InRegion, RegionPC, SyncPC,
     ChunkPC, Threads, StoppedPC
<1>2. QED
  BY <1>1, InvAlways, PTL

(* A task slot is written only while its queue is IDLE.                    *)
LEMMA SlotsStep ==
  ASSUME ~ ForkMidRegion, Inv, Next, NEW q \in Q, state[q] # "IDLE"
  PROVE  task'[q] = task[q]
<1>1. CASE Gone
  BY <1>1, GoneStep DEF Inv, vars, queues
<1> SUFFICES ASSUME TypeOK, Running PROVE task'[q] = task[q]
  BY <1>1 DEF Inv
<1>2. ASSUME NEW c \in Callers, Fork(c) PROVE FALSE
  BY <1>2 DEF Fork, Running, Quiet, InRegion, RegionPC, SyncPC, ChunkPC
<1>3. ASSUME NEW c \in Callers, NEW tk, AddTask(tk), pc[c] \in AddPC,
             i[c] < queue_count
      PROVE  task'[q] = task[q]
  <2>1. InRegion(c)
    BY <1>3 DEF InRegion, RegionPC, SyncPC, ChunkPC, AddPC
  <2>2. queue_pivot = i[c] /\ i[c] \in Q
    <3>1. queue_pivot = i[c]
      BY <1>3, <2>1 DEF Running, Globals
    <3>2. i[c] \in Q
      BY <1>3, <2>1, RegionTypes DEF Q, Masks
    <3>3. QED
      BY <3>1, <3>2
  <2>3. state[i[c]] = "IDLE"
    BY <1>3, <2>1, <2>2 DEF Running, Slots, Released, AddPC
  <2>4. task' = [task EXCEPT ![i[c]] = tk] /\ q # i[c]
    BY <1>3, <2>2, <2>3 DEF AddTask
  <2>5. QED
    BY <2>4 DEF TypeOK
<1>4. ASSUME NEW c \in Callers, AddSync(c) PROVE task'[q] = task[q]
  <2>1. InRegion(c) /\ queue_count = NumThreads /\ pc[c] \in AddPC
    BY <1>4 DEF AddSync, Running, Globals, InRegion, RegionPC, SyncPC, AddPC
  <2>2. QED
    BY <1>3, <1>4, <2>1 DEF AddSync
<1>5. ASSUME NEW c \in Callers, AddChunk(c) PROVE task'[q] = task[q]
  <2>1. InRegion(c) /\ queue_count = region[c].mask /\ pc[c] \in AddPC
    BY <1>5 DEF AddChunk, Running, Globals, InRegion, RegionPC, ChunkPC, AddPC
  <2>2. QED
    BY <1>3, <1>5, <2>1 DEF AddChunk
<1>6. ASSUME NEW r \in Q,
             WorkerStep(r) \/ KernelNests(r) \/ \E n \in Masks : KernelSetNumThreads(r, n)
      PROVE  UNCHANGED task
  BY <1>6 DEF WorkerStep, WorkerStart, WorkerRun, WorkerDone, Sleep, KernelNests,
     KernelSetNumThreads, queues
<1>7. ASSUME NEW c \in Callers, RegionStep(c), ~ AddSync(c), ~ AddChunk(c)
      PROVE  UNCHANGED task
  BY <1>7 DEF RegionStep, CheckAborts, CheckPasses, Enter, ReadySync, WaitSync, Swap,
     ReadyChunk, WaitChunk, ForQueues, Leave, Sleep, queues
<1>8. ASSUME NEW c \in Callers,
             \/ \E n \in Masks : SetNumThreads(c, n)
             \/ \E n \in Totals[c] : Call(c, n)
      PROVE  UNCHANGED task
  BY <1>8 DEF SetNumThreads, Call, queues
<1>9. QED
  BY <1>2, <1>4, <1>5, <1>6, <1>7, <1>8 DEF Next, Stopped, vars, queues

(* No task slot is overwritten while a worker may still read it: add_task() *)
(* writes, without the queue's mutex, only slots whose queue is IDLE.       *)
THEOREM SlotsAlwaysSafe ==
  ASSUME ~ Racing, ~ ForkMidRegion
  PROVE  Spec => SlotsSafe
<1>1. Inv /\ [Next]_vars => [\A q \in Q : state[q] # "IDLE" => task'[q] = task[q]]_vars
  BY SlotsStep
<1>2. QED
  BY <1>1, InvAlways, PTL DEF Spec, SlotsSafe

(* Kernels that run at the same time have different thread ids below the   *)
(* mask, and find a nesting level that forbids a region of their own.      *)
LEMMA TeamInv == Inv => DistinctIds /\ NestingSeen
<1> SUFFICES ASSUME TypeOK, Running PROVE DistinctIds /\ NestingSeen
  <2>1. Gone => \A q \in Q : ~ RunsChunk(q)
    BY DEF Gone, Threads, RunsChunk, StoppedPC
  <2>2. QED
    BY <2>1 DEF Inv, DistinctIds, NestingSeen
<1>1. ASSUME NEW q \in Q, RunsChunk(q)
      PROVE  /\ tid[q] = q /\ q < region[task[q].caller].mask
             /\ nesting_level >= 1
  <2>1. state[q] # "IDLE" /\ tid[q] = task[q].tid /\ task[q].fn = "chunk"
    BY <1>1 DEF RunsChunk, Running, Workers
  <2>2. PICK c \in Callers : /\ InRegion(c) /\ task[q].tid = q /\ task[q].caller = c
                             /\ q \in 0 .. region[c].mask - 1
    BY <2>1, BusyTask
  <2>3. nesting_level = 1
    BY <2>2 DEF Running, Level
  <2>4. QED
    BY <2>1, <2>2, <2>3, RegionTypes
<1>2. QED
  BY <1>1 DEF DistinctIds, NestingSeen

(* A kernel starts on a worker with the mask of its region.                *)
LEMMA MaskStep ==
  ASSUME Inv, NEW q \in Q, WorkerStart(q), task[q].fn = "chunk"
  PROVE  num_threads[q] = region[task[q].caller].mask
<1>1. state[q] = "READY" /\ pc[q] = "wait_ready"
  BY DEF WorkerStart, Pass
<1>2. TypeOK /\ Running
  BY <1>1 DEF Inv, Gone, Threads, StoppedPC
<1>3. PICK c \in Callers : /\ InRegion(c) /\ task[q].caller = c
                           /\ pc[c] \in {"ready_chunk", "wait_chunk"}
  BY <1>1, <1>2, BusyTask
<1>4. QED
  BY <1>1, <1>2, <1>3 DEF Running, Masked

(* The threads that run a kernel together have different ids below the     *)
(* mask, see a nesting level that makes a nested region abort, and start   *)
(* their chunk with the mask of the caller whose region it is.             *)
THEOREM TeamAlwaysSound ==
  ASSUME ~ Racing, ~ ForkMidRegion
  PROVE  Spec => TeamSound
<1>1. Inv => TypeOK /\ DistinctIds /\ NestingSeen
  BY TeamInv DEF Inv
<1>2. Inv /\ [Next]_vars =>
        [\A q \in Q : WorkerStart(q) /\ task[q].fn = "chunk" =>
           num_threads[q] = region[task[q].caller].mask]_vars
  BY MaskStep
<1>3. QED
  BY <1>1, <1>2, InvAlways, PTL DEF Spec, TeamSound, MaskSynced

-----------------------------------------------------------------------------
(* The threading layer implements ForkJoin.                                *)

Open == {c \in Callers : region[c] # NoRegion}

(* The callers in a region are those that are not idle.                    *)
LEMMA OpenCallers ==
  ASSUME TypeOK, Running, NEW c \in Callers
  PROVE  c \in Open <=> pc[c] # "idle"
<1>1. CASE pc[c] = "idle"
  BY <1>1 DEF Open, Running, Opened
<1>2. CASE pc[c] # "idle"
  <2>1. region[c].mask \in Masks
    BY <1>2 DEF Running, Opened
  <2>2. region[c] # NoRegion
    BY <2>1, NothingOpen DEF Masks
  <2>3. QED
    BY <1>2, <2>2 DEF Open
<1>3. QED
  BY <1>1, <1>2

LEMMA InitImplements == Init => FJ!Init
<1> SUFFICES ASSUME Init PROVE FJ!Init
  OBVIOUS
<1>1. Open = {}
  BY DEF Init, Open
<1>2. runs = [c \in Callers |-> FJ!NoRuns]
  BY DEF Init, NoRuns, FJ!NoRuns
<1>3. QED
  BY <1>1, <1>2 DEF FJ!Init, Open

(* A call begins a region.                                                 *)
LEMMA CallImplements ==
  ASSUME TypeOK, Running, NEW c \in Callers, NEW n \in Totals[c], Call(c, n)
  PROVE  FJ!Begin(c)
<1> DEFINE mask == IF num_threads[c] = 0 THEN NumThreads ELSE num_threads[c]
           r == [total |-> n, mask |-> mask, remain |-> n, old_queue_count |-> 0]
<1>1. /\ pc[c] = "idle" /\ region' = [region EXCEPT ![c] = r]
      /\ runs' = [runs EXCEPT ![c] = [j \in 0 .. n - 1 |-> 0]]
  BY DEF Call
<1>2. r.mask # 0
  BY DEF TypeOK, Masks, Threads
<1> HIDE DEF r
<1>3. r # NoRegion
  BY <1>2, NothingOpen
<1>4. c \notin Open
  BY <1>1, OpenCallers
<1>5. Open' = Open \cup {c}
  BY <1>1, <1>3 DEF Open, TypeOK
<1>6. QED
  BY <1>1, <1>4, <1>5 DEF FJ!Begin, Open

(* A region ends when every item has been run.                             *)
LEMMA LeaveImplements ==
  ASSUME TypeOK, Running, NEW c \in Callers, Leave(c)
  PROVE  FJ!End(c)
<1>1. /\ InRegion(c) /\ pc[c] = "leave" /\ region' = [region EXCEPT ![c] = NoRegion]
      /\ runs' = [runs EXCEPT ![c] = NoRuns]
  BY DEF Leave, InRegion, RegionPC, ChunkPC
<1>2. c \in Open
  BY <1>1, OpenCallers
<1>3. Open' = Open \ {c}
  BY <1>1 DEF Open, TypeOK
<1>4. ASSUME NEW j \in DOMAIN runs[c] PROVE runs[c][j] = 1
  <2>1. Counted(c) /\ region[c].total \in Nat /\ region[c].mask \in Nat \ {0}
    BY <1>1, RegionTypes DEF Running
  <2>2. j \in 0 .. region[c].total - 1
    BY <1>4, <2>1 DEF Counted
  <2>3. PICK k \in 0 .. region[c].mask - 1 : j \in Items(region[c], k)
    BY <2>1, <2>2, SharesCover
  <2>4. Ran(c, k)
    BY <1>1 DEF Ran
  <2>5. QED
    BY <2>1, <2>3, <2>4 DEF Counted
<1>5. QED
  BY <1>1, <1>2, <1>3, <1>4 DEF FJ!End, Open, NoRuns, FJ!NoRuns

(* A worker that runs its chunk runs items no thread has run.              *)
LEMMA WorkerRunImplements ==
  ASSUME TypeOK, Running, NEW q \in Q, WorkerRun(q)
  PROVE  UNCHANGED <<Open, runs>> \/ \E c \in Callers : FJ!Run(c)
<1>1. pc[q] = "run" /\ state[q] = "RUNNING" /\ UNCHANGED region
  BY DEF WorkerRun, Running, Workers
<1>2. UNCHANGED Open
  BY <1>1 DEF Open
<1>3. CASE task[q].fn # "chunk"
  BY <1>2, <1>3 DEF WorkerRun
<1>4. CASE task[q].fn = "chunk"
  <2>1. PICK c \in Callers :
          /\ InRegion(c) /\ Released(c, q) /\ pc[c] # "idle"
          /\ pc[c] \in {"ready_chunk", "wait_chunk"}
          /\ task[q] = Chunk(c, q)
          /\ q \in 0 .. region[c].mask - 1
    BY <1>1, <1>4, BusyTask
  <2> DEFINE chunk == Items(region[c], q)
             N == 0 .. region[c].total - 1
             f == runs[c]
  <2>2. runs' = [runs EXCEPT ![c] =
                   [j \in DOMAIN f |-> IF j \in chunk THEN f[j] + 1 ELSE f[j]]]
    BY <1>4, <2>1 DEF WorkerRun, Chunk, ChunkTask, Items
  <2>3. /\ Counted(c) /\ region[c].total \in Nat /\ region[c].mask \in Nat \ {0}
        /\ i[c] \in Nat
    BY <2>1, RegionTypes DEF Running
  <2>4. ~ Ran(c, q)
    BY <1>1, <2>1, <2>3 DEF Ran, Released, Q
  <2>5. f \in [N -> {0, 1}]
    BY <2>3 DEF Counted
  <2>6. ASSUME NEW j \in chunk PROVE j \in N /\ f[j] = 0
    <3>1. j \in N
      BY <2>1, <2>3, <2>6, ShareBounds DEF Items
    <3>2. f[j] # 1
      BY <2>1, <2>3, <2>4, <2>6 DEF Counted
    <3>3. QED
      BY <2>5, <3>1, <3>2
  <2> HIDE DEF chunk, N, f
  <2>7. chunk \in SUBSET {j \in DOMAIN f : f[j] = 0}
    BY <2>5, <2>6
  <2>8. [j \in DOMAIN f |-> IF j \in chunk THEN f[j] + 1 ELSE f[j]]
          = [j \in DOMAIN f |-> IF j \in chunk THEN 1 ELSE f[j]]
    BY <2>6
  <2>9. c \in Open
    BY <2>1, OpenCallers
  <2>10. FJ!Run(c)
    <3>1. runs' = [runs EXCEPT ![c] = [j \in DOMAIN @ |-> IF j \in chunk THEN 1 ELSE @[j]]]
      BY <2>2, <2>8 DEF f
    <3>2. chunk \in SUBSET {j \in DOMAIN runs[c] : runs[c][j] = 0}
      BY <2>7 DEF f
    <3>3. QED
      BY <1>2, <2>9, <3>1, <3>2 DEF FJ!Run, Open
  <2>11. QED
    BY <2>10
<1>5. QED
  BY <1>3, <1>4

(* A fork finds no region open and leaves none.                            *)
LEMMA ForkImplements ==
  ASSUME ~ ForkMidRegion, TypeOK, Running, NEW c \in Callers, Fork(c)
  PROVE  UNCHANGED <<Open, runs>>
<1>1. \A d \in Callers : pc[d] = "idle"
  BY DEF Fork
<1>2. \A d \in Callers : region[d] = NoRegion /\ runs[d] = NoRuns
  BY <1>1 DEF Running, Opened
<1>3. runs = [d \in Callers |-> NoRuns]
  BY <1>2 DEF TypeOK
<1>4. Open = {} /\ Open' = {}
  BY <1>2 DEF Open, Fork
<1>5. QED
  BY <1>3, <1>4 DEF Fork

(* Filling the slots keeps the region open.                                *)
LEMMA RegionKept ==
  ASSUME TypeOK, Running, NEW c \in Callers, Swap(c) \/ AddChunk(c)
  PROVE  UNCHANGED <<Open, runs>>
<1>1. /\ pc[c] \in {"swap", "add_chunk"} /\ UNCHANGED runs
      /\ \/ \E x \in Nat : region' = [region EXCEPT ![c].old_queue_count = x]
         \/ \E x : region' = [region EXCEPT ![c].remain = x]
         \/ UNCHANGED region
  <2>1. CASE Swap(c)
    <3>1. queue_count \in Nat
      BY DEF TypeOK, Masks
    <3>2. QED
      BY <2>1, <3>1 DEF Swap
  <2>2. CASE AddChunk(c)
    BY <2>2 DEF AddChunk
  <2>3. QED
    BY <2>1, <2>2
<1>2. region[c].mask # 0
  BY <1>1 DEF Running, Opened, Masks
<1>3. region'[c].mask = region[c].mask /\ \A d \in Callers : d # c => region'[d] = region[d]
  BY <1>1 DEF TypeOK
<1>4. region[c] # NoRegion /\ region'[c] # NoRegion
  BY <1>2, <1>3, NothingOpen
<1>5. Open' = Open
  BY <1>3, <1>4 DEF Open
<1>6. QED
  BY <1>1, <1>5

LEMMA StepImplements ==
  ASSUME ~ ForkMidRegion, Inv, [Next]_vars
  PROVE  [FJ!Next]_(FJ!fjvars)
<1> SUFFICES ASSUME TypeOK, Running, Next
             PROVE  UNCHANGED <<Open, runs>> \/ \E c \in Callers : FJ!Begin(c) \/ FJ!Run(c) \/ FJ!End(c)
  <2>1. UNCHANGED vars => UNCHANGED <<Open, runs>>
    BY DEF vars, Open
  <2>2. Gone => UNCHANGED vars
    BY GoneStep DEF Inv
  <2>3. QED
    BY <2>1, <2>2 DEF Inv, FJ!Next, FJ!fjvars, Open
<1>1. ASSUME NEW q \in Q, WorkerStep(q)
      PROVE  UNCHANGED <<Open, runs>> \/ \E c \in Callers : FJ!Run(c)
  BY <1>1, WorkerRunImplements DEF WorkerStep, WorkerStart, WorkerDone, Sleep, Open
<1>2. ASSUME NEW q \in Q, KernelNests(q) \/ \E n \in Masks : KernelSetNumThreads(q, n)
      PROVE  UNCHANGED <<Open, runs>>
  BY <1>2 DEF KernelNests, KernelSetNumThreads, Open
<1>3. ASSUME NEW c \in Callers, RegionStep(c)
      PROVE  UNCHANGED <<Open, runs>> \/ FJ!End(c)
  BY <1>3, RegionKept, LeaveImplements
     DEF RegionStep, CheckAborts, CheckPasses, Enter, AddSync, ReadySync, WaitSync,
         ReadyChunk, WaitChunk, ForQueues, Sleep, Open
<1>4. ASSUME NEW c \in Callers, NEW n \in Masks, SetNumThreads(c, n)
      PROVE  UNCHANGED <<Open, runs>>
  BY <1>4 DEF SetNumThreads, Open
<1>5. QED
  BY <1>1, <1>2, <1>3, <1>4, ForkImplements, CallImplements DEF Next, Stopped, vars, Open

(* Between a call of parallel_for() and its return every item is given to  *)
(* the kernel exactly once: the workqueue implements ForkJoin.             *)
THEOREM Implements ==
  ASSUME ~ Racing, ~ ForkMidRegion
  PROVE  Spec => ForkJoinSpec
<1>1. Init => FJ!Init
  BY InitImplements
<1>2. Inv /\ [Next]_vars => [FJ!Next]_(FJ!fjvars)
  BY StepImplements
<1>3. QED
  BY <1>1, <1>2, InvAlways, PTL DEF Spec, ForkJoinSpec, FJ!Spec

=============================================================================
