----------------------------- MODULE CudaMemory -----------------------------
(***************************************************************************)
(* Device memory in numba/cuda/cudadrv/driver.py.  memalloc() gives out    *)
(* reference-counted pointers; when the last one goes, the block joins a   *)
(* queue of pending deallocations, which is flushed when it is too long or *)
(* too big, when an allocation finds no memory, and on reset(), but never  *)
(* while somebody is inside defer_cleanup().                               *)
(*                                                                         *)
(* Finalizers run wherever the interpreter can collect garbage, so the     *)
(* code re-enters itself, on top of whatever its thread was doing, and     *)
(* another thread may run whenever a call is made.  A thread is a stack of *)
(* activations; one step is a stretch of code without a call in it.        *)
(***************************************************************************)
EXTENDS Naturals, Sequences, FiniteSets

CONSTANTS Threads,      \* the host threads that use the context
          Addrs,        \* the blocks of device memory, each of size 1
          MaxCount,     \* CUDA_DEALLOCS_COUNT
          MaxBytes,     \* _max_pending_bytes
          MayDefer,     \* does the program use defer_cleanup()?
          MayReset,     \* does it use reset()?
          MaxAllocs,    \* bound: successful allocations
          MaxHandles,   \* bound: pointers to one allocation at a time
          MaxOps,       \* bound: operations one thread starts
          MaxErrors     \* bound: deallocations the driver refuses

ASSUME CudaMemoryAssumption ==
  /\ Addrs \subseteq Nat \ {0}      \* 0 stands for no address
  /\ MaxCount \in Nat /\ MaxBytes \in Nat
  /\ MayDefer \in BOOLEAN /\ MayReset \in BOOLEAN
  /\ MaxAllocs \in Nat /\ MaxHandles \in Nat /\ MaxOps \in Nat /\ MaxErrors \in Nat

Ids == 1 .. MaxAllocs      \* allocations, numbered as they are made
Kinds == {"own", "view"}

VARIABLES
  device,       \* [Addrs -> the allocation that holds the block, 0 if free]
  mem,          \* [Ids -> [addr, refct, alive]]: MemoryPointers, alive: its finalizer
  allocations,  \* the allocations in the memory manager's dictionary
  queue,        \* _PendingDeallocs._cons
  size,         \* _PendingDeallocs._size
  disabled,     \* _PendingDeallocs._disable_count
  inside,       \* [Threads -> Nat]: the defer_cleanup() blocks a thread is in
  handles,      \* [Ids -> [Kinds -> Nat]]: the pointers the program can reach
  garbage,      \* [Ids -> [Kinds -> Nat]]: pointers in reference cycles, not collected yet
  stack,        \* [Threads -> Seq(activation)], innermost first
  ops,          \* [Threads -> Nat]
  errors,       \* refused deallocations so far
  lost,         \* the allocations whose deallocation the driver refused
  stale,        \* the allocations that were in the dictionary at a reset()
  oom,          \* the pending allocations a failed memalloc() left unflushed
  badfree,      \* was a block freed that its allocation did not hold?
  promised      \* did the defer_cleanup() begin when no flush was running?

heap   == <<device, mem, allocations>>
pend   == <<queue, size>>
defer  == <<disabled, inside>>
ghosts == <<errors, lost, stale, oom, badfree, promised>>
vars   == <<heap, pend, defer, handles, garbage, stack, ops, ghosts>>

Frame(op, pc) == [op |-> op, pc |-> pc, id |-> 0, n |-> 0, todo |-> {}]
Top(t) == Head(stack[t])
In(t, op, pc) == stack[t] # <<>> /\ Top(t).op = op /\ Top(t).pc = pc
Goto(t, fr) == stack' = [stack EXCEPT ![t] = <<fr>> \o Tail(@)]
Push(t, fr) == stack' = [stack EXCEPT ![t] = <<fr>> \o @]
Pop(t) == stack' = [stack EXCEPT ![t] = Tail(@)]

Idle(t) == stack[t] = <<>>
Resetting(t) == \E i \in DOMAIN stack[t] : stack[t][i].op = "reset"
Flushing == \E t \in Threads : \E i \in DOMAIN stack[t] : stack[t][i].op = "clear"
IsDisabled == disabled > 0
Pointers(h, i) == h[i]["own"] + h[i]["view"]
Views(i) == handles[i]["view"] + garbage[i]["view"]

\* A thread starts an operation.  reset() is for "shutdown or for cleaning up
\* between tests": it does not overlap other threads.
Begin(t) ==
  /\ Idle(t) /\ ops[t] < MaxOps /\ \A u \in Threads : ~Resetting(u)
  /\ ops' = [ops EXCEPT ![t] = @ + 1]

----------------------------------------------------------------------------
Init ==
  /\ device = [a \in Addrs |-> 0]
  /\ mem = [i \in Ids |-> [addr |-> 0, refct |-> 0, alive |-> FALSE]]
  /\ allocations = {} /\ queue = <<>> /\ size = 0
  /\ disabled = 0 /\ inside = [t \in Threads |-> 0]
  /\ handles = [i \in Ids |-> [k \in Kinds |-> 0]]
  /\ garbage = [i \in Ids |-> [k \in Kinds |-> 0]]
  /\ stack = [t \in Threads |-> <<>>] /\ ops = [t \in Threads |-> 0]
  /\ errors = 0 /\ lost = {} /\ stale = {} /\ oom = {}
  /\ badfree = FALSE /\ promised = FALSE

\* memalloc(): ask the driver; if it has nothing, flush and ask once more.
Alloc(t) ==
  /\ Begin(t) /\ \E i \in Ids : mem[i].addr = 0
  /\ Push(t, Frame("alloc", "try"))
  /\ UNCHANGED <<heap, pend, defer, handles, garbage, ghosts>>

FreeAddrs == {a \in Addrs : device[a] = 0}
Taken == {i \in Ids : mem[i].addr # 0 \/ \E a \in Addrs : device[a] = i}
FreshId == CHOOSE i \in Ids \ Taken : \A j \in Ids \ Taken : i <= j

Obtain(t) ==
  /\ In(t, "alloc", "try") \/ In(t, "alloc", "retry")
  /\ FreeAddrs # {} /\ Ids \ Taken # {}
  /\ \E a \in FreeAddrs :
       /\ device' = [device EXCEPT ![a] = FreshId]
       /\ Goto(t, [Top(t) EXCEPT !.pc = "register", !.id = FreshId, !.n = a])
  /\ UNCHANGED <<mem, allocations, pend, defer, handles, garbage, ops, ghosts>>

\* Mutant of Flush: the allocation is tried again without a flush.
FlushNothing(t) ==
  Goto(t, [Top(t) EXCEPT !.pc = "retry", !.todo = {queue[k] : k \in DOMAIN queue}])
Flush(t) ==
  stack' = [stack EXCEPT ![t] =
    <<Frame("clear", "alloc"), [Top(t) EXCEPT !.pc = "retry",
        !.todo = {queue[k] : k \in DOMAIN queue}]>> \o Tail(@)]

OutOfMemory(t) ==
  /\ In(t, "alloc", "try") /\ FreeAddrs = {}
  /\ Flush(t)
  /\ UNCHANGED <<heap, pend, defer, handles, garbage, ops, ghosts>>

FailAgain(t) ==
  /\ In(t, "alloc", "retry") /\ FreeAddrs = {}
  /\ Pop(t)
  /\ oom' = oom \cup (Top(t).todo \cap {queue[k] : k \in DOMAIN queue})
  /\ UNCHANGED <<heap, pend, defer, handles, garbage, ops, errors, lost, stale,
                 badfree, promised>>

\* An AutoFreePointer starts with no reference; own() takes the first.
Register(t) ==
  LET i == Top(t).id IN
  /\ In(t, "alloc", "register")
  /\ mem' = [mem EXCEPT ![i] = [addr |-> Top(t).n, refct |-> 1, alive |-> TRUE]]
  /\ allocations' = allocations \cup {i}
  /\ handles' = [handles EXCEPT ![i]["own"] = 1]
  /\ Pop(t)
  /\ UNCHANGED <<device, pend, defer, garbage, ops, ghosts>>

\* OwnedPointer.__init__ counts its pointer.
Counted(m) == [m EXCEPT !.refct = @ + 1]

View(t, i) ==
  /\ Begin(t)
  /\ mem[i].alive /\ Pointers(handles, i) \in 1 .. MaxHandles - 1
  /\ mem' = [mem EXCEPT ![i] = Counted(@)]
  /\ handles' = [handles EXCEPT ![i]["view"] = @ + 1]
  /\ UNCHANGED <<device, allocations, pend, defer, garbage, stack, ghosts>>

\* The program loses sight of a pointer that is part of a reference cycle.
Lose(t, i, k) ==
  /\ Begin(t)
  /\ handles[i][k] > 0
  /\ handles' = [handles EXCEPT ![i][k] = @ - 1]
  /\ garbage' = [garbage EXCEPT ![i][k] = @ + 1]
  /\ UNCHANGED <<heap, pend, defer, stack, ghosts>>

----------------------------------------------------------------------------
(* Finalizers *)

Unreferenced(m) == m.refct = 0

\* The finalizer of a block: it leaves the dictionary (a dictionary that has
\* other entries and not this one raises, and the block is never queued), joins
\* the queue, and add_item goes on to count it.
Finalize(t, i) ==
  IF allocations = {} \/ i \in allocations
    THEN /\ allocations' = allocations \ {i}
         /\ queue' = Append(queue, i)
         /\ Push(t, [Frame("add", "count") EXCEPT !.id = i])
    ELSE UNCHANGED <<allocations, queue, stack>>

\* One pointer goes: deref() unless its block is dead already.  A view holds the
\* MemoryPointer itself, which otherwise only the dictionary does.
Deref(t, i, views) ==
  LET m == [mem[i] EXCEPT !.refct = @ - 1] IN
  IF ~mem[i].alive
    THEN UNCHANGED <<mem, allocations, queue, stack>>
    ELSE IF Unreferenced(m) \/ (i \notin allocations /\ views = 0)
      THEN mem' = [mem EXCEPT ![i] = [m EXCEPT !.alive = FALSE]] /\ Finalize(t, i)
      ELSE mem' = [mem EXCEPT ![i] = m] /\ UNCHANGED <<allocations, queue, stack>>

Drop(t, i, k) ==
  /\ Begin(t)
  /\ handles[i][k] > 0
  /\ handles' = [handles EXCEPT ![i][k] = @ - 1]
  /\ Deref(t, i, Views(i) - (IF k = "view" THEN 1 ELSE 0))
  /\ UNCHANGED <<device, size, defer, garbage, ghosts>>

\* The collector finds a pointer in a cycle, on any thread, at any call.
Collect(t, i, k) ==
  /\ garbage[i][k] > 0
  /\ garbage' = [garbage EXCEPT ![i][k] = @ - 1]
  /\ Deref(t, i, Views(i) - (IF k = "view" THEN 1 ELSE 0))
  /\ UNCHANGED <<device, size, defer, handles, ops, ghosts>>

\* add_item: "self._size += int(size)" reads, calls, and writes.
Count(t) ==
  /\ In(t, "add", "count")
  /\ Goto(t, [Top(t) EXCEPT !.pc = "store", !.n = size])
  /\ UNCHANGED <<heap, pend, defer, handles, garbage, ops, ghosts>>

Store(t) ==
  /\ In(t, "add", "store")
  /\ size' = Top(t).n + 1
  /\ IF Len(queue) > MaxCount \/ size' > MaxBytes
       THEN Goto(t, Frame("clear", "add"))
       ELSE Pop(t)
  /\ UNCHANGED <<heap, queue, defer, handles, garbage, ops, ghosts>>

----------------------------------------------------------------------------
(* Flushing: _PendingDeallocs.clear *)

\* Mutant of Popped: the item leaves the queue after its deallocation only.
PoppedLate == queue
Popped == Tail(queue)

\* An allocation notes that its flush was disabled.
Below(t) ==
  IF Top(t).pc = "alloc"
    THEN <<[stack[t][2] EXCEPT !.todo = {}]>> \o Tail(Tail(stack[t]))
    ELSE Tail(stack[t])

\* The frame's pc remembers who called, its n that is_disabled was tested: once,
\* before the first item.
Clear(t) ==
  /\ stack[t] # <<>> /\ Top(t).op = "clear" /\ Top(t).id = 0
  /\ \/ /\ Top(t).n = 0 /\ IsDisabled
        /\ stack' = [stack EXCEPT ![t] = Below(t)]
        /\ UNCHANGED pend
     \/ /\ Top(t).n = 1 \/ ~IsDisabled
        /\ queue = <<>>
        /\ Pop(t)
        /\ size' = 0 /\ UNCHANGED queue
     \/ /\ Top(t).n = 1 \/ ~IsDisabled
        /\ queue # <<>>
        /\ Goto(t, [Top(t) EXCEPT !.id = Head(queue), !.n = 1])
        /\ queue' = Popped /\ UNCHANGED size
  /\ UNCHANGED <<heap, defer, handles, garbage, ops, ghosts>>

Dealloc(t) ==
  LET i == Top(t).id
      a == mem[i].addr
  IN
  /\ stack[t] # <<>> /\ Top(t).op = "clear" /\ Top(t).id # 0
  /\ badfree' = (badfree \/ device[a] # i)
  /\ device' = [device EXCEPT ![a] = IF @ = i THEN 0 ELSE @]
  /\ Goto(t, [Top(t) EXCEPT !.id = 0])
  /\ UNCHANGED <<mem, allocations, pend, defer, handles, garbage, ops, errors, lost,
                 stale, oom, promised>>

\* Mutant of Kept: what is left in the queue is dropped.
KeptNothing == <<>>
Kept == queue

\* The driver refuses.  The error ends the flush, and the allocation or the
\* reset that asked for it; a finalizer's error is only reported.
DeallocFails(t) ==
  /\ stack[t] # <<>> /\ Top(t).op = "clear" /\ Top(t).id # 0 /\ errors < MaxErrors
  /\ errors' = errors + 1
  /\ lost' = lost \cup {Top(t).id}
  /\ queue' = Kept
  /\ stack' = [stack EXCEPT ![t] = IF Top(t).pc = "add" THEN Tail(@) ELSE Tail(Tail(@))]
  /\ UNCHANGED <<heap, size, defer, handles, garbage, ops, stale, oom, badfree, promised>>

----------------------------------------------------------------------------
(* defer_cleanup() and reset() *)

EnterDefer(t) ==
  /\ MayDefer /\ Begin(t)
  /\ disabled' = disabled + 1
  /\ inside' = [inside EXCEPT ![t] = @ + 1]
  /\ promised' = IF \E u \in Threads : inside[u] > 0 THEN promised ELSE ~Flushing
  /\ UNCHANGED <<heap, pend, handles, garbage, stack, errors, lost, stale, oom, badfree>>

\* Mutant of Less: a flag in place of the count.
LessAll(n) == 0
Less(n) == n - 1

ExitDefer(t) ==
  /\ Idle(t) /\ inside[t] > 0 /\ \A u \in Threads : ~Resetting(u)
  /\ disabled' = Less(disabled)
  /\ inside' = [inside EXCEPT ![t] = @ - 1]
  /\ promised' = (promised /\ \E u \in Threads : inside'[u] > 0)
  /\ UNCHANGED <<heap, pend, handles, garbage, stack, ops, errors, lost, stale, oom, badfree>>

\* Context.reset: the dictionary is emptied, which finalizes the blocks that
\* nothing else holds, one after the other, and the queue is flushed.
Reset(t) ==
  /\ MayReset /\ Begin(t) /\ \A u \in Threads : Idle(u)
  /\ allocations' = {}
  /\ stale' = stale \cup allocations
  /\ Push(t, [Frame("reset", "each") EXCEPT !.todo = {i \in allocations : Views(i) = 0}])
  /\ UNCHANGED <<device, mem, pend, defer, handles, garbage, errors, lost, oom,
                 badfree, promised>>

ResetEach(t) ==
  /\ In(t, "reset", "each")
  /\ \E i \in Top(t).todo :
       /\ mem[i].alive
       /\ mem' = [mem EXCEPT ![i].alive = FALSE]
       /\ queue' = Append(queue, i)
       /\ Push(t, [Frame("add", "count") EXCEPT !.id = i])
  /\ UNCHANGED <<device, allocations, size, defer, handles, garbage, ops, ghosts>>

FlushAfter(t) ==
  stack' = [stack EXCEPT ![t] = <<Frame("clear", "reset"), [Top(t) EXCEPT !.pc = "flushed"]>> \o Tail(@)]

ResetFlush(t) ==
  /\ In(t, "reset", "each") /\ \A i \in Top(t).todo : ~mem[i].alive
  /\ FlushAfter(t)
  /\ UNCHANGED <<heap, pend, defer, handles, garbage, ops, ghosts>>

ResetEnd(t) ==
  /\ In(t, "reset", "flushed")
  /\ Pop(t)
  /\ UNCHANGED <<heap, pend, defer, handles, garbage, ops, ghosts>>

----------------------------------------------------------------------------
Step(t) ==
  \/ Alloc(t) \/ Obtain(t) \/ OutOfMemory(t) \/ FailAgain(t) \/ Register(t)
  \/ Count(t) \/ Store(t) \/ Clear(t) \/ Dealloc(t) \/ DeallocFails(t)
  \/ EnterDefer(t) \/ ExitDefer(t) \/ Reset(t) \/ ResetEach(t) \/ ResetFlush(t) \/ ResetEnd(t)
  \/ \E i \in Ids :
       View(t, i) \/ \E k \in Kinds : Lose(t, i, k) \/ Drop(t, i, k) \/ Collect(t, i, k)

Next == \E t \in Threads : Step(t)
Spec == Init /\ [][Next]_vars

----------------------------------------------------------------------------
(* Properties *)

Queued == {queue[k] : k \in DOMAIN queue}
Frames == UNION {{stack[t][k] : k \in DOMAIN stack[t]} : t \in Threads}
Quiet == \A t \in Threads : Idle(t)

\* Shapes; a reference count is the number of pointers to the block (the code
\* asserts that it never passes below zero).
TypeOK ==
  /\ device \in [Addrs -> 0 .. MaxAllocs] /\ allocations \subseteq Ids
  /\ Queued \subseteq Ids /\ size \in Nat /\ lost \subseteq Ids
  /\ disabled \in Nat /\ ops \in [Threads -> 0 .. MaxOps]
  /\ \A i \in Ids : mem[i].alive => mem[i].refct = Pointers(handles, i) + Pointers(garbage, i)

\* A block is given back by the allocation that holds it and once only, whatever
\* finalizers run during a flush and however the address is reused; the
\* dictionary never meets an address twice.
NoDoubleFree ==
  /\ ~badfree
  /\ \A i, j \in allocations : mem[i].addr = mem[j].addr => i = j
  /\ \A k, l \in DOMAIN queue : queue[k] = queue[l] => k = l

\* While the program can reach a pointer, or still has one that was not
\* collected, its block is not given back (until reset(), which says it does).
NoUseAfterFree ==
  \A i \in Ids \ stale :
    Pointers(handles, i) + Pointers(garbage, i) > 0 => device[mem[i].addr] = i

\* A block nobody points to is on its way: queued, being freed, or refused by the
\* driver.  (A view that outlives reset() may leak its block.)
NoLeak ==
  \A a \in Addrs :
    LET i == device[a] IN
    i # 0 =>
      \/ Pointers(handles, i) + Pointers(garbage, i) > 0
      \/ i \in Queued \cup lost \cup stale
      \/ \E fr \in Frames : fr.id = i

\* Memory is given back, once, and not before the last pointer to it is gone.
MemorySafe == TypeOK /\ NoDoubleFree /\ NoUseAfterFree /\ NoLeak

\* An allocation fails only for want of memory that a flush could not have given
\* back: nothing that was pending when it first failed is still in the queue,
\* unless the flush was disabled or the driver refused.
OomMeansFull == oom = {}

\* From a defer_cleanup() that begins when no flush is running to its end, nested
\* ones included, no deallocation reaches the driver.
Deferred ==
  [][promised /\ promised' => \A a \in Addrs : device[a] # 0 => device'[a] = device[a]]_vars

\* reset() frees all it found except what views hold, what is deferred, what
\* another thread is freeing, and what the driver refused.
ResetFrees ==
  [][\A t \in Threads :
       In(t, "reset", "flushed") /\ stack'[t] = <<>> /\ ~IsDisabled =>
         \A a \in Addrs : device[a] \in Top(t).todo =>
           device[a] \in lost \/ \E fr \in Frames : fr.id = device[a]]_vars

\* Deallocations reach the driver when they were promised to, not before.
FreedOnTime == Deferred /\ ResetFrees

\* When nothing runs and nothing was deferred, what is pending is within both
\* limits.
PendingBounded ==
  Quiet /\ ~IsDisabled => Len(queue) <= MaxCount /\ Len(queue) <= MaxBytes
============================================================================
