-------------------------------- MODULE NRT --------------------------------
(***************************************************************************)
(* The Numba runtime (numba/core/runtime/nrt.cpp): reference-counted       *)
(* MemInfos, their data, their destructors and the statistics.             *)
(*                                                                         *)
(* Compiled code runs without the GIL, so several threads are inside the   *)
(* runtime at once.  Each atomic operation, each call of the allocator and *)
(* each access to a statistics counter is an action.                       *)
(*                                                                         *)
(* What the runtime is used for is modelled by the references programs     *)
(* hold: a counted reference is in a variable of a thread (a value of      *)
(* compiled code, or a Python MemInfo object), or in the payload of        *)
(* another MemInfo (an element of a list or a set, the parent of an array).*)
(***************************************************************************)
EXTENDS Integers, Sequences, FiniteSets

CONSTANTS
  Threads,
  NumVars,     \* how many references a thread's variables hold
  Addrs,       \* the addresses malloc() returns
  NULL,
  Kinds,       \* the kinds of MemInfo that are used
  Fails,       \* may malloc() and realloc() return NULL?
  NRT_STATS,   \* config.NRT_STATS: are the statistics switched on?
  Word,        \* the range of a counter, 2^64
  MaxRefs      \* the bound of a reference count

ASSUME NRTAssumption ==
  /\ NumVars \in Nat /\ MaxRefs \in Nat
  /\ IsFiniteSet(Threads) /\ IsFiniteSet(Addrs)
  /\ Word \in Nat /\ Word > Cardinality(Addrs)
  /\ NULL \notin Addrs
  /\ Kinds \subseteq {"plain", "external", "managed", "varsize"}
  /\ {Fails, NRT_STATS} \subseteq BOOLEAN

(* A variable is named by its thread.                                      *)
Vars == Threads \X (1 .. NumVars)
Own(t) == {v \in Vars : v[1] = t}

VARIABLES
  heap,      \* address -> "free" or the allocator it was taken from
  refct,     \* MemInfo.refct
  kind,      \* which constructor made it (dtor and external_allocator)
  data,      \* MemInfo.data of a varsize MemInfo: its separate data block
  elem,      \* the counted reference in the MemInfo's payload
  var,       \* the counted references in the threads' variables
  stack,     \* the runtime's frames on each thread's stack, top first
  shutting,  \* TheMSys.shutting
  enabled,   \* TheMSys.stats.enabled
  alloc, free, mi_alloc, mi_free,  \* the statistics
  crashed    \* a destructor was given a NULL payload

info == <<refct, kind, data, elem>>
stats == <<enabled, alloc, free, mi_alloc, mi_free>>
vars == <<heap, info, var, stack, shutting, stats, crashed>>

MaybeAddr == Addrs \cup {NULL}

Init ==
  /\ heap = [a \in Addrs |-> "free"]
  /\ refct = [a \in Addrs |-> 0]
  /\ kind = [a \in Addrs |-> "none"]
  /\ data = [a \in Addrs |-> NULL]
  /\ elem = [a \in Addrs |-> NULL]
  /\ var = [v \in Vars |-> NULL]
  /\ stack = [t \in Threads |-> <<>>]
  /\ shutting = FALSE
  /\ enabled = FALSE
  /\ alloc = 0 /\ free = 0 /\ mi_alloc = 0 /\ mi_free = 0
  /\ crashed = FALSE

-----------------------------------------------------------------------------
(* Frames.  A frame says where it is and names its MemInfo, the data block *)
(* it works on, and the kind and the variable of a MemInfo being made.     *)
Frame(at, i, d, k, v) ==
  [at |-> at, info |-> i, data |-> d, kind |-> k, var |-> v]
NoVar == <<NULL, 0>>
Top(t) == Head(stack[t])
Idle(t) == stack[t] = <<>> /\ ~ crashed
At(t, l) == stack[t] # <<>> /\ Top(t).at = l /\ ~ crashed
Push(t, f) == stack' = [stack EXCEPT ![t] = <<f>> \o @]
Become(t, f) == stack' = [stack EXCEPT ![t] = <<f>> \o Tail(@)]
Goto(t, l) == Become(t, [Top(t) EXCEPT !.at = l])
Return(t) == stack' = [stack EXCEPT ![t] = Tail(@)]

Counted(n) == IF enabled THEN (n + 1) % Word ELSE n
Busy(i) == \E t \in Threads : \E k \in DOMAIN stack[t] : stack[t][k].info = i

(* Bound: unless malloc() may fail, an allocation starts only when free    *)
(* addresses are left for it and for those the other threads are in.       *)
Allocating ==
  {t \in Threads : \E k \in DOMAIN stack[t] :
     stack[t][k].at \in {"malloc_data", "count_data", "malloc_mi", "clear",
                        "varsize_free", "count_varsize_free", "varsize_alloc"}}
Room(n) ==
  Fails \/ Cardinality({a \in Addrs : heap[a] = "free"})
             >= n + 2 * Cardinality(Allocating)

(* malloc(): a free address, or NULL.                                      *)
Mallocs(from, a) ==
  \/ /\ a \in Addrs
     /\ heap[a] = "free"
     /\ heap' = [heap EXCEPT ![a] = from]
  \/ /\ Fails
     /\ a = NULL
     /\ UNCHANGED heap

(* free() through an allocator: anything but a block of its own corrupts   *)
(* the heap.                                                               *)
Frees(from, a) ==
  heap' = [heap EXCEPT ![a] = IF @ = from THEN "free" ELSE "corrupt"]

(* The allocator NRT_Allocate_External and NRT_dealloc choose.             *)
AllocatorOf(k) == IF k = "external" THEN "external" ELSE "system"

-----------------------------------------------------------------------------
(* NRT_MemSys_enable_stats(), as _Runtime.initialize() calls it: before    *)
(* any compiled code runs.                                                 *)
EnableStats ==
  /\ NRT_STATS /\ ~ enabled
  /\ \A t \in Threads : Idle(t)
  /\ \A a \in Addrs : heap[a] = "free"
  /\ enabled' = TRUE
  /\ UNCHANGED <<heap, info, var, stack, shutting, alloc, free, mi_alloc,
                 mi_free, crashed>>

(* NRT_MemSys_shutdown(): the interpreter exits, whatever threads do.      *)
Shutdown ==
  /\ ~ shutting /\ ~ crashed
  /\ shutting' = TRUE
  /\ UNCHANGED <<heap, info, var, stack, stats, crashed>>

-----------------------------------------------------------------------------
(* NRT_MemInfo_alloc, _alloc_dtor, _alloc_safe, _alloc_aligned ("plain"),  *)
(* _alloc_external ("external"), NRT_MemInfo_new for memory another owner  *)
(* destroys ("managed") and _new_varsize_dtor ("varsize").                 *)
New(t, v, k) ==
  /\ Idle(t)
  /\ v \in Own(t) /\ var[v] = NULL
  /\ Room(IF k = "varsize" THEN 2 ELSE 1)
  /\ Push(t, Frame(IF k = "varsize" THEN "malloc_data" ELSE "malloc_mi",
                   NULL, NULL, k, v))
  /\ UNCHANGED <<heap, info, var, shutting, stats, crashed>>

MallocData(t) ==
  /\ At(t, "malloc_data")
  /\ \E a \in MaybeAddr :
       /\ Mallocs("system", a)
       /\ Become(t, [Top(t) EXCEPT !.at = "count_data", !.data = a])
  /\ UNCHANGED <<info, var, shutting, stats, crashed>>

(* The allocation is counted even when it failed.                          *)
CountData(t) ==
  /\ At(t, "count_data")
  /\ alloc' = Counted(alloc)
  /\ IF Top(t).data = NULL THEN Return(t) ELSE Goto(t, "malloc_mi")
  /\ UNCHANGED <<heap, info, var, shutting, enabled, free, mi_alloc, mi_free,
                 crashed>>

MallocInfo(t) ==
  /\ At(t, "malloc_mi")
  /\ \E a \in MaybeAddr :
       /\ Mallocs(AllocatorOf(Top(t).kind), a)
       /\ Become(t, [Top(t) EXCEPT !.at = "count_mi", !.info = a])
  /\ UNCHANGED <<info, var, shutting, stats, crashed>>

CountInfo(t) ==
  /\ At(t, "count_mi")
  /\ alloc' = Counted(alloc)
  /\ IF Top(t).info = NULL THEN Return(t) ELSE Goto(t, "init")
  /\ UNCHANGED <<heap, info, var, shutting, enabled, free, mi_alloc, mi_free,
                 crashed>>

(* NRT_MemInfo_init(): one reference, which the caller gets.               *)
InitInfo(t) ==
  /\ At(t, "init")
  /\ LET f == Top(t) IN
       /\ refct' = [refct EXCEPT ![f.info] = 1]
       /\ kind' = [kind EXCEPT ![f.info] = f.kind]
       /\ data' = [data EXCEPT ![f.info] = f.data]
       /\ elem' = [elem EXCEPT ![f.info] = NULL]
       /\ var' = [var EXCEPT ![f.var] = f.info]
  /\ mi_alloc' = Counted(mi_alloc)
  /\ Return(t)
  /\ UNCHANGED <<heap, shutting, enabled, alloc, free, mi_free, crashed>>

-----------------------------------------------------------------------------
(* The MemInfos thread t can reach: those a variable refers to (a value    *)
(* passed between threads is kept alive by its sender) and those in the    *)
(* payload of a container in a variable of its own.                        *)
Reach(t) ==
  {var[v] : v \in Vars} \cup {elem[var[v]] : v \in {u \in Own(t) : var[u] # NULL}}

(* Mutant of Acquire: a reference that is not counted.                     *)
AcquireBorrowed(t, v, i) ==
  /\ Idle(t)
  /\ v \in Own(t) /\ var[v] = NULL
  /\ i \in Reach(t) \ {NULL}
  /\ refct[i] < MaxRefs
  /\ var' = [var EXCEPT ![v] = i]
  /\ UNCHANGED <<heap, refct, kind, data, elem, stack, shutting, stats, crashed>>

(* NRT_MemInfo_acquire() / NRT_incref().                                   *)
Acquire(t, v, i) ==
  /\ Idle(t)
  /\ v \in Own(t) /\ var[v] = NULL
  /\ i \in Reach(t) \ {NULL}
  /\ refct[i] < MaxRefs
  /\ refct' = [refct EXCEPT ![i] = @ + 1]
  /\ var' = [var EXCEPT ![v] = i]
  /\ UNCHANGED <<heap, kind, data, elem, stack, shutting, stats, crashed>>

(* Types nest: a list or a set holds arrays, a typed container those too.  *)
Rank(k) == IF k = "managed" THEN 2 ELSE IF k = "varsize" THEN 1 ELSE 0

(* An element is stored in an empty container.  Containers are not         *)
(* thread-safe: no other thread works on this one meanwhile.               *)
Store(t, v, u) ==
  /\ Idle(t)
  /\ v \in Own(t) /\ u \in Own(t) /\ var[v] # NULL /\ var[u] # NULL
  /\ LET i == var[v]  c == var[u] IN
       /\ Rank(kind[c]) < Rank(kind[i])
       /\ elem[i] = NULL
       /\ refct[c] < MaxRefs
       /\ kind[i] = "varsize" => data[i] # NULL
       /\ ~ Busy(i)
       /\ elem' = [elem EXCEPT ![i] = c]
       /\ refct' = [refct EXCEPT ![c] = @ + 1]
  /\ UNCHANGED <<heap, kind, data, var, stack, shutting, stats, crashed>>

(* The frame that destroys MemInfo i.                                      *)
DtorFrame(i) == Frame("dtor", i, NULL, "none", NoVar)

(* Mutant of Release: the test looks at the old count ("nrt_atomic_sub"    *)
(* without atomicity returns oldval).                                      *)
ReleaseOldCount(t, v) ==
  /\ Idle(t)
  /\ v \in Own(t) /\ var[v] # NULL
  /\ var' = [var EXCEPT ![v] = NULL]
  /\ refct' = [refct EXCEPT ![var[v]] = @ - 1]
  /\ IF refct[var[v]] = 0 THEN Push(t, DtorFrame(var[v])) ELSE UNCHANGED stack
  /\ UNCHANGED <<heap, kind, data, elem, shutting, stats, crashed>>

(* NRT_MemInfo_release() / NRT_decref(): the thread whose decrement        *)
(* returns 0 destroys the MemInfo.                                         *)
Release(t, v) ==
  /\ Idle(t)
  /\ v \in Own(t) /\ var[v] # NULL
  /\ var' = [var EXCEPT ![v] = NULL]
  /\ refct' = [refct EXCEPT ![var[v]] = @ - 1]
  /\ IF refct[var[v]] = 1 THEN Push(t, DtorFrame(var[v])) ELSE UNCHANGED stack
  /\ UNCHANGED <<heap, kind, data, elem, shutting, stats, crashed>>

(* The top frame goes on at l after it released the element in its         *)
(* payload, and after the destructor of that element if it was the last    *)
(* reference.                                                              *)
ReleaseElem(t, l) ==
  LET i == Top(t).info
      c == elem[i]
      f == [Top(t) EXCEPT !.at = l]
  IN  IF c = NULL
      THEN Become(t, f) /\ UNCHANGED <<refct, elem>>
      ELSE /\ elem' = [elem EXCEPT ![i] = NULL]
           /\ refct' = [refct EXCEPT ![c] = @ - 1]
           /\ stack' = [stack EXCEPT ![t] =
                          (IF refct[c] = 1 THEN <<DtorFrame(c)>> ELSE <<>>)
                            \o <<f>> \o Tail(@)]

-----------------------------------------------------------------------------
(* NRT_MemInfo_call_dtor().                                                *)

(* Mutant of CallDtor: the data block of a varsize MemInfo is forgotten.   *)
CallDtorKeepsData(t) ==
  /\ At(t, "dtor")
  /\ ReleaseElem(t, "free_mi")
  /\ UNCHANGED <<heap, kind, data, var, shutting, stats, crashed>>

(* The destructor is skipped when there is none or the system shuts down.  *)
(* The element destructor of a list or a set reads the payload first.      *)
CallDtor(t) ==
  /\ At(t, "dtor")
  /\ LET i == Top(t).info
         none == kind[i] \in {"plain", "external"} \/ shutting
     IN  \/ /\ none
            /\ Goto(t, "free_mi")
            /\ UNCHANGED <<refct, elem, crashed>>
         \/ /\ ~ none
            /\ kind[i] = "varsize" /\ data[i] = NULL
            /\ crashed' = TRUE
            /\ UNCHANGED <<refct, elem, stack>>
         \/ /\ ~ none
            /\ ~ (kind[i] = "varsize" /\ data[i] = NULL)
            /\ ReleaseElem(t, IF kind[i] = "varsize" THEN "free_data"
                              ELSE "free_mi")
            /\ UNCHANGED crashed
  /\ UNCHANGED <<heap, kind, data, var, shutting, stats>>

(* nrt_varsize_dtor() frees the data block.                                *)
FreeData(t) ==
  /\ At(t, "free_data")
  /\ Frees("system", data[Top(t).info])
  /\ Goto(t, "count_free_data")
  /\ UNCHANGED <<info, var, shutting, stats, crashed>>

CountFreeData(t) ==
  /\ At(t, "count_free_data")
  /\ free' = Counted(free)
  /\ Goto(t, "free_mi")
  /\ UNCHANGED <<heap, info, var, shutting, enabled, alloc, mi_alloc, mi_free,
                 crashed>>

(* NRT_dealloc() frees the MemInfo; what was in it is gone.                *)
FreeInfo(t) ==
  /\ At(t, "free_mi")
  /\ LET i == Top(t).info IN
       /\ Frees(AllocatorOf(kind[i]), i)
       /\ refct' = [refct EXCEPT ![i] = 0]
       /\ kind' = [kind EXCEPT ![i] = "none"]
       /\ data' = [data EXCEPT ![i] = NULL]
       /\ elem' = [elem EXCEPT ![i] = NULL]
  /\ Goto(t, "count_free_mi")
  /\ UNCHANGED <<var, shutting, stats, crashed>>

(* Mutant of CountFreeInfo: the free of the MemInfo is not counted.        *)
CountFreeInfoOmitted(t) ==
  /\ At(t, "count_free_mi")
  /\ Goto(t, "count_mi_free")
  /\ UNCHANGED <<heap, info, var, shutting, stats, crashed>>

CountFreeInfo(t) ==
  /\ At(t, "count_free_mi")
  /\ free' = Counted(free)
  /\ Goto(t, "count_mi_free")
  /\ UNCHANGED <<heap, info, var, shutting, enabled, alloc, mi_alloc, mi_free,
                 crashed>>

(* NRT_MemInfo_destroy() counts the MemInfo; the frame is done.            *)
CountDestroyed(t) ==
  /\ At(t, "count_mi_free")
  /\ mi_free' = Counted(mi_free)
  /\ Return(t)
  /\ UNCHANGED <<heap, info, var, shutting, enabled, alloc, free, mi_alloc,
                 crashed>>

-----------------------------------------------------------------------------
(* Resizing the data block of a varsize MemInfo.                           *)
MayResize(t, v) ==
  /\ Idle(t)
  /\ v \in Own(t) /\ var[v] # NULL
  /\ kind[var[v]] = "varsize" /\ data[var[v]] # NULL
  /\ ~ Busy(var[v])
  /\ Room(1)

(* SetInstance._resize(): a new block, then the entries move over, then    *)
(* the old block is freed.                                                 *)
GrowSet(t, v) ==
  /\ MayResize(t, v)
  /\ Push(t, Frame("varsize_alloc", var[v], data[var[v]], "none", NoVar))
  /\ UNCHANGED <<heap, info, var, shutting, stats, crashed>>

(* SetInstance._replace_payload(), when the set is emptied: the entries    *)
(* are released, the old block is freed, then a new one is allocated.      *)
ClearSet(t, v) ==
  /\ MayResize(t, v)
  /\ Push(t, Frame("clear", var[v], data[var[v]], "none", NoVar))
  /\ UNCHANGED <<heap, info, var, shutting, stats, crashed>>

ReleaseEntries(t) ==
  /\ At(t, "clear")
  /\ ReleaseElem(t, "varsize_free")
  /\ UNCHANGED <<heap, kind, data, var, shutting, stats, crashed>>

(* NRT_MemInfo_varsize_alloc() stores what malloc() returned, NULL too.    *)
VarsizeAlloc(t) ==
  /\ At(t, "varsize_alloc")
  /\ \E a \in MaybeAddr :
       /\ Mallocs("system", a)
       /\ data' = [data EXCEPT ![Top(t).info] = a]
  /\ Goto(t, "count_varsize_alloc")
  /\ UNCHANGED <<refct, kind, elem, var, shutting, stats, crashed>>

(* Without a new block the resizing ends in a MemoryError; after a         *)
(* clearing there is no old block left to free.                            *)
CountVarsizeAlloc(t) ==
  /\ At(t, "count_varsize_alloc")
  /\ alloc' = Counted(alloc)
  /\ IF data[Top(t).info] = NULL \/ Top(t).data = NULL
     THEN Return(t)
     ELSE Goto(t, "varsize_free")
  /\ UNCHANGED <<heap, info, var, shutting, enabled, free, mi_alloc, mi_free,
                 crashed>>

(* Mutant of VarsizeFree: the current block is freed, not the given one.   *)
VarsizeFreeCurrent(t) ==
  /\ At(t, "varsize_free")
  /\ LET i == Top(t).info IN
       /\ Frees("system", data[i])
       /\ data' = [data EXCEPT ![i] = IF @ = Top(t).data THEN NULL ELSE @]
  /\ Goto(t, "count_varsize_free")
  /\ UNCHANGED <<refct, kind, elem, var, shutting, stats, crashed>>

(* NRT_MemInfo_varsize_free().                                             *)
VarsizeFree(t) ==
  /\ At(t, "varsize_free")
  /\ LET i == Top(t).info IN
       /\ Frees("system", Top(t).data)
       /\ data' = [data EXCEPT ![i] = IF @ = Top(t).data THEN NULL ELSE @]
  /\ Goto(t, "count_varsize_free")
  /\ UNCHANGED <<refct, kind, elem, var, shutting, stats, crashed>>

CountVarsizeFree(t) ==
  /\ At(t, "count_varsize_free")
  /\ free' = Counted(free)
  /\ IF data[Top(t).info] = NULL
     THEN Become(t, [Top(t) EXCEPT !.at = "varsize_alloc", !.data = NULL])
     ELSE Return(t)
  /\ UNCHANGED <<heap, info, var, shutting, enabled, alloc, mi_alloc, mi_free,
                 crashed>>

(* ListInstance.resize(): NRT_MemInfo_varsize_realloc(), which stores what *)
(* realloc() returned and counts nothing.  A failed realloc() leaves the   *)
(* old block allocated.                                                    *)
ResizeList(t, v) ==
  /\ MayResize(t, v)
  /\ LET i == var[v]  old == data[i] IN
       \/ \E a \in Addrs :
            /\ heap[a] = "free" \/ a = old
            /\ heap' = [heap EXCEPT ![old] = "free", ![a] = "system"]
            /\ data' = [data EXCEPT ![i] = a]
       \/ /\ Fails
          /\ data' = [data EXCEPT ![i] = NULL]
          /\ UNCHANGED heap
  /\ UNCHANGED <<refct, kind, elem, var, stack, shutting, stats, crashed>>

-----------------------------------------------------------------------------
(* What a thread inside the runtime does next.                             *)
RuntimeStep(t) ==
  \/ MallocData(t) \/ CountData(t) \/ MallocInfo(t) \/ CountInfo(t)
  \/ InitInfo(t)
  \/ CallDtor(t) \/ FreeData(t) \/ CountFreeData(t) \/ FreeInfo(t)
  \/ CountFreeInfo(t) \/ CountDestroyed(t)
  \/ ReleaseEntries(t) \/ VarsizeAlloc(t) \/ CountVarsizeAlloc(t)
  \/ VarsizeFree(t) \/ CountVarsizeFree(t)

(* The process is gone, or every thread may have ended.                    *)
Ended ==
  /\ crashed \/ (shutting /\ \A t \in Threads : Idle(t))
  /\ UNCHANGED vars

Next ==
  \/ EnableStats
  \/ Shutdown
  \/ \E t \in Threads :
       \/ RuntimeStep(t)
       \/ \E v \in Own(t) :
            \/ \E k \in Kinds : New(t, v, k)
            \/ \E i \in Addrs : Acquire(t, v, i)
            \/ \E u \in Own(t) : Store(t, v, u)
            \/ Release(t, v)
            \/ GrowSet(t, v) \/ ClearSet(t, v) \/ ResizeList(t, v)
  \/ Ended

Spec == Init /\ [][Next]_vars

(* A call of the runtime goes on.                                          *)
FairSpec == Spec /\ \A t \in Threads : WF_vars(RuntimeStep(t))

-----------------------------------------------------------------------------
(* Properties                                                              *)

Labels ==
  {"malloc_data", "count_data", "malloc_mi", "count_mi", "init", "dtor",
   "free_data", "count_free_data", "free_mi", "count_free_mi",
   "count_mi_free", "clear", "varsize_alloc", "count_varsize_alloc",
   "varsize_free", "count_varsize_free"}
Frames ==
  [at : Labels, info : MaybeAddr, data : MaybeAddr, kind : Kinds \cup {"none"},
   var : Vars \cup {NoVar}]

TypeOK ==
  /\ heap \in [Addrs -> {"free", "system", "external", "corrupt"}]
  /\ refct \in [Addrs -> Nat]
  /\ kind \in [Addrs -> Kinds \cup {"none"}]
  /\ data \in [Addrs -> MaybeAddr]
  /\ elem \in [Addrs -> MaybeAddr]
  /\ var \in [Vars -> MaybeAddr]
  /\ stack \in [Threads -> Seq(Frames)]
  /\ {shutting, enabled, crashed} \subseteq BOOLEAN
  /\ {alloc, free, mi_alloc, mi_free} \subseteq 0 .. Word - 1

(* The references to MemInfo i that are counted.                           *)
Holders(i) == {v \in Vars : var[v] = i}
Containers(i) == {a \in Addrs : elem[a] = i}

(* The count of a MemInfo is the number of references to it, whatever      *)
(* threads acquire and release at the same time; skipped destructors only  *)
(* ever leave it too high.                                                 *)
RefctExact ==
  \A i \in Addrs : kind[i] # "none" =>
    LET n == Cardinality(Holders(i)) + Cardinality(Containers(i)) IN
      refct[i] >= n /\ (~ shutting => refct[i] = n)

(* Nothing that can still be reached is freed: a reference is to a MemInfo *)
(* that nobody destroys, and its data block is allocated.                  *)
NoDangling ==
  \A i \in Addrs : Holders(i) \cup Containers(i) # {} =>
    /\ kind[i] # "none"
    /\ heap[i] = AllocatorOf(kind[i])
    /\ kind[i] = "varsize" /\ data[i] # NULL => heap[data[i]] = "system"
    /\ \A t \in Threads : \A k \in DOMAIN stack[t] :
         stack[t][k].info = i => stack[t][k].at \notin {"dtor", "free_data",
                          "count_free_data", "free_mi"}

(* Every block is freed at most once and by the allocator it came from.    *)
HeapSound == \A a \in Addrs : heap[a] # "corrupt"

(* Memory is given back once, the way it came, and not before the last     *)
(* reference is gone.                                                      *)
MemorySafe == TypeOK /\ HeapSound /\ NoDangling

(* A block that is allocated is used: it is a MemInfo with references or   *)
(* one being made or destroyed, or the data block of one.                  *)
InUse(a) ==
  \/ kind[a] # "none" /\ refct[a] > 0
  \/ \E i \in Addrs : kind[i] = "varsize" /\ data[i] = a
  \/ \E t \in Threads : \E k \in DOMAIN stack[t] :
       a \in {stack[t][k].info, stack[t][k].data}
NoLeak == ~ shutting => \A a \in Addrs : heap[a] # "free" => InUse(a)

(* "Checking that the allocation and deallocation counters are matching is *)
(* the simplest way to know if the NRT is leaking": when no thread is      *)
(* inside the runtime their differences count the blocks and the MemInfos. *)
StatsTellLeaks ==
  enabled /\ ~ crashed /\ (\A t \in Threads : Idle(t)) =>
    /\ (alloc - free) % Word = Cardinality({a \in Addrs : heap[a] # "free"})
    /\ (mi_alloc - mi_free) % Word =
         Cardinality({a \in Addrs : kind[a] # "none"})

(* No block is lost, and the counters would tell of one that is.           *)
LeaksSeen == NoLeak /\ StatsTellLeaks

(* The destructor of a list or a set "for cleaning up references to        *)
(* objects inside the allocation" is given an allocation.                  *)
DtorSeesPayload == ~ crashed

(* A MemInfo whose count reached zero is destroyed, also when it is found  *)
(* inside another one's destructor, unless the process crashes; and memory *)
(* stays safe on the way, where destructors nest deeper than two.          *)
Destroyed ==
  /\ []MemorySafe
  /\ \A i \in Addrs :
       kind[i] # "none" /\ refct[i] = 0 ~> kind[i] = "none" \/ crashed

=============================================================================
