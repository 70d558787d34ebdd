----------------------------- MODULE NRTProofs -----------------------------
(***************************************************************************)
(* Theorems about NRT for any number of threads, variables and addresses:  *)
(* with or without allocations that fail, counts are exact and memory is   *)
(* safe; without, no block is lost and the counters say how many there     *)
(* are.                                                                    *)
(***************************************************************************)
EXTENDS NRT, FiniteSetTheorems, TLAPS

USE NRTAssumption

-----------------------------------------------------------------------------
(* The inductive invariant.                                                *)

(* The frames of a thread, counted from the bottom of its stack.           *)
Depth(t) == Len(stack[t])
F(t, d) == stack[t][Depth(t) + 1 - d]

Making == {"malloc_data", "count_data", "malloc_mi", "count_mi", "init"}
Destroying == {"dtor", "free_data", "count_free_data", "free_mi"}
Resizing ==
  {"clear", "varsize_alloc", "count_varsize_alloc", "varsize_free", "count_varsize_free"}

(* A thread that is about to get its first reference has a free variable.  *)
MakingOK(t, d) ==
  LET f == F(t, d) IN f.at \in Making =>
    /\ Depth(t) = 1
    /\ f.var \in Own(t) /\ var[f.var] = NULL
    /\ f.kind \in Kinds
    /\ f.at \in {"malloc_data", "count_data"} => f.kind = "varsize"
    /\ f.kind # "varsize" => f.data = NULL
    /\ f.at = "init" => f.info # NULL

(* Nobody refers to a MemInfo that is destroyed, and its payload holds no  *)
(* reference any more when it is freed, unless its destructor was skipped. *)
DestroyingOK(t, d) ==
  LET f == F(t, d) IN f.at \in Destroying =>
    /\ f.info \in Addrs /\ kind[f.info] # "none"
    /\ refct[f.info] = 0
    /\ Holders(f.info) = {} /\ Containers(f.info) = {}
    /\ f.at = "free_data" => kind[f.info] = "varsize" /\ data[f.info] # NULL
    /\ f.at # "dtor" => shutting \/ elem[f.info] = NULL

(* A thread that resizes a MemInfo holds a reference to it.                *)
ResizingOK(t, d) ==
  LET f == F(t, d) IN f.at \in Resizing =>
    /\ f.info \in Addrs /\ kind[f.info] = "varsize"
    /\ \E v \in Own(t) : var[v] = f.info
    /\ f.at \in {"clear", "varsize_alloc"} => f.data = data[f.info]
    /\ f.at \in {"clear", "varsize_free"} => f.data # NULL

(* At most one frame destroys or resizes a MemInfo.                        *)
Active(t, d) == F(t, d).at \in Destroying \cup Resizing
OneActive ==
  \A t, u \in Threads : \A d \in 1 .. Depth(t), e \in 1 .. Depth(u) :
    Active(t, d) /\ Active(u, e) /\ F(t, d).info = F(u, e).info => t = u /\ d = e

FramesOK ==
  \A t \in Threads : \A d \in 1 .. Depth(t) :
    MakingOK(t, d) /\ DestroyingOK(t, d) /\ ResizingOK(t, d)

(* What is referred to exists, and only a container refers to anything.    *)
Alive ==
  /\ \A v \in Vars : var[v] # NULL => kind[var[v]] # "none"
  /\ \A a \in Addrs : elem[a] # NULL =>
       kind[elem[a]] # "none" /\ kind[a] \in {"managed", "varsize"}

(* The data block of MemInfo i is allocated.                               *)
Spent(i) ==
  \E t \in Threads : \E d \in 1 .. Depth(t) :
    F(t, d).info = i /\ F(t, d).at \in {"count_free_data", "free_mi"}
Kept(i) == kind[i] = "varsize" /\ data[i] # NULL /\ ~ Spent(i)

(* A frame owns a block that is to be a MemInfo, and one that is a data    *)
(* block, or was one before the MemInfo got another.                       *)
Fresh(t, d) == F(t, d).at \in {"count_mi", "init"} /\ F(t, d).info # NULL
Owning(t, d) ==
  LET f == F(t, d) IN
    /\ f.data # NULL
    /\ \/ f.at \in Making
       \/ f.at \in {"count_varsize_alloc", "varsize_free"} /\ f.data # data[f.info]

(* A MemInfo, a data block and the blocks of frames are all different.     *)
InfosOwned == \A i \in Addrs : kind[i] # "none" => heap[i] = AllocatorOf(kind[i])

DataOwned ==
  \A i \in Addrs : Kept(i) =>
    /\ heap[data[i]] = "system" /\ kind[data[i]] = "none"
    /\ \A j \in Addrs : Kept(j) /\ data[j] = data[i] => j = i

FreshOwned ==
  \A t \in Threads : \A d \in 1 .. Depth(t) : Fresh(t, d) =>
    LET a == F(t, d).info IN
      /\ heap[a] = AllocatorOf(F(t, d).kind) /\ kind[a] = "none"
      /\ \A i \in Addrs : Kept(i) => data[i] # a
      /\ \A u \in Threads : \A e \in 1 .. Depth(u) :
           /\ Fresh(u, e) /\ F(u, e).info = a => t = u /\ d = e
           /\ Owning(u, e) => F(u, e).data # a

BlocksOwned ==
  \A t \in Threads : \A d \in 1 .. Depth(t) : Owning(t, d) =>
    LET a == F(t, d).data IN
      /\ heap[a] = "system" /\ kind[a] = "none"
      /\ \A i \in Addrs : Kept(i) => data[i] # a
      /\ \A u \in Threads : \A e \in 1 .. Depth(u) :
           Owning(u, e) /\ F(u, e).data = a => t = u /\ d = e

Refs == RefctExact /\ Alive /\ FramesOK /\ OneActive
Heap == HeapSound /\ InfosOwned /\ DataOwned /\ FreshOwned /\ BlocksOwned
Inv == TypeOK /\ Refs /\ Heap

-----------------------------------------------------------------------------
(* What the steps of a thread do to the stacks.                            *)

LEMMA PushSeq ==
  ASSUME NEW S, NEW s \in Seq(S), NEW f \in S
  PROVE  /\ <<f>> \o s \in Seq(S) /\ Len(<<f>> \o s) = Len(s) + 1
         /\ (<<f>> \o s)[1] = f
         /\ \A k \in 1 .. Len(s) : (<<f>> \o s)[k + 1] = s[k]
OBVIOUS

LEMMA TailSeq ==
  ASSUME NEW S, NEW s \in Seq(S), s # <<>>
  PROVE  /\ Tail(s) \in Seq(S) /\ Len(Tail(s)) = Len(s) - 1 /\ Len(s) \in Nat \ {0}
         /\ Head(s) = s[1] /\ Head(s) \in S
         /\ \A k \in 1 .. Len(s) - 1 : Tail(s)[k] = s[k + 1]
OBVIOUS

LEMMA TopSeq ==
  ASSUME NEW S, NEW s \in Seq(S), s # <<>>, NEW f \in S
  PROVE  /\ <<f>> \o Tail(s) \in Seq(S) /\ Len(<<f>> \o Tail(s)) = Len(s)
         /\ (<<f>> \o Tail(s))[1] = f
         /\ \A k \in 2 .. Len(s) : (<<f>> \o Tail(s))[k] = s[k]
<1> DEFINE r == Tail(s)
<1>1. r \in Seq(S) /\ Len(r) = Len(s) - 1 /\ Len(s) \in Nat \ {0}
  BY TailSeq
<1>2. \A k \in 1 .. Len(s) - 1 : r[k] = s[k + 1]
  BY TailSeq
<1> HIDE DEF r
<1>3. /\ <<f>> \o r \in Seq(S) /\ Len(<<f>> \o r) = Len(r) + 1
      /\ (<<f>> \o r)[1] = f
      /\ \A k \in 1 .. Len(r) : (<<f>> \o r)[k + 1] = r[k]
  BY <1>1, PushSeq
<1>4. ASSUME NEW k \in 2 .. Len(s) PROVE (<<f>> \o r)[k] = s[k]
  <2>1. k - 1 \in 1 .. Len(r) /\ (k - 1) + 1 = k
    BY <1>1
  <2>2. QED
    BY <1>1, <1>2, <1>3, <2>1
<1>5. QED
  BY <1>1, <1>3, <1>4 DEF r

Stacks == stack \in [Threads -> Seq(Frames)]

(* Thread t's stack has n frames now, those below the top are the old ones *)
(* and no other stack has changed.                                         *)
Moved(t, n) ==
  /\ Stacks' /\ n \in Nat /\ n <= Depth(t) + 1
  /\ \A u \in Threads : u # t => stack'[u] = stack[u]
  /\ Depth(t)' = n
  /\ \A d \in 1 .. n : d < Depth(t) => F(t, d)' = F(t, d)

LEMMA DepthType ==
  ASSUME Stacks, NEW t \in Threads
  PROVE  /\ Depth(t) \in Nat /\ (stack[t] = <<>> <=> Depth(t) = 0)
         /\ \A d \in 1 .. Depth(t) : F(t, d) \in Frames
         /\ stack[t] # <<>> => Top(t) = F(t, Depth(t)) /\ Top(t) \in Frames
<1>1. stack[t] \in Seq(Frames)
  BY DEF Stacks
<1>2. Depth(t) \in Nat /\ (stack[t] = <<>> <=> Depth(t) = 0)
  BY <1>1 DEF Depth
<1>3. \A d \in 1 .. Depth(t) : Depth(t) + 1 - d \in 1 .. Len(stack[t])
  BY <1>2 DEF Depth
<1>4. \A k \in 1 .. Len(stack[t]) : stack[t][k] \in Frames
  BY <1>1
<1>5. stack[t] # <<>> => Top(t) = stack[t][1] /\ 1 \in 1 .. Len(stack[t])
  BY <1>1, TailSeq DEF Top
<1>6. QED
  BY <1>2, <1>3, <1>4, <1>5 DEF F

LEMMA BecomeMoves ==
  ASSUME Stacks, NEW t \in Threads, stack[t] # <<>>, NEW f \in Frames, Become(t, f),
         NEW n, n = Depth(t)
  PROVE  Moved(t, n) /\ F(t, n)' = f
<1>1. stack[t] \in Seq(Frames) /\ Depth(t) \in Nat \ {0} /\ Depth(t) = Len(stack[t])
  BY DepthType DEF Stacks, Depth
<1>2. stack'[t] = <<f>> \o Tail(stack[t]) /\ \A u \in Threads : u # t => stack'[u] = stack[u]
  BY DEF Become, Stacks
<1>3. /\ stack'[t] \in Seq(Frames) /\ Len(stack'[t]) = Len(stack[t]) /\ stack'[t][1] = f
      /\ \A k \in 2 .. Len(stack[t]) : stack'[t][k] = stack[t][k]
  BY <1>1, <1>2, TopSeq
<1>4. Stacks'
  BY <1>3 DEF Stacks, Become
<1>5. ASSUME NEW d \in 1 .. Depth(t) - 1 PROVE F(t, d)' = F(t, d)
  <2>1. Depth(t) + 1 - d \in 2 .. Len(stack[t])
    BY <1>1, <1>5
  <2>2. QED
    BY <1>1, <1>3, <2>1 DEF F, Depth
<1>6. Depth(t)' = n /\ F(t, n)' = f
  <2>1. Len(stack'[t]) = n /\ Len(stack'[t]) + 1 - n = 1
    BY <1>1, <1>3
  <2>2. QED
    BY <1>3, <2>1 DEF F, Depth
<1>7. QED
  BY <1>1, <1>2, <1>4, <1>5, <1>6 DEF Moved

LEMMA PushMoves ==
  ASSUME Stacks, NEW t \in Threads, stack[t] = <<>>, NEW f \in Frames, Push(t, f)
  PROVE  Depth(t) = 0 /\ Moved(t, 1) /\ F(t, 1)' = f
<1>1. stack[t] \in Seq(Frames) /\ Depth(t) = 0 /\ Depth(t) = Len(stack[t])
  BY DepthType DEF Stacks, Depth
<1>2. stack'[t] = <<f>> \o stack[t] /\ \A u \in Threads : u # t => stack'[u] = stack[u]
  BY DEF Push, Stacks
<1>3. stack'[t] \in Seq(Frames) /\ Len(stack'[t]) = 1 /\ stack'[t][1] = f
  BY <1>1, <1>2, PushSeq
<1>4. Stacks'
  BY <1>3 DEF Stacks, Push
<1>5. QED
  BY <1>1, <1>2, <1>3, <1>4 DEF Moved, F, Depth

LEMMA ReturnMoves ==
  ASSUME Stacks, NEW t \in Threads, stack[t] # <<>>, Return(t)
  PROVE  /\ Moved(t, Depth(t) - 1)
         /\ \A d \in 1 .. Depth(t)' : F(t, d)' = F(t, d)
<1>1. stack[t] \in Seq(Frames) /\ Depth(t) \in Nat \ {0} /\ Depth(t) = Len(stack[t])
  BY DepthType DEF Stacks, Depth
<1>2. stack'[t] = Tail(stack[t]) /\ \A u \in Threads : u # t => stack'[u] = stack[u]
  BY DEF Return, Stacks
<1>3. /\ stack'[t] \in Seq(Frames) /\ Len(stack'[t]) = Len(stack[t]) - 1
      /\ \A k \in 1 .. Len(stack[t]) - 1 : stack'[t][k] = stack[t][k + 1]
  BY <1>1, <1>2, TailSeq
<1>4. Stacks'
  BY <1>3 DEF Stacks, Return
<1>5. ASSUME NEW d \in 1 .. Depth(t) - 1 PROVE F(t, d)' = F(t, d)
  <2>1. Depth(t) - d \in 1 .. Len(stack[t]) - 1 /\ (Depth(t) - d) + 1 = Depth(t) + 1 - d
    BY <1>1, <1>5
  <2>2. Len(stack'[t]) + 1 - d = Depth(t) - d
    BY <1>1, <1>3, <1>5
  <2>3. QED
    BY <1>1, <1>3, <2>1, <2>2 DEF F, Depth
<1>6. Depth(t)' = Depth(t) - 1
  BY <1>1, <1>3 DEF Depth
<1>7. QED
  BY <1>1, <1>2, <1>4, <1>5, <1>6 DEF Moved

(* A frame goes on below the frame of a nested destructor.                 *)
LEMMA NestMoves ==
  ASSUME Stacks, NEW t \in Threads, stack[t] # <<>>, NEW n, n = Depth(t),
         NEW f \in Frames, NEW g \in Frames,
         stack' = [stack EXCEPT ![t] = <<g>> \o <<f>> \o Tail(stack[t])]
  PROVE  Moved(t, n + 1) /\ F(t, n)' = f /\ F(t, n + 1)' = g
<1> DEFINE r == <<f>> \o Tail(stack[t])
<1>1. stack[t] \in Seq(Frames) /\ Depth(t) \in Nat \ {0} /\ Depth(t) = Len(stack[t])
  BY DepthType DEF Stacks, Depth
<1>2. /\ r \in Seq(Frames) /\ Len(r) = Len(stack[t]) /\ r[1] = f
      /\ \A k \in 2 .. Len(stack[t]) : r[k] = stack[t][k]
  BY <1>1, TopSeq
<1>3. stack'[t] = <<g>> \o r /\ \A u \in Threads : u # t => stack'[u] = stack[u]
  <2>1. Tail(stack[t]) \in Seq(Frames)
    BY <1>1, TailSeq
  <2>2. <<g>> \o <<f>> \o Tail(stack[t]) = <<g>> \o r
    BY <2>1
  <2>3. QED
    BY <2>2 DEF Stacks
<1> HIDE DEF r
<1>4. /\ stack'[t] \in Seq(Frames) /\ Len(stack'[t]) = Len(r) + 1 /\ stack'[t][1] = g
      /\ \A k \in 1 .. Len(r) : stack'[t][k + 1] = r[k]
  <2>1. /\ <<g>> \o r \in Seq(Frames) /\ Len(<<g>> \o r) = Len(r) + 1 /\ (<<g>> \o r)[1] = g
        /\ \A k \in 1 .. Len(r) : (<<g>> \o r)[k + 1] = r[k]
    BY <1>2, PushSeq
  <2>2. QED
    BY <1>3, <2>1
<1>5. Stacks'
  <2>1. DOMAIN stack' = Threads /\ stack' = [u \in Threads |-> stack'[u]]
    BY DEF Stacks
  <2>2. \A u \in Threads : stack'[u] \in Seq(Frames)
    BY <1>3, <1>4 DEF Stacks
  <2>3. QED
    BY <2>1, <2>2 DEF Stacks
<1>6. n \in Nat \ {0} /\ Depth(t)' = n + 1 /\ Len(r) = n
  BY <1>1, <1>2, <1>4 DEF Depth
<1>7. \A d \in 1 .. n : F(t, d)' = r[n + 1 - d]
  <2> SUFFICES ASSUME NEW d \in 1 .. n PROVE F(t, d)' = r[n + 1 - d]
    OBVIOUS
  <2>1. n + 1 - d \in 1 .. Len(r) /\ Len(stack'[t]) + 1 - d = (n + 1 - d) + 1
    BY <1>4, <1>6
  <2>2. QED
    BY <1>4, <2>1 DEF F, Depth
<1>8. ASSUME NEW d \in 1 .. n - 1 PROVE F(t, d)' = F(t, d)
  <2>1. n + 1 - d \in 2 .. Len(stack[t]) /\ d \in 1 .. n
    BY <1>1, <1>6
  <2>2. QED
    BY <1>2, <1>7, <2>1 DEF F
<1>9. F(t, n)' = f
  BY <1>2, <1>6, <1>7
<1>10. F(t, n + 1)' = g
  <2>1. Len(stack'[t]) + 1 - (n + 1) = 1
    BY <1>4, <1>6
  <2>2. F(t, n + 1)' = stack'[t][Len(stack'[t]) + 1 - (n + 1)]
    BY DEF F, Depth
  <2>3. QED
    BY <1>4, <2>1, <2>2
<1>11. \A d \in 1 .. n + 1 : d < n => F(t, d)' = F(t, d)
  <2>1. \A d \in 1 .. n + 1 : d < n => d \in 1 .. n - 1
    BY <1>6
  <2>2. QED
    BY <1>8, <2>1
<1>12. n + 1 \in Nat /\ n + 1 <= Depth(t) + 1
  BY <1>6
<1>13. Moved(t, n + 1)
  BY <1>3, <1>5, <1>6, <1>11, <1>12 DEF Moved
<1>14. QED
  BY <1>9, <1>10, <1>13

-----------------------------------------------------------------------------
(* Counting references.                                                    *)

LEMMA VarsFinite == IsFiniteSet(Vars)
<1>1. IsFiniteSet(1 .. NumVars)
  BY FS_Interval
<1>2. QED
  BY <1>1, FS_Product DEF Vars

LEMMA RefsFinite ==
  ASSUME NEW i
  PROVE  /\ IsFiniteSet(Holders(i)) /\ Cardinality(Holders(i)) \in Nat
         /\ IsFiniteSet(Containers(i)) /\ Cardinality(Containers(i)) \in Nat
<1>1. Holders(i) \in SUBSET Vars /\ Containers(i) \in SUBSET Addrs
  BY DEF Holders, Containers
<1>2. IsFiniteSet(Holders(i)) /\ IsFiniteSet(Containers(i))
  BY <1>1, VarsFinite, FS_Subset
<1>3. QED
  BY <1>2, FS_CardinalityType

(* A variable that is given a reference, or loses it.                      *)
LEMMA HolderAdded ==
  ASSUME NEW v \in Vars, NEW i \in Addrs, var \in [Vars -> MaybeAddr], var[v] = NULL,
         var' = [var EXCEPT ![v] = i]
  PROVE  /\ Cardinality(Holders(i))' = Cardinality(Holders(i)) + 1
         /\ \A j \in Addrs : j # i => Holders(j)' = Holders(j)
         /\ v \in Holders(i)'
<1>1. i # NULL
  OBVIOUS
<1>2. Holders(i)' = Holders(i) \cup {v} /\ v \notin Holders(i)
  BY <1>1 DEF Holders
<1>3. Cardinality(Holders(i) \cup {v}) = Cardinality(Holders(i)) + 1
  BY <1>2, RefsFinite, FS_AddElement
<1>4. \A j \in Addrs : j # i => Holders(j)' = Holders(j)
  BY DEF Holders
<1>5. QED
  BY <1>2, <1>3, <1>4

LEMMA HolderRemoved ==
  ASSUME NEW v \in Vars, var \in [Vars -> MaybeAddr], var[v] # NULL,
         var' = [var EXCEPT ![v] = NULL]
  PROVE  /\ var[v] \in Addrs /\ v \in Holders(var[v])
         /\ \A i \in Addrs : i = var[v] =>
              Cardinality(Holders(i))' = Cardinality(Holders(i)) - 1
         /\ \A j \in Addrs : j # var[v] => Holders(j)' = Holders(j)
<1>1. var[v] \in Addrs /\ v \in Holders(var[v])
  BY DEF MaybeAddr, Holders
<1>2. ASSUME NEW i \in Addrs, i = var[v]
      PROVE  Cardinality(Holders(i))' = Cardinality(Holders(i)) - 1
  <2>1. Holders(i)' = Holders(i) \ {v} /\ v \in Holders(i)
    BY <1>1, <1>2 DEF Holders
  <2>2. Cardinality(Holders(i) \ {v}) = Cardinality(Holders(i)) - 1
    BY <2>1, RefsFinite, FS_RemoveElement
  <2>3. QED
    BY <2>1, <2>2
<1>3. \A j \in Addrs : j # var[v] => Holders(j)' = Holders(j)
  BY <1>1 DEF Holders
<1>4. QED
  BY <1>1, <1>2, <1>3

LEMMA ContainerAdded ==
  ASSUME NEW a \in Addrs, NEW i \in Addrs, elem \in [Addrs -> MaybeAddr], elem[a] = NULL,
         elem' = [elem EXCEPT ![a] = i]
  PROVE  /\ Cardinality(Containers(i))' = Cardinality(Containers(i)) + 1
         /\ \A j \in Addrs : j # i => Containers(j)' = Containers(j)
<1>1. Containers(i)' = Containers(i) \cup {a} /\ a \notin Containers(i)
  BY DEF Containers
<1>2. Cardinality(Containers(i) \cup {a}) = Cardinality(Containers(i)) + 1
  BY <1>1, RefsFinite, FS_AddElement
<1>3. \A j \in Addrs : j # i => Containers(j)' = Containers(j)
  BY DEF Containers
<1>4. QED
  BY <1>1, <1>2, <1>3

LEMMA ContainerRemoved ==
  ASSUME NEW a \in Addrs, elem \in [Addrs -> MaybeAddr], elem[a] # NULL,
         elem' = [elem EXCEPT ![a] = NULL]
  PROVE  /\ elem[a] \in Addrs /\ a \in Containers(elem[a])
         /\ \A i \in Addrs : i = elem[a] =>
              Cardinality(Containers(i))' = Cardinality(Containers(i)) - 1
         /\ \A j \in Addrs : j # elem[a] => Containers(j)' = Containers(j)
<1>1. elem[a] \in Addrs /\ a \in Containers(elem[a])
  BY DEF MaybeAddr, Containers
<1>2. ASSUME NEW i \in Addrs, i = elem[a]
      PROVE  Cardinality(Containers(i))' = Cardinality(Containers(i)) - 1
  <2>1. Containers(i)' = Containers(i) \ {a} /\ a \in Containers(i)
    BY <1>1, <1>2 DEF Containers
  <2>2. Cardinality(Containers(i) \ {a}) = Cardinality(Containers(i)) - 1
    BY <2>1, RefsFinite, FS_RemoveElement
  <2>3. QED
    BY <2>1, <2>2
<1>3. \A j \in Addrs : j # elem[a] => Containers(j)' = Containers(j)
  BY <1>1 DEF Containers
<1>4. QED
  BY <1>1, <1>2, <1>3

(* What the count of a live MemInfo says of the references to it.          *)
LEMMA CountFacts ==
  ASSUME TypeOK, RefctExact, NEW i \in Addrs, kind[i] # "none"
  PROVE  /\ refct[i] \in Nat
         /\ refct[i] >= Cardinality(Holders(i)) + Cardinality(Containers(i))
         /\ ~ shutting => refct[i] = Cardinality(Holders(i)) + Cardinality(Containers(i))
         /\ Holders(i) # {} => Cardinality(Holders(i)) >= 1
         /\ Containers(i) # {} => Cardinality(Containers(i)) >= 1
         /\ Holders(i) \cup Containers(i) # {} => refct[i] >= 1
         /\ refct[i] = 0 => Holders(i) = {} /\ Containers(i) = {}
<1>1. refct[i] \in Nat
  BY DEF TypeOK
<1>2. /\ refct[i] >= Cardinality(Holders(i)) + Cardinality(Containers(i))
      /\ ~ shutting => refct[i] = Cardinality(Holders(i)) + Cardinality(Containers(i))
  BY DEF RefctExact
<1>3. Holders(i) # {} => Cardinality(Holders(i)) # 0
  BY RefsFinite, FS_EmptySet
<1>4. Containers(i) # {} => Cardinality(Containers(i)) # 0
  BY RefsFinite, FS_EmptySet
<1>5. Cardinality(Holders(i)) \in Nat /\ Cardinality(Containers(i)) \in Nat
  BY RefsFinite
<1>6. QED
  BY <1>1, <1>2, <1>3, <1>4, <1>5

(* What a variable or a payload refers to is alive and counted.            *)
LEMMA Referred ==
  ASSUME TypeOK, Refs
  PROVE  /\ \A v \in Vars : var[v] # NULL =>
              /\ var[v] \in Addrs /\ kind[var[v]] # "none" /\ refct[var[v]] >= 1
              /\ v \in Holders(var[v])
         /\ \A a \in Addrs : elem[a] # NULL =>
              /\ elem[a] \in Addrs /\ kind[elem[a]] # "none" /\ refct[elem[a]] >= 1
              /\ a \in Containers(elem[a])
<1>1. ASSUME NEW v \in Vars, var[v] # NULL
      PROVE  /\ var[v] \in Addrs /\ kind[var[v]] # "none" /\ refct[var[v]] >= 1
             /\ v \in Holders(var[v])
  <2>1. var[v] \in Addrs /\ kind[var[v]] # "none"
    BY <1>1 DEF TypeOK, Refs, Alive, MaybeAddr
  <2>2. v \in Holders(var[v])
    BY DEF Holders
  <2>3. QED
    BY <2>1, <2>2, CountFacts DEF Refs
<1>2. ASSUME NEW a \in Addrs, elem[a] # NULL
      PROVE  /\ elem[a] \in Addrs /\ kind[elem[a]] # "none" /\ refct[elem[a]] >= 1
             /\ a \in Containers(elem[a])
  <2>1. elem[a] \in Addrs /\ kind[elem[a]] # "none"
    BY <1>2 DEF TypeOK, Refs, Alive, MaybeAddr
  <2>2. a \in Containers(elem[a])
    BY DEF Containers
  <2>3. QED
    BY <2>1, <2>2, CountFacts DEF Refs
<1>3. QED
  BY <1>1, <1>2

-----------------------------------------------------------------------------
(* One step of a thread, seen by the others.                               *)

(* No frame but the top one of thread t destroys or resizes i.             *)
Mine(t, i) ==
  \A u \in Threads : \A e \in 1 .. Depth(u) :
    Active(u, e) /\ F(u, e).info = i => u = t /\ e = Depth(t)

SameInfo(i) ==
  /\ kind'[i] = kind[i] /\ refct'[i] = refct[i] /\ data'[i] = data[i] /\ elem'[i] = elem[i]
  /\ Holders(i)' = Holders(i) /\ Containers(i)' = Containers(i)

Unheld(i) == kind[i] # "none" /\ Holders(i) = {} /\ Containers(i) = {}

(* Thread t works on MemInfo m, and its stack has n frames then: of the    *)
(* other MemInfos it leaves alone what others may be working on.           *)
StepOf(t, n, m) ==
  /\ Moved(t, n) /\ Depth(t) <= n + 1
  /\ n > Depth(t) /\ Depth(t) > 0 => F(t, Depth(t)).at \notin Making
  /\ Mine(t, m)
  /\ \A i \in Addrs : i # m /\ kind[i] # "none" => kind'[i] = kind[i] /\ data'[i] = data[i]
  /\ \A i \in Addrs : i # m /\ Unheld(i) => SameInfo(i)
  /\ \A v \in Vars : v \notin Own(t) => var'[v] = var[v]
  /\ Depth(t) > 0 => \A v \in Own(t) : var[v] # NULL => var'[v] = var[v]
  /\ shutting => shutting'

(* The frames that are not on top of t's stack.                            *)
Bystander(t, u, d) == u \in Threads /\ d \in 1 .. Depth(u) /\ (u = t => d < Depth(t))

LEMMA BystanderFacts ==
  ASSUME Stacks, NEW t \in Threads, NEW n, Moved(t, n), Depth(t) <= n + 1,
         NEW u, NEW d, Bystander(t, u, d)
  PROVE  F(u, d)' = F(u, d) /\ d \in 1 .. Depth(u)' /\ (u # t => Depth(u)' = Depth(u))
<1>1. CASE u # t
  BY <1>1 DEF Moved, F, Depth, Bystander
<1>2. CASE u = t
  <2>1. Depth(t) \in Nat /\ n \in Nat /\ d \in Nat /\ d < Depth(t) /\ Depth(t)' = n /\ d >= 1
    BY <1>2, DepthType DEF Moved, Bystander
  <2>2. QED
    BY <1>2, <2>1 DEF Moved
<1>3. QED
  BY <1>1, <1>2

(* After the step a frame is one that was there or on top of t's stack.    *)
LEMMA FrameCases ==
  ASSUME Stacks, NEW t \in Threads, NEW n, Moved(t, n),
         NEW u \in Threads, NEW d \in 1 .. Depth(u)'
  PROVE  Bystander(t, u, d) \/ (u = t /\ d >= Depth(t) /\ d <= n /\ d \in Nat)
<1>1. CASE u # t
  BY <1>1 DEF Moved, Depth, Bystander
<1>2. CASE u = t
  BY <1>2, DepthType DEF Moved, Bystander
<1>3. QED
  BY <1>1, <1>2

LEMMA OthersOK ==
  ASSUME TypeOK, Refs, NEW t \in Threads, NEW n, NEW m, StepOf(t, n, m),
         NEW u, NEW d, Bystander(t, u, d)
  PROVE  MakingOK(u, d)' /\ DestroyingOK(u, d)' /\ ResizingOK(u, d)'
<1> DEFINE f == F(u, d)
<1>1. /\ F(u, d)' = f /\ d \in 1 .. Depth(u)' /\ (u # t => Depth(u)' = Depth(u))
      /\ u \in Threads /\ d \in 1 .. Depth(u) /\ (u = t => d < Depth(t))
      /\ Depth(t) \in Nat
  BY BystanderFacts, DepthType DEF StepOf, Bystander, TypeOK, Stacks
<1>2. MakingOK(u, d) /\ DestroyingOK(u, d) /\ ResizingOK(u, d)
  BY <1>1 DEF Refs, FramesOK
<1>3. Active(u, d) => f.info # m
  BY <1>1 DEF StepOf, Mine
<1> HIDE DEF f
<1>4. MakingOK(u, d)'
  <2> SUFFICES ASSUME f.at \in Making PROVE MakingOK(u, d)'
    BY <1>1 DEF MakingOK
  <2>1. Depth(u) = 1 /\ f.var \in Own(u) /\ var[f.var] = NULL
    BY <1>2 DEF MakingOK, f
  <2>2. u # t
    BY <1>1, <2>1
  <2>3. f.var \in Vars /\ f.var \notin Own(t)
    BY <2>1, <2>2 DEF Own
  <2>4. var'[f.var] = NULL
    BY <2>1, <2>3 DEF StepOf
  <2>5. QED
    BY <1>1, <1>2, <2>1, <2>2, <2>4 DEF MakingOK, f
<1>5. DestroyingOK(u, d)'
  <2> SUFFICES ASSUME f.at \in Destroying PROVE DestroyingOK(u, d)'
    BY <1>1 DEF DestroyingOK
  <2>1. f.info \in Addrs /\ Unheld(f.info)
    BY <1>2 DEF DestroyingOK, Unheld, f
  <2>2. SameInfo(f.info) /\ (shutting => shutting')
    BY <1>3, <2>1 DEF StepOf, Active, f
  <2>3. QED
    BY <1>1, <1>2, <2>2 DEF DestroyingOK, SameInfo, f
<1>6. ResizingOK(u, d)'
  <2> SUFFICES ASSUME f.at \in Resizing PROVE ResizingOK(u, d)'
    BY <1>1 DEF ResizingOK
  <2>1. f.info \in Addrs /\ kind[f.info] = "varsize"
    BY <1>2 DEF ResizingOK, f
  <2>2. kind'[f.info] = kind[f.info] /\ data'[f.info] = data[f.info]
    BY <1>3, <2>1 DEF StepOf, Active, f
  <2>3. PICK v \in Own(u) : var[v] = f.info
    BY <1>2 DEF ResizingOK, f
  <2>4. v \in Vars /\ var[v] # NULL /\ (u # t => v \notin Own(t))
    BY <2>1, <2>3 DEF Own
  <2>5. var'[v] = var[v]
    BY <1>1, <2>3, <2>4 DEF StepOf
  <2>6. QED
    BY <1>1, <1>2, <2>1, <2>2, <2>3, <2>5 DEF ResizingOK, f
<1>7. QED
  BY <1>4, <1>5, <1>6

(* What is to be shown of the frames on top of t's stack.                  *)
TopOK(t, n) ==
  /\ \A d \in 1 .. n : d >= Depth(t) =>
       /\ (MakingOK(t, d) /\ DestroyingOK(t, d) /\ ResizingOK(t, d))'
       /\ Active(t, d)' => Mine(t, F(t, d)'.info)
  /\ \A d, e \in 1 .. n : d >= Depth(t) /\ e >= Depth(t) /\ Active(t, d)' /\ Active(t, e)'
       /\ F(t, d)'.info = F(t, e)'.info => d = e

LEMMA FramesStep ==
  ASSUME TypeOK, Refs, NEW t \in Threads, NEW n, NEW m, StepOf(t, n, m), TopOK(t, n)
  PROVE  FramesOK' /\ OneActive'
<1>1. Stacks /\ Moved(t, n) /\ Depth(t) <= n + 1
  BY DEF StepOf, TypeOK, Stacks
<1>2. ASSUME NEW u \in Threads, NEW d \in 1 .. Depth(u)'
      PROVE  MakingOK(u, d)' /\ DestroyingOK(u, d)' /\ ResizingOK(u, d)'
  <2>1. CASE Bystander(t, u, d)
    BY <2>1, OthersOK
  <2>2. CASE ~ Bystander(t, u, d)
    <3>1. u = t /\ d >= Depth(t) /\ d \in 1 .. n
      BY <1>1, <1>2, <2>2, FrameCases
    <3>2. QED
      BY <3>1 DEF TopOK
  <2>3. QED
    BY <2>1, <2>2
<1>3. \A u, d : Bystander(t, u, d) => F(u, d)' = F(u, d) /\ (Active(u, d)' <=> Active(u, d))
  BY <1>1, BystanderFacts DEF Active
<1>4. ASSUME NEW u \in Threads, NEW w \in Threads,
             NEW d \in 1 .. Depth(u)', NEW e \in 1 .. Depth(w)',
             Active(u, d)', Active(w, e)', F(u, d)'.info = F(w, e)'.info
      PROVE  u = w /\ d = e
  <2>1. CASE Bystander(t, u, d) /\ Bystander(t, w, e)
    BY <1>3, <1>4, <2>1 DEF Bystander, Refs, OneActive
  <2>2. CASE Bystander(t, u, d) /\ ~ Bystander(t, w, e)
    <3>1. w = t /\ e >= Depth(t) /\ e \in 1 .. n
      BY <1>1, <1>4, <2>2, FrameCases
    <3>2. Mine(t, F(u, d).info) /\ Active(u, d)
      BY <1>3, <1>4, <2>2, <3>1 DEF TopOK
    <3>3. QED
      BY <2>2, <3>2, DepthType, <1>1 DEF Mine, Bystander
  <2>3. CASE ~ Bystander(t, u, d) /\ Bystander(t, w, e)
    <3>1. u = t /\ d >= Depth(t) /\ d \in 1 .. n
      BY <1>1, <1>4, <2>3, FrameCases
    <3>2. Mine(t, F(w, e).info) /\ Active(w, e)
      BY <1>3, <1>4, <2>3, <3>1 DEF TopOK
    <3>3. QED
      BY <2>3, <3>2, DepthType, <1>1 DEF Mine, Bystander
  <2>4. CASE ~ Bystander(t, u, d) /\ ~ Bystander(t, w, e)
    <3>1. u = t /\ d >= Depth(t) /\ d \in 1 .. n /\ w = t /\ e >= Depth(t) /\ e \in 1 .. n
      BY <1>1, <1>4, <2>4, FrameCases
    <3>2. QED
      BY <1>4, <3>1 DEF TopOK
  <2>5. QED
    BY <2>1, <2>2, <2>3, <2>4
<1>5. QED
  BY <1>2, <1>4 DEF FramesOK, OneActive

LEMMA OthersClaims ==
  ASSUME TypeOK, Refs, NEW t \in Threads, NEW n, NEW m, StepOf(t, n, m),
         NEW u, NEW d, Bystander(t, u, d)
  PROVE  /\ u \in Threads /\ d \in 1 .. Depth(u) /\ F(u, d)' = F(u, d)
         /\ Fresh(u, d)' => Fresh(u, d)
         /\ Owning(u, d)' => Owning(u, d)
<1>1. /\ F(u, d)' = F(u, d) /\ u \in Threads /\ d \in 1 .. Depth(u)
      /\ u = t => d < Depth(t)
      /\ Depth(t) \in Nat
  BY BystanderFacts, DepthType DEF StepOf, Bystander, TypeOK, Stacks
<1>2. F(u, d).at \in {"count_varsize_alloc", "varsize_free"} =>
        data'[F(u, d).info] = data[F(u, d).info]
  <2> SUFFICES ASSUME F(u, d).at \in {"count_varsize_alloc", "varsize_free"}
               PROVE  data'[F(u, d).info] = data[F(u, d).info]
    OBVIOUS
  <2>1. Active(u, d) /\ F(u, d).at \in Resizing
    BY DEF Active, Resizing
  <2>2. F(u, d).info \in Addrs /\ kind[F(u, d).info] = "varsize" /\ F(u, d).info # m
    BY <1>1, <2>1 DEF Refs, FramesOK, ResizingOK, StepOf, Mine
  <2>3. QED
    BY <2>2 DEF StepOf
<1>3. QED
  BY <1>1, <1>2 DEF Fresh, Owning

SpentAt(f) == f.at \in {"count_free_data", "free_mi"}

(* A data block that was freed belongs to nothing until its MemInfo goes.  *)
KeepsSpent(t, n) ==
  \A d \in 1 .. Depth(t) : d = Depth(t) /\ SpentAt(F(t, d)) =>
    \/ kind'[F(t, d).info] # "varsize"
    \/ d <= n /\ SpentAt(F(t, d)') /\ F(t, d)'.info = F(t, d).info

LEMMA SpentStep ==
  ASSUME TypeOK, Refs, NEW t \in Threads, NEW n, NEW m, StepOf(t, n, m), KeepsSpent(t, n),
         NEW i, Spent(i), kind'[i] = "varsize"
  PROVE  Spent(i)'
<1>1. PICK u, d : /\ u \in Threads /\ d \in 1 .. Depth(u)
                  /\ SpentAt(F(u, d)) /\ F(u, d).info = i
  BY DEF Spent, SpentAt
<1>2. Stacks /\ Moved(t, n) /\ Depth(t) <= n + 1 /\ Depth(t) \in Nat
  BY DepthType DEF StepOf, TypeOK, Stacks
<1>3. CASE Bystander(t, u, d)
  <2>1. F(u, d)' = F(u, d) /\ d \in 1 .. Depth(u)'
    BY <1>2, <1>3, BystanderFacts
  <2>2. QED
    BY <1>1, <2>1 DEF Spent, SpentAt
<1>4. CASE ~ Bystander(t, u, d)
  <2>1. u = t /\ d = Depth(t)
    BY <1>1, <1>2, <1>4 DEF Bystander
  <2>2. d <= n /\ SpentAt(F(t, d)') /\ F(t, d)'.info = i
    BY <1>1, <2>1 DEF KeepsSpent
  <2>3. d \in 1 .. Depth(t)'
    BY <1>1, <1>2, <2>1, <2>2 DEF Moved
  <2>4. QED
    BY <2>1, <2>2, <2>3 DEF Spent, SpentAt
<1>5. QED
  BY <1>3, <1>4

(* The blocks in B are freed, all others keep their owner or lose it.      *)
Shrinks(t, n, B) ==
  /\ KeepsSpent(t, n)
  /\ \A a \in Addrs : heap'[a] = IF a \in B THEN "free" ELSE heap[a]
  /\ \A i \in Addrs : kind'[i] # "none" => kind'[i] = kind[i] /\ i \notin B
  /\ \A i \in Addrs : Kept(i) /\ kind'[i] = "varsize" /\ data'[i] # NULL /\ ~ Spent(i)' =>
       data'[i] = data[i] /\ data[i] \notin B
  /\ \A i \in Addrs : data[i] = NULL => data'[i] = NULL
  /\ \A u \in Threads : \A d \in 1 .. Depth(u)' :
       /\ Fresh(u, d)' => F(u, d)'.info \notin B
       /\ Owning(u, d)' => F(u, d)'.data \notin B
  /\ \A d \in 1 .. n : d >= Depth(t) =>
       /\ Fresh(t, d)' => /\ d = Depth(t) /\ Fresh(t, d) /\ F(t, d)'.info = F(t, d).info
                          /\ F(t, d)'.kind = F(t, d).kind
       /\ Owning(t, d)' => d = Depth(t) /\ Owning(t, d) /\ F(t, d)'.data = F(t, d).data

LEMMA HeapStep ==
  ASSUME TypeOK, Refs, Heap, NEW t \in Threads, NEW n, NEW m, StepOf(t, n, m),
         NEW B, Shrinks(t, n, B)
  PROVE  Heap'
<1>1. Stacks /\ Moved(t, n) /\ Depth(t) <= n + 1 /\ Depth(t) \in Nat
  BY DepthType DEF StepOf, TypeOK, Stacks
<1>2. \A i \in Addrs : data[i] # NULL => data[i] \in Addrs
  BY DEF TypeOK, MaybeAddr
<1>3. \A u \in Threads : \A d \in 1 .. Depth(u) :
        /\ F(u, d).info # NULL => F(u, d).info \in Addrs
        /\ F(u, d).data # NULL => F(u, d).data \in Addrs
  BY <1>1, DepthType DEF Frames, MaybeAddr
<1>4. ASSUME NEW i \in Addrs, Kept(i)'
      PROVE  Kept(i) /\ data'[i] = data[i] /\ data[i] \in Addrs \ B
  <2>1. kind'[i] = "varsize" /\ data'[i] # NULL /\ ~ Spent(i)'
    BY <1>4 DEF Kept
  <2>2. ~ Spent(i)
    BY <2>1, SpentStep DEF Shrinks
  <2>3. kind[i] = "varsize" /\ data[i] # NULL
    BY <2>1 DEF Shrinks
  <2>4. Kept(i)
    BY <2>2, <2>3 DEF Kept
  <2>5. QED
    BY <1>2, <2>1, <2>3, <2>4 DEF Shrinks
<1>5. ASSUME NEW u \in Threads, NEW d \in 1 .. Depth(u)', Fresh(u, d)'
      PROVE  /\ d \in 1 .. Depth(u) /\ Fresh(u, d) /\ F(u, d)'.info = F(u, d).info
             /\ F(u, d)'.kind = F(u, d).kind /\ F(u, d).info \in Addrs \ B
  <2>1. /\ d \in 1 .. Depth(u) /\ Fresh(u, d) /\ F(u, d)'.info = F(u, d).info
        /\ F(u, d)'.kind = F(u, d).kind
    <3>1. CASE Bystander(t, u, d)
      BY <1>5, <3>1, OthersClaims
    <3>2. CASE ~ Bystander(t, u, d)
      <4>1. u = t /\ d >= Depth(t) /\ d \in 1 .. n
        BY <1>1, <1>5, <3>2, FrameCases
      <4>2. /\ d = Depth(t) /\ Fresh(t, d) /\ F(t, d)'.info = F(t, d).info
            /\ F(t, d)'.kind = F(t, d).kind
        BY <1>5, <4>1 DEF Shrinks
      <4>3. QED
        BY <1>1, <4>1, <4>2
    <3>3. QED
      BY <3>1, <3>2
  <2>2. F(u, d).info \in Addrs
    BY <1>3, <2>1 DEF Fresh
  <2>3. F(u, d)'.info \notin B
    BY <1>5 DEF Shrinks
  <2>4. QED
    BY <2>1, <2>2, <2>3
<1>6. ASSUME NEW u \in Threads, NEW d \in 1 .. Depth(u)', Owning(u, d)'
      PROVE  /\ d \in 1 .. Depth(u) /\ Owning(u, d) /\ F(u, d)'.data = F(u, d).data
             /\ F(u, d).data \in Addrs \ B
  <2>1. d \in 1 .. Depth(u) /\ Owning(u, d) /\ F(u, d)'.data = F(u, d).data
    <3>1. CASE Bystander(t, u, d)
      BY <1>6, <3>1, OthersClaims
    <3>2. CASE ~ Bystander(t, u, d)
      <4>1. u = t /\ d >= Depth(t) /\ d \in 1 .. n
        BY <1>1, <1>6, <3>2, FrameCases
      <4>2. d = Depth(t) /\ Owning(t, d) /\ F(t, d)'.data = F(t, d).data
        BY <1>6, <4>1 DEF Shrinks
      <4>3. QED
        BY <1>1, <4>1, <4>2
    <3>3. QED
      BY <3>1, <3>2
  <2>2. F(u, d).data \in Addrs
    BY <1>3, <2>1 DEF Owning
  <2>3. F(u, d)'.data \notin B
    BY <1>6 DEF Shrinks
  <2>4. QED
    BY <2>1, <2>2, <2>3
<1>7. \A a \in Addrs : heap'[a] = IF a \in B THEN "free" ELSE heap[a]
  BY DEF Shrinks
<1>8. \A i \in Addrs : kind[i] = "none" => kind'[i] = "none"
  BY DEF Shrinks
<1>9. HeapSound' /\ InfosOwned'
  BY <1>7 DEF Heap, HeapSound, InfosOwned, Shrinks
<1>10. DataOwned'
  BY <1>4, <1>7, <1>8 DEF Heap, DataOwned
<1>11. FreshOwned'
  BY <1>4, <1>5, <1>6, <1>7, <1>8 DEF Heap, FreshOwned
<1>12. BlocksOwned'
  BY <1>4, <1>6, <1>7, <1>8 DEF Heap, BlocksOwned
<1>13. QED
  BY <1>9, <1>10, <1>11, <1>12 DEF Heap

-----------------------------------------------------------------------------
(* The frame on top, and what a step can say of it.                        *)

LEMMA AtTop ==
  ASSUME TypeOK, Refs, NEW t \in Threads, NEW l \in Labels, At(t, l)
  PROVE  /\ Stacks /\ stack[t] # <<>> /\ Depth(t) \in Nat \ {0}
         /\ Top(t) = F(t, Depth(t)) /\ Top(t) \in Frames /\ Top(t).at = l
         /\ MakingOK(t, Depth(t)) /\ DestroyingOK(t, Depth(t)) /\ ResizingOK(t, Depth(t))
<1>1. Stacks /\ stack[t] # <<>> /\ Top(t).at = l
  BY DEF TypeOK, Stacks, At
<1>2. Depth(t) \in Nat \ {0} /\ Top(t) = F(t, Depth(t)) /\ Top(t) \in Frames
  BY <1>1, DepthType
<1>3. Depth(t) \in 1 .. Depth(t)
  BY <1>2
<1>4. QED
  BY <1>1, <1>2, <1>3 DEF Refs, FramesOK

LEMMA IdleDepth ==
  ASSUME TypeOK, NEW t \in Threads, Idle(t)
  PROVE  Stacks /\ stack[t] = <<>> /\ Depth(t) = 0
BY DepthType DEF TypeOK, Stacks, Idle

(* Frame f is frame g gone on to l.                                        *)
Went(g, f, l) ==
  /\ f \in Frames /\ f.at = l
  /\ f.info = g.info /\ f.data = g.data /\ f.kind = g.kind /\ f.var = g.var

LEMMA GotoFrame ==
  ASSUME NEW g \in Frames, NEW l \in Labels
  PROVE  Went(g, [g EXCEPT !.at = l], l)
BY DEF Frames, Went

LEMMA GotoBecomes ==
  ASSUME TypeOK, Refs, NEW t \in Threads, NEW k \in Labels, At(t, k),
         NEW l \in Labels, Goto(t, l)
  PROVE  \E f \in Frames : Become(t, f) /\ Went(F(t, Depth(t)), f, l)
<1>1. Top(t) = F(t, Depth(t)) /\ Top(t) \in Frames
  BY AtTop
<1>2. Went(Top(t), [Top(t) EXCEPT !.at = l], l)
  BY <1>1, GotoFrame
<1>3. [Top(t) EXCEPT !.at = l] \in Frames
  BY <1>2 DEF Went
<1>4. QED
  BY <1>1, <1>2, <1>3 DEF Goto

LEMMA NewFrame ==
  ASSUME NEW l \in Labels, NEW i \in MaybeAddr, NEW a \in MaybeAddr,
         NEW k \in Kinds \cup {"none"}, NEW v \in Vars \cup {NoVar}
  PROVE  LET g == Frame(l, i, a, k, v) IN
         /\ g \in Frames /\ g.at = l
         /\ g.info = i /\ g.data = a /\ g.kind = k /\ g.var = v
BY DEF Frames, Frame

LEMMA MineTop ==
  ASSUME TypeOK, Refs, NEW t \in Threads, NEW n \in Nat \ {0}, n = Depth(t),
         F(t, n).at \in Destroying \cup Resizing
  PROVE  Mine(t, F(t, n).info)
<1>1. Active(t, n) /\ n \in 1 .. Depth(t)
  BY DEF Active
<1>2. QED
  BY <1>1 DEF Mine, Refs, OneActive

LEMMA MineNull == ASSUME Refs, NEW t \in Threads PROVE Mine(t, NULL)
BY DEF Mine, Refs, FramesOK, Active, DestroyingOK, ResizingOK

LEMMA QuietStepOf ==
  ASSUME NEW t \in Threads, NEW n, NEW m, Moved(t, n), Depth(t) <= n + 1,
         n > Depth(t) => Depth(t) = 0, Mine(t, m), UNCHANGED <<info, var, shutting>>
  PROVE  StepOf(t, n, m)
BY DEF StepOf, SameInfo, Holders, Containers, info

(* What is to be shown when the top frame goes on, or t returns.           *)
TopGoes(t, n, f) ==
  /\ (MakingOK(t, n) /\ DestroyingOK(t, n) /\ ResizingOK(t, n))'
  /\ f.at \in Destroying \cup Resizing => Mine(t, f.info)

LEMMA TopGoesOK ==
  ASSUME Stacks, NEW t \in Threads, NEW n, n = Depth(t), NEW f, F(t, n)' = f, TopGoes(t, n, f)
  PROVE  TopOK(t, n)
<1>1. n \in Nat
  BY DepthType
<1>2. \A d \in 1 .. n : d >= Depth(t) => d = n
  BY <1>1
<1>3. QED
  BY <1>2 DEF TopOK, TopGoes, Active

LEMMA TopReturns ==
  ASSUME Stacks, NEW t \in Threads, NEW n, n + 1 = Depth(t), n \in Nat
  PROVE  TopOK(t, n)
<1>1. \A d \in 1 .. n : ~ (d >= Depth(t))
  OBVIOUS
<1>2. QED
  BY <1>1 DEF TopOK

(* A step that only moves t's frames and, perhaps, counts.                 *)
LEMMA QuietStep ==
  ASSUME TypeOK, Refs, Heap, NEW t \in Threads, NEW n, NEW m, StepOf(t, n, m), TopOK(t, n),
         UNCHANGED <<heap, info, var, shutting>>, KeepsSpent(t, n),
         \A d \in 1 .. n : d >= Depth(t) =>
           /\ Fresh(t, d)' => /\ d = Depth(t) /\ Fresh(t, d) /\ F(t, d)'.info = F(t, d).info
                              /\ F(t, d)'.kind = F(t, d).kind
           /\ Owning(t, d)' => d = Depth(t) /\ Owning(t, d) /\ F(t, d)'.data = F(t, d).data
  PROVE  Refs' /\ Heap'
<1>1. FramesOK' /\ OneActive'
  BY FramesStep
<1>2. RefctExact' /\ Alive'
  BY DEF Refs, RefctExact, Alive, Holders, Containers, info
<1>3. Shrinks(t, n, {})
  BY DEF Shrinks, info
<1>4. Heap'
  BY <1>3, HeapStep
<1>5. QED
  BY <1>1, <1>2, <1>4 DEF Refs

(* The same, for the two ways a frame moves.                               *)
LEMMA QuietReturn ==
  ASSUME TypeOK, Refs, Heap, NEW t \in Threads, stack[t] # <<>>, Return(t),
         ~ SpentAt(F(t, Depth(t))), UNCHANGED <<heap, info, var, shutting>>
  PROVE  Stacks' /\ Refs' /\ Heap'
<1> DEFINE n == Depth(t) - 1
<1>1. Stacks /\ Depth(t) \in Nat \ {0}
  BY DepthType DEF TypeOK, Stacks
<1>2. n \in Nat /\ n + 1 = Depth(t) /\ Moved(t, n)
  BY <1>1, ReturnMoves
<1> HIDE DEF n
<1>3. StepOf(t, n, NULL)
  BY <1>1, <1>2, MineNull, QuietStepOf
<1>4. TopOK(t, n)
  BY <1>1, <1>2, TopReturns
<1>5. KeepsSpent(t, n)
  BY DEF KeepsSpent
<1>6. \A d \in 1 .. n : ~ (d >= Depth(t))
  BY <1>2
<1>7. Refs' /\ Heap'
  BY <1>3, <1>4, <1>5, <1>6, QuietStep
<1>8. QED
  BY <1>2, <1>7 DEF Moved

LEMMA QuietBecome ==
  ASSUME TypeOK, Refs, Heap, NEW t \in Threads, stack[t] # <<>>, NEW f \in Frames, Become(t, f),
         UNCHANGED <<heap, info, var, shutting>>, NEW n, n = Depth(t), TopGoes(t, n, f),
         SpentAt(F(t, n)) => SpentAt(f) /\ f.info = F(t, n).info,
         f.at \in {"count_mi", "init"} /\ f.info # NULL =>
           Fresh(t, n) /\ f.info = F(t, n).info /\ f.kind = F(t, n).kind,
         /\ f.data # NULL
         /\ \/ f.at \in Making
            \/ f.at \in {"count_varsize_alloc", "varsize_free"} /\ f.data # data[f.info]
         => Owning(t, n) /\ f.data = F(t, n).data
  PROVE  Stacks' /\ Refs' /\ Heap'
<1>1. Stacks /\ n \in Nat \ {0} /\ n \in 1 .. Depth(t)
  BY DepthType DEF TypeOK, Stacks
<1>2. Moved(t, n) /\ F(t, n)' = f
  BY <1>1, BecomeMoves
<1>3. StepOf(t, n, NULL)
  BY <1>1, <1>2, MineNull, QuietStepOf
<1>4. TopOK(t, n)
  BY <1>1, <1>2, TopGoesOK
<1>5. KeepsSpent(t, n)
  BY <1>1, <1>2 DEF KeepsSpent
<1>6. \A d \in 1 .. n : d >= Depth(t) => d = n
  BY <1>1
<1>7. Fresh(t, n)' <=> f.at \in {"count_mi", "init"} /\ f.info # NULL
  BY <1>2 DEF Fresh
<1>8. Owning(t, n)' <=> /\ f.data # NULL
                        /\ \/ f.at \in Making
                           \/ /\ f.at \in {"count_varsize_alloc", "varsize_free"}
                              /\ f.data # data[f.info]
  BY <1>2 DEF Owning, info
<1>9. Refs' /\ Heap'
  BY <1>1, <1>2, <1>3, <1>4, <1>5, <1>6, <1>7, <1>8, QuietStep
<1>10. QED
  BY <1>2, <1>9 DEF Moved

-----------------------------------------------------------------------------
(* The actions that only move frames and count.                            *)

LEMMA CountedType == ASSUME NEW c \in 0 .. Word - 1 PROVE Counted(c) \in 0 .. Word - 1
<1>1. Word \in Nat \ {0} /\ c \in Int
  BY FS_CardinalityType
<1>2. (c + 1) % Word \in 0 .. Word - 1
  BY <1>1
<1>3. QED
  BY <1>2 DEF Counted

LEMMA QuietTypes ==
  ASSUME TypeOK, Stacks', UNCHANGED <<heap, info, var, shutting, enabled, crashed>>,
         alloc' = alloc \/ alloc' = Counted(alloc), free' = free \/ free' = Counted(free),
         mi_alloc' = mi_alloc \/ mi_alloc' = Counted(mi_alloc),
         mi_free' = mi_free \/ mi_free' = Counted(mi_free)
  PROVE  TypeOK'
<1>1. /\ Counted(alloc) \in 0 .. Word - 1 /\ Counted(free) \in 0 .. Word - 1
      /\ Counted(mi_alloc) \in 0 .. Word - 1 /\ Counted(mi_free) \in 0 .. Word - 1
  BY CountedType DEF TypeOK
<1>2. {alloc, free, mi_alloc, mi_free}' \subseteq 0 .. Word - 1
  BY <1>1 DEF TypeOK
<1>3. QED
  BY <1>2 DEF TypeOK, Stacks, info

LEMMA NewInv ==
  ASSUME Inv, NEW t \in Threads, NEW v \in Own(t), NEW k \in Kinds, New(t, v, k)
  PROVE  Inv'
<1> DEFINE l == IF k = "varsize" THEN "malloc_data" ELSE "malloc_mi"
           f == Frame(l, NULL, NULL, k, v)
<1>1. TypeOK /\ Refs /\ Heap /\ Idle(t) /\ var[v] = NULL /\ Push(t, f)
  BY DEF Inv, New
<1>2. UNCHANGED <<heap, info, var, shutting, stats, crashed>>
  BY DEF New
<1>3. Stacks /\ stack[t] = <<>> /\ Depth(t) = 0
  BY <1>1, IdleDepth
<1>4. v \in Vars /\ NULL \in MaybeAddr /\ l \in Labels
  BY DEF Own, MaybeAddr, Labels
<1>5. /\ f \in Frames /\ f.at = l /\ f.info = NULL /\ f.data = NULL /\ f.kind = k /\ f.var = v
  BY <1>4, NewFrame
<1> HIDE DEF f
<1>6. Moved(t, 1) /\ F(t, 1)' = f
  BY <1>1, <1>3, <1>5, PushMoves
<1>7. StepOf(t, 1, NULL)
  BY <1>1, <1>2, <1>3, <1>6, MineNull, QuietStepOf
<1>8. Depth(t)' = 1
  BY <1>6 DEF Moved
<1>9. MakingOK(t, 1)' /\ DestroyingOK(t, 1)' /\ ResizingOK(t, 1)' /\ ~ Active(t, 1)'
  BY <1>1, <1>2, <1>5, <1>6, <1>8
     DEF MakingOK, DestroyingOK, ResizingOK, Active, Making, Destroying, Resizing
<1>10. \A d \in 1 .. 1 : d = 1
  OBVIOUS
<1>11. TopOK(t, 1)
  BY <1>9, <1>10 DEF TopOK
<1>12. KeepsSpent(t, 1)
  BY <1>3 DEF KeepsSpent
<1>13. ~ Fresh(t, 1)' /\ ~ Owning(t, 1)'
  BY <1>5, <1>6 DEF Fresh, Owning
<1>14. Refs' /\ Heap'
  BY <1>1, <1>2, <1>7, <1>10, <1>11, <1>12, <1>13, QuietStep
<1>15. TypeOK'
  BY <1>1, <1>2, <1>6, QuietTypes DEF Moved, stats
<1>16. QED
  BY <1>14, <1>15 DEF Inv

LEMMA GrowClearInv ==
  ASSUME Inv, NEW t \in Threads, NEW v \in Own(t), GrowSet(t, v) \/ ClearSet(t, v)
  PROVE  Inv'
<1> DEFINE i == var[v]
<1>1. /\ TypeOK /\ Refs /\ Heap /\ Idle(t) /\ i # NULL /\ kind[i] = "varsize"
      /\ data[i] # NULL /\ ~ Busy(i) /\ v \in Vars
      /\ UNCHANGED <<heap, info, var, shutting, stats, crashed>>
  BY DEF Inv, GrowSet, ClearSet, MayResize, Own
<1>2. Stacks /\ stack[t] = <<>> /\ Depth(t) = 0
  BY <1>1, IdleDepth
<1>3. i \in Addrs /\ data[i] \in MaybeAddr
  BY <1>1 DEF TypeOK, MaybeAddr
<1>4. PICK l \in {"varsize_alloc", "clear"} : Push(t, Frame(l, i, data[i], "none", NoVar))
  BY DEF GrowSet, ClearSet
<1> DEFINE f == Frame(l, i, data[i], "none", NoVar)
<1>5. /\ f \in Frames /\ f.at = l /\ f.info = i /\ f.data = data[i]
  BY <1>3, NewFrame DEF Labels, MaybeAddr
<1> HIDE DEF f, i
<1>6. Moved(t, 1) /\ F(t, 1)' = f
  BY <1>2, <1>4, <1>5, PushMoves DEF f
<1>7. StepOf(t, 1, NULL)
  BY <1>1, <1>2, <1>6, MineNull, QuietStepOf
<1>8. MakingOK(t, 1)' /\ DestroyingOK(t, 1)'
  BY <1>5, <1>6 DEF MakingOK, DestroyingOK, Making, Destroying
<1>9. ResizingOK(t, 1)'
  BY <1>1, <1>3, <1>5, <1>6 DEF ResizingOK, info, i
<1>10. \A d \in 1 .. 1 : d = 1
  OBVIOUS
<1>11. Mine(t, i)
  <2>1. \A u \in Threads : \A e \in 1 .. Depth(u) : Depth(u) + 1 - e \in DOMAIN stack[u]
    BY <1>1 DEF TypeOK, Depth
  <2>2. \A u \in Threads : \A e \in 1 .. Depth(u) : F(u, e).info # i
    BY <1>1, <2>1 DEF Busy, F
  <2>3. QED
    BY <2>2 DEF Mine
<1>12. TopOK(t, 1)
  BY <1>5, <1>6, <1>8, <1>9, <1>10, <1>11 DEF TopOK
<1>13. KeepsSpent(t, 1)
  BY <1>2 DEF KeepsSpent
<1>14. ~ Fresh(t, 1)' /\ ~ Owning(t, 1)'
  BY <1>5, <1>6 DEF Fresh, Owning, Making
<1>15. Refs' /\ Heap'
  BY <1>1, <1>7, <1>10, <1>12, <1>13, <1>14, QuietStep
<1>16. TypeOK'
  BY <1>1, <1>6, QuietTypes DEF Moved, stats
<1>17. QED
  BY <1>15, <1>16 DEF Inv

LEMMA CountDataInv ==
  ASSUME Inv, NEW t \in Threads, CountData(t)
  PROVE  Inv'
<1> PICK n : n = Depth(t)
  OBVIOUS
<1>1. /\ TypeOK /\ Refs /\ Heap /\ At(t, "count_data")
      /\ UNCHANGED <<heap, info, var, shutting, enabled, free, mi_alloc, mi_free, crashed>>
      /\ alloc' = Counted(alloc)
  BY DEF Inv, CountData
<1>2. /\ stack[t] # <<>> /\ n \in Nat \ {0} /\ Top(t) = F(t, n) /\ Top(t) \in Frames
      /\ Top(t).at = "count_data" /\ MakingOK(t, n)
  BY <1>1, AtTop DEF Labels
<1>3. CASE Top(t).data = NULL
  <2>1. Return(t)
    BY <1>3 DEF CountData
  <2>2. Stacks' /\ Refs' /\ Heap'
    BY <1>1, <1>2, <2>1, QuietReturn DEF SpentAt
  <2>3. QED
    BY <1>1, <2>2, QuietTypes DEF Inv
<1>4. CASE Top(t).data # NULL
  <2>1. PICK f \in Frames : Become(t, f) /\ Went(F(t, n), f, "malloc_mi")
    BY <1>1, <1>4, GotoBecomes DEF CountData, Labels
  <2>2. /\ f.at = "malloc_mi" /\ f.info = F(t, n).info /\ f.data = F(t, n).data
        /\ f.kind = F(t, n).kind /\ f.var = F(t, n).var
    BY <2>1 DEF Went
  <2>3. Moved(t, n) /\ F(t, n)' = f
    BY <1>1, <1>2, <2>1, <2>2, BecomeMoves DEF TypeOK, Stacks
  <2>4. TopGoes(t, n, f)
    BY <1>1, <1>2, <2>2, <2>3
       DEF TopGoes, MakingOK, DestroyingOK, ResizingOK, Making, Destroying, Resizing, Moved
  <2>5. Owning(t, n)
    BY <1>2, <1>4 DEF Owning, Making
  <2>6. Stacks' /\ Refs' /\ Heap'
    BY <1>1, <1>2, <2>1, <2>2, <2>4, <2>5, QuietBecome DEF SpentAt
  <2>7. QED
    BY <1>1, <2>6, QuietTypes DEF Inv
<1>5. QED
  BY <1>3, <1>4

LEMMA CountInfoInv ==
  ASSUME Inv, NEW t \in Threads, CountInfo(t)
  PROVE  Inv'
<1> PICK n : n = Depth(t)
  OBVIOUS
<1>1. /\ TypeOK /\ Refs /\ Heap /\ At(t, "count_mi")
      /\ UNCHANGED <<heap, info, var, shutting, enabled, free, mi_alloc, mi_free, crashed>>
      /\ alloc' = Counted(alloc)
  BY DEF Inv, CountInfo
<1>2. /\ stack[t] # <<>> /\ n \in Nat \ {0} /\ Top(t) = F(t, n) /\ Top(t) \in Frames
      /\ Top(t).at = "count_mi" /\ MakingOK(t, n)
  BY <1>1, AtTop DEF Labels
<1>3. CASE Top(t).info = NULL
  <2>1. Return(t)
    BY <1>3 DEF CountInfo
  <2>2. Stacks' /\ Refs' /\ Heap'
    BY <1>1, <1>2, <2>1, QuietReturn DEF SpentAt
  <2>3. QED
    BY <1>1, <2>2, QuietTypes DEF Inv
<1>4. CASE Top(t).info # NULL
  <2>1. PICK f \in Frames : Become(t, f) /\ Went(F(t, n), f, "init")
    BY <1>1, <1>4, GotoBecomes DEF CountInfo, Labels
  <2>2. /\ f.at = "init" /\ f.info = F(t, n).info /\ f.data = F(t, n).data
        /\ f.kind = F(t, n).kind /\ f.var = F(t, n).var
    BY <2>1 DEF Went
  <2>3. Moved(t, n) /\ F(t, n)' = f
    BY <1>1, <1>2, <2>1, <2>2, BecomeMoves DEF TypeOK, Stacks
  <2>4. TopGoes(t, n, f)
    BY <1>1, <1>2, <1>4, <2>2, <2>3
       DEF TopGoes, MakingOK, DestroyingOK, ResizingOK, Making, Destroying, Resizing, Moved
  <2>5. Fresh(t, n) /\ (f.data # NULL => Owning(t, n))
    BY <1>2, <1>4, <2>2 DEF Fresh, Owning, Making
  <2>6. Stacks' /\ Refs' /\ Heap'
    BY <1>1, <1>2, <1>4, <2>1, <2>2, <2>4, <2>5, QuietBecome DEF SpentAt, Making
  <2>7. QED
    BY <1>1, <2>6, QuietTypes DEF Inv
<1>5. QED
  BY <1>3, <1>4

LEMMA CountFreeDataInv ==
  ASSUME Inv, NEW t \in Threads, CountFreeData(t)
  PROVE  Inv'
<1> PICK n : n = Depth(t)
  OBVIOUS
<1>1. /\ TypeOK /\ Refs /\ Heap /\ At(t, "count_free_data")
      /\ UNCHANGED <<heap, info, var, shutting, enabled, alloc, mi_alloc, mi_free, crashed>>
      /\ free' = Counted(free)
  BY DEF Inv, CountFreeData
<1>2. /\ stack[t] # <<>> /\ n \in Nat \ {0} /\ Top(t) = F(t, n) /\ Top(t) \in Frames
      /\ Top(t).at = "count_free_data" /\ DestroyingOK(t, n)
  BY <1>1, AtTop DEF Labels
<1>3. PICK f \in Frames : Become(t, f) /\ Went(F(t, n), f, "free_mi")
  BY <1>1, GotoBecomes DEF CountFreeData, Labels
<1>4. /\ f.at = "free_mi" /\ f.info = F(t, n).info /\ f.data = F(t, n).data
      /\ f.kind = F(t, n).kind /\ f.var = F(t, n).var
  BY <1>3 DEF Went
<1>5. Moved(t, n) /\ F(t, n)' = f
  BY <1>1, <1>2, <1>3, <1>4, BecomeMoves DEF TypeOK, Stacks
<1>6. Mine(t, f.info)
  BY <1>1, <1>2, <1>4, MineTop DEF Destroying, Resizing
<1>7. TopGoes(t, n, f)
  BY <1>1, <1>2, <1>4, <1>5, <1>6
     DEF TopGoes, MakingOK, DestroyingOK, ResizingOK, Making, Destroying, Resizing, Moved,
       info, Holders, Containers
<1>8. Stacks' /\ Refs' /\ Heap'
  BY <1>1, <1>2, <1>3, <1>4, <1>7, QuietBecome DEF SpentAt, Making
<1>9. QED
  BY <1>1, <1>8, QuietTypes DEF Inv

LEMMA CountFreeInfoInv ==
  ASSUME Inv, NEW t \in Threads, CountFreeInfo(t)
  PROVE  Inv'
<1> PICK n : n = Depth(t)
  OBVIOUS
<1>1. /\ TypeOK /\ Refs /\ Heap /\ At(t, "count_free_mi")
      /\ UNCHANGED <<heap, info, var, shutting, enabled, alloc, mi_alloc, mi_free, crashed>>
      /\ free' = Counted(free)
  BY DEF Inv, CountFreeInfo
<1>2. /\ stack[t] # <<>> /\ n \in Nat \ {0} /\ Top(t) = F(t, n) /\ Top(t) \in Frames
      /\ Top(t).at = "count_free_mi" /\ DestroyingOK(t, n)
  BY <1>1, AtTop DEF Labels
<1>3. PICK f \in Frames : Become(t, f) /\ Went(F(t, n), f, "count_mi_free")
  BY <1>1, GotoBecomes DEF CountFreeInfo, Labels
<1>4. /\ f.at = "count_mi_free" /\ f.info = F(t, n).info /\ f.data = F(t, n).data
      /\ f.kind = F(t, n).kind /\ f.var = F(t, n).var
  BY <1>3 DEF Went
<1>5. Moved(t, n) /\ F(t, n)' = f
  BY <1>1, <1>2, <1>3, <1>4, BecomeMoves DEF TypeOK, Stacks
<1>6. TopGoes(t, n, f)
  BY <1>1, <1>2, <1>4, <1>5
     DEF TopGoes, MakingOK, DestroyingOK, ResizingOK, Making, Destroying, Resizing, Moved
<1>7. Stacks' /\ Refs' /\ Heap'
  BY <1>1, <1>2, <1>3, <1>4, <1>6, QuietBecome DEF SpentAt, Making
<1>8. QED
  BY <1>1, <1>7, QuietTypes DEF Inv

LEMMA CountDestroyedInv ==
  ASSUME Inv, NEW t \in Threads, CountDestroyed(t)
  PROVE  Inv'
<1> PICK n : n = Depth(t)
  OBVIOUS
<1>1. /\ TypeOK /\ Refs /\ Heap /\ At(t, "count_mi_free")
      /\ UNCHANGED <<heap, info, var, shutting, enabled, alloc, free, mi_alloc, crashed>>
      /\ mi_free' = Counted(mi_free)
  BY DEF Inv, CountDestroyed
<1>2. /\ stack[t] # <<>> /\ n \in Nat \ {0} /\ Top(t) = F(t, n) /\ Top(t) \in Frames
      /\ Top(t).at = "count_mi_free" /\ DestroyingOK(t, n)
  BY <1>1, AtTop DEF Labels
<1>3. Return(t)
  BY DEF CountDestroyed
<1>4. Stacks' /\ Refs' /\ Heap'
  BY <1>1, <1>2, <1>3, QuietReturn DEF SpentAt
<1>5. QED
  BY <1>1, <1>4, QuietTypes DEF Inv

LEMMA CountVarsizeAllocInv ==
  ASSUME Inv, NEW t \in Threads, CountVarsizeAlloc(t)
  PROVE  Inv'
<1> PICK n : n = Depth(t)
  OBVIOUS
<1>1. /\ TypeOK /\ Refs /\ Heap /\ At(t, "count_varsize_alloc")
      /\ UNCHANGED <<heap, info, var, shutting, enabled, free, mi_alloc, mi_free, crashed>>
      /\ alloc' = Counted(alloc)
  BY DEF Inv, CountVarsizeAlloc
<1>2. /\ stack[t] # <<>> /\ n \in Nat \ {0} /\ Top(t) = F(t, n) /\ Top(t) \in Frames
      /\ Top(t).at = "count_varsize_alloc" /\ ResizingOK(t, n)
  BY <1>1, AtTop DEF Labels
<1>3. CASE data[Top(t).info] = NULL \/ Top(t).data = NULL
  <2>1. Return(t)
    BY <1>3 DEF CountVarsizeAlloc
  <2>2. Stacks' /\ Refs' /\ Heap'
    BY <1>1, <1>2, <2>1, QuietReturn DEF SpentAt
  <2>3. QED
    BY <1>1, <2>2, QuietTypes DEF Inv
<1>4. CASE ~ (data[Top(t).info] = NULL \/ Top(t).data = NULL)
  <2>1. PICK f \in Frames : Become(t, f) /\ Went(F(t, n), f, "varsize_free")
    BY <1>1, <1>4, GotoBecomes DEF CountVarsizeAlloc, Labels
  <2>2. /\ f.at = "varsize_free" /\ f.info = F(t, n).info /\ f.data = F(t, n).data
        /\ f.kind = F(t, n).kind /\ f.var = F(t, n).var
    BY <2>1 DEF Went
  <2>3. Moved(t, n) /\ F(t, n)' = f
    BY <1>1, <1>2, <2>1, <2>2, BecomeMoves DEF TypeOK, Stacks
  <2>4. Mine(t, f.info)
    BY <1>1, <1>2, <2>2, MineTop DEF Destroying, Resizing
  <2>5. TopGoes(t, n, f)
    BY <1>1, <1>2, <1>4, <2>2, <2>3, <2>4
       DEF TopGoes, MakingOK, DestroyingOK, ResizingOK, Making, Destroying, Resizing, Moved, info
  <2>6. Stacks' /\ Refs' /\ Heap'
    BY <1>1, <1>2, <1>4, <2>1, <2>2, <2>5, QuietBecome DEF SpentAt, Making, Owning
  <2>7. QED
    BY <1>1, <2>6, QuietTypes DEF Inv
<1>5. QED
  BY <1>3, <1>4

LEMMA CountVarsizeFreeInv ==
  ASSUME Inv, NEW t \in Threads, CountVarsizeFree(t)
  PROVE  Inv'
<1> PICK n : n = Depth(t)
  OBVIOUS
<1>1. /\ TypeOK /\ Refs /\ Heap /\ At(t, "count_varsize_free")
      /\ UNCHANGED <<heap, info, var, shutting, enabled, alloc, mi_alloc, mi_free, crashed>>
      /\ free' = Counted(free)
  BY DEF Inv, CountVarsizeFree
<1>2. /\ stack[t] # <<>> /\ n \in Nat \ {0} /\ Top(t) = F(t, n) /\ Top(t) \in Frames
      /\ Top(t).at = "count_varsize_free" /\ ResizingOK(t, n)
  BY <1>1, AtTop DEF Labels
<1>3. CASE data[Top(t).info] # NULL
  <2>1. Return(t)
    BY <1>3 DEF CountVarsizeFree
  <2>2. Stacks' /\ Refs' /\ Heap'
    BY <1>1, <1>2, <2>1, QuietReturn DEF SpentAt
  <2>3. QED
    BY <1>1, <2>2, QuietTypes DEF Inv
<1>4. CASE data[Top(t).info] = NULL
  <2> DEFINE f == [Top(t) EXCEPT !.at = "varsize_alloc", !.data = NULL]
  <2>1. /\ f \in Frames /\ f.at = "varsize_alloc" /\ f.info = F(t, n).info /\ f.data = NULL
        /\ Become(t, f)
    <3>1. Become(t, f)
      BY <1>4 DEF CountVarsizeFree
    <3>2. f \in Frames /\ f.at = "varsize_alloc" /\ f.info = F(t, n).info /\ f.data = NULL
      BY <1>2 DEF Frames, Labels, MaybeAddr
    <3>3. QED
      BY <3>1, <3>2
  <2> HIDE DEF f
  <2>2. Moved(t, n) /\ F(t, n)' = f
    BY <1>1, <1>2, <2>1, BecomeMoves DEF TypeOK, Stacks
  <2>3. Mine(t, f.info)
    BY <1>1, <1>2, <2>1, MineTop DEF Destroying, Resizing
  <2>4. TopGoes(t, n, f)
    BY <1>1, <1>2, <1>4, <2>1, <2>2, <2>3
       DEF TopGoes, MakingOK, DestroyingOK, ResizingOK, Making, Destroying, Resizing, info
  <2>5. Stacks' /\ Refs' /\ Heap'
    BY <1>1, <1>2, <2>1, <2>4, QuietBecome DEF SpentAt, Making
  <2>6. QED
    BY <1>1, <2>5, QuietTypes DEF Inv
<1>5. QED
  BY <1>3, <1>4

-----------------------------------------------------------------------------
(* The actions that switch something on, or stop.                          *)

LEMMA StillInv ==
  ASSUME Inv, UNCHANGED <<heap, info, var, stack>>, shutting => shutting',
         {shutting, enabled, crashed}' \subseteq BOOLEAN,
         UNCHANGED <<alloc, free, mi_alloc, mi_free>>
  PROVE  Inv'
<1>1. \A t \in Threads : Depth(t)' = Depth(t) /\ \A d \in 1 .. Depth(t) : F(t, d)' = F(t, d)
  BY DEF Depth, F
<1>2. TypeOK'
  BY DEF Inv, TypeOK, info
<1>3. RefctExact' /\ Alive'
  BY DEF Inv, Refs, RefctExact, Alive, Holders, Containers, info
<1>4. FramesOK' /\ OneActive'
  BY <1>1 DEF Inv, Refs, FramesOK, OneActive, MakingOK, DestroyingOK, ResizingOK, Active,
       Holders, Containers, info
<1>5. \A i \in Addrs : Kept(i)' <=> Kept(i)
  BY <1>1 DEF Kept, Spent, info
<1>6. HeapSound' /\ InfosOwned' /\ DataOwned'
  BY <1>5 DEF Inv, Heap, HeapSound, InfosOwned, DataOwned, info
<1>7. \A t \in Threads : \A d \in 1 .. Depth(t) :
        (Fresh(t, d)' <=> Fresh(t, d)) /\ (Owning(t, d)' <=> Owning(t, d))
  BY <1>1 DEF Fresh, Owning, info
<1>8. FreshOwned' /\ BlocksOwned'
  BY <1>1, <1>5, <1>7 DEF Inv, Heap, FreshOwned, BlocksOwned, info
<1>9. QED
  BY <1>2, <1>3, <1>4, <1>6, <1>8 DEF Inv, Refs, Heap

LEMMA SwitchInv == ASSUME Inv, EnableStats \/ Shutdown \/ Ended PROVE Inv'
<1>1. {shutting, enabled, crashed} \subseteq BOOLEAN
  BY DEF Inv, TypeOK
<1>2. CASE EnableStats
  BY <1>1, <1>2, StillInv DEF EnableStats
<1>3. CASE Shutdown
  BY <1>1, <1>3, StillInv DEF Shutdown, stats
<1>4. CASE Ended
  BY <1>1, <1>4, StillInv DEF Ended, vars, stats
<1>5. QED
  BY <1>2, <1>3, <1>4

-----------------------------------------------------------------------------
(* The actions of a thread that is not inside the runtime.                 *)

(* A step without frames of its own.                                       *)
LEMMA IdleStep ==
  ASSUME TypeOK, Refs, Heap, NEW t \in Threads, stack[t] = <<>>, UNCHANGED <<stack, heap>>,
         NEW m, Mine(t, m),
         \A i \in Addrs : i # m /\ kind[i] # "none" => kind'[i] = kind[i] /\ data'[i] = data[i],
         \A i \in Addrs : i # m /\ Unheld(i) => SameInfo(i),
         \A v \in Vars : v \notin Own(t) => var'[v] = var[v], shutting => shutting'
  PROVE  StepOf(t, 0, m) /\ FramesOK' /\ OneActive'
<1>1. Stacks /\ Depth(t) = 0 /\ Depth(t)' = 0
  BY DepthType DEF TypeOK, Stacks, Depth
<1>2. Moved(t, 0)
  BY <1>1 DEF Moved, Stacks
<1>3. StepOf(t, 0, m)
  BY <1>1, <1>2 DEF StepOf
<1>4. TopOK(t, 0)
  BY DEF TopOK
<1>5. QED
  BY <1>3, <1>4, FramesStep

(* A step of which the heap knows nothing.                                 *)
LEMMA SameHeap ==
  ASSUME TypeOK, Refs, Heap, NEW t \in Threads, NEW n, NEW m, StepOf(t, n, m), KeepsSpent(t, n),
         UNCHANGED <<heap, kind, data>>,
         \A d \in 1 .. n : d >= Depth(t) =>
           /\ Fresh(t, d)' => /\ d = Depth(t) /\ Fresh(t, d) /\ F(t, d)'.info = F(t, d).info
                              /\ F(t, d)'.kind = F(t, d).kind
           /\ Owning(t, d)' => d = Depth(t) /\ Owning(t, d) /\ F(t, d)'.data = F(t, d).data
  PROVE  Heap'
<1>1. Shrinks(t, n, {})
  BY DEF Shrinks
<1>2. QED
  BY <1>1, HeapStep

(* One reference to c is added or removed, and counted.                    *)
LEMMA Recount ==
  ASSUME TypeOK, RefctExact, NEW c \in Addrs, kind[c] # "none", NEW k \in Int,
         UNCHANGED <<kind, shutting>>, refct'[c] = refct[c] + k,
         Cardinality(Holders(c))' + Cardinality(Containers(c))' =
           Cardinality(Holders(c)) + Cardinality(Containers(c)) + k,
         \A j \in Addrs : j # c =>
           /\ refct'[j] = refct[j]
           /\ Holders(j)' = Holders(j) /\ Containers(j)' = Containers(j)
  PROVE  RefctExact'
<1> DEFINE n(j) == Cardinality(Holders(j)) + Cardinality(Containers(j))
<1>1. \A j \in Addrs : kind[j] # "none" =>
        refct[j] \in Nat /\ refct[j] >= n(j) /\ (~ shutting => refct[j] = n(j)) /\ n(j) \in Nat
  BY RefsFinite, CountFacts
<1>2. n(c)' = n(c) + k
  OBVIOUS
<1>3. \A j \in Addrs : j # c => n(j)' = n(j)
  OBVIOUS
<1> HIDE DEF n
<1>4. ASSUME NEW j \in Addrs, kind'[j] # "none"
      PROVE  refct'[j] >= n(j)' /\ (~ shutting' => refct'[j] = n(j)')
  <2>1. CASE j # c
    BY <1>1, <1>3, <1>4, <2>1
  <2>2. CASE j = c
    <3>1. /\ refct[c] \in Nat /\ n(c) \in Nat /\ refct[c] >= n(c)
          /\ ~ shutting => refct[c] = n(c)
      BY <1>1
    <3>2. refct'[c] >= n(c)' /\ (~ shutting' => refct'[c] = n(c)')
      BY <1>2, <3>1
    <3>3. QED
      BY <2>2, <3>2
  <2>3. QED
    BY <2>1, <2>2
<1>5. QED
  BY <1>4 DEF RefctExact, n

LEMMA AcquireInv ==
  ASSUME Inv, NEW t \in Threads, NEW v \in Own(t), NEW i \in Addrs, Acquire(t, v, i)
  PROVE  Inv'
<1>1. /\ TypeOK /\ Refs /\ Heap /\ Idle(t) /\ v \in Vars /\ var[v] = NULL /\ i \in Reach(t)
      /\ refct' = [refct EXCEPT ![i] = @ + 1] /\ var' = [var EXCEPT ![v] = i]
      /\ UNCHANGED <<heap, kind, data, elem, stack, shutting, stats, crashed>>
  BY DEF Inv, Acquire, Own
<1>2. stack[t] = <<>> /\ Depth(t) = 0
  BY <1>1, IdleDepth
<1>3. i # NULL /\ kind[i] # "none" /\ Holders(i) \cup Containers(i) # {}
  <2>1. CASE \E u \in Vars : i = var[u]
    BY <1>1, <2>1, Referred
  <2>2. CASE \E u \in Own(t) : var[u] # NULL /\ i = elem[var[u]]
    <3>1. PICK u \in Vars : var[u] # NULL /\ i = elem[var[u]]
      BY <2>2 DEF Own
    <3>2. var[u] \in Addrs /\ elem[var[u]] # NULL
      BY <1>1, <3>1, Referred
    <3>3. QED
      BY <1>1, <3>1, <3>2, Referred
  <2>3. QED
    BY <1>1, <2>1, <2>2 DEF Reach
<1>4. /\ Cardinality(Holders(i))' = Cardinality(Holders(i)) + 1
      /\ \A j \in Addrs : j # i => Holders(j)' = Holders(j)
  BY <1>1, HolderAdded DEF TypeOK
<1>5. \A j \in Addrs : Containers(j)' = Containers(j)
  BY <1>1 DEF Containers
<1>6. \A j \in Addrs : Unheld(j) => SameInfo(j)
  BY <1>1, <1>3, <1>4, <1>5 DEF Unheld, SameInfo, TypeOK
<1>7. \A w \in Vars : w \notin Own(t) => var'[w] = var[w]
  BY <1>1 DEF TypeOK
<1>8. StepOf(t, 0, NULL) /\ FramesOK' /\ OneActive'
  BY <1>1, <1>2, <1>6, <1>7, MineNull, IdleStep
<1>9. RefctExact'
  <2>1. refct'[i] = refct[i] + (1) /\ \A j \in Addrs : j # i => refct'[j] = refct[j]
    BY <1>1, <1>3, <1>4, <1>5 DEF TypeOK
  <2>2. Cardinality(Holders(i))' + Cardinality(Containers(i))' =
          Cardinality(Holders(i)) + Cardinality(Containers(i)) + (1)
    BY <1>1, <1>3, <1>4, <1>5, RefsFinite
  <2>3. QED
    BY <1>1, <1>3, <1>4, <1>5, <2>1, <2>2, Recount DEF Refs
<1>10. Alive'
  BY <1>1, <1>3 DEF Refs, Alive, TypeOK
<1>11. KeepsSpent(t, 0)
  BY <1>2 DEF KeepsSpent
<1>12. Heap'
  BY <1>1, <1>8, <1>11, SameHeap
<1>13. TypeOK'
  BY <1>1 DEF TypeOK, MaybeAddr, stats
<1>14. QED
  BY <1>8, <1>9, <1>10, <1>12, <1>13 DEF Inv, Refs

LEMMA StoreInv ==
  ASSUME Inv, NEW t \in Threads, NEW v \in Own(t), NEW u \in Own(t), Store(t, v, u)
  PROVE  Inv'
<1> PICK i : i = var[v]
  OBVIOUS
<1> PICK c : c = var[u]
  OBVIOUS
<1>1. /\ TypeOK /\ Refs /\ Heap /\ Idle(t) /\ v \in Vars /\ u \in Vars /\ i # NULL /\ c # NULL
      /\ Rank(kind[c]) < Rank(kind[i]) /\ elem[i] = NULL
      /\ refct' = [refct EXCEPT ![c] = @ + 1] /\ elem' = [elem EXCEPT ![i] = c]
      /\ UNCHANGED <<heap, kind, data, var, stack, shutting, stats, crashed>>
  BY DEF Inv, Store, Own
<1>2. stack[t] = <<>> /\ Depth(t) = 0
  BY <1>1, IdleDepth
<1>3. /\ i \in Addrs /\ c \in Addrs /\ kind[c] # "none" /\ v \in Holders(i) /\ u \in Holders(c)
  BY <1>1, Referred
<1>4. kind[i] \in {"managed", "varsize"}
  BY <1>1 DEF Rank
<1>5. /\ Cardinality(Containers(c))' = Cardinality(Containers(c)) + 1
      /\ \A j \in Addrs : j # c => Containers(j)' = Containers(j)
  BY <1>1, <1>3, ContainerAdded DEF TypeOK
<1>6. \A j \in Addrs : Holders(j)' = Holders(j)
  BY <1>1 DEF Holders
<1>7. \A j \in Addrs : Unheld(j) => SameInfo(j)
  BY <1>1, <1>3, <1>5, <1>6 DEF Unheld, SameInfo, TypeOK
<1>8. StepOf(t, 0, NULL) /\ FramesOK' /\ OneActive'
  BY <1>1, <1>2, <1>7, MineNull, IdleStep
<1>9. RefctExact'
  <2>1. refct'[c] = refct[c] + (1) /\ \A j \in Addrs : j # c => refct'[j] = refct[j]
    BY <1>1, <1>3, <1>5, <1>6 DEF TypeOK
  <2>2. Cardinality(Holders(c))' + Cardinality(Containers(c))' =
          Cardinality(Holders(c)) + Cardinality(Containers(c)) + (1)
    BY <1>1, <1>3, <1>5, <1>6, RefsFinite
  <2>3. QED
    BY <1>1, <1>3, <1>5, <1>6, <2>1, <2>2, Recount DEF Refs
<1>10. Alive'
  BY <1>1, <1>3, <1>4 DEF Refs, Alive, TypeOK
<1>11. KeepsSpent(t, 0)
  BY <1>2 DEF KeepsSpent
<1>12. Heap'
  BY <1>1, <1>8, <1>11, SameHeap
<1>13. TypeOK'
  BY <1>1, <1>3 DEF TypeOK, MaybeAddr, stats
<1>14. QED
  BY <1>8, <1>9, <1>10, <1>12, <1>13 DEF Inv, Refs

(* The last reference to a MemInfo is in one place, and who works on the   *)
(* MemInfo holds it.                                                       *)
LEMMA LastReference ==
  ASSUME TypeOK, Refs, NEW c \in Addrs, kind[c] # "none", refct[c] = 1
  PROVE  /\ Holders(c) # {} => Containers(c) = {} /\ Cardinality(Holders(c)) = 1
         /\ Containers(c) # {} => Holders(c) = {} /\ Cardinality(Containers(c)) = 1
         /\ \A v, w \in Holders(c) : v = w
<1>1. /\ Cardinality(Holders(c)) + Cardinality(Containers(c)) <= 1
      /\ Holders(c) # {} => Cardinality(Holders(c)) >= 1
      /\ Containers(c) # {} => Cardinality(Containers(c)) >= 1
      /\ Cardinality(Holders(c)) \in Nat /\ Cardinality(Containers(c)) \in Nat
  BY CountFacts, RefsFinite DEF Refs
<1>2. ASSUME NEW v \in Holders(c), NEW w \in Holders(c), v # w PROVE FALSE
  <2>1. Cardinality(Holders(c)) = 1
    BY <1>1
  <2>2. Cardinality(Holders(c) \ {v}) = 0 /\ IsFiniteSet(Holders(c) \ {v})
    BY <2>1, RefsFinite, FS_RemoveElement
  <2>3. Holders(c) \ {v} = {}
    BY <2>2, FS_EmptySet
  <2>4. QED
    BY <1>2, <2>3
<1>3. QED
  BY <1>1, <1>2

LEMMA WorkersHold ==
  ASSUME Refs, NEW c \in Addrs, refct[c] >= 1,
         NEW u \in Threads, NEW e \in 1 .. Depth(u), Active(u, e), F(u, e).info = c
  PROVE  \E w \in Own(u) : w \in Holders(c)
<1>1. F(u, e).at \in Resizing
  BY DEF Refs, FramesOK, DestroyingOK, Active
<1>2. PICK w \in Own(u) : var[w] = c
  BY <1>1 DEF Refs, FramesOK, ResizingOK
<1>3. QED
  BY <1>2 DEF Own, Holders

LEMMA DtorFrameType ==
  ASSUME NEW c \in Addrs
  PROVE  LET g == DtorFrame(c) IN
         g \in Frames /\ g.at = "dtor" /\ g.info = c /\ g.data = NULL
BY NewFrame DEF DtorFrame, Labels, MaybeAddr

LEMMA ReleaseInv ==
  ASSUME Inv, NEW t \in Threads, NEW v \in Own(t), Release(t, v)
  PROVE  Inv'
<1> PICK c : c = var[v]
  OBVIOUS
<1>1. /\ TypeOK /\ Refs /\ Heap /\ Idle(t) /\ v \in Vars /\ c # NULL
      /\ refct' = [refct EXCEPT ![c] = @ - 1] /\ var' = [var EXCEPT ![v] = NULL]
      /\ IF refct[c] = 1 THEN Push(t, DtorFrame(c)) ELSE UNCHANGED stack
      /\ UNCHANGED <<heap, kind, data, elem, shutting, stats, crashed>>
  BY DEF Inv, Release, Own
<1>2. Stacks /\ stack[t] = <<>> /\ Depth(t) = 0
  BY <1>1, IdleDepth
<1>3. c \in Addrs /\ kind[c] # "none" /\ refct[c] >= 1 /\ refct[c] \in Nat /\ v \in Holders(c)
  BY <1>1, Referred DEF TypeOK
<1>4. /\ Cardinality(Holders(c))' = Cardinality(Holders(c)) - 1
      /\ \A j \in Addrs : j # c => Holders(j)' = Holders(j)
  BY <1>1, <1>3, HolderRemoved DEF TypeOK
<1>5. \A j \in Addrs : Containers(j)' = Containers(j)
  BY <1>1 DEF Containers
<1>6. \A j \in Addrs : Unheld(j) => SameInfo(j)
  BY <1>1, <1>3, <1>4, <1>5 DEF Unheld, SameInfo, TypeOK
<1>7. \A w \in Vars : w \notin Own(t) => var'[w] = var[w]
  BY <1>1 DEF TypeOK
<1>8. RefctExact'
  <2>1. refct'[c] = refct[c] + (-1) /\ \A j \in Addrs : j # c => refct'[j] = refct[j]
    BY <1>1, <1>3, <1>4, <1>5 DEF TypeOK
  <2>2. Cardinality(Holders(c))' + Cardinality(Containers(c))' =
          Cardinality(Holders(c)) + Cardinality(Containers(c)) + (-1)
    BY <1>1, <1>3, <1>4, <1>5, RefsFinite
  <2>3. QED
    BY <1>1, <1>3, <1>4, <1>5, <2>1, <2>2, Recount DEF Refs
<1>9. Alive'
  BY <1>1, <1>3 DEF Refs, Alive, TypeOK
<1>10. refct' \in [Addrs -> Nat] /\ var' \in [Vars -> MaybeAddr]
  BY <1>1, <1>3 DEF TypeOK, MaybeAddr
<1>11. Stacks' => TypeOK'
  BY <1>1, <1>10 DEF TypeOK, Stacks, stats
<1>12. CASE refct[c] # 1
  <2>1. StepOf(t, 0, NULL) /\ FramesOK' /\ OneActive'
    BY <1>1, <1>2, <1>6, <1>7, <1>12, MineNull, IdleStep
  <2>2. KeepsSpent(t, 0)
    BY <1>2 DEF KeepsSpent
  <2>3. Heap'
    BY <1>1, <2>1, <2>2, SameHeap
  <2>4. Stacks'
    BY <1>1, <1>2, <1>12 DEF Stacks
  <2>5. QED
    BY <1>8, <1>9, <1>11, <2>1, <2>3, <2>4 DEF Inv, Refs
<1>13. CASE refct[c] = 1
  <2> DEFINE f == DtorFrame(c)
  <2>1. f \in Frames /\ f.at = "dtor" /\ f.info = c /\ f.data = NULL /\ Push(t, f)
    BY <1>1, <1>3, <1>13, DtorFrameType
  <2> HIDE DEF f
  <2>2. Moved(t, 1) /\ F(t, 1)' = f
    BY <1>2, <2>1, PushMoves
  <2>3. StepOf(t, 1, NULL)
    BY <1>1, <1>2, <1>6, <1>7, <2>2, MineNull DEF StepOf
  <2>4. Containers(c) = {} /\ Cardinality(Holders(c)) = 1 /\ \A w \in Holders(c) : w = v
    BY <1>1, <1>3, <1>13, LastReference
  <2>5. Holders(c)' = {} /\ Containers(c)' = {} /\ refct'[c] = 0
    BY <1>1, <1>3, <1>5, <1>13, <2>4 DEF TypeOK, Holders
  <2>6. Mine(t, c)
    <3>1. \A u \in Threads : \A e \in 1 .. Depth(u) : ~ (Active(u, e) /\ F(u, e).info = c)
      <4> SUFFICES ASSUME NEW u \in Threads, NEW e \in 1 .. Depth(u), Active(u, e),
                          F(u, e).info = c
                   PROVE  FALSE
        OBVIOUS
      <4>1. PICK w \in Own(u) : w \in Holders(c)
        BY <1>1, <1>3, WorkersHold
      <4>2. u = t
        BY <2>4, <4>1 DEF Own
      <4>3. QED
        BY <1>2, <4>2
    <3>2. QED
      BY <3>1 DEF Mine
  <2>7. MakingOK(t, 1)' /\ DestroyingOK(t, 1)' /\ ResizingOK(t, 1)'
    BY <1>1, <1>3, <2>1, <2>2, <2>5
       DEF MakingOK, DestroyingOK, ResizingOK, Making, Destroying, Resizing
  <2>8. \A d \in 1 .. 1 : d = 1
    OBVIOUS
  <2>9. TopOK(t, 1)
    BY <2>1, <2>2, <2>6, <2>7, <2>8 DEF TopOK
  <2>10. FramesOK' /\ OneActive'
    BY <1>1, <2>3, <2>9, FramesStep
  <2>11. ~ Fresh(t, 1)' /\ ~ Owning(t, 1)'
    BY <2>1, <2>2 DEF Fresh, Owning
  <2>12. KeepsSpent(t, 1)
    BY <1>2 DEF KeepsSpent
  <2>13. Heap'
    BY <1>1, <2>3, <2>8, <2>11, <2>12, SameHeap
  <2>14. QED
    BY <1>8, <1>9, <1>11, <2>2, <2>10, <2>13 DEF Inv, Refs, Moved
<1>14. QED
  BY <1>12, <1>13

-----------------------------------------------------------------------------
(* The actions that release what is in a payload.                          *)

(* A dtor frame goes on to one that frees, a clear frame to varsize_free.  *)
Releases(f, l) ==
  \/ /\ f.at = "dtor"
     /\ \/ l = "free_mi"
        \/ l = "free_data" /\ kind[f.info] = "varsize" /\ data[f.info] # NULL
  \/ f.at = "clear" /\ l = "varsize_free"

(* Where the frame that releases is afterwards: it is as sound as before,  *)
(* and claims no block.                                                    *)
ReleaserLeft(f) ==
  /\ f.at # "varsize_free" =>
       refct'[f.info] = refct[f.info] /\ Containers(f.info)' = Containers(f.info)
  /\ elem'[f.info] = NULL
ReleaserSound(t, n, f) ==
  /\ TopGoes(t, n, f)
  /\ ~ SpentAt(F(t, n)) /\ f.at \notin {"count_mi", "init"} /\ f.at \notin Making
  /\ f.at \in {"count_varsize_alloc", "varsize_free"} => f.data = data[f.info]

LEMMA ReleaserGoes ==
  ASSUME TypeOK, Refs, NEW t \in Threads, NEW n, n = Depth(t), stack[t] # <<>>,
         NEW l \in Labels, Releases(F(t, n), l), NEW f, Went(F(t, n), f, l), F(t, n)' = f,
         f.info \in Addrs, UNCHANGED <<kind, data, var, shutting>>, ReleaserLeft(f)
  PROVE  ReleaserSound(t, n, f)
<1> PICK i \in Addrs : i = f.info
  OBVIOUS
<1>1. /\ n \in Nat \ {0} /\ MakingOK(t, n) /\ DestroyingOK(t, n) /\ ResizingOK(t, n)
  <2>1. n \in Nat \ {0} /\ n \in 1 .. Depth(t)
    BY DepthType DEF TypeOK, Stacks
  <2>2. QED
    BY <2>1 DEF Refs, FramesOK
<1>2. f.at = l /\ f.info = F(t, n).info /\ f.data = F(t, n).data
  BY DEF Went
<1>3. F(t, n).at \in Destroying \cup Resizing
  BY DEF Releases, Destroying, Resizing
<1>4. Mine(t, i)
  BY <1>1, <1>2, <1>3, MineTop
<1>5. CASE F(t, n).at = "dtor"
  <2>1. Holders(i)' = Holders(i)
    BY DEF Holders
  <2>2. f.at \in {"free_mi", "free_data"}
    BY <1>2, <1>5 DEF Releases
  <2>3. MakingOK(t, n)' /\ DestroyingOK(t, n)' /\ ResizingOK(t, n)'
    BY <1>1, <1>2, <1>5, <2>1, <2>2
       DEF ReleaserLeft, MakingOK, DestroyingOK, ResizingOK, Making, Destroying, Resizing, Releases
  <2>4. QED
    BY <1>4, <1>5, <2>2, <2>3 DEF ReleaserSound, TopGoes, SpentAt, Making
<1>6. CASE F(t, n).at = "clear"
  <2>1. f.at = "varsize_free"
    BY <1>2, <1>6 DEF Releases
  <2>2. MakingOK(t, n)' /\ DestroyingOK(t, n)' /\ ResizingOK(t, n)'
    BY <1>1, <1>2, <1>6, <2>1
       DEF MakingOK, DestroyingOK, ResizingOK, Making, Destroying, Resizing
  <2>3. f.data = data[f.info]
    BY <1>1, <1>2, <1>6 DEF ResizingOK, Resizing
  <2>4. QED
    BY <1>4, <1>6, <2>1, <2>2, <2>3 DEF ReleaserSound, TopGoes, SpentAt, Making
<1>7. QED
  BY <1>5, <1>6 DEF Releases

LEMMA ReleaseElemInv ==
  ASSUME Inv, NEW t \in Threads, NEW k \in Labels, At(t, k), NEW l \in Labels,
         Releases(Top(t), l), ReleaseElem(t, l),
         UNCHANGED <<heap, kind, data, var, shutting, stats, crashed>>
  PROVE  Inv'
<1> PICK n : n = Depth(t)
  OBVIOUS
<1> PICK f : f = [Top(t) EXCEPT !.at = l]
  OBVIOUS
<1>1. /\ TypeOK /\ Refs /\ Heap /\ Stacks /\ stack[t] # <<>> /\ n \in Nat \ {0}
      /\ Top(t) = F(t, n) /\ Top(t) \in Frames
      /\ MakingOK(t, n) /\ DestroyingOK(t, n) /\ ResizingOK(t, n)
  BY AtTop DEF Inv
<1>2. f \in Frames /\ Went(F(t, n), f, l) /\ f.at = l /\ f.info = F(t, n).info
  <2>1. Went(Top(t), f, l)
    BY <1>1, GotoFrame
  <2>2. QED
    BY <1>1, <2>1 DEF Went
<1> PICK i : i = f.info
  OBVIOUS
<1> PICK c : c = elem[i]
  OBVIOUS
<1>3. i \in Addrs /\ (f.at # "varsize_free" => Holders(i) = {} /\ Containers(i) = {})
  BY <1>1, <1>2 DEF Releases, DestroyingOK, ResizingOK, Destroying, Resizing
<1>4. \/ /\ c = NULL /\ Become(t, f) /\ UNCHANGED <<refct, elem>>
      \/ /\ c # NULL
         /\ elem' = [elem EXCEPT ![i] = NULL]
         /\ refct' = [refct EXCEPT ![c] = @ - 1]
         /\ stack' = [stack EXCEPT ![t] = (IF refct[c] = 1 THEN <<DtorFrame(c)>> ELSE <<>>)
                                            \o <<f>> \o Tail(@)]
  BY <1>1, <1>2 DEF ReleaseElem
<1>0. ASSUME F(t, n)' = f, ReleaserLeft(f) PROVE ReleaserSound(t, n, f)
  <2>1. Releases(F(t, n), l) /\ f.info \in Addrs /\ TypeOK /\ Refs /\ stack[t] # <<>>
    BY <1>1, <1>3
  <2>2. UNCHANGED <<kind, data, var, shutting>>
    OBVIOUS
  <2>3. QED
    BY <1>0, <1>2, <2>1, <2>2, ReleaserGoes
<1>5. CASE c = NULL
  <2>1. Become(t, f) /\ UNCHANGED <<refct, elem>>
    BY <1>4, <1>5
  <2>2. Moved(t, n) /\ F(t, n)' = f
    BY <1>1, <1>2, <2>1, BecomeMoves
  <2>3. ReleaserLeft(f)
    BY <1>5, <2>1 DEF ReleaserLeft, Containers
  <2>4. ReleaserSound(t, n, f)
    BY <1>0, <2>2, <2>3
  <2>5. Stacks' /\ Refs' /\ Heap'
    BY <1>1, <1>2, <2>1, <2>4, QuietBecome DEF info, ReleaserSound
  <2>6. UNCHANGED <<heap, info, var, shutting, enabled, crashed, alloc, free, mi_alloc, mi_free>>
    BY <2>1 DEF info, stats
  <2>7. QED
    BY <1>1, <2>5, <2>6, QuietTypes DEF Inv
<1>6. CASE c # NULL
  <2>1. /\ elem' = [elem EXCEPT ![i] = NULL]
        /\ refct' = [refct EXCEPT ![c] = @ - 1]
        /\ stack' = [stack EXCEPT ![t] = (IF refct[c] = 1 THEN <<DtorFrame(c)>> ELSE <<>>)
                                           \o <<f>> \o Tail(@)]
    BY <1>4, <1>6
  <2>2. /\ c \in Addrs /\ kind[c] # "none" /\ refct[c] >= 1 /\ refct[c] \in Nat
        /\ i \in Containers(c)
    BY <1>1, <1>3, <1>6, Referred DEF TypeOK
  <2>3. /\ Cardinality(Containers(c))' = Cardinality(Containers(c)) - 1
        /\ \A j \in Addrs : j # c => Containers(j)' = Containers(j)
    BY <1>1, <1>3, <1>6, <2>1, ContainerRemoved DEF TypeOK
  <2>4. \A j \in Addrs : Holders(j)' = Holders(j)
    BY DEF Holders
  <2>5. \A j \in Addrs : j # c => refct'[j] = refct[j]
    BY <1>1, <2>1 DEF TypeOK
  <2>6. refct'[c] = refct[c] + (-1)
    BY <1>1, <2>1, <2>2 DEF TypeOK
  <2>7. RefctExact'
    <3>1. Cardinality(Holders(c))' + Cardinality(Containers(c))' =
            Cardinality(Holders(c)) + Cardinality(Containers(c)) + (-1)
      BY <2>2, <2>3, <2>4, RefsFinite
    <3>2. QED
      BY <1>1, <2>2, <2>3, <2>4, <2>5, <2>6, <3>1, Recount DEF Refs
  <2>8. Alive'
    BY <1>1, <1>3, <2>1 DEF Refs, Alive, TypeOK
  <2>9. f.at # "varsize_free" => c # i
    BY <1>3, <2>2
  <2>10. elem'[i] = NULL
    BY <1>1, <1>3, <2>1 DEF TypeOK
  <2>11. ReleaserLeft(f)
    BY <1>3, <2>3, <2>5, <2>9, <2>10 DEF ReleaserLeft
  <2>12. \A j \in Addrs : j # i /\ Unheld(j) => SameInfo(j)
    BY <1>1, <1>3, <2>1, <2>2, <2>3, <2>4, <2>5 DEF Unheld, SameInfo, TypeOK
  <2>13. F(t, n).at \in Destroying \cup Resizing /\ F(t, n).at \notin Making
    BY <1>1 DEF Releases, Destroying, Resizing, Making
  <2>14. Mine(t, i)
    BY <1>1, <1>2, <2>13, MineTop
  <2>15. \A N \in {n, n + 1} : Moved(t, N) => StepOf(t, N, i)
    <3>1. n <= n + 1 /\ n <= n + 1 + 1
      BY <1>1
    <3>2. \A N \in {n, n + 1} : Depth(t) <= N + 1
      BY <1>1, <3>1
    <3>3. QED
      BY <2>12, <2>13, <2>14, <3>2 DEF StepOf
  <2>16. F(t, n)' = f => ReleaserSound(t, n, f)
    BY <1>0, <2>11
  <2>17. F(t, n)' = f => ~ Fresh(t, n)' /\ ~ Owning(t, n)'
    BY <2>16 DEF Fresh, Owning, ReleaserSound
  <2>18. refct' \in [Addrs -> Nat] /\ elem' \in [Addrs -> MaybeAddr]
    <3>1. refct \in [Addrs -> Nat] /\ elem \in [Addrs -> MaybeAddr]
      BY <1>1 DEF TypeOK
    <3>2. refct[c] - 1 \in Nat
      BY <2>2
    <3>3. refct' \in [Addrs -> Nat]
      BY <2>1, <3>1, <3>2
    <3>4. elem' \in [Addrs -> MaybeAddr]
      BY <2>1, <3>1 DEF MaybeAddr
    <3>5. QED
      BY <3>3, <3>4
  <2>19. Stacks' => TypeOK'
    <3>1. UNCHANGED <<heap, kind, data, var, shutting, enabled, crashed, alloc, free,
                    mi_alloc, mi_free>>
      BY DEF stats
    <3>2. QED
      BY <1>1, <2>18, <3>1 DEF TypeOK, Stacks
  <2>20. CASE refct[c] # 1
    <3>1. Become(t, f)
      <4>1. <<>> \o <<f>> = <<f>>
        OBVIOUS
      <4>2. Tail(stack[t]) \in Seq(Frames)
        BY <1>1, TailSeq DEF Stacks
      <4>3. <<>> \o <<f>> \o Tail(stack[t]) = <<f>> \o Tail(stack[t])
        BY <4>1
      <4>4. QED
        BY <2>1, <2>20, <4>3 DEF Become
    <3>2. Moved(t, n) /\ F(t, n)' = f
      BY <1>1, <1>2, <3>1, BecomeMoves
    <3>3. StepOf(t, n, i) /\ TopOK(t, n)
      BY <1>1, <2>15, <2>16, <3>2, TopGoesOK DEF ReleaserSound
    <3>4. FramesOK' /\ OneActive'
      BY <1>1, <3>3, FramesStep
    <3>5. KeepsSpent(t, n)
      BY <2>16, <3>2 DEF KeepsSpent, ReleaserSound
    <3>6. \A d \in 1 .. n : d >= Depth(t) => d = n
      BY <1>1
    <3>7. Heap'
      BY <1>1, <2>17, <3>2, <3>3, <3>5, <3>6, SameHeap
    <3>8. QED
      BY <2>7, <2>8, <2>19, <3>2, <3>4, <3>7 DEF Inv, Refs, Moved
  <2>21. CASE refct[c] = 1
    <3> DEFINE g == DtorFrame(c)
    <3>1. g \in Frames /\ g.at = "dtor" /\ g.info = c /\ g.data = NULL
      BY <2>2, DtorFrameType
    <3>2. stack' = [stack EXCEPT ![t] = <<g>> \o <<f>> \o Tail(stack[t])]
      BY <2>1, <2>21
    <3> HIDE DEF g
    <3>3. Moved(t, n + 1) /\ F(t, n)' = f /\ F(t, n + 1)' = g
      BY <1>1, <1>2, <3>1, <3>2, NestMoves
    <3>4. StepOf(t, n + 1, i)
      BY <2>15, <3>3
    <3>5. Holders(c) = {} /\ Cardinality(Containers(c)) = 1
      BY <1>1, <2>2, <2>21, LastReference
    <3>6. Holders(c)' = {} /\ Containers(c)' = {} /\ refct'[c] = 0
      <4>1. Cardinality(Containers(c))' = 0 /\ IsFiniteSet(Containers(c))'
        <5>1. Containers(c)' \subseteq Addrs
          BY DEF Containers
        <5>2. IsFiniteSet(Containers(c)')
          BY <5>1, FS_Subset
        <5>3. QED
          BY <2>3, <3>5, <5>2
      <4>2. Containers(c)' = {}
        BY <4>1, FS_EmptySet
      <4>3. QED
        BY <2>2, <2>4, <2>6, <2>21, <3>5, <4>2
    <3>7. Mine(t, c)
      BY <1>1, <2>2, <3>5, WorkersHold DEF Mine
    <3>8. c # i
      <4>1. f.at = "varsize_free" => Holders(i) # {}
        <5>1. f.at = "varsize_free" => F(t, n).at \in Resizing
          BY <1>1, <1>2 DEF Releases, Resizing
        <5>2. QED
          BY <1>1, <1>2, <5>1 DEF ResizingOK, Own, Holders
      <4>2. QED
        BY <2>9, <3>5, <4>1
    <3>9. MakingOK(t, n + 1)' /\ DestroyingOK(t, n + 1)' /\ ResizingOK(t, n + 1)'
      BY <2>2, <3>1, <3>3, <3>6
         DEF MakingOK, DestroyingOK, ResizingOK, Making, Destroying, Resizing
    <3>10. \A d \in 1 .. n + 1 : d >= Depth(t) => d = n \/ d = n + 1
      BY <1>1
    <3>11. TopOK(t, n + 1)
      <4>1. F(t, n)'.info = i /\ F(t, n + 1)'.info = c
        BY <3>1, <3>3
      <4>2. (MakingOK(t, n) /\ DestroyingOK(t, n) /\ ResizingOK(t, n))'
        BY <2>16, <3>3 DEF TopGoes, ReleaserSound
      <4>3. QED
        BY <2>14, <3>7, <3>8, <3>9, <3>10, <4>1, <4>2 DEF TopOK
    <3>12. FramesOK' /\ OneActive'
      BY <1>1, <3>4, <3>11, FramesStep
    <3>13. KeepsSpent(t, n + 1)
      BY <2>16, <3>3 DEF KeepsSpent, ReleaserSound
    <3>14. ~ Fresh(t, n + 1)' /\ ~ Owning(t, n + 1)'
      BY <3>1, <3>3 DEF Fresh, Owning
    <3>15. Heap'
      BY <1>1, <2>17, <3>3, <3>4, <3>10, <3>13, <3>14, SameHeap
    <3>16. QED
      BY <2>7, <2>8, <2>19, <3>3, <3>12, <3>15 DEF Inv, Refs, Moved
  <2>22. QED
    BY <2>20, <2>21
<1>7. QED
  BY <1>5, <1>6

LEMMA ReleaseEntriesInv ==
  ASSUME Inv, NEW t \in Threads, ReleaseEntries(t)
  PROVE  Inv'
<1>1. /\ At(t, "clear") /\ ReleaseElem(t, "varsize_free") /\ Top(t).at = "clear"
      /\ UNCHANGED <<heap, kind, data, var, shutting, stats, crashed>>
  BY DEF ReleaseEntries, At
<1>2. QED
  BY <1>1, ReleaseElemInv DEF Releases, Labels

LEMMA CallDtorInv ==
  ASSUME Inv, NEW t \in Threads, CallDtor(t)
  PROVE  Inv'
<1> PICK n : n = Depth(t)
  OBVIOUS
<1> PICK i : i = Top(t).info
  OBVIOUS
<1>1. At(t, "dtor") /\ UNCHANGED <<heap, kind, data, var, shutting, stats>>
  BY DEF CallDtor
<1>2. /\ TypeOK /\ Refs /\ Heap /\ Stacks /\ stack[t] # <<>> /\ n \in Nat \ {0}
      /\ Top(t) = F(t, n) /\ Top(t).at = "dtor" /\ DestroyingOK(t, n)
  BY <1>1, AtTop DEF Inv, Labels
<1>3. \/ /\ kind[i] \in {"plain", "external"} \/ shutting
         /\ Goto(t, "free_mi") /\ UNCHANGED <<refct, elem, crashed>>
      \/ crashed' = TRUE /\ UNCHANGED <<refct, elem, stack>>
      \/ /\ ~ (kind[i] = "varsize" /\ data[i] = NULL)
         /\ ReleaseElem(t, IF kind[i] = "varsize" THEN "free_data" ELSE "free_mi")
         /\ UNCHANGED crashed
  BY DEF CallDtor
<1>4. CASE /\ kind[i] \in {"plain", "external"} \/ shutting
           /\ Goto(t, "free_mi") /\ UNCHANGED <<refct, elem, crashed>>
  <2>1. PICK f \in Frames : Become(t, f) /\ Went(F(t, n), f, "free_mi")
    BY <1>1, <1>2, <1>4, GotoBecomes DEF Labels
  <2>2. f.at = "free_mi" /\ f.info = F(t, n).info /\ f.info = i
    BY <1>2, <2>1 DEF Went
  <2>3. Moved(t, n) /\ F(t, n)' = f
    BY <1>2, <2>1, BecomeMoves
  <2>4. Mine(t, f.info)
    BY <1>2, <2>2, MineTop DEF Destroying
  <2>5. i \in Addrs /\ (shutting \/ elem[i] = NULL)
    BY <1>2, <1>4 DEF DestroyingOK, Destroying, Refs, Alive
  <2>6. UNCHANGED <<heap, info, var, shutting, enabled, crashed, alloc, free, mi_alloc, mi_free>>
    BY <1>1, <1>4 DEF info, stats
  <2>7. TopGoes(t, n, f)
    BY <1>2, <2>2, <2>3, <2>4, <2>5, <2>6
       DEF TopGoes, MakingOK, DestroyingOK, ResizingOK, Making, Destroying, Resizing,
         info, Holders, Containers
  <2>8. Stacks' /\ Refs' /\ Heap'
    BY <1>2, <2>1, <2>2, <2>6, <2>7, QuietBecome DEF SpentAt, Making
  <2>9. QED
    BY <1>2, <2>6, <2>8, QuietTypes DEF Inv
<1>5. CASE crashed' = TRUE /\ UNCHANGED <<refct, elem, stack>>
  <2>1. {shutting, enabled, crashed}' \subseteq BOOLEAN
    BY <1>1, <1>2, <1>5 DEF TypeOK, stats
  <2>2. QED
    BY <1>1, <1>5, <2>1, StillInv DEF info, stats
<1>6. CASE /\ ~ (kind[i] = "varsize" /\ data[i] = NULL)
           /\ ReleaseElem(t, IF kind[i] = "varsize" THEN "free_data" ELSE "free_mi")
           /\ UNCHANGED crashed
  <2> DEFINE l == IF kind[i] = "varsize" THEN "free_data" ELSE "free_mi"
  <2>1. l \in Labels /\ Releases(Top(t), l) /\ ReleaseElem(t, l)
    BY <1>2, <1>6 DEF Labels, Releases
  <2> HIDE DEF l
  <2>2. QED
    BY <1>1, <1>6, <2>1, ReleaseElemInv DEF Labels
<1>7. QED
  BY <1>3, <1>4, <1>5, <1>6

-----------------------------------------------------------------------------
(* The actions that take a block, or give one to a MemInfo.                *)

LEMMA FreeBlock ==
  ASSUME Heap, NEW a \in Addrs, heap[a] = "free"
  PROVE  /\ kind[a] = "none"
         /\ \A i \in Addrs : Kept(i) => data[i] # a
         /\ \A u \in Threads : \A e \in 1 .. Depth(u) :
              (Fresh(u, e) => F(u, e).info # a) /\ (Owning(u, e) => F(u, e).data # a)
BY DEF Heap, InfosOwned, DataOwned, FreshOwned, BlocksOwned, AllocatorOf

(* Block a, which was free, is taken from the allocator and gets one owner *)
(* (MemInfo m or the top frame); the block m had may go to the top frame,  *)
(* or be in B and be freed.                                                *)
Moves(t, n, m, a, from, B) ==
  /\ a \in Addrs => heap[a] = "free"
  /\ \A b \in Addrs : heap'[b] = IF b = a THEN from ELSE IF b \in B THEN "free" ELSE heap[b]
  /\ \A b \in B : m \in Addrs /\ Kept(m) /\ b = data[m] /\ data'[m] # b
  /\ \A j \in Addrs : j # m => data'[j] = data[j]
  /\ m \in Addrs /\ Kept(m)' =>
       \/ Kept(m) /\ data'[m] = data[m]
       \/ data'[m] = a /\ from = "system"
  /\ \A d \in 1 .. n : d >= Depth(t) =>
       /\ d = Depth(t)
       /\ Fresh(t, d)' =>
            \/ Fresh(t, d) /\ F(t, d)'.info = F(t, d).info /\ F(t, d)'.kind = F(t, d).kind
            \/ F(t, d)'.info = a /\ from = AllocatorOf(F(t, d)'.kind)
       /\ Owning(t, d)' =>
            \/ Owning(t, d) /\ F(t, d)'.data = F(t, d).data
            \/ F(t, d)'.data = a /\ from = "system"
            \/ /\ m \in Addrs /\ Kept(m) /\ B = {}
               /\ F(t, d)'.data = data[m] /\ data'[m] # data[m]
       /\ ~ (Fresh(t, d)' /\ F(t, d)'.info = a /\ Owning(t, d)' /\ F(t, d)'.data = a)
       /\ m \in Addrs /\ Kept(m)' /\ data'[m] = a =>
            ~ (Fresh(t, d)' /\ F(t, d)'.info = a) /\ ~ (Owning(t, d)' /\ F(t, d)'.data = a)

LEMMA HeapMoves ==
  ASSUME TypeOK, Refs, Heap, NEW t \in Threads, NEW n, NEW m, StepOf(t, n, m), KeepsSpent(t, n),
         NEW a \in MaybeAddr, NEW from \in {"system", "external"}, NEW B,
         Moves(t, n, m, a, from, B), UNCHANGED kind
  PROVE  Heap'
<1>1. Stacks /\ Moved(t, n) /\ Depth(t) <= n + 1 /\ Depth(t) \in Nat
  BY DepthType DEF StepOf, TypeOK, Stacks
<1>2. a \in Addrs =>
        /\ kind[a] = "none"
        /\ \A i \in Addrs : Kept(i) => data[i] # a
        /\ \A u \in Threads : \A e \in 1 .. Depth(u) :
             (Fresh(u, e) => F(u, e).info # a) /\ (Owning(u, e) => F(u, e).data # a)
  BY FreeBlock DEF Moves
<1>4. ASSUME NEW u \in Threads, NEW d \in 1 .. Depth(u)'
      PROVE  /\ F(u, d)'.info # NULL => F(u, d)'.info \in Addrs
             /\ F(u, d)'.data # NULL => F(u, d)'.data \in Addrs
  <2>1. stack'[u] \in Seq(Frames) /\ d \in 1 .. Len(stack'[u])
    BY <1>1 DEF Moved, Stacks, Depth
  <2>2. Len(stack'[u]) + 1 - d \in 1 .. Len(stack'[u])
    BY <2>1
  <2>3. F(u, d)' \in Frames
    BY <2>1, <2>2 DEF F, Depth
  <2>4. QED
    BY <2>3 DEF Frames, MaybeAddr
<1>5. \A b \in Addrs : heap'[b] = IF b = a THEN from ELSE IF b \in B THEN "free" ELSE heap[b]
  BY DEF Moves
<1>6. \A b \in B : m \in Addrs /\ Kept(m) /\ b = data[m] /\ data'[m] # b
  BY DEF Moves
<1> DEFINE Got(i) == i = m /\ data'[i] = a /\ from = "system"
           GotInfo(u, d) == /\ u = t /\ d = Depth(t) /\ F(u, d)'.info = a
                            /\ from = AllocatorOf(F(u, d)'.kind)
           GotData(u, d) == u = t /\ d = Depth(t) /\ F(u, d)'.data = a /\ from = "system"
           FromInfo(u, d) == /\ u = t /\ d = Depth(t) /\ m \in Addrs /\ Kept(m) /\ B = {}
                             /\ F(u, d)'.data = data[m] /\ data'[m] # data[m]
           OldFresh(u, d) == /\ d \in 1 .. Depth(u) /\ Fresh(u, d)
                             /\ F(u, d)'.info = F(u, d).info /\ F(u, d)'.kind = F(u, d).kind
           OldOwning(u, d) == /\ d \in 1 .. Depth(u) /\ Owning(u, d)
                              /\ F(u, d)'.data = F(u, d).data
<1>7. ASSUME NEW i \in Addrs, Kept(i)'
      PROVE  data'[i] \in Addrs /\ ((Kept(i) /\ data'[i] = data[i]) \/ Got(i))
  <2>1. kind[i] = "varsize" /\ data'[i] # NULL /\ ~ Spent(i)'
    BY <1>7 DEF Kept
  <2>2. ~ Spent(i)
    BY <2>1, SpentStep
  <2>3. i # m => data'[i] = data[i] /\ Kept(i)
    BY <2>1, <2>2 DEF Moves, Kept
  <2>4. i = m => (Kept(i) /\ data'[i] = data[i]) \/ Got(i)
    BY <1>7 DEF Moves
  <2>5. Kept(i) => data[i] \in Addrs
    BY DEF Kept, TypeOK, MaybeAddr
  <2>6. data'[i] = a => a \in Addrs
    BY <2>1 DEF MaybeAddr
  <2>7. QED
    BY <2>3, <2>4, <2>5, <2>6
<1>8. ASSUME NEW u \in Threads, NEW d \in 1 .. Depth(u)'
      PROVE  /\ Fresh(u, d)' => F(u, d)'.info \in Addrs /\ (OldFresh(u, d) \/ GotInfo(u, d))
             /\ Owning(u, d)' => /\ F(u, d)'.data \in Addrs
                                 /\ OldOwning(u, d) \/ GotData(u, d) \/ FromInfo(u, d)
  <2>1. Fresh(u, d)' => F(u, d)'.info \in Addrs
    BY <1>4 DEF Fresh
  <2>2. Owning(u, d)' => F(u, d)'.data \in Addrs
    BY <1>4 DEF Owning
  <2>3. CASE Bystander(t, u, d)
    BY <2>1, <2>2, <2>3, OthersClaims
  <2>4. CASE ~ Bystander(t, u, d)
    <3>1. u = t /\ d >= Depth(t) /\ d \in 1 .. n
      BY <1>1, <1>8, <2>4, FrameCases
    <3>2. d = Depth(t) /\ d \in 1 .. Depth(u)
      BY <1>1, <3>1 DEF Moves
    <3>3. QED
      BY <2>1, <2>2, <3>1, <3>2 DEF Moves
  <2>5. QED
    BY <2>3, <2>4
<1>9. \A i \in Addrs : \A u \in Threads : \A d \in 1 .. Depth(u)' :
        /\ ~ (Fresh(u, d)' /\ GotInfo(u, d) /\ Owning(u, d)' /\ F(u, d)'.data = a)
        /\ Kept(i)' /\ Got(i) => /\ ~ (Fresh(u, d)' /\ GotInfo(u, d))
                                 /\ ~ (Owning(u, d)' /\ GotData(u, d))
  <2> SUFFICES ASSUME NEW i \in Addrs, NEW d \in 1 .. Depth(t)', d = Depth(t)
               PROVE  /\ ~ (Fresh(t, d)' /\ F(t, d)'.info = a /\ Owning(t, d)' /\ F(t, d)'.data = a)
                      /\ Kept(i)' /\ i = m /\ data'[i] = a =>
                           /\ ~ (Fresh(t, d)' /\ F(t, d)'.info = a)
                           /\ ~ (Owning(t, d)' /\ F(t, d)'.data = a)
    OBVIOUS
  <2>1. d \in 1 .. n /\ d >= Depth(t)
    BY <1>1 DEF Moved
  <2>2. QED
    BY <2>1 DEF Moves
<1> HIDE DEF Got, GotInfo, GotData, FromInfo, OldFresh, OldOwning
<1>10. HeapSound' /\ InfosOwned'
  <2>1. \A b \in B : kind[b] = "none"
    BY <1>6 DEF Heap, DataOwned
  <2>2. QED
    BY <1>2, <1>5, <2>1 DEF Heap, HeapSound, InfosOwned
<1>11. DataOwned'
  <2>1. ASSUME NEW i \in Addrs, Kept(i)'
        PROVE  heap'[data'[i]] = "system" /\ kind[data'[i]] = "none"
    <3>1. CASE Got(i)
      BY <1>2, <1>5, <1>7, <2>1, <3>1 DEF Got
    <3>2. CASE Kept(i) /\ data'[i] = data[i]
      <4>1. heap[data[i]] = "system" /\ kind[data[i]] = "none" /\ data[i] \in Addrs
        BY <1>7, <2>1, <3>2 DEF Heap, DataOwned
      <4>2. data[i] # a /\ data[i] \notin B
        BY <1>2, <1>6, <3>2, <4>1 DEF Heap, DataOwned
      <4>3. QED
        BY <1>5, <3>2, <4>1, <4>2
    <3>3. QED
      BY <1>7, <2>1, <3>1, <3>2
  <2>2. ASSUME NEW i \in Addrs, NEW j \in Addrs, Kept(i)', Kept(j)', data'[i] = data'[j]
        PROVE  i = j
    BY <1>2, <1>7, <2>2 DEF Heap, DataOwned, Got
  <2>3. QED
    BY <2>1, <2>2 DEF DataOwned
<1>12. FreshOwned'
  <2> SUFFICES ASSUME NEW u \in Threads, NEW d \in 1 .. Depth(u)', Fresh(u, d)'
               PROVE  LET b == F(u, d)'.info IN
                 /\ heap'[b] = AllocatorOf(F(u, d)'.kind) /\ kind'[b] = "none"
                 /\ \A i \in Addrs : Kept(i)' => data'[i] # b
                 /\ \A w \in Threads : \A e \in 1 .. Depth(w)' :
                      /\ Fresh(w, e)' /\ F(w, e)'.info = b => u = w /\ d = e
                      /\ Owning(w, e)' => F(w, e)'.data # b
    BY DEF FreshOwned
  <2> PICK b \in Addrs : b = F(u, d)'.info
    BY <1>8
  <2>1. CASE GotInfo(u, d)
    <3>1. b = a /\ from = AllocatorOf(F(u, d)'.kind) /\ u = t /\ d = Depth(t)
      BY <2>1 DEF GotInfo
    <3>2. heap'[b] = AllocatorOf(F(u, d)'.kind) /\ kind'[b] = "none"
      BY <1>2, <1>5, <3>1
    <3>3. ASSUME NEW i \in Addrs, Kept(i)' PROVE data'[i] # b
      BY <1>2, <1>7, <1>9, <2>1, <3>1, <3>3
    <3>4. ASSUME NEW w \in Threads, NEW e \in 1 .. Depth(w)'
          PROVE  /\ Fresh(w, e)' /\ F(w, e)'.info = b => u = w /\ d = e
                 /\ Owning(w, e)' => F(w, e)'.data # b
      <4>1. Fresh(w, e)' /\ F(w, e)'.info = b => u = w /\ d = e
        BY <1>2, <1>8, <3>1 DEF OldFresh, GotInfo
      <4>2. Owning(w, e)' => F(w, e)'.data # b
        BY <1>2, <1>8, <1>9, <2>1, <3>1 DEF OldOwning, GotData, FromInfo
      <4>3. QED
        BY <4>1, <4>2
    <3>5. QED
      BY <3>2, <3>3, <3>4
  <2>2. CASE OldFresh(u, d)
    <3>1. d \in 1 .. Depth(u) /\ Fresh(u, d) /\ F(u, d).info = b /\ F(u, d)'.kind = F(u, d).kind
      BY <2>2 DEF OldFresh
    <3>2. /\ heap[b] = AllocatorOf(F(u, d).kind) /\ kind[b] = "none"
          /\ \A i \in Addrs : Kept(i) => data[i] # b
          /\ \A w \in Threads : \A e \in 1 .. Depth(w) :
               /\ Fresh(w, e) /\ F(w, e).info = b => u = w /\ d = e
               /\ Owning(w, e) => F(w, e).data # b
      BY <3>1 DEF Heap, FreshOwned
    <3>3. b # a /\ b \notin B
      BY <1>2, <1>6, <3>1, <3>2
    <3>4. heap'[b] = AllocatorOf(F(u, d)'.kind) /\ kind'[b] = "none"
      BY <1>5, <3>1, <3>2, <3>3
    <3>5. ASSUME NEW i \in Addrs, Kept(i)' PROVE data'[i] # b
      BY <1>7, <3>2, <3>3, <3>5 DEF Got
    <3>6. ASSUME NEW w \in Threads, NEW e \in 1 .. Depth(w)'
          PROVE  /\ Fresh(w, e)' /\ F(w, e)'.info = b => u = w /\ d = e
                 /\ Owning(w, e)' => F(w, e)'.data # b
      BY <1>8, <3>2, <3>3 DEF OldFresh, GotInfo, OldOwning, GotData, FromInfo
    <3>7. QED
      BY <3>4, <3>5, <3>6
  <2>3. QED
    BY <1>8, <2>1, <2>2
<1>13. BlocksOwned'
  <2> SUFFICES ASSUME NEW u \in Threads, NEW d \in 1 .. Depth(u)', Owning(u, d)'
               PROVE  LET b == F(u, d)'.data IN
                 /\ heap'[b] = "system" /\ kind'[b] = "none"
                 /\ \A i \in Addrs : Kept(i)' => data'[i] # b
                 /\ \A w \in Threads : \A e \in 1 .. Depth(w)' :
                      Owning(w, e)' /\ F(w, e)'.data = b => u = w /\ d = e
    BY DEF BlocksOwned
  <2> PICK b \in Addrs : b = F(u, d)'.data
    BY <1>8
  <2>1. CASE GotData(u, d)
    <3>1. b = a /\ from = "system" /\ u = t /\ d = Depth(t)
      BY <2>1 DEF GotData
    <3>2. heap'[b] = "system" /\ kind'[b] = "none"
      BY <1>2, <1>5, <3>1
    <3>3. ASSUME NEW i \in Addrs, Kept(i)' PROVE data'[i] # b
      BY <1>2, <1>7, <1>9, <2>1, <3>1, <3>3
    <3>4. ASSUME NEW w \in Threads, NEW e \in 1 .. Depth(w)', Owning(w, e)', F(w, e)'.data = b
          PROVE  u = w /\ d = e
      BY <1>2, <1>8, <3>1, <3>4 DEF OldOwning, GotData, FromInfo
    <3>5. QED
      BY <3>2, <3>3, <3>4
  <2>2. CASE OldOwning(u, d)
    <3>1. d \in 1 .. Depth(u) /\ Owning(u, d) /\ F(u, d).data = b
      BY <2>2 DEF OldOwning
    <3>2. /\ heap[b] = "system" /\ kind[b] = "none"
          /\ \A i \in Addrs : Kept(i) => data[i] # b
          /\ \A w \in Threads : \A e \in 1 .. Depth(w) :
               Owning(w, e) /\ F(w, e).data = b => u = w /\ d = e
      BY <3>1 DEF Heap, BlocksOwned
    <3>3. b # a /\ b \notin B
      BY <1>2, <1>6, <3>1, <3>2
    <3>4. heap'[b] = "system" /\ kind'[b] = "none"
      BY <1>5, <3>2, <3>3
    <3>5. ASSUME NEW i \in Addrs, Kept(i)' PROVE data'[i] # b
      BY <1>7, <3>2, <3>3, <3>5 DEF Got
    <3>6. ASSUME NEW w \in Threads, NEW e \in 1 .. Depth(w)', Owning(w, e)', F(w, e)'.data = b
          PROVE  u = w /\ d = e
      BY <1>8, <3>2, <3>3, <3>6 DEF OldOwning, GotData, FromInfo
    <3>7. QED
      BY <3>4, <3>5, <3>6
  <2>3. CASE FromInfo(u, d)
    <3>1. /\ u = t /\ d = Depth(t) /\ m \in Addrs /\ Kept(m) /\ B = {}
          /\ b = data[m] /\ data'[m] # data[m]
      BY <2>3 DEF FromInfo
    <3>2. /\ heap[b] = "system" /\ kind[b] = "none" /\ b # a
          /\ \A j \in Addrs : Kept(j) /\ data[j] = b => j = m
      BY <1>2, <3>1 DEF Heap, DataOwned
    <3>3. heap'[b] = "system" /\ kind'[b] = "none"
      BY <1>5, <3>1, <3>2
    <3>4. ASSUME NEW i \in Addrs, Kept(i)' PROVE data'[i] # b
      BY <1>7, <3>1, <3>2, <3>4 DEF Got
    <3>5. \A w \in Threads : \A e \in 1 .. Depth(w) : Owning(w, e) => F(w, e).data # b
      BY <3>1 DEF Heap, BlocksOwned
    <3>6. ASSUME NEW w \in Threads, NEW e \in 1 .. Depth(w)', Owning(w, e)', F(w, e)'.data = b
          PROVE  u = w /\ d = e
      BY <1>8, <3>1, <3>2, <3>5, <3>6 DEF OldOwning, GotData, FromInfo
    <3>7. QED
      BY <3>3, <3>4, <3>6
  <2>4. QED
    BY <1>8, <2>1, <2>2, <2>3
<1>14. QED
  BY <1>10, <1>11, <1>12, <1>13 DEF Heap

(* A step that changes blocks and frames only.                             *)
LEMMA BlockStep ==
  ASSUME Inv, NEW t \in Threads, NEW n, NEW m, Moved(t, n), n = Depth(t), Mine(t, m),
         TopOK(t, n), KeepsSpent(t, n),
         UNCHANGED <<refct, kind, elem, var, shutting, stats, crashed>>,
         NEW a \in MaybeAddr, NEW from \in {"system", "external"}, NEW B,
         Moves(t, n, m, a, from, B),
         heap' \in [Addrs -> {"free", "system", "external", "corrupt"}],
         data' \in [Addrs -> MaybeAddr]
  PROVE  Inv'
<1>1. TypeOK /\ Refs /\ Heap
  BY DEF Inv
<1>2. n \in Nat
  BY DEF Moved
<1>3. StepOf(t, n, m)
  BY <1>2 DEF StepOf, SameInfo, Holders, Containers, Moves
<1>4. FramesOK' /\ OneActive'
  BY <1>1, <1>3, FramesStep
<1>5. Heap'
  BY <1>1, <1>3, HeapMoves
<1>6. RefctExact' /\ Alive'
  BY <1>1 DEF Refs, RefctExact, Alive, Holders, Containers
<1>7. TypeOK'
  BY <1>1 DEF TypeOK, Moved, Stacks, stats
<1>8. QED
  BY <1>4, <1>5, <1>6, <1>7 DEF Inv, Refs

LEMMA MallocType ==
  ASSUME TypeOK, NEW from \in {"system", "external"}, NEW a \in MaybeAddr, Mallocs(from, a)
  PROVE  /\ heap' \in [Addrs -> {"free", "system", "external", "corrupt"}]
         /\ a \in Addrs => heap[a] = "free"
         /\ \A b \in Addrs : heap'[b] = IF b = a THEN from ELSE heap[b]
BY DEF Mallocs, TypeOK, MaybeAddr

LEMMA MallocDataInv ==
  ASSUME Inv, NEW t \in Threads, MallocData(t)
  PROVE  Inv'
<1> PICK n : n = Depth(t)
  OBVIOUS
<1>1. /\ TypeOK /\ Refs /\ Heap /\ At(t, "malloc_data")
      /\ UNCHANGED <<info, var, shutting, stats, crashed>>
  BY DEF Inv, MallocData
<1>2. /\ Stacks /\ stack[t] # <<>> /\ n \in Nat \ {0} /\ Top(t) = F(t, n) /\ Top(t) \in Frames
      /\ Top(t).at = "malloc_data" /\ MakingOK(t, n)
  BY <1>1, AtTop DEF Labels
<1>3. PICK a \in MaybeAddr :
        Mallocs("system", a) /\ Become(t, [Top(t) EXCEPT !.at = "count_data", !.data = a])
  BY DEF MallocData
<1> PICK f : f = [Top(t) EXCEPT !.at = "count_data", !.data = a]
  OBVIOUS
<1>4. /\ f \in Frames /\ f.at = "count_data" /\ f.data = a
      /\ f.kind = F(t, n).kind /\ f.var = F(t, n).var
  BY <1>2 DEF Frames, Labels
<1>5. Moved(t, n) /\ F(t, n)' = f
  BY <1>2, <1>3, <1>4, BecomeMoves
<1>6. TopGoes(t, n, f)
  BY <1>1, <1>2, <1>4, <1>5
     DEF TopGoes, MakingOK, DestroyingOK, ResizingOK, Making, Destroying, Resizing, Moved
<1>7. TopOK(t, n)
  BY <1>2, <1>5, <1>6, TopGoesOK
<1>8. KeepsSpent(t, n)
  BY <1>2 DEF KeepsSpent, SpentAt
<1>9. /\ UNCHANGED <<refct, kind, data, elem, var, shutting, stats, crashed>>
      /\ data' \in [Addrs -> MaybeAddr]
  BY <1>1 DEF info, TypeOK
<1>10. \A d \in 1 .. n : d >= Depth(t) => d = n
  BY <1>2
<1>11. ~ Fresh(t, n)'
  BY <1>4, <1>5 DEF Fresh
<1>12. NULL \notin Addrs /\ \A b \in {} : FALSE
  OBVIOUS
<1>13. /\ a \in Addrs => heap[a] = "free"
       /\ \A b \in Addrs : heap'[b] = IF b = a THEN "system" ELSE heap[b]
       /\ heap' \in [Addrs -> {"free", "system", "external", "corrupt"}]
  BY <1>1, <1>3, MallocType
<1>14. Moves(t, n, NULL, a, "system", {})
  BY <1>2, <1>4, <1>5, <1>9, <1>10, <1>11, <1>12, <1>13 DEF Moves
<1>15. QED
  BY <1>1, <1>5, <1>7, <1>8, <1>9, <1>13, <1>14, MineNull, BlockStep

LEMMA MallocInfoInv ==
  ASSUME Inv, NEW t \in Threads, MallocInfo(t)
  PROVE  Inv'
<1> PICK n : n = Depth(t)
  OBVIOUS
<1>1. /\ TypeOK /\ Refs /\ Heap /\ At(t, "malloc_mi")
      /\ UNCHANGED <<info, var, shutting, stats, crashed>>
  BY DEF Inv, MallocInfo
<1>2. /\ Stacks /\ stack[t] # <<>> /\ n \in Nat \ {0} /\ Top(t) = F(t, n) /\ Top(t) \in Frames
      /\ Top(t).at = "malloc_mi" /\ MakingOK(t, n)
  BY <1>1, AtTop DEF Labels
<1> PICK from : from = AllocatorOf(Top(t).kind)
  OBVIOUS
<1>3. PICK a \in MaybeAddr :
        Mallocs(from, a) /\ Become(t, [Top(t) EXCEPT !.at = "count_mi", !.info = a])
  BY DEF MallocInfo
<1> PICK f : f = [Top(t) EXCEPT !.at = "count_mi", !.info = a]
  OBVIOUS
<1>4. /\ f \in Frames /\ f.at = "count_mi" /\ f.info = a /\ f.data = F(t, n).data
      /\ f.kind = F(t, n).kind /\ f.var = F(t, n).var
  BY <1>2 DEF Frames, Labels
<1>5. Moved(t, n) /\ F(t, n)' = f
  BY <1>2, <1>3, <1>4, BecomeMoves
<1>6. TopGoes(t, n, f)
  BY <1>1, <1>2, <1>4, <1>5
     DEF TopGoes, MakingOK, DestroyingOK, ResizingOK, Making, Destroying, Resizing, Moved
<1>7. TopOK(t, n)
  BY <1>2, <1>5, <1>6, TopGoesOK
<1>8. KeepsSpent(t, n)
  BY <1>2 DEF KeepsSpent, SpentAt
<1>9. /\ UNCHANGED <<refct, kind, data, elem, var, shutting, stats, crashed>>
      /\ data' \in [Addrs -> MaybeAddr]
  BY <1>1 DEF info, TypeOK
<1>10. \A d \in 1 .. n : d >= Depth(t) => d = n
  BY <1>2
<1>11. from \in {"system", "external"}
  BY DEF AllocatorOf
<1>12. NULL \notin Addrs /\ \A b \in {} : FALSE
  OBVIOUS
<1>13. /\ a \in Addrs => heap[a] = "free"
       /\ \A b \in Addrs : heap'[b] = IF b = a THEN from ELSE heap[b]
       /\ heap' \in [Addrs -> {"free", "system", "external", "corrupt"}]
  BY <1>1, <1>3, <1>11, MallocType
<1>14. Owning(t, n)' => Owning(t, n) /\ F(t, n)'.data = F(t, n).data
  BY <1>2, <1>4, <1>5 DEF Owning, Making
<1>15. a \in Addrs /\ Owning(t, n) => F(t, n).data # a
  BY <1>1, <1>2, <1>13, FreeBlock
<1>16. Fresh(t, n)' => a \in Addrs
  BY <1>4, <1>5 DEF Fresh, MaybeAddr
<1>17. Moves(t, n, NULL, a, from, {})
  BY <1>2, <1>4, <1>5, <1>9, <1>10, <1>12, <1>13, <1>14, <1>15, <1>16 DEF Moves
<1>18. QED
  BY <1>1, <1>5, <1>7, <1>8, <1>9, <1>11, <1>13, <1>17, MineNull, BlockStep

(* The data block of a MemInfo is there while a frame that works on it has *)
(* not freed it: no other frame can.                                       *)
LEMMA Unspent ==
  ASSUME TypeOK, Refs, NEW t \in Threads, NEW n \in Nat \ {0}, n = Depth(t),
         NEW i, i = F(t, n).info,
         F(t, n).at \in Destroying \cup Resizing, ~ SpentAt(F(t, n))
  PROVE  ~ Spent(i)
<1> SUFFICES ASSUME NEW u \in Threads, NEW d \in 1 .. Depth(u), F(u, d).info = i,
                    F(u, d).at \in {"count_free_data", "free_mi"}
             PROVE  FALSE
  BY DEF Spent
<1>1. Active(u, d) /\ Active(t, n) /\ n \in 1 .. Depth(t)
  BY DEF Active, Destroying
<1>2. u = t /\ d = n
  BY <1>1 DEF Refs, OneActive
<1>3. QED
  BY <1>2 DEF SpentAt

LEMMA VarsizeAllocInv ==
  ASSUME Inv, NEW t \in Threads, VarsizeAlloc(t)
  PROVE  Inv'
<1> PICK n : n = Depth(t)
  OBVIOUS
<1> PICK i : i = Top(t).info
  OBVIOUS
<1>1. /\ TypeOK /\ Refs /\ Heap /\ At(t, "varsize_alloc")
      /\ UNCHANGED <<refct, kind, elem, var, shutting, stats, crashed>>
  BY DEF Inv, VarsizeAlloc
<1>2. /\ Stacks /\ stack[t] # <<>> /\ n \in Nat \ {0} /\ Top(t) = F(t, n) /\ Top(t) \in Frames
      /\ Top(t).at = "varsize_alloc" /\ ResizingOK(t, n)
  BY <1>1, AtTop DEF Labels
<1>3. PICK a \in MaybeAddr : Mallocs("system", a) /\ data' = [data EXCEPT ![i] = a]
  BY DEF VarsizeAlloc
<1>4. PICK f \in Frames : Become(t, f) /\ Went(F(t, n), f, "count_varsize_alloc")
  BY <1>1, GotoBecomes DEF VarsizeAlloc, Labels
<1>5. f.at = "count_varsize_alloc" /\ f.info = i /\ f.info = F(t, n).info /\ f.data = F(t, n).data
  BY <1>2, <1>4 DEF Went
<1>6. Moved(t, n) /\ F(t, n)' = f
  BY <1>2, <1>4, BecomeMoves
<1>7. i \in Addrs /\ kind[i] = "varsize" /\ data[i] = f.data
  BY <1>2, <1>5 DEF ResizingOK, Resizing
<1>8. Mine(t, i)
  BY <1>1, <1>2, MineTop DEF Resizing
<1>9. TopGoes(t, n, f)
  BY <1>1, <1>2, <1>5, <1>6, <1>8
     DEF TopGoes, MakingOK, DestroyingOK, ResizingOK, Making, Destroying, Resizing
<1>10. TopOK(t, n)
  BY <1>2, <1>6, <1>9, TopGoesOK
<1>11. KeepsSpent(t, n)
  BY <1>2 DEF KeepsSpent, SpentAt
<1>12. /\ a \in Addrs => heap[a] = "free"
       /\ \A b \in Addrs : heap'[b] = IF b = a THEN "system" ELSE heap[b]
       /\ heap' \in [Addrs -> {"free", "system", "external", "corrupt"}]
  BY <1>1, <1>3, MallocType
<1>13. /\ data' \in [Addrs -> MaybeAddr] /\ data'[i] = a
       /\ \A j \in Addrs : j # i => data'[j] = data[j]
  BY <1>1, <1>3, <1>7 DEF TypeOK
<1>14. \A d \in 1 .. n : d >= Depth(t) => d = n
  BY <1>2
<1>15. ~ Fresh(t, n)'
  BY <1>5, <1>6 DEF Fresh
<1>16. Owning(t, n)' => F(t, n)'.data = data[i] /\ Kept(i) /\ data'[i] # data[i]
  <2>1. Owning(t, n)' => f.data # NULL /\ f.data # data'[i]
    BY <1>5, <1>6 DEF Owning, Making
  <2>2. f.data # NULL => Kept(i)
    BY <1>1, <1>2, <1>5, <1>7, Unspent DEF Kept, Resizing, SpentAt
  <2>3. QED
    BY <1>6, <1>7, <2>1, <2>2
<1>17. \A b \in {} : FALSE
  OBVIOUS
<1>18. Moves(t, n, i, a, "system", {})
  BY <1>2, <1>7, <1>12, <1>13, <1>14, <1>15, <1>16, <1>17 DEF Moves
<1>19. QED
  BY <1>1, <1>6, <1>8, <1>10, <1>11, <1>12, <1>13, <1>18, BlockStep

(* Nobody destroys or resizes a MemInfo that no frame names.               *)
LEMMA NotBusy ==
  ASSUME TypeOK, NEW i \in Addrs, ~ Busy(i)
  PROVE  (\A u \in Threads : Mine(u, i)) /\ ~ Spent(i)
<1>1. \A u \in Threads : \A e \in 1 .. Depth(u) : Depth(u) + 1 - e \in DOMAIN stack[u]
  BY DEF TypeOK, Depth
<1>2. \A u \in Threads : \A e \in 1 .. Depth(u) : F(u, e).info # i
  BY <1>1 DEF Busy, F
<1>3. QED
  BY <1>2 DEF Mine, Spent

LEMMA ResizeListInv ==
  ASSUME Inv, NEW t \in Threads, NEW v \in Own(t), ResizeList(t, v)
  PROVE  Inv'
<1> PICK i : i = var[v]
  OBVIOUS
<1> PICK old : old = data[i]
  OBVIOUS
<1>1. /\ TypeOK /\ Refs /\ Heap /\ Idle(t) /\ v \in Vars /\ i # NULL
      /\ kind[i] = "varsize" /\ old # NULL /\ ~ Busy(i)
      /\ UNCHANGED <<refct, kind, elem, var, stack, shutting, stats, crashed>>
  BY DEF Inv, ResizeList, MayResize, Own
<1>2. Stacks /\ stack[t] = <<>> /\ Depth(t) = 0
  BY <1>1, IdleDepth
<1>3. i \in Addrs /\ old \in Addrs
  BY <1>1 DEF TypeOK, MaybeAddr
<1>4. Mine(t, i) /\ Kept(i)
  BY <1>1, <1>3, NotBusy DEF Kept
<1>5. heap[old] = "system"
  BY <1>1, <1>3, <1>4 DEF Heap, DataOwned
<1>6. Moved(t, 0)
  BY <1>1, <1>2 DEF Moved, Stacks, Depth
<1>7. TopOK(t, 0) /\ KeepsSpent(t, 0)
  BY <1>2 DEF TopOK, KeepsSpent
<1>8. \A d \in 1 .. 0 : FALSE
  OBVIOUS
<1>9. \/ \E a \in Addrs : /\ heap[a] = "free" \/ a = old
                          /\ heap' = [heap EXCEPT ![old] = "free", ![a] = "system"]
                          /\ data' = [data EXCEPT ![i] = a]
      \/ data' = [data EXCEPT ![i] = NULL] /\ UNCHANGED heap
  BY DEF ResizeList
<1>10. ASSUME NEW a \in Addrs, a = old, heap' = [heap EXCEPT ![old] = "free", ![a] = "system"],
              data' = [data EXCEPT ![i] = a]
       PROVE  Inv'
  <2>1. heap' = heap /\ data' = data
    BY <1>1, <1>3, <1>5, <1>10 DEF TypeOK
  <2>2. {shutting, enabled, crashed}' \subseteq BOOLEAN
    BY <1>1 DEF TypeOK, stats
  <2>3. QED
    BY <1>1, <2>1, <2>2, StillInv DEF info, stats
<1>11. ASSUME NEW a \in Addrs, heap[a] = "free", a # old,
              heap' = [heap EXCEPT ![old] = "free", ![a] = "system"],
              data' = [data EXCEPT ![i] = a]
       PROVE  Inv'
  <2>1. /\ heap' \in [Addrs -> {"free", "system", "external", "corrupt"}]
        /\ \A b \in Addrs : heap'[b] = IF b = a THEN "system" ELSE IF b \in {old} THEN "free"
                                       ELSE heap[b]
    BY <1>1, <1>3, <1>11 DEF TypeOK
  <2>2. /\ data' \in [Addrs -> MaybeAddr] /\ data'[i] = a
        /\ \A j \in Addrs : j # i => data'[j] = data[j]
    BY <1>1, <1>3, <1>11 DEF TypeOK, MaybeAddr
  <2>3. Moves(t, 0, i, a, "system", {old})
    BY <1>3, <1>4, <1>8, <1>11, <2>1, <2>2 DEF Moves
  <2>4. QED
    BY <1>1, <1>2, <1>4, <1>6, <1>7, <2>1, <2>2, <2>3, BlockStep DEF MaybeAddr
<1>12. CASE data' = [data EXCEPT ![i] = NULL] /\ UNCHANGED heap
  <2>1. /\ data' \in [Addrs -> MaybeAddr] /\ data'[i] = NULL
        /\ \A j \in Addrs : j # i => data'[j] = data[j]
    BY <1>1, <1>3, <1>12 DEF TypeOK, MaybeAddr
  <2>2. ~ Kept(i)'
    BY <2>1 DEF Kept
  <2>3. Moves(t, 0, i, NULL, "system", {})
    BY <1>3, <1>8, <1>12, <2>1, <2>2 DEF Moves
  <2>4. heap' \in [Addrs -> {"free", "system", "external", "corrupt"}]
    BY <1>1, <1>12 DEF TypeOK
  <2>5. QED
    BY <1>1, <1>2, <1>4, <1>6, <1>7, <2>1, <2>3, <2>4, BlockStep DEF MaybeAddr
<1>13. QED
  BY <1>9, <1>10, <1>11, <1>12

-----------------------------------------------------------------------------
(* The actions that free a block.                                          *)

(* A step after which the top frame owns no block.                         *)
LEMMA NoNewClaims ==
  ASSUME TypeOK, Refs, NEW t \in Threads, NEW n, NEW m, StepOf(t, n, m),
         \A d \in 1 .. n : d >= Depth(t) => ~ Fresh(t, d)' /\ ~ Owning(t, d)',
         NEW u \in Threads, NEW d \in 1 .. Depth(u)'
  PROVE  /\ Fresh(u, d)' => Bystander(t, u, d)
         /\ Owning(u, d)' => Bystander(t, u, d)
         /\ Bystander(t, u, d) =>
              /\ d \in 1 .. Depth(u) /\ F(u, d)' = F(u, d)
              /\ Fresh(u, d)' => Fresh(u, d)
              /\ Owning(u, d)' => Owning(u, d)
<1>1. Stacks /\ Moved(t, n)
  BY DEF StepOf, TypeOK, Stacks
<1>2. ~ Bystander(t, u, d) => u = t /\ d >= Depth(t) /\ d \in 1 .. n
  BY <1>1, FrameCases
<1>3. Bystander(t, u, d) =>
        /\ d \in 1 .. Depth(u) /\ F(u, d)' = F(u, d)
        /\ Fresh(u, d)' => Fresh(u, d)
        /\ Owning(u, d)' => Owning(u, d)
  BY OthersClaims
<1>4. QED
  BY <1>2, <1>3

(* Block b is freed, and of the MemInfos only m may have had it.           *)
Drops(t, n, m, b) ==
  /\ b \in Addrs /\ KeepsSpent(t, n)
  /\ \A a \in Addrs : heap'[a] = IF a = b THEN "free" ELSE heap[a]
  /\ \A i \in Addrs : kind'[i] # "none" => kind'[i] = kind[i] /\ i # b
  /\ \A i \in Addrs : Kept(i) /\ data[i] = b =>
       i = m /\ (data'[i] = NULL \/ Spent(i)' \/ kind'[i] # "varsize")
  /\ \A i \in Addrs : data'[i] = data[i] \/ data'[i] = NULL
  /\ \A d \in 1 .. n : d >= Depth(t) => ~ Fresh(t, d)' /\ ~ Owning(t, d)'
  /\ \A u \in Threads : \A d \in 1 .. Depth(u) :
       (Fresh(u, d) => F(u, d).info # b) /\ (Bystander(t, u, d) /\ Owning(u, d) => F(u, d).data # b)

LEMMA DropStep ==
  ASSUME TypeOK, Refs, Heap, NEW t \in Threads, NEW n, NEW m, StepOf(t, n, m),
         NEW b, Drops(t, n, m, b)
  PROVE  Heap'
<1>1. \A u \in Threads : \A d \in 1 .. Depth(u)' :
        /\ Fresh(u, d)' => F(u, d)'.info # b
        /\ Owning(u, d)' => F(u, d)'.data # b
  BY NoNewClaims DEF Drops
<1>2. Shrinks(t, n, {b})
  BY <1>1 DEF Shrinks, Drops
<1>3. QED
  BY <1>2, HeapStep

LEMMA FreeDataInv ==
  ASSUME Inv, NEW t \in Threads, FreeData(t)
  PROVE  Inv'
<1> PICK n : n = Depth(t)
  OBVIOUS
<1> PICK i : i = Top(t).info
  OBVIOUS
<1> PICK b : b = data[i]
  OBVIOUS
<1>1. /\ TypeOK /\ Refs /\ Heap /\ At(t, "free_data") /\ Frees("system", b)
      /\ UNCHANGED <<info, var, shutting, stats, crashed>>
  BY DEF Inv, FreeData
<1>2. /\ Stacks /\ stack[t] # <<>> /\ n \in Nat \ {0} /\ Top(t) = F(t, n) /\ Top(t) \in Frames
      /\ Top(t).at = "free_data" /\ DestroyingOK(t, n)
  BY <1>1, AtTop DEF Labels
<1>3. PICK f \in Frames : Become(t, f) /\ Went(F(t, n), f, "count_free_data")
  BY <1>1, GotoBecomes DEF FreeData, Labels
<1>4. f.at = "count_free_data" /\ f.info = i /\ f.info = F(t, n).info
  BY <1>2, <1>3 DEF Went
<1>5. Moved(t, n) /\ F(t, n)' = f
  BY <1>2, <1>3, BecomeMoves
<1>6. Mine(t, i) /\ ~ Spent(i)
  BY <1>1, <1>2, MineTop, Unspent DEF Destroying, SpentAt
<1>7. i \in Addrs /\ kind[i] = "varsize" /\ b \in Addrs /\ Kept(i)
  BY <1>1, <1>2, <1>6 DEF DestroyingOK, Destroying, TypeOK, MaybeAddr, Kept
<1>8. heap[b] = "system" /\ kind[b] = "none" /\ \A j \in Addrs : Kept(j) /\ data[j] = b => j = i
  BY <1>1, <1>7 DEF Heap, DataOwned
<1>9. TopGoes(t, n, f)
  BY <1>1, <1>2, <1>4, <1>5, <1>6
     DEF TopGoes, MakingOK, DestroyingOK, ResizingOK, Making, Destroying, Resizing,
       info, Holders, Containers
<1>10. TopOK(t, n)
  BY <1>2, <1>5, <1>9, TopGoesOK
<1>11. StepOf(t, n, i)
  BY <1>1, <1>2, <1>5, <1>6, QuietStepOf
<1>12. FramesOK' /\ OneActive'
  BY <1>1, <1>10, <1>11, FramesStep
<1>13. RefctExact' /\ Alive'
  BY <1>1 DEF Refs, RefctExact, Alive, Holders, Containers, info
<1>14. /\ heap' \in [Addrs -> {"free", "system", "external", "corrupt"}]
       /\ \A a \in Addrs : heap'[a] = IF a = b THEN "free" ELSE heap[a]
  BY <1>1, <1>7, <1>8 DEF Frees, TypeOK
<1>15. Heap'
  <2>1. Spent(i)'
    <3>1. n \in 1 .. Depth(t)'
      BY <1>2, <1>5 DEF Moved
    <3>2. QED
      BY <1>4, <1>5, <3>1 DEF Spent
  <2>2. \A d \in 1 .. n : d >= Depth(t) => d = n
    BY <1>2
  <2>3. ~ Fresh(t, n)' /\ ~ Owning(t, n)'
    BY <1>4, <1>5 DEF Fresh, Owning, Making
  <2>4. \A u \in Threads : \A d \in 1 .. Depth(u) :
          (Fresh(u, d) => F(u, d).info # b) /\ (Owning(u, d) => F(u, d).data # b)
    BY <1>1, <1>7 DEF Heap, FreshOwned, BlocksOwned
  <2>5. KeepsSpent(t, n)
    BY <1>2 DEF KeepsSpent, SpentAt
  <2>6. UNCHANGED <<kind, data>>
    BY <1>1 DEF info
  <2>7. Drops(t, n, i, b)
    BY <1>7, <1>8, <1>14, <2>1, <2>2, <2>3, <2>4, <2>5, <2>6 DEF Drops
  <2>8. QED
    BY <1>1, <1>11, <2>7, DropStep
<1>16. TypeOK'
  BY <1>1, <1>5, <1>14 DEF TypeOK, Moved, Stacks, stats, info
<1>17. QED
  BY <1>12, <1>13, <1>15, <1>16 DEF Inv, Refs

LEMMA VarsizeFreeInv ==
  ASSUME Inv, NEW t \in Threads, VarsizeFree(t)
  PROVE  Inv'
<1> PICK n : n = Depth(t)
  OBVIOUS
<1> PICK i : i = Top(t).info
  OBVIOUS
<1> PICK b : b = Top(t).data
  OBVIOUS
<1>1. /\ TypeOK /\ Refs /\ Heap /\ At(t, "varsize_free") /\ Frees("system", b)
      /\ data' = [data EXCEPT ![i] = IF @ = b THEN NULL ELSE @]
      /\ UNCHANGED <<refct, kind, elem, var, shutting, stats, crashed>>
  BY DEF Inv, VarsizeFree
<1>2. /\ Stacks /\ stack[t] # <<>> /\ n \in Nat \ {0} /\ Top(t) = F(t, n) /\ Top(t) \in Frames
      /\ Top(t).at = "varsize_free" /\ ResizingOK(t, n)
  BY <1>1, AtTop DEF Labels
<1>3. PICK f \in Frames : Become(t, f) /\ Went(F(t, n), f, "count_varsize_free")
  BY <1>1, GotoBecomes DEF VarsizeFree, Labels
<1>4. f.at = "count_varsize_free" /\ f.info = i /\ f.info = F(t, n).info
  BY <1>2, <1>3 DEF Went
<1>5. Moved(t, n) /\ F(t, n)' = f
  BY <1>2, <1>3, BecomeMoves
<1>6. Mine(t, i) /\ ~ Spent(i)
  BY <1>1, <1>2, MineTop, Unspent DEF Resizing, SpentAt
<1>7. i \in Addrs /\ kind[i] = "varsize" /\ b \in Addrs
  BY <1>1, <1>2 DEF ResizingOK, Resizing, Frames, MaybeAddr
<1>8. /\ data' \in [Addrs -> MaybeAddr] /\ data'[i] = IF data[i] = b THEN NULL ELSE data[i]
      /\ \A j \in Addrs : j # i => data'[j] = data[j]
  BY <1>1, <1>7 DEF TypeOK, MaybeAddr
<1>9. /\ heap[b] = "system" /\ kind[b] = "none"
      /\ \A j \in Addrs : Kept(j) /\ data[j] = b => j = i
      /\ \A u \in Threads : \A d \in 1 .. Depth(u) :
           /\ Fresh(u, d) => F(u, d).info # b
           /\ Owning(u, d) /\ F(u, d).data = b => u = t /\ d = n
  <2>1. CASE data[i] = b
    <3>1. Kept(i)
      BY <1>6, <1>7, <2>1 DEF Kept
    <3>2. QED
      BY <1>1, <1>7, <2>1, <3>1 DEF Heap, DataOwned, FreshOwned, BlocksOwned
  <2>2. CASE data[i] # b
    <3>1. Owning(t, n) /\ n \in 1 .. Depth(t) /\ F(t, n).data = b
      BY <1>2, <1>7, <2>2 DEF Owning
    <3>2. /\ heap[b] = "system" /\ kind[b] = "none"
          /\ \A j \in Addrs : Kept(j) => data[j] # b
          /\ \A u \in Threads : \A d \in 1 .. Depth(u) :
               Owning(u, d) /\ F(u, d).data = b => u = t /\ d = n
      BY <1>1, <3>1 DEF Heap, BlocksOwned
    <3>3. \A u \in Threads : \A d \in 1 .. Depth(u) : Fresh(u, d) => F(u, d).info # b
      BY <1>1, <3>1 DEF Heap, FreshOwned
    <3>4. QED
      BY <3>2, <3>3
  <2>3. QED
    BY <2>1, <2>2
<1>10. TopGoes(t, n, f)
  BY <1>1, <1>2, <1>4, <1>5, <1>6
     DEF TopGoes, MakingOK, DestroyingOK, ResizingOK, Making, Destroying, Resizing
<1>11. TopOK(t, n)
  BY <1>2, <1>5, <1>10, TopGoesOK
<1>12. StepOf(t, n, i)
  BY <1>1, <1>2, <1>5, <1>6, <1>8 DEF StepOf, SameInfo, Holders, Containers
<1>13. FramesOK' /\ OneActive'
  BY <1>1, <1>11, <1>12, FramesStep
<1>14. RefctExact' /\ Alive'
  BY <1>1 DEF Refs, RefctExact, Alive, Holders, Containers
<1>15. /\ heap' \in [Addrs -> {"free", "system", "external", "corrupt"}]
       /\ \A a \in Addrs : heap'[a] = IF a = b THEN "free" ELSE heap[a]
  BY <1>1, <1>7, <1>9 DEF Frees, TypeOK
<1>16. Heap'
  <2>1. \A d \in 1 .. n : d >= Depth(t) => d = n
    BY <1>2
  <2>2. ~ Fresh(t, n)' /\ ~ Owning(t, n)'
    BY <1>4, <1>5 DEF Fresh, Owning, Making
  <2>3. KeepsSpent(t, n)
    BY <1>2 DEF KeepsSpent, SpentAt
  <2>4. \A u \in Threads : \A d \in 1 .. Depth(u) :
          /\ Fresh(u, d) => F(u, d).info # b
          /\ Bystander(t, u, d) /\ Owning(u, d) => F(u, d).data # b
    BY <1>2, <1>9 DEF Bystander
  <2>5. UNCHANGED kind
    BY <1>1
  <2>6. Drops(t, n, i, b)
    BY <1>7, <1>8, <1>9, <1>15, <2>1, <2>2, <2>3, <2>4, <2>5 DEF Drops
  <2>7. QED
    BY <1>1, <1>12, <2>6, DropStep
<1>17. TypeOK'
  BY <1>1, <1>5, <1>8, <1>15 DEF TypeOK, Moved, Stacks, stats
<1>18. QED
  BY <1>13, <1>14, <1>16, <1>17 DEF Inv, Refs

LEMMA FreeInfoInv ==
  ASSUME Inv, NEW t \in Threads, FreeInfo(t)
  PROVE  Inv'
<1> PICK n : n = Depth(t)
  OBVIOUS
<1> PICK i : i = Top(t).info
  OBVIOUS
<1>1. /\ TypeOK /\ Refs /\ Heap /\ At(t, "free_mi") /\ Frees(AllocatorOf(kind[i]), i)
      /\ refct' = [refct EXCEPT ![i] = 0]
      /\ kind' = [kind EXCEPT ![i] = "none"]
      /\ data' = [data EXCEPT ![i] = NULL]
      /\ elem' = [elem EXCEPT ![i] = NULL]
      /\ UNCHANGED <<var, shutting, stats, crashed>>
  BY DEF Inv, FreeInfo
<1>2. /\ Stacks /\ stack[t] # <<>> /\ n \in Nat \ {0} /\ Top(t) = F(t, n) /\ Top(t) \in Frames
      /\ Top(t).at = "free_mi" /\ DestroyingOK(t, n)
  BY <1>1, AtTop DEF Labels
<1>3. PICK f \in Frames : Become(t, f) /\ Went(F(t, n), f, "count_free_mi")
  BY <1>1, GotoBecomes DEF FreeInfo, Labels
<1>4. f.at = "count_free_mi" /\ f.info = i /\ f.info = F(t, n).info
  BY <1>2, <1>3 DEF Went
<1>5. Moved(t, n) /\ F(t, n)' = f
  BY <1>2, <1>3, BecomeMoves
<1>6. Mine(t, i)
  BY <1>1, <1>2, MineTop DEF Destroying
<1>7. /\ i \in Addrs /\ kind[i] # "none" /\ Holders(i) = {} /\ Containers(i) = {}
      /\ shutting \/ elem[i] = NULL
  BY <1>1, <1>2 DEF DestroyingOK, Destroying
<1>8. /\ refct' \in [Addrs -> Nat] /\ kind' \in [Addrs -> Kinds \cup {"none"}]
      /\ data' \in [Addrs -> MaybeAddr] /\ elem' \in [Addrs -> MaybeAddr]
      /\ kind'[i] = "none" /\ data'[i] = NULL /\ elem'[i] = NULL
      /\ \A j \in Addrs : j # i =>
           /\ refct'[j] = refct[j] /\ kind'[j] = kind[j]
           /\ data'[j] = data[j] /\ elem'[j] = elem[j]
  BY <1>1, <1>7 DEF TypeOK, MaybeAddr
<1>9. /\ heap[i] = AllocatorOf(kind[i]) /\ heap[i] # "free"
      /\ \A j \in Addrs : Kept(j) => data[j] # i
      /\ \A u \in Threads : \A d \in 1 .. Depth(u) :
           (Fresh(u, d) => F(u, d).info # i) /\ (Owning(u, d) => F(u, d).data # i)
  BY <1>1, <1>7 DEF Heap, InfosOwned, DataOwned, FreshOwned, BlocksOwned, AllocatorOf
<1>10. \A j \in Addrs : Holders(j)' = Holders(j)
  BY <1>1 DEF Holders
<1>11. \A j \in Addrs : /\ Containers(j)' \in SUBSET Containers(j)
                        /\ elem[i] # j => Containers(j)' = Containers(j)
  BY <1>8 DEF Containers
<1>12. \A j \in Addrs : j # i /\ Unheld(j) => SameInfo(j)
  BY <1>8, <1>10, <1>11 DEF Unheld, SameInfo, Containers
<1>13. StepOf(t, n, i)
  BY <1>1, <1>2, <1>5, <1>6, <1>8, <1>12 DEF StepOf
<1>14. ~ Active(t, n)' /\ (MakingOK(t, n) /\ DestroyingOK(t, n) /\ ResizingOK(t, n))'
  BY <1>4, <1>5
     DEF MakingOK, DestroyingOK, ResizingOK, Making, Destroying, Resizing, Active
<1>15. \A d \in 1 .. n : d >= Depth(t) => d = n
  BY <1>2
<1>16. FramesOK' /\ OneActive'
  <2>1. TopOK(t, n)
    BY <1>14, <1>15 DEF TopOK
  <2>2. QED
    BY <1>1, <1>13, <2>1, FramesStep
<1>17. RefctExact'
  <2> SUFFICES ASSUME NEW j \in Addrs, kind'[j] # "none"
               PROVE  LET k == Cardinality(Holders(j)') + Cardinality(Containers(j)') IN
                      refct'[j] >= k /\ (~ shutting' => refct'[j] = k)
    BY DEF RefctExact
  <2>1. j # i /\ kind[j] # "none" /\ refct'[j] = refct[j]
    BY <1>8
  <2>2. /\ Cardinality(Containers(j)') <= Cardinality(Containers(j))
        /\ Cardinality(Containers(j)') \in Nat
    BY <1>11, RefsFinite, FS_Subset, FS_CardinalityType
  <2>3. ~ shutting => Containers(j)' = Containers(j)
    BY <1>7, <1>11
  <2>4. /\ refct[j] \in Nat
        /\ refct[j] >= Cardinality(Holders(j)) + Cardinality(Containers(j))
        /\ ~ shutting => refct[j] = Cardinality(Holders(j)) + Cardinality(Containers(j))
    BY <1>1, <2>1, CountFacts DEF Refs
  <2>5. Cardinality(Holders(j)) \in Nat /\ Cardinality(Containers(j)) \in Nat
    BY RefsFinite
  <2>6. shutting' = shutting /\ Holders(j)' = Holders(j)
    BY <1>1, <1>10
  <2>7. QED
    BY <2>1, <2>2, <2>3, <2>4, <2>5, <2>6
<1>18. Alive'
  <2>1. \A v \in Vars : var[v] # i
    BY <1>7 DEF Holders
  <2>2. \A a \in Addrs : elem[a] # i
    BY <1>7 DEF Containers
  <2>3. \A v \in Vars : var[v] # NULL => var[v] \in Addrs
    BY <1>1 DEF TypeOK, MaybeAddr
  <2>4. \A a \in Addrs : elem[a] # NULL => elem[a] \in Addrs
    BY <1>1 DEF TypeOK, MaybeAddr
  <2>5. QED
    BY <1>1, <1>8, <2>1, <2>2, <2>3, <2>4 DEF Refs, Alive
<1>19. /\ heap' \in [Addrs -> {"free", "system", "external", "corrupt"}]
       /\ \A a \in Addrs : heap'[a] = IF a = i THEN "free" ELSE heap[a]
  BY <1>1, <1>7, <1>9 DEF Frees, TypeOK
<1>20. Heap'
  <2>1. ~ Fresh(t, n)' /\ ~ Owning(t, n)'
    BY <1>4, <1>5 DEF Fresh, Owning, Making
  <2>2. KeepsSpent(t, n)
    BY <1>2, <1>4, <1>8 DEF KeepsSpent
  <2>3. Drops(t, n, i, i)
    BY <1>7, <1>8, <1>9, <1>15, <1>19, <2>1, <2>2 DEF Drops
  <2>4. QED
    BY <1>1, <1>13, <2>3, DropStep
<1>21. TypeOK'
  BY <1>1, <1>5, <1>8, <1>19 DEF TypeOK, Moved, Stacks, stats
<1>22. QED
  BY <1>16, <1>17, <1>18, <1>20, <1>21 DEF Inv, Refs

-----------------------------------------------------------------------------
(* A block becomes a MemInfo.                                              *)

LEMMA InitInfoInv ==
  ASSUME Inv, NEW t \in Threads, InitInfo(t)
  PROVE  Inv'
<1> PICK f : f = Top(t)
  OBVIOUS
<1> PICK i : i = f.info
  OBVIOUS
<1> PICK v : v = f.var
  OBVIOUS
<1>1. /\ TypeOK /\ Refs /\ Heap /\ At(t, "init")
      /\ refct' = [refct EXCEPT ![i] = 1]
      /\ kind' = [kind EXCEPT ![i] = f.kind]
      /\ data' = [data EXCEPT ![i] = f.data]
      /\ elem' = [elem EXCEPT ![i] = NULL]
      /\ var' = [var EXCEPT ![v] = i]
      /\ mi_alloc' = Counted(mi_alloc) /\ Return(t)
      /\ UNCHANGED <<heap, shutting, enabled, alloc, free, mi_free, crashed>>
  BY DEF Inv, InitInfo
<1>2. /\ Stacks /\ stack[t] # <<>> /\ f = F(t, Depth(t)) /\ f \in Frames
      /\ f.at = "init" /\ MakingOK(t, Depth(t))
  BY <1>1, AtTop DEF Labels
<1>3. /\ Depth(t) = 1 /\ f = F(t, 1) /\ v \in Own(t) /\ v \in Vars /\ var[v] = NULL
      /\ i \in Addrs /\ f.kind \in Kinds
      /\ f.kind # "varsize" => f.data = NULL
  BY <1>2 DEF MakingOK, Making, Own, Frames, MaybeAddr
<1>4. f.kind # "none" /\ f.data \in MaybeAddr
  BY <1>2, <1>3 DEF Frames
<1>5. 1 \in 1 .. Depth(t) /\ Fresh(t, 1) /\ (f.data # NULL => Owning(t, 1))
  BY <1>2, <1>3 DEF Fresh, Owning, Making
<1>6. /\ heap[i] = AllocatorOf(f.kind) /\ kind[i] = "none"
      /\ \A j \in Addrs : Kept(j) => data[j] # i
      /\ \A u \in Threads : \A e \in 1 .. Depth(u) :
           /\ Fresh(u, e) /\ F(u, e).info = i => t = u /\ e = 1
           /\ Owning(u, e) => F(u, e).data # i
  BY <1>1, <1>3, <1>5 DEF Heap, FreshOwned
<1>7. f.data # NULL =>
        /\ f.data \in Addrs /\ f.data # i
        /\ heap[f.data] = "system" /\ kind[f.data] = "none"
        /\ \A j \in Addrs : Kept(j) => data[j] # f.data
        /\ \A u \in Threads : \A e \in 1 .. Depth(u) :
             Owning(u, e) /\ F(u, e).data = f.data => t = u /\ e = 1
        /\ \A u \in Threads : \A e \in 1 .. Depth(u) : Fresh(u, e) => F(u, e).info # f.data
  <2> SUFFICES ASSUME f.data # NULL
               PROVE  /\ f.data \in Addrs /\ f.data # i
                      /\ heap[f.data] = "system" /\ kind[f.data] = "none"
                      /\ \A j \in Addrs : Kept(j) => data[j] # f.data
                      /\ \A u \in Threads : \A e \in 1 .. Depth(u) :
                           Owning(u, e) /\ F(u, e).data = f.data => t = u /\ e = 1
                      /\ \A u \in Threads : \A e \in 1 .. Depth(u) :
                           Fresh(u, e) => F(u, e).info # f.data
    OBVIOUS
  <2>1. f.data \in Addrs
    BY <1>4 DEF MaybeAddr
  <2>2. Owning(t, 1) /\ F(t, 1).data = f.data
    BY <1>3, <1>5
  <2>3. QED
    BY <1>1, <1>5, <1>6, <2>1, <2>2 DEF Heap, BlocksOwned, FreshOwned
<1>8. /\ \A u \in Vars : var[u] # i
      /\ \A a \in Addrs : elem[a] # i
      /\ elem[i] = NULL
  BY <1>1, <1>3, <1>6 DEF Refs, Alive
<1>9. Moved(t, 0)
  <2>1. Moved(t, Depth(t) - 1) /\ Depth(t) - 1 = 0
    BY <1>1, <1>2, <1>3, ReturnMoves
  <2>2. QED
    BY <2>1
<1>10. /\ refct' \in [Addrs -> Nat] /\ kind' \in [Addrs -> Kinds \cup {"none"}]
       /\ data' \in [Addrs -> MaybeAddr] /\ elem' = elem /\ var' \in [Vars -> MaybeAddr]
       /\ refct'[i] = 1 /\ kind'[i] = f.kind /\ data'[i] = f.data
       /\ \A j \in Addrs : j # i =>
            refct'[j] = refct[j] /\ kind'[j] = kind[j] /\ data'[j] = data[j]
       /\ \A u \in Vars : u # v => var'[u] = var[u]
  BY <1>1, <1>3, <1>4, <1>8 DEF TypeOK, MaybeAddr
<1>11. /\ Cardinality(Holders(i))' = Cardinality(Holders(i)) + 1
       /\ \A j \in Addrs : j # i => Holders(j)' = Holders(j)
  BY <1>1, <1>3, HolderAdded DEF TypeOK
<1>12. \A j \in Addrs : Containers(j)' = Containers(j)
  BY <1>10 DEF Containers
<1>13. \A j \in Addrs : j # NULL /\ Unheld(j) => SameInfo(j)
  BY <1>6, <1>10, <1>11, <1>12 DEF Unheld, SameInfo
<1>14. StepOf(t, 0, NULL)
  BY <1>1, <1>3, <1>6, <1>9, <1>10, <1>13, MineNull DEF StepOf
<1>15. FramesOK' /\ OneActive'
  <2>1. TopOK(t, 0)
    BY DEF TopOK
  <2>2. QED
    BY <1>1, <1>14, <2>1, FramesStep
<1>16. RefctExact'
  <2> SUFFICES ASSUME NEW j \in Addrs, kind'[j] # "none"
               PROVE  LET k == Cardinality(Holders(j)') + Cardinality(Containers(j)') IN
                      refct'[j] >= k /\ (~ shutting' => refct'[j] = k)
    BY DEF RefctExact
  <2>1. CASE j = i
    <3>1. Holders(i) = {} /\ Containers(i) = {}
      BY <1>8 DEF Holders, Containers
    <3>2. Cardinality(Holders(i)) = 0 /\ Cardinality(Containers(i)) = 0
      BY <3>1, FS_EmptySet
    <3>3. Cardinality(Holders(i)') = 1 /\ Cardinality(Containers(i)') = 0
      BY <1>3, <1>11, <1>12, <3>2
    <3>4. QED
      BY <1>10, <2>1, <3>3
  <2>2. CASE j # i
    <3>1. kind[j] # "none" /\ refct'[j] = refct[j] /\ Holders(j)' = Holders(j)
          /\ Containers(j)' = Containers(j)
      BY <1>10, <1>11, <1>12, <2>2
    <3>2. /\ refct[j] >= Cardinality(Holders(j)) + Cardinality(Containers(j))
          /\ ~ shutting => refct[j] = Cardinality(Holders(j)) + Cardinality(Containers(j))
      BY <1>1, <3>1, CountFacts DEF Refs
    <3>3. QED
      BY <1>1, <3>1, <3>2
  <2>3. QED
    BY <2>1, <2>2
<1>17. Alive'
  <2>1. \A u \in Vars : var'[u] # NULL => kind'[var'[u]] # "none"
    <3>1. \A u \in Vars : var[u] # NULL => var[u] \in Addrs /\ kind[var[u]] # "none"
      BY <1>1 DEF TypeOK, MaybeAddr, Refs, Alive
    <3>2. var'[v] = i
      BY <1>1, <1>3 DEF TypeOK
    <3>3. QED
      BY <1>4, <1>8, <1>10, <3>1, <3>2
  <2>2. \A a \in Addrs : elem[a] # NULL =>
          elem[a] \in Addrs /\ kind[elem[a]] # "none" /\ kind[a] \in {"managed", "varsize"}
    BY <1>1 DEF TypeOK, MaybeAddr, Refs, Alive
  <2>3. \A a \in Addrs : elem'[a] # NULL =>
          kind'[elem'[a]] # "none" /\ kind'[a] \in {"managed", "varsize"}
    BY <1>8, <1>10, <2>2
  <2>4. QED
    BY <2>1, <2>3 DEF Alive
<1>18. KeepsSpent(t, 0)
  BY <1>2, <1>3 DEF KeepsSpent, SpentAt
<1>19. ASSUME NEW j \in Addrs, Kept(j)'
       PROVE  \/ j # i /\ Kept(j) /\ data'[j] = data[j] /\ data[j] \in Addrs
              \/ j = i /\ f.data # NULL /\ data'[j] = f.data
  <2>1. kind'[j] = "varsize" /\ data'[j] # NULL /\ ~ Spent(j)'
    BY <1>19 DEF Kept
  <2>2. ~ Spent(j)
    BY <1>1, <1>14, <1>18, <2>1, SpentStep
  <2>3. j # i => data[j] # NULL /\ data[j] \in Addrs
    BY <1>1, <1>10, <2>1 DEF TypeOK, MaybeAddr
  <2>4. QED
    BY <1>10, <2>1, <2>2, <2>3 DEF Kept
<1>20. ASSUME NEW u \in Threads, NEW d \in 1 .. Depth(u)'
       PROVE  /\ u # t /\ d \in 1 .. Depth(u) /\ F(u, d)' = F(u, d)
              /\ Fresh(u, d)' => Fresh(u, d) /\ F(u, d).info \in Addrs
              /\ Owning(u, d)' => Owning(u, d) /\ F(u, d).data \in Addrs
  <2>1. u # t
    BY <1>9 DEF Moved
  <2>2. Bystander(t, u, d)
    BY <1>9, <2>1 DEF Bystander, Moved, Depth
  <2>3. /\ d \in 1 .. Depth(u) /\ F(u, d)' = F(u, d)
        /\ Fresh(u, d)' => Fresh(u, d)
        /\ Owning(u, d)' => Owning(u, d)
    BY <1>1, <1>14, <2>2, OthersClaims
  <2>4. F(u, d) \in Frames
    BY <1>2, <2>3, DepthType
  <2>5. QED
    BY <2>1, <2>3, <2>4 DEF Frames, MaybeAddr, Fresh, Owning
<1>21. HeapSound' /\ InfosOwned'
  BY <1>1, <1>6, <1>10 DEF Heap, HeapSound, InfosOwned
<1>22. DataOwned'
  <2>1. ASSUME NEW j \in Addrs, Kept(j)'
        PROVE  heap'[data'[j]] = "system" /\ kind'[data'[j]] = "none"
    <3>1. CASE j = i
      BY <1>1, <1>7, <1>10, <1>19, <2>1, <3>1
    <3>2. CASE j # i
      BY <1>1, <1>6, <1>10, <1>19, <2>1, <3>2 DEF Heap, DataOwned
    <3>3. QED
      BY <3>1, <3>2
  <2>2. ASSUME NEW j \in Addrs, NEW k \in Addrs, Kept(j)', Kept(k)', data'[k] = data'[j]
        PROVE  k = j
    BY <1>1, <1>7, <1>19, <2>2 DEF Heap, DataOwned
  <2>3. QED
    BY <2>1, <2>2 DEF DataOwned
<1>23. FreshOwned'
  <2> SUFFICES ASSUME NEW u \in Threads, NEW d \in 1 .. Depth(u)', Fresh(u, d)'
               PROVE  LET a == F(u, d).info IN
                 /\ heap'[a] = AllocatorOf(F(u, d).kind) /\ kind'[a] = "none"
                 /\ \A j \in Addrs : Kept(j)' => data'[j] # a
                 /\ \A w \in Threads : \A e \in 1 .. Depth(w)' :
                      /\ Fresh(w, e)' /\ F(w, e)'.info = a => u = w /\ d = e
                      /\ Owning(w, e)' => F(w, e)'.data # a
    BY <1>20 DEF FreshOwned
  <2> PICK a \in Addrs : a = F(u, d).info
    BY <1>20
  <2>1. u # t /\ d \in 1 .. Depth(u) /\ Fresh(u, d)
    BY <1>20
  <2>2. /\ heap[a] = AllocatorOf(F(u, d).kind) /\ kind[a] = "none"
        /\ \A j \in Addrs : Kept(j) => data[j] # a
        /\ \A w \in Threads : \A e \in 1 .. Depth(w) :
             /\ Fresh(w, e) /\ F(w, e).info = a => u = w /\ d = e
             /\ Owning(w, e) => F(w, e).data # a
    BY <1>1, <2>1 DEF Heap, FreshOwned
  <2>3. a # i /\ a # f.data
    BY <1>6, <1>7, <2>1
  <2>4. heap'[a] = AllocatorOf(F(u, d).kind) /\ kind'[a] = "none"
    BY <1>1, <1>10, <2>2, <2>3
  <2>5. \A j \in Addrs : Kept(j)' => data'[j] # a
    BY <1>19, <2>2, <2>3
  <2>6. \A w \in Threads : \A e \in 1 .. Depth(w)' :
          /\ Fresh(w, e)' /\ F(w, e)'.info = a => u = w /\ d = e
          /\ Owning(w, e)' => F(w, e)'.data # a
    BY <1>20, <2>2
  <2>7. QED
    BY <2>4, <2>5, <2>6
<1>24. BlocksOwned'
  <2> SUFFICES ASSUME NEW u \in Threads, NEW d \in 1 .. Depth(u)', Owning(u, d)'
               PROVE  LET a == F(u, d).data IN
                 /\ heap'[a] = "system" /\ kind'[a] = "none"
                 /\ \A j \in Addrs : Kept(j)' => data'[j] # a
                 /\ \A w \in Threads : \A e \in 1 .. Depth(w)' :
                      Owning(w, e)' /\ F(w, e)'.data = a => u = w /\ d = e
    BY <1>20 DEF BlocksOwned
  <2> PICK a \in Addrs : a = F(u, d).data
    BY <1>20
  <2>1. u # t /\ d \in 1 .. Depth(u) /\ Owning(u, d)
    BY <1>20
  <2>2. /\ heap[a] = "system" /\ kind[a] = "none"
        /\ \A j \in Addrs : Kept(j) => data[j] # a
        /\ \A w \in Threads : \A e \in 1 .. Depth(w) :
             Owning(w, e) /\ F(w, e).data = a => u = w /\ d = e
    BY <1>1, <2>1 DEF Heap, BlocksOwned
  <2>3. a # i /\ (f.data # NULL => a # f.data)
    BY <1>6, <1>7, <2>1
  <2>4. heap'[a] = "system" /\ kind'[a] = "none"
    BY <1>1, <1>10, <2>2, <2>3
  <2>5. \A j \in Addrs : Kept(j)' => data'[j] # a
    BY <1>19, <2>2, <2>3
  <2>6. \A w \in Threads : \A e \in 1 .. Depth(w)' :
          Owning(w, e)' /\ F(w, e)'.data = a => u = w /\ d = e
    BY <1>20, <2>2
  <2>7. QED
    BY <2>4, <2>5, <2>6
<1>25. TypeOK'
  <2>1. Counted(mi_alloc) \in 0 .. Word - 1
    BY <1>1, CountedType DEF TypeOK
  <2>2. {alloc, free, mi_alloc, mi_free}' \subseteq 0 .. Word - 1
    BY <1>1, <2>1 DEF TypeOK
  <2>3. QED
    BY <1>1, <1>9, <1>10, <2>2 DEF TypeOK, Moved, Stacks
<1>26. QED
  BY <1>15, <1>16, <1>17, <1>21, <1>22, <1>23, <1>24, <1>25 DEF Inv, Refs, Heap

-----------------------------------------------------------------------------
(* The theorems.                                                           *)

LEMMA InitInv == Init => Inv
<1> SUFFICES ASSUME Init PROVE Inv
  OBVIOUS
<1>1. \A t \in Threads : stack[t] = <<>>
  BY DEF Init
<1>2. \A t \in Threads : Depth(t) = 0
  BY <1>1 DEF Depth
<1>3. \A t \in Threads : \A d \in 1 .. Depth(t) : FALSE
  BY <1>2
<1>4. TypeOK
  <2>1. 0 \in 0 .. Word - 1 /\ <<>> \in Seq(Frames)
    <3>1. Cardinality(Addrs) \in Nat
      BY FS_CardinalityType
    <3>2. QED
      BY <3>1
  <2>2. QED
    BY <2>1 DEF Init, TypeOK, MaybeAddr
<1>5. RefctExact /\ Alive
  BY DEF Init, RefctExact, Alive
<1>6. FramesOK /\ OneActive
  BY <1>3 DEF FramesOK, OneActive
<1>7. HeapSound /\ InfosOwned /\ DataOwned
  BY DEF Init, HeapSound, InfosOwned, DataOwned, Kept
<1>8. FreshOwned /\ BlocksOwned
  BY <1>3 DEF FreshOwned, BlocksOwned
<1>9. QED
  BY <1>4, <1>5, <1>6, <1>7, <1>8 DEF Inv, Refs, Heap

LEMMA RuntimeInv ==
  ASSUME Inv, NEW t \in Threads, RuntimeStep(t)
  PROVE  Inv'
BY MallocDataInv, CountDataInv, MallocInfoInv, CountInfoInv, InitInfoInv, CallDtorInv,
   FreeDataInv, CountFreeDataInv, FreeInfoInv, CountFreeInfoInv, CountDestroyedInv,
   ReleaseEntriesInv, VarsizeAllocInv, CountVarsizeAllocInv, VarsizeFreeInv,
   CountVarsizeFreeInv DEF RuntimeStep

LEMMA NextInv == Inv /\ [Next]_vars => Inv'
<1> SUFFICES ASSUME Inv, [Next]_vars PROVE Inv'
  OBVIOUS
<1>1. CASE EnableStats \/ Shutdown \/ Ended
  BY <1>1, SwitchInv
<1>2. ASSUME NEW t \in Threads, RuntimeStep(t) PROVE Inv'
  BY <1>2, RuntimeInv
<1>3. ASSUME NEW t \in Threads, NEW v \in Own(t), NEW k \in Kinds, New(t, v, k) PROVE Inv'
  BY <1>3, NewInv
<1>4. ASSUME NEW t \in Threads, NEW v \in Own(t), NEW i \in Addrs, Acquire(t, v, i) PROVE Inv'
  BY <1>4, AcquireInv
<1>5. ASSUME NEW t \in Threads, NEW v \in Own(t), NEW u \in Own(t), Store(t, v, u) PROVE Inv'
  BY <1>5, StoreInv
<1>6. ASSUME NEW t \in Threads, NEW v \in Own(t),
             Release(t, v) \/ GrowSet(t, v) \/ ClearSet(t, v) \/ ResizeList(t, v)
      PROVE  Inv'
  BY <1>6, ReleaseInv, GrowClearInv, ResizeListInv
<1>7. CASE UNCHANGED vars
  <2>1. {shutting, enabled, crashed} \subseteq BOOLEAN
    BY DEF Inv, TypeOK
  <2>2. QED
    BY <1>7, <2>1, StillInv DEF vars, stats
<1>8. QED
  BY <1>1, <1>2, <1>3, <1>4, <1>5, <1>6, <1>7 DEF Next

(* Counts, frames and blocks are as the invariant says in every reachable  *)
(* state of the runtime, for any number of threads, variables and          *)
(* addresses.                                                              *)
THEOREM InvAlways == Spec => []Inv
<1>1. QED
  BY InitInv, NextInv, PTL DEF Spec

(* The count of a MemInfo is the number of references to it while the      *)
(* system runs, and is never below it: nrt_atomic_add() and _sub() of      *)
(* threads that meet lose no reference.                                    *)
THEOREM RefctAlwaysExact == Spec => []RefctExact
<1>1. Inv => RefctExact
  BY DEF Inv, Refs
<1>2. QED
  BY <1>1, InvAlways, PTL

(* The invariant says that what is referred to is there.                   *)
LEMMA InvSafe == Inv => MemorySafe
<1> SUFFICES ASSUME Inv PROVE MemorySafe
  OBVIOUS
<1>1. TypeOK /\ HeapSound
  BY DEF Inv, Heap
<1>2. ASSUME NEW i \in Addrs, Holders(i) \cup Containers(i) # {}
      PROVE  /\ kind[i] # "none"
             /\ heap[i] = AllocatorOf(kind[i])
             /\ kind[i] = "varsize" /\ data[i] # NULL => heap[data[i]] = "system"
             /\ \A t \in Threads : \A k \in DOMAIN stack[t] :
                  stack[t][k].info = i => stack[t][k].at \notin Destroying
  <2>1. kind[i] # "none"
    BY <1>2 DEF Inv, Refs, Alive, Holders, Containers
  <2>2. heap[i] = AllocatorOf(kind[i])
    BY <2>1 DEF Inv, Heap, InfosOwned
  <2>3. \A t \in Threads : \A d \in 1 .. Depth(t) :
          F(t, d).info = i => F(t, d).at \notin Destroying
    BY <1>2 DEF Inv, Refs, FramesOK, DestroyingOK
  <2>4. ~ Spent(i)
    BY <2>3 DEF Spent, Destroying
  <2>5. kind[i] = "varsize" /\ data[i] # NULL => heap[data[i]] = "system"
    BY <2>4 DEF Inv, Heap, DataOwned, Kept
  <2>6. ASSUME NEW t \in Threads, NEW k \in DOMAIN stack[t], stack[t][k].info = i
        PROVE  stack[t][k].at \notin Destroying
    <3>1. stack[t] \in Seq(Frames) /\ k \in 1 .. Depth(t) /\ Depth(t) \in Nat
      BY <1>1 DEF TypeOK, Depth
    <3>2. Depth(t) + 1 - k \in 1 .. Depth(t) /\ Depth(t) + 1 - (Depth(t) + 1 - k) = k
      BY <3>1
    <3>3. F(t, Depth(t) + 1 - k) = stack[t][k]
      BY <3>2 DEF F
    <3>4. QED
      BY <2>3, <2>6, <3>2, <3>3
  <2>7. QED
    BY <2>1, <2>2, <2>5, <2>6
<1>3. NoDangling
  BY <1>2 DEF NoDangling, Destroying
<1>4. QED
  BY <1>1, <1>3 DEF MemorySafe

(* No block is freed twice, with the wrong allocator or while a reference  *)
(* leads to it, whatever threads allocate, acquire, release, resize and    *)
(* destroy at the same time, also when allocations fail and destructors    *)
(* are skipped because the interpreter exits.                              *)
THEOREM MemoryAlwaysSafe == Spec => []MemorySafe
<1>1. QED
  BY InvSafe, InvAlways, PTL

-----------------------------------------------------------------------------
(* Leaks.  Where malloc() never fails, a second inductive invariant, which *)
(* rests on the first, says who owns each block and what is yet to count.  *)

(* A block is a MemInfo, the data block of one, or a frame's.              *)
Owned(a) ==
  \/ kind[a] # "none"
  \/ \E i \in Addrs : Kept(i) /\ data[i] = a
  \/ \E t \in Threads : \E d \in 1 .. Depth(t) :
       (Fresh(t, d) /\ F(t, d).info = a) \/ (Owning(t, d) /\ F(t, d).data = a)
NoneLost == \A a \in Addrs : heap[a] # "free" => Owned(a)

(* A MemInfo that nothing refers to is being destroyed.                    *)
Doomed(i) ==
  \E t \in Threads : \E d \in 1 .. Depth(t) : F(t, d).at \in Destroying /\ F(t, d).info = i
AllDoomed == \A i \in Addrs : kind[i] # "none" /\ refct[i] = 0 => Doomed(i)

(* A frame below another waits for the destructor of its element, and what *)
(* malloc() returned is there.                                             *)
Nested ==
  \A t \in Threads : \A d \in 1 .. Depth(t) :
    d < Depth(t) => F(t, d).at \in {"free_data", "free_mi", "varsize_free"}
Gained(f) ==
  /\ f.at = "malloc_data" => f.data = NULL
  /\ f.at = "count_data" => f.data # NULL
  /\ f.at = "count_mi" => f.info # NULL
  /\ f.at = "count_varsize_alloc" => data[f.info] # NULL
AllGained == \A t \in Threads : \A d \in 1 .. Depth(t) : Gained(F(t, d))

(* The counters, up to what threads have done and are about to count.      *)
Where(t) == IF stack[t] = <<>> THEN "idle" ELSE Top(t).at
Waiting(L) == Cardinality({t \in Threads : Where(t) \in L})
Uncounted == {"count_data", "count_mi", "count_varsize_alloc"}
Unfreed == {"count_free_data", "count_free_mi", "count_varsize_free"}
Undestroyed == {"count_free_mi", "count_mi_free"}
Blocks == Cardinality({a \in Addrs : heap[a] # "free"})
MemInfos == Cardinality({a \in Addrs : kind[a] # "none"})
Same(x, y) == \E k \in Int : x = y + k * Word
Balanced ==
  /\ Same(alloc - free, Blocks - Waiting(Uncounted) + Waiting(Unfreed))
  /\ Same(mi_alloc - mi_free, MemInfos + Waiting(Undestroyed))
Counters ==
  /\ ~ enabled => alloc = 0 /\ free = 0 /\ mi_alloc = 0 /\ mi_free = 0
  /\ enabled => Balanced

Ownership == NoneLost /\ AllDoomed
Leaks == Nested /\ AllGained /\ Counters /\ (shutting \/ Ownership)

-----------------------------------------------------------------------------
(* Counters modulo the word.                                               *)

LEMMA Ticks ==
  ASSUME enabled, NEW c \in 0 .. Word - 1
  PROVE  Counted(c) \in Int /\ (Counted(c) = c + 1 \/ Counted(c) = c + 1 - Word)
<1>1. Counted(c) = (c + 1) % Word
  BY DEF Counted
<1>2. Word \in Nat \ {0} /\ c \in Int
  BY FS_CardinalityType
<1>3. CASE c + 1 < Word
  <2>1. c + 1 \in 0 .. Word - 1
    BY <1>2, <1>3
  <2>2. (c + 1) % Word = c + 1
    BY <1>2, <2>1
  <2>3. QED
    BY <1>1, <1>2, <2>2
<1>4. CASE c + 1 = Word
  <2>1. Word % Word = 0
    BY <1>2
  <2>2. QED
    BY <1>1, <1>2, <1>4, <2>1
<1>5. QED
  BY <1>2, <1>3, <1>4

LEMMA Multiples ==
  ASSUME NEW w \in Int, NEW k \in Int
  PROVE  /\ k * w \in Int /\ (k + 1) * w = k * w + w /\ (k - 1) * w = k * w - w
         /\ 0 * w = 0
OBVIOUS

LEMMA SameSelf == ASSUME NEW x \in Int PROVE Same(x, x)
<1>1. Word \in Int
  OBVIOUS
<1>2. 0 * Word = 0 /\ 0 \in Int
  BY <1>1, Multiples
<1> PICK z : z = 0 * Word
  OBVIOUS
<1>3. x = x + z
  BY <1>2
<1>4. QED
  BY <1>2, <1>3 DEF Same

LEMMA SameStep ==
  ASSUME NEW x \in Int, NEW y \in Int, NEW e \in Int, Same(x, y),
         NEW z, z = x + e \/ z = x + e - Word \/ z = x + e + Word
  PROVE  Same(z, y + e)
<1> PICK w \in Int : w = Word
  OBVIOUS
<1>1. PICK k \in Int : x = y + k * w
  BY DEF Same
<1> PICK j \in Int : j = k * w
  BY Multiples
<1>2. x = y + j /\ (k + 1) * w = j + w /\ (k - 1) * w = j - w
  BY <1>1, Multiples
<1>3. CASE z = x + e
  <2>1. z = y + e + j
    BY <1>2, <1>3
  <2>2. QED
    BY <2>1 DEF Same
<1>4. CASE z = x + e - Word
  <2>1. z = y + e + (j - w)
    BY <1>2, <1>4
  <2>2. QED
    BY <1>2, <2>1 DEF Same
<1>5. CASE z = x + e + Word
  <2>1. z = y + e + (j + w)
    BY <1>2, <1>5
  <2>2. QED
    BY <1>2, <2>1 DEF Same
<1>6. QED
  BY <1>3, <1>4, <1>5

LEMMA FarMultiples ==
  ASSUME NEW w \in Nat, NEW k \in Int
  PROVE  (k >= 1 => k * w >= w) /\ (k <= -2 => k * w <= -(w + w))
<1>1. k >= 1 => k * w >= w
  OBVIOUS
<1>2. ASSUME k <= -2 PROVE k * w <= -(w + w)
  <2> PICK j \in Nat : j = -2 - k
    BY <1>2
  <2>1. k = -2 - j
    OBVIOUS
  <2>2. j * w >= 0 /\ j * w \in Int
    OBVIOUS
  <2>3. k * w = (-2) * w - j * w
    BY <2>1
  <2>4. (-2) * w = -(w + w)
    OBVIOUS
  <2>5. QED
    BY <2>2, <2>3, <2>4
<1>3. QED
  BY <1>1, <1>2

(* Two counters differ by what is between 0 and the word.                  *)
LEMMA SameLess ==
  ASSUME NEW w \in Nat, w = Word, NEW x \in 0 .. w - 1, NEW y \in 0 .. w - 1, NEW c \in 0 .. w - 1,
         Same(x - y, c)
  PROVE  (x - y) % Word = c
<1>1. PICK k \in Int : x - y = c + k * w
  BY DEF Same
<1> PICK j \in Int : j = k * w
  BY Multiples
<1>2. x - y = c + j /\ w \in Nat \ {0}
  BY <1>1
<1>3. k = 0 \/ k = -1
  <2>1. k >= 1 => j >= w
    BY FarMultiples
  <2>2. k <= -2 => j <= -(w + w)
    BY FarMultiples
  <2>3. ~ (j >= w) /\ ~ (j <= -(w + w))
    BY <1>2
  <2>4. QED
    BY <2>1, <2>2, <2>3
<1>4. CASE k = 0
  <2>1. j = 0
    BY <1>4
  <2>2. x - y = c
    BY <1>2, <2>1
  <2>3. c % w = c
    BY <1>2
  <2>4. QED
    BY <2>2, <2>3
<1>5. CASE k = -1
  <2>1. j = -w
    BY <1>5
  <2>2. x < y /\ w + x - y = c
    BY <1>2, <2>1
  <2>3. (x - y) % w = w + x - y
    BY <1>2, <2>2
  <2>4. QED
    BY <2>2, <2>3
<1>6. QED
  BY <1>3, <1>4, <1>5

-----------------------------------------------------------------------------
(* What is counted.                                                        *)

AlikeBut(S, T, x) == IsFiniteSet(S) /\ T \ {x} = S \ {x}
LEMMA SetSteps ==
  ASSUME NEW S, NEW T, NEW x, AlikeBut(S, T, x)
  PROVE  /\ IsFiniteSet(T) /\ Cardinality(S) \in Nat /\ Cardinality(T) \in Nat
         /\ Cardinality(T) =
              Cardinality(S) + (IF x \in T THEN 1 ELSE 0) - (IF x \in S THEN 1 ELSE 0)
<1> PICK R : R = S \ {x}
  OBVIOUS
<1>1. IsFiniteSet(R) /\ Cardinality(R) \in Nat /\ T \ {x} = R
  BY FS_Subset, FS_CardinalityType DEF AlikeBut
<1>2. x \notin R
  OBVIOUS
<1>3. \A Q : Q \ {x} = R => /\ IsFiniteSet(Q)
                            /\ Cardinality(Q) = Cardinality(R) + (IF x \in Q THEN 1 ELSE 0)
  <2> SUFFICES ASSUME NEW Q, Q \ {x} = R
               PROVE  /\ IsFiniteSet(Q)
                      /\ Cardinality(Q) = Cardinality(R) + (IF x \in Q THEN 1 ELSE 0)
    OBVIOUS
  <2>1. CASE x \in Q
    <3>1. Q = R \cup {x}
      BY <2>1
    <3>2. IsFiniteSet(R \cup {x}) /\ Cardinality(R \cup {x}) = Cardinality(R) + 1
      BY <1>1, <1>2, FS_AddElement
    <3>3. QED
      BY <2>1, <3>1, <3>2
  <2>2. CASE x \notin Q
    <3>1. Q = R
      BY <2>2
    <3>2. QED
      BY <1>1, <2>2, <3>1
  <2>3. QED
    BY <2>1, <2>2
<1>4. /\ IsFiniteSet(T) /\ Cardinality(S) = Cardinality(R) + (IF x \in S THEN 1 ELSE 0)
      /\ Cardinality(T) = Cardinality(R) + (IF x \in T THEN 1 ELSE 0)
  BY <1>1, <1>3
<1>5. Cardinality(S) \in Nat /\ Cardinality(T) \in Nat
  BY <1>1, <1>4
<1>6. QED
  BY <1>1, <1>4, <1>5

Is(x, L) == IF x \in L THEN 1 ELSE 0

LEMMA WaitingStep ==
  ASSUME NEW t \in Threads, \A u \in Threads : u # t => Where(u)' = Where(u), NEW L
  PROVE  /\ Waiting(L) \in Nat /\ Waiting(L)' \in Nat
         /\ Waiting(L)' = Waiting(L) + Is(Where(t)', L) - Is(Where(t), L)
<1> PICK S : S = {u \in Threads : Where(u) \in L}
  OBVIOUS
<1> PICK T : T = {u \in Threads : Where(u)' \in L}
  OBVIOUS
<1>1. AlikeBut(S, T, t)
  BY FS_Subset DEF AlikeBut
<1>2. Waiting(L) = Cardinality(S) /\ Waiting(L)' = Cardinality(T)
  BY DEF Waiting
<1>3. (t \in S <=> Where(t) \in L) /\ (t \in T <=> Where(t)' \in L)
  OBVIOUS
<1>4. /\ Cardinality(S) \in Nat /\ Cardinality(T) \in Nat
      /\ Cardinality(T) =
           Cardinality(S) + (IF t \in T THEN 1 ELSE 0) - (IF t \in S THEN 1 ELSE 0)
  BY <1>1, SetSteps
<1>5. Is(Where(t)', L) = (IF t \in T THEN 1 ELSE 0) /\ Is(Where(t), L) = (IF t \in S THEN 1 ELSE 0)
  BY <1>3 DEF Is
<1>6. QED
  BY <1>2, <1>4, <1>5

LEMMA BlocksStep ==
  ASSUME NEW a \in Addrs, \A b \in Addrs : b # a => heap'[b] = heap[b]
  PROVE  /\ Blocks \in Nat /\ Blocks' \in Nat
         /\ Blocks' = Blocks + (IF heap'[a] # "free" THEN 1 ELSE 0)
                             - (IF heap[a] # "free" THEN 1 ELSE 0)
<1> PICK S : S = {b \in Addrs : heap[b] # "free"}
  OBVIOUS
<1> PICK T : T = {b \in Addrs : heap'[b] # "free"}
  OBVIOUS
<1>1. AlikeBut(S, T, a)
  BY FS_Subset DEF AlikeBut
<1>2. Blocks = Cardinality(S) /\ Blocks' = Cardinality(T)
  BY DEF Blocks
<1>3. (a \in S <=> heap[a] # "free") /\ (a \in T <=> heap'[a] # "free")
  OBVIOUS
<1>4. /\ Cardinality(S) \in Nat /\ Cardinality(T) \in Nat
      /\ Cardinality(T) =
           Cardinality(S) + (IF a \in T THEN 1 ELSE 0) - (IF a \in S THEN 1 ELSE 0)
  BY <1>1, SetSteps
<1>5. QED
  BY <1>2, <1>3, <1>4

LEMMA MemInfosStep ==
  ASSUME NEW a \in Addrs, \A b \in Addrs : b # a => kind'[b] = kind[b]
  PROVE  /\ MemInfos \in Nat /\ MemInfos' \in Nat
         /\ MemInfos' = MemInfos + (IF kind'[a] # "none" THEN 1 ELSE 0)
                                 - (IF kind[a] # "none" THEN 1 ELSE 0)
<1> PICK S : S = {b \in Addrs : kind[b] # "none"}
  OBVIOUS
<1> PICK T : T = {b \in Addrs : kind'[b] # "none"}
  OBVIOUS
<1>1. AlikeBut(S, T, a)
  BY FS_Subset DEF AlikeBut
<1>2. MemInfos = Cardinality(S) /\ MemInfos' = Cardinality(T)
  BY DEF MemInfos
<1>3. (a \in S <=> kind[a] # "none") /\ (a \in T <=> kind'[a] # "none")
  OBVIOUS
<1>4. /\ Cardinality(S) \in Nat /\ Cardinality(T) \in Nat
      /\ Cardinality(T) =
           Cardinality(S) + (IF a \in T THEN 1 ELSE 0) - (IF a \in S THEN 1 ELSE 0)
  BY <1>1, SetSteps
<1>5. QED
  BY <1>2, <1>3, <1>4

LEMMA CountsType == Blocks \in Nat /\ MemInfos \in Nat
<1>1. IsFiniteSet({a \in Addrs : heap[a] # "free"})
  BY FS_Subset
<1>2. IsFiniteSet({a \in Addrs : kind[a] # "none"})
  BY FS_Subset
<1>3. QED
  BY <1>1, <1>2, FS_CardinalityType DEF Blocks, MemInfos

(* A counter that k calls count.                                           *)
Ticked(c, d, k) == (k = 1 /\ d = Counted(c)) \/ (k = 0 /\ d = c)

LEMMA TwoTick ==
  ASSUME enabled, NEW a \in 0 .. Word - 1, NEW f \in 0 .. Word - 1, NEW c, NEW d,
         NEW j \in {0, 1}, NEW k \in {0, 1}, Ticked(a, c, j), Ticked(f, d, k),
         NEW y \in Int, Same(a - f, y)
  PROVE  Same(c - d, y + (j - k))
<1> PICK w \in Int : w = Word
  OBVIOUS
<1>1. c \in Int /\ (c = a + j \/ (j = 1 /\ c = a + 1 - w))
  BY Ticks DEF Ticked
<1>2. d \in Int /\ (d = f + k \/ (k = 1 /\ d = f + 1 - w))
  BY Ticks DEF Ticked
<1> PICK x \in Int, e \in Int : x = a - f /\ e = j - k
  OBVIOUS
<1> PICK z \in Int : z = c - d
  BY <1>1, <1>2
<1>3. z = x + e \/ z = x + e - w \/ z = x + e + w
  BY <1>1, <1>2
<1>4. QED
  BY <1>3, SameStep

(* A thread that goes from l to m, with b more blocks and i more MemInfos. *)
Owes(b, i, l, m, ka, kf, ma, mf) ==
  /\ b - Is(m, Uncounted) + Is(l, Uncounted) + Is(m, Unfreed) - Is(l, Unfreed) = ka - kf
  /\ i + Is(m, Undestroyed) - Is(l, Undestroyed) = ma - mf

LEMMA Tally ==
  ASSUME TypeOK, Counters, enabled' = enabled, NEW t \in Threads,
         \A u \in Threads : u # t => Where(u)' = Where(u),
         NEW l, NEW m, l = Where(t), m = Where(t)',
         NEW b \in {-1, 0, 1}, NEW i \in {-1, 0, 1}, Blocks' = Blocks + b, MemInfos' = MemInfos + i,
         NEW ka \in {0, 1}, NEW kf \in {0, 1}, NEW ma \in {0, 1}, NEW mf \in {0, 1},
         Ticked(alloc, alloc', ka), Ticked(free, free', kf),
         Ticked(mi_alloc, mi_alloc', ma), Ticked(mi_free, mi_free', mf),
         Owes(b, i, l, m, ka, kf, ma, mf)
  PROVE  Counters'
<1>1. CASE ~ enabled
  BY <1>1 DEF Counters, Ticked, Counted
<1>2. CASE enabled
  <2> PICK x \in Nat, y \in Nat : x = Blocks /\ y = MemInfos
    BY CountsType
  <2> PICK p \in Nat, q \in Nat, r \in Nat :
        p = Waiting(Uncounted) /\ q = Waiting(Unfreed) /\ r = Waiting(Undestroyed)
    BY WaitingStep
  <2>1. /\ Is(l, Uncounted) \in Int /\ Is(m, Uncounted) \in Int /\ Is(l, Unfreed) \in Int
        /\ Is(m, Unfreed) \in Int /\ Is(l, Undestroyed) \in Int /\ Is(m, Undestroyed) \in Int
    BY DEF Is
  <2>2. Waiting(Uncounted)' = p + Is(m, Uncounted) - Is(l, Uncounted)
    BY WaitingStep DEF Uncounted
  <2>3. Waiting(Unfreed)' = q + Is(m, Unfreed) - Is(l, Unfreed)
    BY WaitingStep DEF Unfreed
  <2>4. Waiting(Undestroyed)' = r + Is(m, Undestroyed) - Is(l, Undestroyed)
    BY WaitingStep DEF Undestroyed
  <2>5. /\ alloc \in 0 .. Word - 1 /\ free \in 0 .. Word - 1
        /\ mi_alloc \in 0 .. Word - 1 /\ mi_free \in 0 .. Word - 1
    BY DEF TypeOK
  <2>6. Same(alloc - free, x - p + q) /\ Same(mi_alloc - mi_free, y + r)
    BY <1>2 DEF Counters, Balanced
  <2>7. Same(alloc' - free', (x - p + q) + (ka - kf))
    BY <1>2, <2>5, <2>6, TwoTick
  <2>8. Same(mi_alloc' - mi_free', (y + r) + (ma - mf))
    BY <1>2, <2>5, <2>6, TwoTick
  <2>9. (x - p + q) + (ka - kf) = Blocks' - Waiting(Uncounted)' + Waiting(Unfreed)'
    BY <2>1, <2>2, <2>3 DEF Owes
  <2>10. (y + r) + (ma - mf) = MemInfos' + Waiting(Undestroyed)'
    BY <2>1, <2>4 DEF Owes
  <2>11. Balanced'
    BY <2>7, <2>8, <2>9, <2>10 DEF Balanced, Same
  <2>12. QED
    BY <1>2, <2>11 DEF Counters
<1>3. QED
  BY <1>1, <1>2

-----------------------------------------------------------------------------
(* Where threads are.                                                      *)

LEMMA WhereType ==
  ASSUME NEW s \in Seq(Frames), s # <<>>
  PROVE  /\ Len(s) \in Nat \ {0} /\ Head(s) = s[1] /\ Head(s) = s[Len(s) + 1 - Len(s)]
         /\ Tail(s) # <<>> =>
              Len(s) - 1 \in 1 .. Len(s) /\ Head(Tail(s)) = s[Len(s) + 1 - (Len(s) - 1)]
<1>1. Len(s) \in Nat \ {0} /\ Head(s) = s[1] /\ Len(s) + 1 - Len(s) = 1
  OBVIOUS
<1>2. ASSUME Tail(s) # <<>>
      PROVE  /\ Len(s) - 1 \in 1 .. Len(s)
             /\ Head(Tail(s)) = s[Len(s) + 1 - (Len(s) - 1)]
  <2> PICK r : r = Tail(s)
    OBVIOUS
  <2>1. /\ r \in Seq(Frames) /\ Len(r) = Len(s) - 1
        /\ \A k \in 1 .. Len(s) - 1 : r[k] = s[k + 1]
    BY TailSeq
  <2>2. Len(r) \in Nat \ {0} /\ Head(r) = r[1]
    BY <1>2, <2>1, TailSeq
  <2>3. 1 \in 1 .. Len(s) - 1 /\ Len(s) + 1 - (Len(s) - 1) = 1 + 1
    BY <1>1, <2>1, <2>2
  <2>4. QED
    BY <1>1, <2>1, <2>2, <2>3
<1>3. QED
  BY <1>1, <1>2

LEMMA MovedWhere ==
  ASSUME NEW t \in Threads, NEW n, Moved(t, n)
  PROVE  \A u \in Threads : u # t => Where(u)' = Where(u)
BY DEF Moved, Where, Top

LEMMA TopWhere ==
  ASSUME Stacks, NEW t \in Threads, stack[t] # <<>>
  PROVE  Where(t) = F(t, Depth(t)).at
BY DepthType DEF Where

LEMMA NewWhere ==
  ASSUME NEW t \in Threads, NEW n \in Nat \ {0}, Moved(t, n), NEW f, F(t, n)' = f
  PROVE  Where(t)' = f.at
<1>1. stack'[t] \in Seq(Frames) /\ Len(stack'[t]) = n
  BY DEF Moved, Stacks, Depth
<1>2. stack'[t] # <<>>
  BY <1>1
<1>3. Head(stack'[t]) = stack'[t][n + 1 - n]
  BY <1>1, <1>2, WhereType
<1>4. Head(stack'[t]) = f
  BY <1>1, <1>3 DEF F, Depth
<1>5. QED
  BY <1>2, <1>4 DEF Where, Top

Calm == {"idle", "free_data", "free_mi", "varsize_free"}

LEMMA BackWhere ==
  ASSUME Stacks, Nested, NEW t \in Threads, stack[t] # <<>>, Return(t)
  PROVE  Where(t)' \in Calm
<1>1. stack[t] \in Seq(Frames) /\ stack'[t] = Tail(stack[t])
  BY DEF Stacks, Return
<1>2. CASE Tail(stack[t]) = <<>>
  BY <1>1, <1>2 DEF Where, Calm
<1>3. CASE Tail(stack[t]) # <<>>
  <2> PICK d : d = Depth(t) - 1
    OBVIOUS
  <2>1. d \in 1 .. Depth(t) /\ Head(Tail(stack[t])) = F(t, d) /\ Depth(t) \in Nat
    BY <1>1, <1>3, WhereType, DepthType DEF F, Depth
  <2>2. F(t, d).at \in Calm
    BY <2>1 DEF Nested, Calm
  <2>3. QED
    BY <1>1, <1>3, <2>1, <2>2 DEF Where, Top
<1>4. QED
  BY <1>2, <1>3

LEMMA CalmOwes ==
  ASSUME NEW m \in Calm
  PROVE  Is(m, Uncounted) = 0 /\ Is(m, Unfreed) = 0 /\ Is(m, Undestroyed) = 0
BY DEF Calm, Is, Uncounted, Unfreed, Undestroyed

-----------------------------------------------------------------------------
(* What a step of a thread does to the owners of blocks.                   *)

LEMMA NestedStep ==
  ASSUME Stacks, Nested, NEW t \in Threads, NEW n, Moved(t, n),
         NEW k, k = Depth(t),
         n > k /\ k > 0 => F(t, k)'.at \in {"free_data", "free_mi", "varsize_free"}
  PROVE  Nested'
<1> SUFFICES ASSUME NEW u \in Threads, NEW d \in 1 .. Depth(u)', d < Depth(u)'
             PROVE  F(u, d)'.at \in {"free_data", "free_mi", "varsize_free"}
  BY DEF Nested
<1>1. CASE u # t
  BY <1>1 DEF Moved, F, Depth, Nested
<1>2. CASE u = t
  <2>1. Depth(t) \in Nat /\ n \in Nat /\ n <= Depth(t) + 1 /\ d \in 1 .. n /\ d < n
    BY <1>2, DepthType DEF Moved
  <2>2. CASE d < Depth(t)
    <3>1. F(t, d)' = F(t, d) /\ d \in 1 .. Depth(t)
      BY <2>1, <2>2 DEF Moved
    <3>2. QED
      BY <1>2, <2>2, <3>1 DEF Nested
  <2>3. CASE ~ (d < Depth(t))
    <3>1. d = k /\ n > k /\ k > 0
      BY <2>1, <2>3
    <3>2. QED
      BY <1>2, <3>1
  <2>4. QED
    BY <2>2, <2>3
<1>3. QED
  BY <1>1, <1>2

(* The data blocks of MemInfos that others resize stay.                    *)
Leaves(t) ==
  \A u, d : Bystander(t, u, d) /\ F(u, d).at \in Resizing =>
    data'[F(u, d).info] = data[F(u, d).info]

LEMMA LeavesOne ==
  ASSUME TypeOK, Refs, NEW t \in Threads, NEW m, Mine(t, m),
         \A i \in Addrs : i # m => data'[i] = data[i]
  PROVE  Leaves(t)
<1> SUFFICES ASSUME NEW u, NEW d, Bystander(t, u, d), F(u, d).at \in Resizing
             PROVE  data'[F(u, d).info] = data[F(u, d).info]
  BY DEF Leaves
<1>1. u \in Threads /\ d \in 1 .. Depth(u) /\ (u = t => d < Depth(t)) /\ Depth(t) \in Nat
  BY DepthType DEF Bystander, TypeOK, Stacks
<1>2. F(u, d).info \in Addrs /\ Active(u, d)
  BY <1>1 DEF Refs, FramesOK, ResizingOK, Active
<1>3. F(u, d).info # m
  BY <1>1, <1>2 DEF Mine
<1>4. QED
  BY <1>2, <1>3

LEMMA GainedStep ==
  ASSUME Stacks, AllGained, NEW t \in Threads, NEW n, Moved(t, n), Depth(t) <= n + 1, Leaves(t),
         \A d \in 1 .. n : d >= Depth(t) => Gained(F(t, d))'
  PROVE  AllGained'
<1> SUFFICES ASSUME NEW u \in Threads, NEW d \in 1 .. Depth(u)' PROVE Gained(F(u, d))'
  BY DEF AllGained
<1>1. CASE Bystander(t, u, d)
  <2>1. F(u, d)' = F(u, d) /\ d \in 1 .. Depth(u) /\ Gained(F(u, d))
    BY <1>1, BystanderFacts DEF Bystander, AllGained
  <2>2. F(u, d).at = "count_varsize_alloc" => data'[F(u, d).info] = data[F(u, d).info]
    BY <1>1 DEF Leaves, Resizing
  <2>3. QED
    BY <2>1, <2>2 DEF Gained
<1>2. CASE u = t /\ d >= Depth(t) /\ d <= n /\ d \in Nat
  <2>1. d \in 1 .. n
    BY <1>2
  <2>2. QED
    BY <1>2, <2>1
<1>3. QED
  BY <1>1, <1>2, FrameCases

Safe(a) == heap'[a] = "free" \/ Owned(a)'

LEMMA OwnedStep ==
  ASSUME Stacks, NoneLost, NEW t \in Threads, NEW n, Moved(t, n), Depth(t) <= n + 1, Leaves(t),
         \A a \in Addrs : kind[a] # "none" \/ heap[a] = "free" => Safe(a),
         \A i, a \in Addrs : Kept(i) /\ data[i] = a => Safe(a),
         \A d \in 1 .. Depth(t), a \in Addrs : d = Depth(t) =>
           /\ Fresh(t, d) /\ F(t, d).info = a => Safe(a)
           /\ Owning(t, d) /\ F(t, d).data = a => Safe(a)
  PROVE  NoneLost'
<1> SUFFICES ASSUME NEW a \in Addrs PROVE Safe(a)
  BY DEF NoneLost, Safe
<1>1. CASE heap[a] = "free" \/ kind[a] # "none"
  BY <1>1
<1>2. ASSUME NEW i \in Addrs, Kept(i), data[i] = a PROVE Safe(a)
  BY <1>2
<1>3. ASSUME NEW u \in Threads, NEW d \in 1 .. Depth(u),
             (Fresh(u, d) /\ F(u, d).info = a) \/ (Owning(u, d) /\ F(u, d).data = a)
      PROVE  Safe(a)
  <2>1. CASE u = t /\ d = Depth(t)
    BY <1>3, <2>1
  <2>2. CASE ~ (u = t /\ d = Depth(t))
    <3>1. Bystander(t, u, d)
      BY <1>3, <2>2, DepthType DEF Bystander
    <3>2. F(u, d)' = F(u, d) /\ d \in 1 .. Depth(u)'
      BY <3>1, BystanderFacts
    <3>3. F(u, d).at \in {"count_varsize_alloc", "varsize_free"} =>
            data'[F(u, d).info] = data[F(u, d).info]
      BY <3>1 DEF Leaves, Resizing
    <3>4. (Fresh(u, d) => Fresh(u, d)') /\ (Owning(u, d) => Owning(u, d)')
      BY <3>2, <3>3 DEF Fresh, Owning
    <3>5. Owned(a)'
      BY <1>3, <3>2, <3>4 DEF Owned
    <3>6. QED
      BY <3>5 DEF Safe
  <2>3. QED
    BY <2>1, <2>2
<1>4. QED
  BY <1>1, <1>2, <1>3 DEF NoneLost, Owned

LEMMA KeptStays ==
  ASSUME Stacks, NEW t \in Threads, NEW n, Moved(t, n),
         NEW i \in Addrs, NEW a, Kept(i), data[i] = a, kind'[i] = kind[i], data'[i] = a,
         \A d \in 1 .. n : d >= Depth(t) /\ SpentAt(F(t, d)') => F(t, d)'.info # i
  PROVE  Safe(a)
<1>1. ~ Spent(i)'
  <2> SUFFICES ASSUME NEW u \in Threads, NEW d \in 1 .. Depth(u)',
                      F(u, d)'.info = i, SpentAt(F(u, d)')
               PROVE  FALSE
    BY DEF Spent, SpentAt
  <2>1. CASE Bystander(t, u, d)
    <3>1. F(u, d)' = F(u, d) /\ d \in 1 .. Depth(u)
      <4>1. CASE u # t
        BY <2>1, <4>1 DEF Bystander, Moved, F, Depth
      <4>2. CASE u = t
        <5>1. d \in 1 .. n /\ d < Depth(t) /\ d \in 1 .. Depth(t)
          BY <2>1, <4>2 DEF Bystander, Moved
        <5>2. QED
          BY <4>2, <5>1 DEF Moved
      <4>3. QED
        BY <4>1, <4>2
    <3>2. QED
      BY <3>1 DEF Kept, Spent, SpentAt
  <2>2. CASE u = t /\ d >= Depth(t) /\ d <= n /\ d \in Nat
    <3>1. d \in 1 .. n
      BY <2>2
    <3>2. QED
      BY <2>2, <3>1
  <2>3. QED
    BY <2>1, <2>2, FrameCases
<1>2. Kept(i)'
  BY <1>1 DEF Kept
<1>3. QED
  BY <1>2 DEF Safe, Owned

LEMMA DoomedStep ==
  ASSUME Stacks, AllDoomed, NEW t \in Threads, NEW n, Moved(t, n), Depth(t) <= n + 1,
         \A i \in Addrs : kind'[i] # "none" /\ refct'[i] = 0 =>
           (kind[i] # "none" /\ refct[i] = 0) \/ Doomed(i)',
         \A d \in 1 .. Depth(t), i \in Addrs :
           d = Depth(t) /\ F(t, d).at \in Destroying /\ F(t, d).info = i =>
             kind'[i] = "none" \/ Doomed(i)'
  PROVE  AllDoomed'
<1> SUFFICES ASSUME NEW i \in Addrs, kind'[i] # "none", refct'[i] = 0 PROVE Doomed(i)'
  BY DEF AllDoomed
<1>1. CASE kind[i] # "none" /\ refct[i] = 0
  <2>1. PICK u \in Threads : \E d \in 1 .. Depth(u) : F(u, d).at \in Destroying /\ F(u, d).info = i
    BY <1>1 DEF AllDoomed, Doomed
  <2>2. PICK d \in 1 .. Depth(u) : F(u, d).at \in Destroying /\ F(u, d).info = i
    BY <2>1
  <2>3. CASE u = t /\ d = Depth(t)
    BY <2>2, <2>3
  <2>4. CASE ~ (u = t /\ d = Depth(t))
    <3>1. Bystander(t, u, d)
      BY <2>4, DepthType DEF Bystander
    <3>2. F(u, d)' = F(u, d) /\ d \in 1 .. Depth(u)'
      BY <3>1, BystanderFacts
    <3>3. QED
      BY <2>2, <3>2 DEF Doomed
  <2>5. QED
    BY <2>3, <2>4
<1>2. QED
  BY <1>1

-----------------------------------------------------------------------------
(* The actions that move no block.                                         *)

LEMMA QuietOwners ==
  ASSUME Inv, NEW t \in Threads, NEW n, Moved(t, n), Depth(t) <= n + 1,
         UNCHANGED <<heap, kind, data>>, shutting => shutting', shutting \/ Ownership,
         \A i \in Addrs : kind[i] # "none" /\ refct'[i] = 0 => refct[i] = 0 \/ Doomed(i)',
         \A d \in 1 .. Depth(t), a \in Addrs : d = Depth(t) =>
           /\ Fresh(t, d) /\ F(t, d).info = a => Owned(a)'
           /\ Owning(t, d) /\ F(t, d).data = a => Owned(a)'
           /\ F(t, d).at \in Destroying /\ F(t, d).info = a => Doomed(a)',
         \A d \in 1 .. n, i \in Addrs :
           d >= Depth(t) /\ SpentAt(F(t, d)') /\ Kept(i) => shutting \/ F(t, d)'.info # i
  PROVE  shutting' \/ Ownership'
<1>1. Stacks
  BY DEF Inv, TypeOK, Stacks
<1> SUFFICES ASSUME ~ shutting, NoneLost, AllDoomed PROVE NoneLost' /\ AllDoomed'
  BY DEF Ownership
<1>2. Leaves(t)
  BY DEF Leaves
<1>3. ASSUME NEW a \in Addrs, kind[a] # "none" \/ heap[a] = "free" PROVE Safe(a)
  BY <1>3 DEF Safe, Owned
<1>4. ASSUME NEW i \in Addrs, NEW a \in Addrs, Kept(i), data[i] = a PROVE Safe(a)
  BY <1>1, <1>4, KeptStays
<1>5. NoneLost'
  BY <1>1, <1>2, <1>3, <1>4, OwnedStep DEF Safe
<1>6. AllDoomed'
  BY <1>1, DoomedStep
<1>7. QED
  BY <1>5, <1>6

(* The top frame goes on as f.                                             *)
Passes(g, f) ==
  /\ g.at \in {"count_mi", "init"} /\ g.info # NULL =>
       f.at \in {"count_mi", "init"} /\ f.info = g.info
  /\ g.at \in Destroying => f.at \in Destroying /\ f.info = g.info
  /\ SpentAt(f) => (SpentAt(g) /\ f.info = g.info) \/ ~ Kept(f.info) \/ shutting
  /\ Gained(f)

LEMMA BecomesOwners ==
  ASSUME Inv, Nested, AllGained, shutting \/ Ownership,
         NEW t \in Threads, stack[t] # <<>>, NEW f \in Frames, Become(t, f),
         UNCHANGED <<heap, kind, data>>, shutting => shutting',
         \A i \in Addrs : kind[i] # "none" /\ refct'[i] = 0 => refct[i] = 0,
         NEW n, n = Depth(t), Passes(F(t, n), f),
         Owning(t, n) =>
           /\ f.data = F(t, n).data
           /\ \/ f.at \in Making
              \/ f.at \in {"count_varsize_alloc", "varsize_free"} /\ f.data # data[f.info]
  PROVE  /\ Nested' /\ AllGained' /\ (shutting' \/ Ownership')
         /\ Moved(t, n) /\ Where(t) = F(t, n).at /\ Where(t)' = f.at
<1>1. Stacks /\ n \in Nat \ {0} /\ Depth(t) = n
  BY DepthType DEF Inv, TypeOK, Stacks
<1>2. Moved(t, n) /\ F(t, n)' = f
  BY <1>1, BecomeMoves
<1>3. Where(t) = F(t, n).at /\ Where(t)' = f.at
  BY <1>1, <1>2, TopWhere, NewWhere
<1>4. Nested'
  BY <1>1, <1>2, NestedStep
<1>5. \A d \in 1 .. n : d >= Depth(t) => d = n
  BY <1>1
<1>6. AllGained'
  <2>1. Gained(F(t, n))'
    BY <1>2 DEF Passes, Gained
  <2>2. Depth(t) <= n + 1 /\ Leaves(t)
    BY <1>1 DEF Leaves
  <2>3. QED
    BY <1>1, <1>2, <1>5, <2>1, <2>2, GainedStep
<1>7. shutting' \/ Ownership'
  <2>1. n \in 1 .. Depth(t)'
    BY <1>1, <1>2 DEF Moved
  <2>2. ASSUME NEW a \in Addrs, Fresh(t, n), F(t, n).info = a PROVE Owned(a)'
    BY <1>2, <2>1, <2>2 DEF Passes, Fresh, Owned
  <2>3. ASSUME NEW a \in Addrs, Owning(t, n), F(t, n).data = a PROVE Owned(a)'
    <3>1. Owning(t, n)'
      BY <1>2, <2>3 DEF Owning
    <3>2. QED
      BY <1>2, <2>1, <2>3, <3>1 DEF Owned
  <2>4. ASSUME NEW a \in Addrs, F(t, n).at \in Destroying, F(t, n).info = a PROVE Doomed(a)'
    BY <1>2, <2>1, <2>4 DEF Passes, Doomed
  <2>5. ASSUME NEW i \in Addrs, SpentAt(F(t, n)'), Kept(i) PROVE shutting \/ F(t, n)'.info # i
    <3> SUFFICES ASSUME f.info = i, ~ shutting PROVE FALSE
      BY <1>2
    <3>1. SpentAt(F(t, n)) /\ F(t, n).info = i
      BY <1>2, <2>5 DEF Passes
    <3>2. n \in 1 .. Depth(t)
      BY <1>1
    <3>3. QED
      BY <2>5, <3>1, <3>2 DEF Kept, Spent, SpentAt
  <2>6. Depth(t) <= n + 1 /\ \A d \in 1 .. Depth(t) : d = Depth(t) => d = n
    BY <1>1
  <2>7. QED
    BY <1>2, <1>5, <2>2, <2>3, <2>4, <2>5, <2>6, QuietOwners
<1>8. QED
  BY <1>2, <1>3, <1>4, <1>6, <1>7

(* A thread leaves a frame that has no block and destroys nothing.         *)
LEMMA ReturnsOwners ==
  ASSUME Inv, Nested, AllGained, shutting \/ Ownership,
         NEW t \in Threads, stack[t] # <<>>, Return(t),
         UNCHANGED <<heap, kind, data, refct>>, shutting => shutting',
         NEW n, n = Depth(t), F(t, n).at \notin Destroying, ~ Fresh(t, n), ~ Owning(t, n)
  PROVE  /\ Nested' /\ AllGained' /\ (shutting' \/ Ownership')
         /\ Moved(t, n - 1) /\ Where(t) = F(t, n).at /\ Where(t)' \in Calm
<1>1. Stacks /\ n \in Nat \ {0} /\ Depth(t) = n
  BY DepthType DEF Inv, TypeOK, Stacks
<1> PICK k \in Nat : k = n - 1
  BY <1>1
<1>2. Moved(t, k)
  BY <1>1, ReturnMoves
<1>3. Where(t) = F(t, n).at /\ Where(t)' \in Calm
  BY <1>1, TopWhere, BackWhere
<1>4. ~ (k > n) /\ n <= k + 1 /\ \A d \in 1 .. k : ~ (d >= n)
  BY <1>1
<1>5. Nested'
  BY <1>1, <1>2, <1>4, NestedStep
<1>6. Leaves(t)
  BY DEF Leaves
<1>7. AllGained'
  BY <1>1, <1>2, <1>4, <1>6, GainedStep
<1>8. shutting' \/ Ownership'
  BY <1>1, <1>2, <1>4, QuietOwners
<1>9. QED
  BY <1>2, <1>3, <1>5, <1>7, <1>8

(* An idle thread enters the runtime, or stays out of it.                  *)
LEMMA PushesOwners ==
  ASSUME Inv, Nested, AllGained, shutting \/ Ownership,
         NEW t \in Threads, stack[t] = <<>>, NEW f \in Frames, Push(t, f),
         UNCHANGED <<heap, kind, data>>, shutting => shutting',
         \A i \in Addrs : kind[i] # "none" /\ refct'[i] = 0 =>
           refct[i] = 0 \/ (f.at \in Destroying /\ f.info = i),
         ~ SpentAt(f), Gained(f)
  PROVE  /\ Nested' /\ AllGained' /\ (shutting' \/ Ownership')
         /\ Moved(t, 1) /\ Where(t) = "idle" /\ Where(t)' = f.at
<1>1. Stacks
  BY DEF Inv, TypeOK, Stacks
<1>2. Depth(t) = 0 /\ Moved(t, 1) /\ F(t, 1)' = f
  BY <1>1, PushMoves
<1>3. Where(t) = "idle" /\ Where(t)' = f.at
  BY <1>1, <1>2, NewWhere DEF Where
<1>4. \A d \in 1 .. 1 : d = 1
  OBVIOUS
<1>5. Nested'
  BY <1>1, <1>2, NestedStep
<1>6. AllGained'
  <2>1. Gained(F(t, 1))' /\ Leaves(t)
    BY <1>2 DEF Gained, Leaves
  <2>2. QED
    BY <1>1, <1>2, <1>4, <2>1, GainedStep
<1>7. shutting' \/ Ownership'
  <2>1. \A i \in Addrs : kind[i] # "none" /\ refct'[i] = 0 => refct[i] = 0 \/ Doomed(i)'
    <3>1. 1 \in 1 .. Depth(t)'
      BY <1>2 DEF Moved
    <3>2. QED
      BY <1>2, <3>1 DEF Doomed
  <2>2. \A d \in 1 .. Depth(t) : FALSE
    BY <1>2
  <2>3. ~ SpentAt(F(t, 1)')
    BY <1>2
  <2>4. Depth(t) <= 1 + 1
    BY <1>2
  <2>5. QED
    BY <1>2, <1>4, <2>1, <2>2, <2>3, <2>4, QuietOwners
<1>8. QED
  BY <1>2, <1>3, <1>5, <1>6, <1>7

LEMMA StaysOwners ==
  ASSUME Inv, Nested, AllGained, shutting \/ Ownership, NEW t \in Threads, stack[t] = <<>>,
         UNCHANGED <<stack, heap, kind, data>>, shutting => shutting',
         \A i \in Addrs : kind[i] # "none" /\ refct'[i] = 0 => refct[i] = 0
  PROVE  Nested' /\ AllGained' /\ (shutting' \/ Ownership') /\ Moved(t, 0)
<1>1. Stacks /\ Depth(t) = 0 /\ Depth(t)' = 0
  BY DEF Inv, TypeOK, Stacks, Depth
<1>2. Moved(t, 0)
  BY <1>1 DEF Moved, Stacks
<1>3. Nested'
  BY DEF Nested, F, Depth
<1>4. AllGained'
  BY DEF AllGained, Gained, F, Depth
<1>5. shutting' \/ Ownership'
  <2>1. (\A d \in 1 .. Depth(t) : FALSE) /\ (\A d \in 1 .. 0 : FALSE) /\ Depth(t) <= 0 + 1
    BY <1>1
  <2>2. QED
    BY <1>2, <2>1, QuietOwners
<1>6. QED
  BY <1>2, <1>3, <1>4, <1>5

(* The counters, when no block moves.                                      *)
LEMMA QuietTally ==
  ASSUME Inv, Counters, UNCHANGED <<heap, kind, enabled>>, NEW t \in Threads, NEW n, Moved(t, n),
         NEW l, NEW m, l = Where(t), m = Where(t)',
         NEW ka \in {0, 1}, NEW kf \in {0, 1}, NEW ma \in {0, 1}, NEW mf \in {0, 1},
         Ticked(alloc, alloc', ka), Ticked(free, free', kf),
         Ticked(mi_alloc, mi_alloc', ma), Ticked(mi_free, mi_free', mf),
         Owes(0, 0, l, m, ka, kf, ma, mf)
  PROVE  Counters'
<1>1. Blocks' = Blocks + 0 /\ MemInfos' = MemInfos + 0
  <2>1. Blocks' = Blocks /\ MemInfos' = MemInfos
    BY DEF Blocks, MemInfos
  <2>2. QED
    BY <2>1, CountsType
<1>2. TypeOK /\ \A u \in Threads : u # t => Where(u)' = Where(u)
  BY MovedWhere DEF Inv
<1>3. QED
  BY <1>1, <1>2, Tally

-----------------------------------------------------------------------------
(* The actions that move no block, one by one.                             *)

(* From where to where a thread goes without owing more than it counts.    *)
LEMMA PlainOwes ==
  ASSUME NEW l, NEW m, l \notin Uncounted \cup Unfreed \cup Undestroyed,
         m \notin Uncounted \cup Unfreed \cup Undestroyed
  PROVE  Owes(0, 0, l, m, 0, 0, 0, 0)
BY DEF Owes, Is

LEMMA NewLeaks ==
  ASSUME Inv, Leaks, NEW t \in Threads, NEW v \in Own(t), NEW k \in Kinds, New(t, v, k)
  PROVE  Leaks'
<1> PICK l : l = IF k = "varsize" THEN "malloc_data" ELSE "malloc_mi"
  OBVIOUS
<1> PICK f : f = Frame(l, NULL, NULL, k, v)
  OBVIOUS
<1>1. /\ Nested /\ AllGained /\ Counters /\ (shutting \/ Ownership) /\ Idle(t) /\ Push(t, f)
      /\ UNCHANGED <<heap, info, var, shutting, stats, crashed>>
  BY DEF Leaks, New
<1>2. stack[t] = <<>>
  BY <1>1, IdleDepth DEF Inv
<1>3. f \in Frames /\ f.at = l /\ f.data = NULL
  <2>1. v \in Vars /\ NULL \in MaybeAddr /\ l \in Labels
    BY DEF Own, MaybeAddr, Labels
  <2>2. QED
    BY <2>1, NewFrame
<1>4. ~ SpentAt(f) /\ Gained(f)
  BY <1>3 DEF SpentAt, Gained
<1>5. UNCHANGED <<heap, kind, data, refct, shutting, enabled, alloc, free, mi_alloc, mi_free>>
  BY <1>1 DEF info, stats
<1>6. /\ Nested' /\ AllGained' /\ (shutting' \/ Ownership')
      /\ Moved(t, 1) /\ Where(t) = "idle" /\ Where(t)' = l
  BY <1>1, <1>2, <1>3, <1>4, <1>5, PushesOwners
<1>7. Owes(0, 0, "idle", l, 0, 0, 0, 0)
  BY PlainOwes DEF Uncounted, Unfreed, Undestroyed
<1>8. Counters'
  BY <1>1, <1>5, <1>6, <1>7, QuietTally DEF Ticked
<1>9. QED
  BY <1>6, <1>8 DEF Leaks

LEMMA GrowClearLeaks ==
  ASSUME Inv, Leaks, NEW t \in Threads, NEW v \in Own(t), GrowSet(t, v) \/ ClearSet(t, v)
  PROVE  Leaks'
<1>1. PICK l \in {"varsize_alloc", "clear"} :
        Push(t, Frame(l, var[v], data[var[v]], "none", NoVar))
  BY DEF GrowSet, ClearSet
<1> PICK f : f = Frame(l, var[v], data[var[v]], "none", NoVar)
  OBVIOUS
<1>2. /\ Nested /\ AllGained /\ Counters /\ (shutting \/ Ownership) /\ Idle(t) /\ Push(t, f)
      /\ UNCHANGED <<heap, info, var, shutting, stats, crashed>>
      /\ var[v] # NULL /\ v \in Vars
  BY <1>1 DEF Leaks, GrowSet, ClearSet, MayResize, Own
<1>3. stack[t] = <<>>
  BY <1>2, IdleDepth DEF Inv
<1>4. f \in Frames /\ f.at = l
  <2>1. var[v] \in MaybeAddr /\ data[var[v]] \in MaybeAddr
    BY <1>2 DEF Inv, TypeOK, MaybeAddr
  <2>2. QED
    BY <2>1, NewFrame DEF Labels
<1>5. ~ SpentAt(f) /\ Gained(f)
  BY <1>4 DEF SpentAt, Gained
<1>6. UNCHANGED <<heap, kind, data, refct, shutting, enabled, alloc, free, mi_alloc, mi_free>>
  BY <1>2 DEF info, stats
<1>7. /\ Nested' /\ AllGained' /\ (shutting' \/ Ownership')
      /\ Moved(t, 1) /\ Where(t) = "idle" /\ Where(t)' = l
  BY <1>2, <1>3, <1>4, <1>5, <1>6, PushesOwners
<1>8. Owes(0, 0, "idle", l, 0, 0, 0, 0)
  BY PlainOwes DEF Uncounted, Unfreed, Undestroyed
<1>9. Counters'
  BY <1>2, <1>6, <1>7, <1>8, QuietTally DEF Ticked
<1>10. QED
  BY <1>7, <1>9 DEF Leaks

(* A thread that does not enter the runtime.                               *)
LEMMA StaysLeaks ==
  ASSUME Inv, Leaks, NEW t \in Threads, Idle(t),
         UNCHANGED <<stack, heap, kind, data, shutting, stats>>,
         \A i \in Addrs : kind[i] # "none" /\ refct'[i] = 0 => refct[i] = 0
  PROVE  Leaks'
<1>1. Nested /\ AllGained /\ Counters /\ (shutting \/ Ownership) /\ stack[t] = <<>>
  BY IdleDepth DEF Leaks, Inv
<1>2. UNCHANGED <<enabled, alloc, free, mi_alloc, mi_free>>
  BY DEF stats
<1>3. Nested' /\ AllGained' /\ (shutting' \/ Ownership') /\ Moved(t, 0)
  BY <1>1, StaysOwners
<1>4. Where(t) = "idle" /\ Where(t)' = "idle"
  BY <1>1 DEF Where
<1>5. Owes(0, 0, "idle", "idle", 0, 0, 0, 0)
  BY PlainOwes DEF Uncounted, Unfreed, Undestroyed
<1>6. Counters'
  BY <1>1, <1>2, <1>3, <1>4, <1>5, QuietTally DEF Ticked
<1>7. QED
  BY <1>3, <1>6 DEF Leaks

LEMMA AcquireLeaks ==
  ASSUME Inv, Leaks, NEW t \in Threads, NEW v \in Own(t), NEW i \in Addrs, Acquire(t, v, i)
  PROVE  Leaks'
<1>1. \A j \in Addrs : refct[j] \in Nat
  BY DEF Inv, TypeOK
<1>2. \A j \in Addrs : refct'[j] = 0 => refct[j] = 0
  BY <1>1 DEF Acquire, Inv, TypeOK
<1>3. QED
  BY <1>2, StaysLeaks DEF Acquire

LEMMA StoreLeaks ==
  ASSUME Inv, Leaks, NEW t \in Threads, NEW v \in Own(t), NEW u \in Own(t), Store(t, v, u)
  PROVE  Leaks'
<1>1. \A j \in Addrs : refct[j] \in Nat
  BY DEF Inv, TypeOK
<1>2. \A j \in Addrs : refct'[j] = 0 => refct[j] = 0
  BY <1>1 DEF Store, Inv, TypeOK
<1>3. QED
  BY <1>2, StaysLeaks DEF Store

LEMMA ReleaseLeaks ==
  ASSUME Inv, Leaks, NEW t \in Threads, NEW v \in Own(t), Release(t, v)
  PROVE  Leaks'
<1> PICK c : c = var[v]
  OBVIOUS
<1>1. /\ Nested /\ AllGained /\ Counters /\ (shutting \/ Ownership) /\ Idle(t)
      /\ v \in Vars /\ c # NULL /\ refct' = [refct EXCEPT ![c] = @ - 1]
      /\ IF refct[c] = 1 THEN Push(t, DtorFrame(c)) ELSE UNCHANGED stack
      /\ UNCHANGED <<heap, kind, data, elem, shutting, stats, crashed>>
  BY DEF Leaks, Release, Own
<1>2. stack[t] = <<>>
  BY <1>1, IdleDepth DEF Inv
<1>3. c \in Addrs /\ refct[c] >= 1 /\ refct[c] \in Nat
  BY <1>1, Referred DEF Inv, TypeOK
<1>4. refct'[c] = refct[c] - 1 /\ \A j \in Addrs : j # c => refct'[j] = refct[j]
  BY <1>1, <1>3 DEF Inv, TypeOK
<1>5. CASE refct[c] # 1
  <2>1. \A j \in Addrs : refct'[j] = 0 => refct[j] = 0
    BY <1>3, <1>4, <1>5
  <2>2. QED
    BY <1>1, <1>5, <2>1, StaysLeaks
<1>6. CASE refct[c] = 1
  <2> PICK f : f = DtorFrame(c)
    OBVIOUS
  <2>1. f \in Frames /\ f.at = "dtor" /\ f.info = c /\ Push(t, f)
    BY <1>1, <1>3, <1>6, DtorFrameType
  <2>2. ~ SpentAt(f) /\ Gained(f) /\ f.at \in Destroying
    BY <2>1 DEF SpentAt, Gained, Destroying
  <2>3. \A i \in Addrs : refct'[i] = 0 => refct[i] = 0 \/ f.info = i
    BY <1>4, <2>1
  <2>4. UNCHANGED <<heap, kind, data, shutting, enabled, alloc, free, mi_alloc, mi_free>>
    BY <1>1 DEF stats
  <2>5. /\ Nested' /\ AllGained' /\ (shutting' \/ Ownership')
        /\ Moved(t, 1) /\ Where(t) = "idle" /\ Where(t)' = "dtor"
    BY <1>1, <1>2, <2>1, <2>2, <2>3, <2>4, PushesOwners
  <2>6. Owes(0, 0, "idle", "dtor", 0, 0, 0, 0)
    BY PlainOwes DEF Uncounted, Unfreed, Undestroyed
  <2>7. Counters'
    BY <1>1, <2>4, <2>5, <2>6, QuietTally DEF Ticked
  <2>8. QED
    BY <2>5, <2>7 DEF Leaks
<1>7. QED
  BY <1>5, <1>6

(* A frame goes on to l, with the same MemInfo and the same block.         *)
Turns(k, l) ==
  /\ k \in {"count_mi", "init"} => l = "init"
  /\ k \in Destroying => l \in Destroying
  /\ k \in Making => l \in Making
  /\ k \in {"count_varsize_alloc", "varsize_free"} => l = "varsize_free"
  /\ l \notin {"malloc_data", "count_data", "count_mi", "count_varsize_alloc"}

LEMMA GoesLeaks ==
  ASSUME Inv, Leaks, NEW t \in Threads, stack[t] # <<>>, NEW n, n = Depth(t),
         NEW k, F(t, n).at = k, NEW l, NEW f \in Frames, Become(t, f), Went(F(t, n), f, l),
         UNCHANGED <<heap, kind, data, shutting, enabled>>,
         \A i \in Addrs : kind[i] # "none" /\ refct'[i] = 0 => refct[i] = 0,
         Turns(k, l),
         SpentAt(f) => SpentAt(F(t, n)) \/ ~ Kept(f.info) \/ shutting,
         NEW ka \in {0, 1}, NEW kf \in {0, 1},
         Ticked(alloc, alloc', ka), Ticked(free, free', kf), UNCHANGED <<mi_alloc, mi_free>>,
         Owes(0, 0, k, l, ka, kf, 0, 0)
  PROVE  Leaks'
<1>1. Nested /\ AllGained /\ Counters /\ (shutting \/ Ownership)
  BY DEF Leaks
<1>2. f.at = l /\ f.info = F(t, n).info /\ f.data = F(t, n).data
  BY DEF Went
<1>3. Passes(F(t, n), f)
  BY <1>2 DEF Passes, Turns, Gained
<1>4. Owning(t, n) =>
        /\ f.data = F(t, n).data
        /\ \/ f.at \in Making
           \/ f.at \in {"count_varsize_alloc", "varsize_free"} /\ f.data # data[f.info]
  BY <1>2 DEF Owning, Turns
<1>5. /\ Nested' /\ AllGained' /\ (shutting' \/ Ownership')
      /\ Moved(t, n) /\ Where(t) = k /\ Where(t)' = l
  BY <1>1, <1>2, <1>3, <1>4, BecomesOwners
<1>6. Ticked(mi_alloc, mi_alloc', 0) /\ Ticked(mi_free, mi_free', 0) /\ 0 \in {0, 1}
  BY DEF Ticked
<1>7. Counters'
  BY <1>1, <1>5, <1>6, QuietTally
<1>8. QED
  BY <1>5, <1>7 DEF Leaks

LEMMA CountDataLeaks ==
  ASSUME Inv, Leaks, NEW t \in Threads, CountData(t)
  PROVE  Leaks'
<1> PICK n : n = Depth(t)
  OBVIOUS
<1>1. /\ TypeOK /\ Refs /\ At(t, "count_data") /\ alloc' = Counted(alloc)
      /\ UNCHANGED <<heap, info, shutting, enabled, free, mi_alloc, mi_free>>
  BY DEF Inv, CountData
<1>2. stack[t] # <<>> /\ n \in Nat \ {0} /\ Top(t) = F(t, n) /\ Top(t).at = "count_data"
  BY <1>1, AtTop DEF Labels
<1>3. Top(t).data # NULL
  <2>1. Gained(F(t, n))
    BY <1>2 DEF Leaks, AllGained
  <2>2. QED
    BY <1>2, <2>1 DEF Gained
<1>4. PICK f \in Frames : Become(t, f) /\ Went(F(t, n), f, "malloc_mi")
  BY <1>1, <1>3, GotoBecomes DEF CountData, Labels
<1>5. Turns("count_data", "malloc_mi") /\ ~ SpentAt(f)
  BY <1>4 DEF Turns, Destroying, Making, SpentAt, Went
<1>6. Owes(0, 0, "count_data", "malloc_mi", 1, 0, 0, 0)
  BY DEF Owes, Is, Uncounted, Unfreed, Undestroyed
<1>7. UNCHANGED <<heap, kind, data, shutting, enabled>>
      /\ UNCHANGED <<mi_alloc, mi_free>>
      /\ Ticked(alloc, alloc', 1) /\ Ticked(free, free', 0) /\ 0 \in {0, 1} /\ 1 \in {0, 1}
  BY <1>1 DEF info, Ticked
<1>8. refct' = refct
  BY <1>1 DEF info
<1>9. QED
  BY <1>2, <1>4, <1>5, <1>6, <1>7, <1>8, GoesLeaks

LEMMA CountInfoLeaks ==
  ASSUME Inv, Leaks, NEW t \in Threads, CountInfo(t)
  PROVE  Leaks'
<1> PICK n : n = Depth(t)
  OBVIOUS
<1>1. /\ TypeOK /\ Refs /\ At(t, "count_mi") /\ alloc' = Counted(alloc)
      /\ UNCHANGED <<heap, info, shutting, enabled, free, mi_alloc, mi_free>>
  BY DEF Inv, CountInfo
<1>2. stack[t] # <<>> /\ n \in Nat \ {0} /\ Top(t) = F(t, n) /\ Top(t).at = "count_mi"
  BY <1>1, AtTop DEF Labels
<1>3. Top(t).info # NULL
  <2>1. Gained(F(t, n))
    BY <1>2 DEF Leaks, AllGained
  <2>2. QED
    BY <1>2, <2>1 DEF Gained
<1>4. PICK f \in Frames : Become(t, f) /\ Went(F(t, n), f, "init")
  BY <1>1, <1>3, GotoBecomes DEF CountInfo, Labels
<1>5. Turns("count_mi", "init") /\ ~ SpentAt(f)
  BY <1>4 DEF Turns, Destroying, Making, SpentAt, Went
<1>6. Owes(0, 0, "count_mi", "init", 1, 0, 0, 0)
  BY DEF Owes, Is, Uncounted, Unfreed, Undestroyed
<1>7. UNCHANGED <<heap, kind, data, refct, shutting, enabled>>
      /\ Ticked(alloc, alloc', 1) /\ Ticked(free, free', 0)
  BY <1>1 DEF info, Ticked
<1>8. QED
  BY <1>1, <1>2, <1>4, <1>5, <1>6, <1>7, GoesLeaks

LEMMA CountFreeDataLeaks ==
  ASSUME Inv, Leaks, NEW t \in Threads, CountFreeData(t)
  PROVE  Leaks'
<1> PICK n : n = Depth(t)
  OBVIOUS
<1>1. /\ TypeOK /\ Refs /\ At(t, "count_free_data") /\ free' = Counted(free)
      /\ UNCHANGED <<heap, info, shutting, enabled, alloc, mi_alloc, mi_free>>
  BY DEF Inv, CountFreeData
<1>2. stack[t] # <<>> /\ n \in Nat \ {0} /\ Top(t) = F(t, n) /\ Top(t).at = "count_free_data"
  BY <1>1, AtTop DEF Labels
<1>3. PICK f \in Frames : Become(t, f) /\ Went(F(t, n), f, "free_mi")
  BY <1>1, GotoBecomes DEF CountFreeData, Labels
<1>4. Turns("count_free_data", "free_mi") /\ SpentAt(F(t, n))
  BY <1>2 DEF Turns, Destroying, Making, SpentAt
<1>5. Owes(0, 0, "count_free_data", "free_mi", 0, 1, 0, 0)
  BY DEF Owes, Is, Uncounted, Unfreed, Undestroyed
<1>6. UNCHANGED <<heap, kind, data, refct, shutting, enabled>>
      /\ Ticked(alloc, alloc', 0) /\ Ticked(free, free', 1)
  BY <1>1 DEF info, Ticked
<1>7. QED
  BY <1>1, <1>2, <1>3, <1>4, <1>5, <1>6, GoesLeaks

LEMMA CountFreeInfoLeaks ==
  ASSUME Inv, Leaks, NEW t \in Threads, CountFreeInfo(t)
  PROVE  Leaks'
<1> PICK n : n = Depth(t)
  OBVIOUS
<1>1. /\ TypeOK /\ Refs /\ At(t, "count_free_mi") /\ free' = Counted(free)
      /\ UNCHANGED <<heap, info, shutting, enabled, alloc, mi_alloc, mi_free>>
  BY DEF Inv, CountFreeInfo
<1>2. stack[t] # <<>> /\ n \in Nat \ {0} /\ Top(t) = F(t, n) /\ Top(t).at = "count_free_mi"
  BY <1>1, AtTop DEF Labels
<1>3. PICK f \in Frames : Become(t, f) /\ Went(F(t, n), f, "count_mi_free")
  BY <1>1, GotoBecomes DEF CountFreeInfo, Labels
<1>4. Turns("count_free_mi", "count_mi_free") /\ ~ SpentAt(f)
  BY <1>3 DEF Turns, Destroying, Making, SpentAt, Went
<1>5. Owes(0, 0, "count_free_mi", "count_mi_free", 0, 1, 0, 0)
  BY DEF Owes, Is, Uncounted, Unfreed, Undestroyed
<1>6. UNCHANGED <<heap, kind, data, refct, shutting, enabled>>
      /\ Ticked(alloc, alloc', 0) /\ Ticked(free, free', 1)
  BY <1>1 DEF info, Ticked
<1>7. QED
  BY <1>1, <1>2, <1>3, <1>4, <1>5, <1>6, GoesLeaks

(* A thread returns to the frame below, or to its program.                 *)
LEMMA BackLeaks ==
  ASSUME Inv, Leaks, NEW t \in Threads, stack[t] # <<>>, Return(t), NEW n, n = Depth(t),
         NEW k, F(t, n).at = k, k \notin Destroying, ~ Fresh(t, n), ~ Owning(t, n),
         UNCHANGED <<heap, kind, data, refct, shutting, enabled, mi_alloc>>,
         NEW ka \in {0, 1}, NEW kf \in {0, 1}, NEW mf \in {0, 1},
         Ticked(alloc, alloc', ka), Ticked(free, free', kf), Ticked(mi_free, mi_free', mf),
         Owes(0, 0, k, "idle", ka, kf, 0, mf)
  PROVE  Leaks'
<1>1. Nested /\ AllGained /\ Counters /\ (shutting \/ Ownership)
  BY DEF Leaks
<1> PICK m : m = Where(t)'
  OBVIOUS
<1>2. /\ Nested' /\ AllGained' /\ (shutting' \/ Ownership')
      /\ Moved(t, n - 1) /\ Where(t) = k /\ m \in Calm
  BY <1>1, ReturnsOwners
<1>3. Owes(0, 0, k, m, ka, kf, 0, mf)
  <2>1. "idle" \in Calm
    BY DEF Calm
  <2>2. /\ Is(m, Uncounted) = Is("idle", Uncounted) /\ Is(m, Unfreed) = Is("idle", Unfreed)
        /\ Is(m, Undestroyed) = Is("idle", Undestroyed)
    BY <1>2, <2>1, CalmOwes
  <2>3. QED
    BY <2>2 DEF Owes
<1>4. Ticked(mi_alloc, mi_alloc', 0) /\ 0 \in {0, 1}
  BY DEF Ticked
<1>5. Counters'
  BY <1>1, <1>2, <1>3, <1>4, QuietTally
<1>6. QED
  BY <1>2, <1>5 DEF Leaks

LEMMA CountDestroyedLeaks ==
  ASSUME Inv, Leaks, NEW t \in Threads, CountDestroyed(t)
  PROVE  Leaks'
<1> PICK n : n = Depth(t)
  OBVIOUS
<1>1. /\ TypeOK /\ Refs /\ At(t, "count_mi_free") /\ mi_free' = Counted(mi_free) /\ Return(t)
      /\ UNCHANGED <<heap, info, shutting, enabled, alloc, free, mi_alloc>>
  BY DEF Inv, CountDestroyed
<1>2. stack[t] # <<>> /\ Top(t) = F(t, n) /\ Top(t).at = "count_mi_free"
  BY <1>1, AtTop DEF Labels
<1>3. ~ Fresh(t, n) /\ ~ Owning(t, n) /\ "count_mi_free" \notin Destroying
  BY <1>2 DEF Fresh, Owning, Making, Destroying
<1>4. Owes(0, 0, "count_mi_free", "idle", 0, 0, 0, 1)
  BY DEF Owes, Is, Uncounted, Unfreed, Undestroyed
<1>5. UNCHANGED <<heap, kind, data, refct, shutting, enabled, mi_alloc>>
      /\ Ticked(alloc, alloc', 0) /\ Ticked(free, free', 0) /\ Ticked(mi_free, mi_free', 1)
  BY <1>1 DEF info, Ticked
<1>6. QED
  BY <1>1, <1>2, <1>3, <1>4, <1>5, BackLeaks

LEMMA CountVarsizeAllocLeaks ==
  ASSUME Inv, Leaks, NEW t \in Threads, CountVarsizeAlloc(t)
  PROVE  Leaks'
<1> PICK n : n = Depth(t)
  OBVIOUS
<1>1. /\ TypeOK /\ Refs /\ At(t, "count_varsize_alloc") /\ alloc' = Counted(alloc)
      /\ UNCHANGED <<heap, info, shutting, enabled, free, mi_alloc, mi_free>>
  BY DEF Inv, CountVarsizeAlloc
<1>2. stack[t] # <<>> /\ n \in Nat \ {0} /\ Top(t) = F(t, n) /\ Top(t).at = "count_varsize_alloc"
  BY <1>1, AtTop DEF Labels
<1>3. data[Top(t).info] # NULL
  <2>1. Gained(F(t, n))
    BY <1>2 DEF Leaks, AllGained
  <2>2. QED
    BY <1>2, <2>1 DEF Gained
<1>4. UNCHANGED <<heap, kind, data, refct, shutting, enabled, mi_alloc>>
      /\ Ticked(alloc, alloc', 1) /\ Ticked(free, free', 0) /\ Ticked(mi_free, mi_free', 0)
  BY <1>1 DEF info, Ticked
<1>5. CASE Top(t).data = NULL
  <2>1. Return(t)
    BY <1>5 DEF CountVarsizeAlloc
  <2>2. ~ Fresh(t, n) /\ ~ Owning(t, n) /\ "count_varsize_alloc" \notin Destroying
    BY <1>2, <1>5 DEF Fresh, Owning, Destroying
  <2>3. Owes(0, 0, "count_varsize_alloc", "idle", 1, 0, 0, 0)
    BY DEF Owes, Is, Uncounted, Unfreed, Undestroyed
  <2>4. QED
    BY <1>1, <1>2, <1>4, <2>1, <2>2, <2>3, BackLeaks
<1>6. CASE Top(t).data # NULL
  <2>1. PICK f \in Frames : Become(t, f) /\ Went(F(t, n), f, "varsize_free")
    BY <1>1, <1>3, <1>6, GotoBecomes DEF CountVarsizeAlloc, Labels
  <2>2. Turns("count_varsize_alloc", "varsize_free") /\ ~ SpentAt(f)
    BY <2>1 DEF Turns, Destroying, Making, SpentAt, Went
  <2>3. Owes(0, 0, "count_varsize_alloc", "varsize_free", 1, 0, 0, 0)
    BY DEF Owes, Is, Uncounted, Unfreed, Undestroyed
  <2>4. QED
    BY <1>1, <1>2, <1>4, <2>1, <2>2, <2>3, GoesLeaks
<1>7. QED
  BY <1>5, <1>6

LEMMA CountVarsizeFreeLeaks ==
  ASSUME Inv, Leaks, NEW t \in Threads, CountVarsizeFree(t)
  PROVE  Leaks'
<1> PICK n : n = Depth(t)
  OBVIOUS
<1>1. /\ TypeOK /\ Refs /\ At(t, "count_varsize_free") /\ free' = Counted(free)
      /\ UNCHANGED <<heap, info, shutting, enabled, alloc, mi_alloc, mi_free>>
  BY DEF Inv, CountVarsizeFree
<1>2. /\ stack[t] # <<>> /\ n \in Nat \ {0} /\ Top(t) = F(t, n) /\ Top(t) \in Frames
      /\ Top(t).at = "count_varsize_free"
  BY <1>1, AtTop DEF Labels
<1>3. UNCHANGED <<heap, kind, data, refct, shutting, enabled, mi_alloc>>
      /\ Ticked(alloc, alloc', 0) /\ Ticked(free, free', 1) /\ Ticked(mi_free, mi_free', 0)
  BY <1>1 DEF info, Ticked
<1>4. ~ Fresh(t, n) /\ ~ Owning(t, n) /\ "count_varsize_free" \notin Destroying
  BY <1>2 DEF Fresh, Owning, Making, Destroying
<1>5. CASE data[Top(t).info] # NULL
  <2>1. Return(t)
    BY <1>5 DEF CountVarsizeFree
  <2>2. Owes(0, 0, "count_varsize_free", "idle", 0, 1, 0, 0)
    BY DEF Owes, Is, Uncounted, Unfreed, Undestroyed
  <2>3. QED
    BY <1>1, <1>2, <1>3, <1>4, <2>1, <2>2, BackLeaks
<1>6. CASE data[Top(t).info] = NULL
  <2> PICK f : f = [Top(t) EXCEPT !.at = "varsize_alloc", !.data = NULL]
    OBVIOUS
  <2>1. f \in Frames /\ f.at = "varsize_alloc"
    BY <1>2 DEF Frames, Labels, MaybeAddr
  <2>2. Become(t, f)
    BY <1>6 DEF CountVarsizeFree
  <2>3. Nested /\ AllGained /\ Counters /\ (shutting \/ Ownership)
    BY DEF Leaks
  <2>4. Passes(F(t, n), f)
    BY <1>2, <1>4, <2>1 DEF Passes, SpentAt, Gained
  <2>5. /\ Nested' /\ AllGained' /\ (shutting' \/ Ownership')
        /\ Moved(t, n) /\ Where(t) = "count_varsize_free" /\ Where(t)' = "varsize_alloc"
    BY <1>2, <1>3, <1>4, <2>1, <2>2, <2>3, <2>4, BecomesOwners
  <2>6. Owes(0, 0, "count_varsize_free", "varsize_alloc", 0, 1, 0, 0)
    BY DEF Owes, Is, Uncounted, Unfreed, Undestroyed
  <2>7. Ticked(mi_alloc, mi_alloc', 0) /\ 0 \in {0, 1} /\ 1 \in {0, 1}
    BY <1>1 DEF Ticked
  <2>8. Counters'
    BY <1>1, <1>3, <2>3, <2>5, <2>6, <2>7, QuietTally
  <2>9. QED
    BY <2>5, <2>8 DEF Leaks
<1>7. QED
  BY <1>5, <1>6

LEMMA ReleaseElemLeaks ==
  ASSUME Inv, Leaks, NEW t \in Threads, NEW k \in {"dtor", "clear"}, At(t, k), NEW l \in Labels,
         Releases(Top(t), l), l = "free_mi" => kind[Top(t).info] # "varsize", ReleaseElem(t, l),
         UNCHANGED <<heap, kind, data, var, shutting, stats, crashed>>
  PROVE  Leaks'
<1> PICK n : n = Depth(t)
  OBVIOUS
<1> PICK f : f = [Top(t) EXCEPT !.at = l]
  OBVIOUS
<1>1. /\ TypeOK /\ Refs /\ Stacks /\ stack[t] # <<>> /\ n \in Nat \ {0}
      /\ Top(t) = F(t, n) /\ Top(t) \in Frames /\ F(t, n).at = k
      /\ DestroyingOK(t, n) /\ ResizingOK(t, n)
  BY AtTop DEF Inv, Labels
<1>2. f \in Frames /\ Went(F(t, n), f, l) /\ f.at = l /\ f.info = F(t, n).info
  <2>1. Went(Top(t), f, l)
    BY <1>1, GotoFrame
  <2>2. QED
    BY <1>1, <2>1 DEF Went
<1> PICK i : i = f.info
  OBVIOUS
<1> PICK c : c = elem[i]
  OBVIOUS
<1>3. i \in Addrs
  BY <1>1, <1>2 DEF DestroyingOK, ResizingOK, Destroying, Resizing
<1>4. \/ /\ c = NULL /\ Become(t, f) /\ UNCHANGED <<refct, elem>>
      \/ /\ c # NULL
         /\ refct' = [refct EXCEPT ![c] = @ - 1]
         /\ stack' = [stack EXCEPT ![t] = (IF refct[c] = 1 THEN <<DtorFrame(c)>> ELSE <<>>)
                                            \o <<f>> \o Tail(@)]
  BY <1>1, <1>2 DEF ReleaseElem
<1>5. \/ k = "dtor" /\ l \in {"free_mi", "free_data"}
      \/ k = "clear" /\ l = "varsize_free"
  BY <1>1 DEF Releases
<1>6. Turns(k, l) /\ ~ Fresh(t, n) /\ ~ Owning(t, n)
  BY <1>1, <1>5 DEF Turns, Destroying, Making, Fresh, Owning
<1>7. ~ SpentAt(f) \/ ~ Kept(i)
  BY <1>1, <1>2, <1>5 DEF SpentAt, Kept
<1>8. UNCHANGED <<heap, kind, data, shutting, enabled>> /\ UNCHANGED <<mi_alloc, mi_free>>
      /\ Ticked(alloc, alloc', 0) /\ Ticked(free, free', 0)
      /\ Ticked(mi_alloc, mi_alloc', 0) /\ Ticked(mi_free, mi_free', 0) /\ 0 \in {0, 1}
  BY DEF stats, Ticked
<1>9. ASSUME Become(t, f), \A j \in Addrs : kind[j] # "none" /\ refct'[j] = 0 => refct[j] = 0
      PROVE  Leaks'
  <2>1. Owes(0, 0, k, l, 0, 0, 0, 0)
    BY <1>5, PlainOwes DEF Uncounted, Unfreed, Undestroyed
  <2>2. QED
    BY <1>1, <1>2, <1>6, <1>7, <1>8, <1>9, <2>1, GoesLeaks
<1>10. CASE c = NULL
  BY <1>4, <1>9, <1>10
<1>11. CASE c # NULL
  <2>1. /\ refct' = [refct EXCEPT ![c] = @ - 1]
        /\ stack' = [stack EXCEPT ![t] = (IF refct[c] = 1 THEN <<DtorFrame(c)>> ELSE <<>>)
                                           \o <<f>> \o Tail(@)]
    BY <1>4, <1>11
  <2>2. c \in Addrs /\ refct[c] >= 1 /\ refct[c] \in Nat
    BY <1>1, <1>3, <1>11, Referred DEF TypeOK
  <2>3. refct'[c] = refct[c] - 1 /\ \A j \in Addrs : j # c => refct'[j] = refct[j]
    BY <1>1, <2>1, <2>2 DEF TypeOK
  <2>4. CASE refct[c] # 1
    <3>1. Become(t, f)
      <4>1. <<>> \o <<f>> = <<f>>
        OBVIOUS
      <4>2. Tail(stack[t]) \in Seq(Frames)
        BY <1>1, TailSeq DEF Stacks
      <4>3. <<>> \o <<f>> \o Tail(stack[t]) = <<f>> \o Tail(stack[t])
        BY <4>1
      <4>4. QED
        BY <2>1, <2>4, <4>3 DEF Become
    <3>2. \A j \in Addrs : refct'[j] = 0 => refct[j] = 0
      BY <2>2, <2>3, <2>4
    <3>3. QED
      BY <1>9, <3>1, <3>2
  <2>5. CASE refct[c] = 1
    <3> DEFINE g == DtorFrame(c)
    <3>1. g \in Frames /\ g.at = "dtor" /\ g.info = c
      BY <2>2, DtorFrameType
    <3>2. stack' = [stack EXCEPT ![t] = <<g>> \o <<f>> \o Tail(stack[t])]
      BY <2>1, <2>5
    <3> HIDE DEF g
    <3>0. Moved(t, n + 1) /\ F(t, n)' = f /\ F(t, n + 1)' = g
      <4>1. Stacks /\ stack[t] # <<>> /\ n = Depth(t) /\ f \in Frames /\ g \in Frames
        BY <1>1, <1>2, <3>1
      <4>2. QED
        BY <3>2, <4>1, NestMoves
    <3> PICK N \in Nat \ {0} : N = n + 1
      BY <1>1
    <3>3. Moved(t, N) /\ F(t, n)' = f /\ F(t, N)' = g
      <4>1. Moved(t, N)
        BY <3>0 DEF Moved
      <4>2. F(t, N)' = g
        BY <3>0 DEF F
      <4>3. QED
        BY <3>0, <4>1, <4>2
    <3>4. Where(t) = k /\ Where(t)' = "dtor"
      BY <1>1, <3>1, <3>3, TopWhere, NewWhere
    <3>5. Nested /\ AllGained /\ Counters /\ (shutting \/ Ownership)
      BY DEF Leaks
    <3>6. Nested'
      <4>1. F(t, n)'.at \in {"free_data", "free_mi", "varsize_free"}
        BY <1>2, <1>5, <3>3
      <4>2. QED
        BY <1>1, <3>3, <3>5, <4>1, NestedStep
    <3>7. /\ Depth(t) <= N + 1 /\ n \in 1 .. N /\ N \in 1 .. N
          /\ \A d \in 1 .. N : d >= Depth(t) => d = n \/ d = N
      BY <1>1
    <3>8. AllGained'
      <4>1. Gained(F(t, n))' /\ Gained(F(t, N))'
        BY <1>2, <1>5, <3>1, <3>3 DEF Gained
      <4>2. Leaves(t)
        BY DEF Leaves
      <4>3. QED
        BY <1>1, <3>3, <3>5, <3>7, <4>1, <4>2, GainedStep
    <3>9. shutting' \/ Ownership'
      <4>1. n \in 1 .. Depth(t)' /\ N \in 1 .. Depth(t)'
        BY <3>3, <3>7 DEF Moved
      <4>2. Doomed(c)'
        BY <3>1, <3>3, <4>1 DEF Doomed, Destroying
      <4>3. \A j \in Addrs : kind[j] # "none" /\ refct'[j] = 0 => refct[j] = 0 \/ Doomed(j)'
        BY <2>3, <4>2
      <4>4. F(t, n).at \in Destroying => Doomed(i)'
        <5>1. F(t, n).at \in Destroying => f.at \in Destroying
          BY <1>1, <1>2, <1>6 DEF Turns
        <5>2. F(t, n)'.at = f.at /\ F(t, n)'.info = i
          BY <3>3
        <5>3. QED
          BY <4>1, <5>1, <5>2 DEF Doomed
      <4>5. \A d \in 1 .. Depth(t), a \in Addrs : d = Depth(t) =>
              /\ Fresh(t, d) /\ F(t, d).info = a => Owned(a)'
              /\ Owning(t, d) /\ F(t, d).data = a => Owned(a)'
              /\ F(t, d).at \in Destroying /\ F(t, d).info = a => Doomed(a)'
        BY <1>2, <1>6, <4>4
      <4>6. \A d \in 1 .. N, j \in Addrs :
              d >= Depth(t) /\ SpentAt(F(t, d)') /\ Kept(j) => shutting \/ F(t, d)'.info # j
        BY <1>7, <3>1, <3>3, <3>7 DEF SpentAt
      <4>7. QED
        BY <3>3, <3>5, <3>7, <4>3, <4>5, <4>6, QuietOwners
    <3>10. Owes(0, 0, k, "dtor", 0, 0, 0, 0)
      BY PlainOwes DEF Uncounted, Unfreed, Undestroyed
    <3>11. Counters'
      BY <1>8, <3>3, <3>4, <3>5, <3>10, QuietTally
    <3>12. QED
      BY <3>6, <3>8, <3>9, <3>11 DEF Leaks
  <2>6. QED
    BY <2>4, <2>5
<1>12. QED
  BY <1>10, <1>11

LEMMA ReleaseEntriesLeaks ==
  ASSUME Inv, Leaks, NEW t \in Threads, ReleaseEntries(t)
  PROVE  Leaks'
<1>1. /\ At(t, "clear") /\ ReleaseElem(t, "varsize_free") /\ Top(t).at = "clear"
      /\ UNCHANGED <<heap, kind, data, var, shutting, stats, crashed>>
  BY DEF ReleaseEntries, At
<1>2. QED
  BY <1>1, ReleaseElemLeaks DEF Releases, Labels

LEMMA StillOwners ==
  ASSUME Leaks, UNCHANGED <<heap, info, stack>>, shutting => shutting'
  PROVE  Nested' /\ AllGained' /\ (shutting' \/ Ownership')
<1>1. \A t \in Threads : Depth(t)' = Depth(t) /\ \A d \in 1 .. Depth(t) : F(t, d)' = F(t, d)
  BY DEF Depth, F
<1>2. Nested' /\ AllGained'
  BY <1>1 DEF Leaks, Nested, AllGained, Gained, info
<1>3. \A i \in Addrs : (Kept(i)' <=> Kept(i)) /\ (Doomed(i)' <=> Doomed(i))
  BY <1>1 DEF Kept, Spent, Doomed, info
<1>4. \A t \in Threads : \A d \in 1 .. Depth(t) :
        (Fresh(t, d)' <=> Fresh(t, d)) /\ (Owning(t, d)' <=> Owning(t, d))
  BY <1>1 DEF Fresh, Owning, info
<1>5. \A a \in Addrs : Owned(a) => Owned(a)'
  BY <1>1, <1>3, <1>4 DEF Owned, info
<1>6. Ownership => Ownership'
  BY <1>3, <1>5 DEF Ownership, NoneLost, AllDoomed, info
<1>7. QED
  BY <1>2, <1>6 DEF Leaks

LEMMA StillLeaks ==
  ASSUME Leaks, UNCHANGED <<heap, info, stack, enabled, alloc, free, mi_alloc, mi_free>>,
         shutting => shutting'
  PROVE  Leaks'
<1>1. Nested' /\ AllGained' /\ (shutting' \/ Ownership')
  BY StillOwners
<1>2. Counters'
  BY DEF Leaks, Counters, Balanced, Blocks, MemInfos, Waiting, Where, Top, info
<1>3. QED
  BY <1>1, <1>2 DEF Leaks

LEMMA CallDtorLeaks ==
  ASSUME Inv, Leaks, NEW t \in Threads, CallDtor(t)
  PROVE  Leaks'
<1> PICK n : n = Depth(t)
  OBVIOUS
<1> PICK i : i = Top(t).info
  OBVIOUS
<1>1. At(t, "dtor") /\ UNCHANGED <<heap, kind, data, var, shutting, stats>>
  BY DEF CallDtor
<1>2. /\ TypeOK /\ Refs /\ stack[t] # <<>> /\ n \in Nat \ {0}
      /\ Top(t) = F(t, n) /\ Top(t).at = "dtor" /\ DestroyingOK(t, n)
  BY <1>1, AtTop DEF Inv, Labels
<1>3. \/ /\ kind[i] \in {"plain", "external"} \/ shutting
         /\ Goto(t, "free_mi") /\ UNCHANGED <<refct, elem, crashed>>
      \/ UNCHANGED <<refct, elem, stack>>
      \/ /\ ~ (kind[i] = "varsize" /\ data[i] = NULL)
         /\ ReleaseElem(t, IF kind[i] = "varsize" THEN "free_data" ELSE "free_mi")
         /\ UNCHANGED crashed
  BY DEF CallDtor
<1>4. CASE /\ kind[i] \in {"plain", "external"} \/ shutting
           /\ Goto(t, "free_mi") /\ UNCHANGED <<refct, elem, crashed>>
  <2>1. PICK f \in Frames : Become(t, f) /\ Went(F(t, n), f, "free_mi")
    BY <1>1, <1>2, <1>4, GotoBecomes DEF Labels
  <2>2. Turns("dtor", "free_mi")
    BY DEF Turns, Destroying, Making
  <2>3. ~ Kept(f.info) \/ shutting
    <3>1. f.info = i
      BY <1>2, <2>1 DEF Went
    <3>2. QED
      BY <1>4, <3>1 DEF Kept
  <2>4. Owes(0, 0, "dtor", "free_mi", 0, 0, 0, 0)
    BY PlainOwes DEF Uncounted, Unfreed, Undestroyed
  <2>5. /\ UNCHANGED <<heap, kind, data, shutting, enabled>> /\ UNCHANGED <<mi_alloc, mi_free>>
        /\ Ticked(alloc, alloc', 0) /\ Ticked(free, free', 0) /\ 0 \in {0, 1} /\ refct' = refct
    BY <1>1, <1>4 DEF stats, Ticked
  <2>6. QED
    BY <1>2, <2>1, <2>2, <2>3, <2>4, <2>5, GoesLeaks
<1>5. CASE UNCHANGED <<refct, elem, stack>>
  BY <1>1, <1>5, StillLeaks DEF info, stats
<1>6. CASE /\ ~ (kind[i] = "varsize" /\ data[i] = NULL)
           /\ ReleaseElem(t, IF kind[i] = "varsize" THEN "free_data" ELSE "free_mi")
           /\ UNCHANGED crashed
  <2> PICK l : l = IF kind[i] = "varsize" THEN "free_data" ELSE "free_mi"
    OBVIOUS
  <2>1. /\ l \in Labels /\ Releases(Top(t), l) /\ ReleaseElem(t, l)
        /\ l = "free_mi" => kind[Top(t).info] # "varsize"
    BY <1>2, <1>6 DEF Labels, Releases
  <2>2. UNCHANGED <<heap, kind, data, var, shutting, stats, crashed>>
    BY <1>1, <1>6
  <2>3. QED
    BY <1>1, <2>1, <2>2, ReleaseElemLeaks
<1>7. QED
  BY <1>3, <1>4, <1>5, <1>6

-----------------------------------------------------------------------------
(* The actions that take a block or free one.                              *)

(* Every block that had an owner has one after a step of t or is free, and *)
(* every MemInfo that nothing refers to has its destroyer.                 *)
Accounts(t) ==
  /\ \A a \in Addrs : kind[a] # "none" \/ heap[a] = "free" => Safe(a)
  /\ \A i, a \in Addrs : Kept(i) /\ data[i] = a => Safe(a)
  /\ \A d \in 1 .. Depth(t), a \in Addrs : d = Depth(t) =>
       /\ Fresh(t, d) /\ F(t, d).info = a => Safe(a)
       /\ Owning(t, d) /\ F(t, d).data = a => Safe(a)
  /\ \A i \in Addrs : kind'[i] # "none" /\ refct'[i] = 0 =>
       (kind[i] # "none" /\ refct[i] = 0) \/ Doomed(i)'
  /\ \A d \in 1 .. Depth(t), i \in Addrs :
       d = Depth(t) /\ F(t, d).at \in Destroying /\ F(t, d).info = i =>
         kind'[i] = "none" \/ Doomed(i)'

LEMMA MovesLeaks ==
  ASSUME Inv, Leaks, NEW t \in Threads, NEW n, Moved(t, n), n <= Depth(t), Depth(t) <= n + 1,
         NEW e, Mine(t, e), \A i \in Addrs : i # e => data'[i] = data[i],
         UNCHANGED <<shutting, enabled, alloc, free, mi_free>>,
         \A d \in 1 .. n : d >= Depth(t) => Gained(F(t, d))',
         ~ shutting => Accounts(t),
         NEW l, NEW m, l = Where(t), m = Where(t)',
         NEW b \in {-1, 0, 1}, NEW i \in {-1, 0, 1}, Blocks' = Blocks + b, MemInfos' = MemInfos + i,
         NEW ma \in {0, 1}, Ticked(mi_alloc, mi_alloc', ma), Owes(b, i, l, m, 0, 0, ma, 0)
  PROVE  Leaks'
<1>1. /\ TypeOK /\ Refs /\ Stacks /\ n \in Nat /\ Depth(t) \in Nat
      /\ Nested /\ AllGained /\ Counters /\ (shutting \/ Ownership)
  BY DepthType DEF Inv, TypeOK, Stacks, Leaks, Moved
<1>2. Leaves(t)
  BY <1>1, LeavesOne
<1>3. Nested'
  <2>1. ~ (n > Depth(t))
    BY <1>1
  <2>2. QED
    BY <1>1, <2>1, NestedStep
<1>4. AllGained'
  BY <1>1, <1>2, GainedStep
<1>5. ASSUME ~ shutting PROVE NoneLost' /\ AllDoomed'
  <2>1. NoneLost /\ AllDoomed /\ Accounts(t)
    BY <1>1, <1>5 DEF Ownership
  <2>2. NoneLost'
    BY <1>1, <1>2, <2>1, OwnedStep DEF Accounts
  <2>3. AllDoomed'
    BY <1>1, <2>1, DoomedStep DEF Accounts
  <2>4. QED
    BY <2>2, <2>3
<1>6. Counters'
  <2>1. Ticked(alloc, alloc', 0) /\ Ticked(free, free', 0) /\ Ticked(mi_free, mi_free', 0)
        /\ 0 \in {0, 1}
    BY DEF Ticked
  <2>2. \A u \in Threads : u # t => Where(u)' = Where(u)
    BY MovedWhere
  <2>3. QED
    BY <1>1, <2>1, <2>2, Tally
<1>7. QED
  BY <1>3, <1>4, <1>5, <1>6 DEF Leaks, Ownership

(* A block that malloc() returns.                                          *)
LEMMA MallocGives ==
  ASSUME TypeOK, ~ Fails, NEW from \in {"system", "external"}, NEW a \in MaybeAddr, Mallocs(from, a)
  PROVE  /\ a \in Addrs /\ a # NULL /\ heap[a] = "free" /\ heap'[a] = from
         /\ \A c \in Addrs : c # a => heap'[c] = heap[c]
         /\ Blocks' = Blocks + 1
<1>1. a \in Addrs /\ heap[a] = "free" /\ heap' = [heap EXCEPT ![a] = from]
  BY DEF Mallocs
<1>2. heap'[a] = from /\ heap'[a] # "free" /\ \A c \in Addrs : c # a => heap'[c] = heap[c]
  BY <1>1 DEF TypeOK
<1>3. Blocks' = Blocks + 1
  BY <1>1, <1>2, BlocksStep
<1>4. QED
  BY <1>1, <1>2, <1>3

LEMMA SameMemInfos == ASSUME kind' = kind PROVE MemInfos' = MemInfos + 0
<1>1. MemInfos' = MemInfos
  BY DEF MemInfos
<1>2. QED
  BY <1>1, CountsType

(* What keeps its owner when the MemInfos stay as they are.                *)
LEMMA OthersSafe ==
  ASSUME Stacks, NEW t \in Threads, NEW n, Moved(t, n), UNCHANGED <<kind, data>>,
         \A d \in 1 .. n : d >= Depth(t) => ~ SpentAt(F(t, d)')
  PROVE  /\ \A a \in Addrs : kind[a] # "none" => Safe(a)
         /\ \A i, a \in Addrs : Kept(i) /\ data[i] = a => Safe(a)
<1>1. \A a \in Addrs : kind[a] # "none" => Safe(a)
  BY DEF Safe, Owned
<1>2. ASSUME NEW i \in Addrs, NEW a \in Addrs, Kept(i), data[i] = a PROVE Safe(a)
  BY <1>2, KeptStays
<1>3. QED
  BY <1>1, <1>2

LEMMA MallocDataLeaks ==
  ASSUME Inv, Leaks, ~ Fails, NEW t \in Threads, MallocData(t)
  PROVE  Leaks'
<1> PICK n : n = Depth(t)
  OBVIOUS
<1>1. /\ TypeOK /\ Refs /\ At(t, "malloc_data")
      /\ UNCHANGED <<info, var, shutting, stats, crashed>>
  BY DEF Inv, MallocData
<1>2. /\ Stacks /\ stack[t] # <<>> /\ n \in Nat \ {0} /\ Top(t) = F(t, n) /\ Top(t) \in Frames
      /\ F(t, n).at = "malloc_data"
  BY <1>1, AtTop DEF Labels
<1>3. PICK a \in MaybeAddr :
        Mallocs("system", a) /\ Become(t, [Top(t) EXCEPT !.at = "count_data", !.data = a])
  BY DEF MallocData
<1> PICK f : f = [Top(t) EXCEPT !.at = "count_data", !.data = a]
  OBVIOUS
<1>4. f \in Frames /\ f.at = "count_data" /\ f.data = a
  BY <1>2 DEF Frames, Labels
<1>5. Moved(t, n) /\ F(t, n)' = f
  BY <1>2, <1>3, <1>4, BecomeMoves
<1>6. /\ a \in Addrs /\ a # NULL /\ Blocks' = Blocks + 1
      /\ \A c \in Addrs : c # a => heap'[c] = heap[c]
  BY <1>1, <1>3, MallocGives
<1>7. Where(t) = "malloc_data" /\ Where(t)' = "count_data"
  BY <1>2, <1>4, <1>5, TopWhere, NewWhere
<1>8. \A d \in 1 .. n : d >= Depth(t) => d = n
  BY <1>2
<1>9. UNCHANGED <<kind, data, refct, shutting, enabled, alloc, free, mi_alloc, mi_free>>
  BY <1>1 DEF info, stats
<1>10. Gained(F(t, n))'
  BY <1>4, <1>5, <1>6 DEF Gained
<1>11. Accounts(t)
  <2>1. Safe(a)
    <3>1. Owning(t, n)'
      BY <1>4, <1>5, <1>6 DEF Owning, Making
    <3>2. n \in 1 .. Depth(t)'
      BY <1>2, <1>5 DEF Moved
    <3>3. QED
      BY <1>4, <1>5, <3>1, <3>2 DEF Safe, Owned
  <2>2. \A c \in Addrs : heap[c] = "free" => Safe(c)
    BY <1>6, <2>1 DEF Safe
  <2>3. /\ \A c \in Addrs : kind[c] # "none" => Safe(c)
        /\ \A i, c \in Addrs : Kept(i) /\ data[i] = c => Safe(c)
    BY <1>2, <1>4, <1>5, <1>8, <1>9, OthersSafe DEF SpentAt
  <2>4. ~ Fresh(t, n) /\ ~ Owning(t, n) /\ F(t, n).at \notin Destroying
    <3>1. Gained(F(t, n))
      BY <1>2 DEF Leaks, AllGained
    <3>2. QED
      BY <1>2, <3>1 DEF Gained, Fresh, Owning, Destroying
  <2>5. QED
    BY <1>9, <2>2, <2>3, <2>4 DEF Accounts
<1>12. Owes(1, 0, "malloc_data", "count_data", 0, 0, 0, 0)
  BY DEF Owes, Is, Uncounted, Unfreed, Undestroyed
<1>13. MemInfos' = MemInfos + 0 /\ Mine(t, NULL) /\ n <= Depth(t) /\ Depth(t) <= n + 1
  BY <1>1, <1>2, <1>9, SameMemInfos, MineNull
<1>14. Ticked(mi_alloc, mi_alloc', 0)
  BY <1>9 DEF Ticked
<1>15. QED
  BY <1>5, <1>6, <1>7, <1>8, <1>9, <1>10, <1>11, <1>12, <1>13, <1>14, MovesLeaks

LEMMA MallocInfoLeaks ==
  ASSUME Inv, Leaks, ~ Fails, NEW t \in Threads, MallocInfo(t)
  PROVE  Leaks'
<1> PICK n : n = Depth(t)
  OBVIOUS
<1>1. /\ TypeOK /\ Refs /\ At(t, "malloc_mi")
      /\ UNCHANGED <<info, var, shutting, stats, crashed>>
  BY DEF Inv, MallocInfo
<1>2. /\ Stacks /\ stack[t] # <<>> /\ n \in Nat \ {0} /\ Top(t) = F(t, n) /\ Top(t) \in Frames
      /\ F(t, n).at = "malloc_mi"
  BY <1>1, AtTop DEF Labels
<1> PICK from : from = AllocatorOf(Top(t).kind)
  OBVIOUS
<1>3. PICK a \in MaybeAddr :
        Mallocs(from, a) /\ Become(t, [Top(t) EXCEPT !.at = "count_mi", !.info = a])
  BY DEF MallocInfo
<1> PICK f : f = [Top(t) EXCEPT !.at = "count_mi", !.info = a]
  OBVIOUS
<1>4. f \in Frames /\ f.at = "count_mi" /\ f.info = a /\ f.data = F(t, n).data
  BY <1>2 DEF Frames, Labels
<1>5. Moved(t, n) /\ F(t, n)' = f
  BY <1>2, <1>3, <1>4, BecomeMoves
<1>6. /\ a \in Addrs /\ a # NULL /\ Blocks' = Blocks + 1
      /\ \A c \in Addrs : c # a => heap'[c] = heap[c]
  <2>1. from \in {"system", "external"}
    BY DEF AllocatorOf
  <2>2. QED
    BY <1>1, <1>3, <2>1, MallocGives
<1>7. Where(t) = "malloc_mi" /\ Where(t)' = "count_mi"
  <2>1. Where(t) = F(t, n).at
    BY <1>2, TopWhere
  <2>2. n \in Nat \ {0} /\ Moved(t, n) /\ F(t, n)' = f
    BY <1>2, <1>5
  <2>3. Where(t)' = f.at
    BY <2>2, NewWhere
  <2>4. QED
    BY <1>2, <1>4, <2>1, <2>3
<1>8. \A d \in 1 .. n : d >= Depth(t) => d = n
  BY <1>2
<1>9. UNCHANGED <<kind, data, refct, shutting, enabled, alloc, free, mi_alloc, mi_free>>
  BY <1>1 DEF info, stats
<1>10. Gained(F(t, n))'
  BY <1>4, <1>5, <1>6 DEF Gained
<1>11. Accounts(t)
  <2>1. n \in 1 .. Depth(t)'
    BY <1>2, <1>5 DEF Moved
  <2>2. Safe(a)
    <3>1. Fresh(t, n)' /\ F(t, n)'.info = a
      BY <1>4, <1>5, <1>6 DEF Fresh
    <3>2. QED
      BY <2>1, <3>1 DEF Safe, Owned
  <2>3. \A c \in Addrs : heap[c] = "free" => Safe(c)
    BY <1>6, <2>2 DEF Safe
  <2>4. /\ \A c \in Addrs : kind[c] # "none" => Safe(c)
        /\ \A i, c \in Addrs : Kept(i) /\ data[i] = c => Safe(c)
    BY <1>2, <1>4, <1>5, <1>8, <1>9, OthersSafe DEF SpentAt
  <2>5. ~ Fresh(t, n) /\ F(t, n).at \notin Destroying
    BY <1>2 DEF Fresh, Destroying
  <2>6. ASSUME NEW c \in Addrs, Owning(t, n), F(t, n).data = c PROVE Safe(c)
    <3>1. Owning(t, n)' /\ F(t, n)'.data = c
      BY <1>4, <1>5, <2>6 DEF Owning, Making
    <3>2. QED
      BY <2>1, <3>1 DEF Safe, Owned
  <2>7. QED
    BY <1>9, <2>3, <2>4, <2>5, <2>6 DEF Accounts
<1>12. Owes(1, 0, "malloc_mi", "count_mi", 0, 0, 0, 0)
  BY DEF Owes, Is, Uncounted, Unfreed, Undestroyed
<1>13. MemInfos' = MemInfos + 0 /\ Mine(t, NULL) /\ n <= Depth(t) /\ Depth(t) <= n + 1
  BY <1>1, <1>2, <1>9, SameMemInfos, MineNull
<1>14. Ticked(mi_alloc, mi_alloc', 0)
  BY <1>9 DEF Ticked
<1>15. QED
  BY <1>5, <1>6, <1>7, <1>8, <1>9, <1>10, <1>11, <1>12, <1>13, <1>14, MovesLeaks

LEMMA InitInfoLeaks ==
  ASSUME Inv, Leaks, NEW t \in Threads, InitInfo(t)
  PROVE  Leaks'
<1> PICK f : f = Top(t)
  OBVIOUS
<1> PICK i : i = f.info
  OBVIOUS
<1>1. /\ TypeOK /\ Refs /\ Heap /\ At(t, "init")
      /\ refct' = [refct EXCEPT ![i] = 1]
      /\ kind' = [kind EXCEPT ![i] = f.kind]
      /\ data' = [data EXCEPT ![i] = f.data]
      /\ mi_alloc' = Counted(mi_alloc) /\ Return(t)
      /\ UNCHANGED <<heap, shutting, enabled, alloc, free, mi_free>>
  BY DEF Inv, InitInfo
<1>2. /\ Stacks /\ stack[t] # <<>> /\ f = F(t, Depth(t)) /\ f \in Frames
      /\ f.at = "init" /\ MakingOK(t, Depth(t))
  BY <1>1, AtTop DEF Labels
<1>3. /\ Depth(t) = 1 /\ f = F(t, 1) /\ i \in Addrs /\ f.kind \in Kinds
      /\ f.kind # "varsize" => f.data = NULL
  BY <1>2 DEF MakingOK, Making, Frames, MaybeAddr
<1>4. f.kind # "none" /\ f.data \in MaybeAddr
  BY <1>2, <1>3 DEF Frames
<1>5. heap[i] # "free" /\ kind[i] = "none"
  <2>1. 1 \in 1 .. Depth(t) /\ Fresh(t, 1)
    BY <1>2, <1>3 DEF Fresh
  <2>2. heap[i] = AllocatorOf(f.kind) /\ kind[i] = "none"
    BY <1>1, <1>3, <2>1 DEF Heap, FreshOwned
  <2>3. QED
    BY <2>2 DEF AllocatorOf
<1>6. /\ refct'[i] = 1 /\ kind'[i] = f.kind /\ data'[i] = f.data
      /\ \A j \in Addrs : j # i =>
           refct'[j] = refct[j] /\ kind'[j] = kind[j] /\ data'[j] = data[j]
  BY <1>1, <1>3, <1>4 DEF TypeOK
<1>7. Moved(t, 0)
  <2>1. Moved(t, Depth(t) - 1) /\ Depth(t) - 1 = 0
    BY <1>1, <1>2, <1>3, ReturnMoves
  <2>2. QED
    BY <2>1
<1>8. Where(t) = "init" /\ Where(t)' \in Calm
  BY <1>1, <1>2, TopWhere, BackWhere DEF Leaks
<1>9. Mine(t, i) /\ ~ Spent(i)
  <2>1. \A u \in Threads : \A e \in 1 .. Depth(u) : Active(u, e) => F(u, e).info # i
    BY <1>1, <1>5 DEF Refs, FramesOK, DestroyingOK, ResizingOK, Active
  <2>2. QED
    BY <2>1 DEF Mine, Spent, Active, Destroying
<1>10. \A d \in 1 .. 0 : FALSE
  OBVIOUS
<1>11. Accounts(t)
  <2>1. \A a \in Addrs : kind[a] # "none" => Safe(a)
    BY <1>6, <1>5 DEF Safe, Owned
  <2>2. \A a \in Addrs : heap[a] = "free" => Safe(a)
    BY <1>1 DEF Safe
  <2>3. ASSUME NEW j \in Addrs, NEW a \in Addrs, Kept(j), data[j] = a PROVE Safe(a)
    <3>1. j # i
      BY <1>5, <2>3 DEF Kept
    <3>2. kind'[j] = kind[j] /\ data'[j] = a
      BY <1>6, <2>3, <3>1
    <3>3. QED
      BY <1>2, <1>7, <1>10, <2>3, <3>2, KeptStays
  <2>4. Safe(i)
    BY <1>4, <1>6, <1>3 DEF Safe, Owned
  <2>5. ASSUME NEW a \in Addrs, Owning(t, 1), f.data = a PROVE Safe(a)
    <3>1. kind'[i] = "varsize" /\ data'[i] = a /\ a # NULL
      BY <1>3, <1>6, <2>5
    <3>2. ~ Spent(i)'
      <4> SUFFICES ASSUME NEW u \in Threads, NEW d \in 1 .. Depth(u)', F(u, d)'.info = i,
                          F(u, d)'.at \in {"count_free_data", "free_mi"}
                   PROVE  FALSE
        BY DEF Spent
      <4>1. u # t
        BY <1>7 DEF Moved
      <4>2. d \in 1 .. Depth(u) /\ F(u, d)' = F(u, d)
        BY <1>7, <4>1 DEF Moved, F, Depth
      <4>3. QED
        BY <1>9, <4>2 DEF Spent
    <3>3. Kept(i)'
      BY <3>1, <3>2 DEF Kept
    <3>4. QED
      BY <1>3, <3>1, <3>3 DEF Safe, Owned
  <2>6. \A j \in Addrs : kind'[j] # "none" /\ refct'[j] = 0 => kind[j] # "none" /\ refct[j] = 0
    BY <1>6
  <2>7. f.at \notin Destroying /\ \A d \in 1 .. Depth(t) : d = Depth(t) => d = 1
    BY <1>2, <1>3 DEF Destroying
  <2>8. QED
    BY <1>3, <2>1, <2>2, <2>3, <2>4, <2>5, <2>6, <2>7 DEF Accounts
<1>12. ASSUME NEW m \in Calm PROVE Owes(0, 1, "init", m, 0, 0, 1, 0)
  <2>1. Is("init", Uncounted) = 0 /\ Is("init", Unfreed) = 0 /\ Is("init", Undestroyed) = 0
    BY DEF Is, Uncounted, Unfreed, Undestroyed
  <2>2. QED
    BY <2>1, CalmOwes DEF Owes
<1>13. Blocks' = Blocks + 0 /\ MemInfos' = MemInfos + 1
  <2>1. Blocks' = Blocks
    BY <1>1 DEF Blocks
  <2>2. MemInfos' = MemInfos + 1
    BY <1>3, <1>4, <1>5, <1>6, MemInfosStep
  <2>3. QED
    BY <2>1, <2>2, CountsType
<1>14. Ticked(mi_alloc, mi_alloc', 1) /\ 0 <= Depth(t) /\ Depth(t) <= 0 + 1
  BY <1>1, <1>3 DEF Ticked
<1>15. QED
  BY <1>1, <1>6, <1>7, <1>8, <1>9, <1>10, <1>11, <1>12, <1>13, <1>14, MovesLeaks

(* A block that is freed.                                                  *)
LEMMA FreeTakes ==
  ASSUME TypeOK, NEW from, from # "free", NEW b \in Addrs, heap[b] = from, Frees(from, b)
  PROVE  /\ heap'[b] = "free" /\ Blocks' = Blocks + (-1)
         /\ \A c \in Addrs : c # b => heap'[c] = heap[c]
<1>1. heap'[b] = "free" /\ \A c \in Addrs : c # b => heap'[c] = heap[c]
  BY DEF Frees, TypeOK
<1>2. Blocks \in Nat /\ Blocks' = Blocks + 0 - 1
  BY <1>1, BlocksStep
<1>3. QED
  BY <1>1, <1>2

LEMMA FreeDataLeaks ==
  ASSUME Inv, Leaks, NEW t \in Threads, FreeData(t)
  PROVE  Leaks'
<1> PICK n : n = Depth(t)
  OBVIOUS
<1> PICK i : i = Top(t).info
  OBVIOUS
<1> PICK b : b = data[i]
  OBVIOUS
<1>1. /\ TypeOK /\ Refs /\ Heap /\ At(t, "free_data") /\ Frees("system", b)
      /\ UNCHANGED <<info, var, shutting, stats, crashed>>
  BY DEF Inv, FreeData
<1>2. /\ Stacks /\ stack[t] # <<>> /\ n \in Nat \ {0} /\ Top(t) = F(t, n)
      /\ F(t, n).at = "free_data" /\ DestroyingOK(t, n)
  BY <1>1, AtTop DEF Labels
<1>3. PICK f \in Frames : Become(t, f) /\ Went(F(t, n), f, "count_free_data")
  BY <1>1, GotoBecomes DEF FreeData, Labels
<1>4. f.at = "count_free_data" /\ f.info = i /\ F(t, n).info = i
  BY <1>2, <1>3 DEF Went
<1>5. Moved(t, n) /\ F(t, n)' = f
  BY <1>2, <1>3, BecomeMoves
<1>6. i \in Addrs /\ b \in Addrs /\ heap[b] = "system" /\ kind[b] = "none"
  <2>1. ~ Spent(i)
    BY <1>1, <1>2, <1>4, Unspent DEF Destroying, SpentAt
  <2>2. i \in Addrs /\ kind[i] = "varsize" /\ b \in Addrs /\ Kept(i)
    BY <1>1, <1>2, <1>4, <2>1 DEF DestroyingOK, Destroying, TypeOK, MaybeAddr, Kept
  <2>3. QED
    BY <1>1, <2>2 DEF Heap, DataOwned
<1>7. /\ heap'[b] = "free" /\ Blocks' = Blocks + (-1)
      /\ \A c \in Addrs : c # b => heap'[c] = heap[c]
  <2>1. TypeOK /\ b \in Addrs /\ heap[b] = "system" /\ Frees("system", b)
    BY <1>1, <1>6
  <2>2. QED
    BY <2>1, FreeTakes
<1>8. Where(t) = "free_data" /\ Where(t)' = "count_free_data"
  BY <1>2, <1>3, <1>4, <1>5, TopWhere, NewWhere
<1>9. \A d \in 1 .. n : d >= Depth(t) => d = n
  BY <1>2
<1>10. UNCHANGED <<kind, data, refct, shutting, enabled, alloc, free, mi_alloc, mi_free>>
  BY <1>1 DEF info, stats
<1>11. Gained(F(t, n))'
  BY <1>4, <1>5 DEF Gained
<1>12. Accounts(t)
  <2>1. \A a \in Addrs : kind[a] # "none" \/ heap[a] = "free" => Safe(a)
    <3>1. \A a \in Addrs : heap[a] = "free" => heap'[a] = "free"
      BY <1>7
    <3>2. QED
      BY <1>10, <3>1 DEF Safe, Owned
  <2>2. ASSUME NEW j \in Addrs, NEW a \in Addrs, Kept(j), data[j] = a PROVE Safe(a)
    <3>1. CASE j = i
      BY <1>7, <2>2, <3>1 DEF Safe
    <3>2. CASE j # i
      <4>1. \A d \in 1 .. n : d >= Depth(t) => F(t, d)'.info # j
        BY <1>4, <1>5, <1>9, <3>2
      <4>2. QED
        BY <1>2, <1>5, <1>10, <2>2, <4>1, KeptStays
    <3>3. QED
      BY <3>1, <3>2
  <2>3. ~ Fresh(t, n) /\ ~ Owning(t, n)
    BY <1>2 DEF Fresh, Owning, Making
  <2>4. Doomed(i)'
    <3>1. n \in 1 .. Depth(t)' /\ "count_free_data" \in Destroying
      BY <1>2, <1>5 DEF Moved, Destroying
    <3>2. QED
      BY <1>4, <1>5, <3>1 DEF Doomed
  <2>5. \A d \in 1 .. Depth(t) : d = Depth(t) => d = n
    OBVIOUS
  <2>6. QED
    BY <1>4, <1>10, <2>1, <2>2, <2>3, <2>4, <2>5 DEF Accounts
<1>13. Owes(-1, 0, "free_data", "count_free_data", 0, 0, 0, 0)
  BY DEF Owes, Is, Uncounted, Unfreed, Undestroyed
<1>14. MemInfos' = MemInfos + 0 /\ Mine(t, NULL) /\ n <= Depth(t) /\ Depth(t) <= n + 1
  BY <1>1, <1>2, <1>10, SameMemInfos, MineNull
<1>15. Ticked(mi_alloc, mi_alloc', 0)
  BY <1>10 DEF Ticked
<1>16. QED
  BY <1>5, <1>7, <1>8, <1>9, <1>10, <1>11, <1>12, <1>13, <1>14, <1>15, MovesLeaks

LEMMA FreeInfoLeaks ==
  ASSUME Inv, Leaks, NEW t \in Threads, FreeInfo(t)
  PROVE  Leaks'
<1> PICK n : n = Depth(t)
  OBVIOUS
<1> PICK i : i = Top(t).info
  OBVIOUS
<1>1. /\ TypeOK /\ Refs /\ Heap /\ At(t, "free_mi") /\ Frees(AllocatorOf(kind[i]), i)
      /\ refct' = [refct EXCEPT ![i] = 0]
      /\ kind' = [kind EXCEPT ![i] = "none"]
      /\ data' = [data EXCEPT ![i] = NULL]
      /\ UNCHANGED <<var, shutting, stats, crashed>>
  BY DEF Inv, FreeInfo
<1>2. /\ Stacks /\ stack[t] # <<>> /\ n \in Nat \ {0} /\ Top(t) = F(t, n)
      /\ F(t, n).at = "free_mi" /\ DestroyingOK(t, n)
  BY <1>1, AtTop DEF Labels
<1>3. PICK f \in Frames : Become(t, f) /\ Went(F(t, n), f, "count_free_mi")
  BY <1>1, GotoBecomes DEF FreeInfo, Labels
<1>4. f.at = "count_free_mi" /\ F(t, n).info = i
  BY <1>2, <1>3 DEF Went
<1>5. Moved(t, n) /\ F(t, n)' = f
  BY <1>2, <1>3, BecomeMoves
<1>6. Mine(t, i)
  BY <1>1, <1>2, <1>4, MineTop DEF Destroying
<1>7. i \in Addrs /\ kind[i] # "none" /\ heap[i] = AllocatorOf(kind[i])
  BY <1>1, <1>2, <1>4 DEF DestroyingOK, Destroying, Heap, InfosOwned
<1>8. /\ heap'[i] = "free" /\ Blocks' = Blocks + (-1)
      /\ \A c \in Addrs : c # i => heap'[c] = heap[c]
  <2>1. AllocatorOf(kind[i]) # "free"
    BY DEF AllocatorOf
  <2>2. /\ TypeOK /\ i \in Addrs /\ heap[i] = AllocatorOf(kind[i])
        /\ Frees(AllocatorOf(kind[i]), i)
    BY <1>1, <1>7
  <2>3. QED
    BY <2>1, <2>2, FreeTakes
<1>9. /\ kind'[i] = "none"
      /\ \A j \in Addrs : j # i =>
           refct'[j] = refct[j] /\ kind'[j] = kind[j] /\ data'[j] = data[j]
  BY <1>1, <1>7 DEF TypeOK
<1>10. Where(t) = "free_mi" /\ Where(t)' = "count_free_mi"
  BY <1>2, <1>3, <1>4, <1>5, TopWhere, NewWhere
<1>11. \A d \in 1 .. n : d >= Depth(t) => d = n
  BY <1>2
<1>12. Gained(F(t, n))'
  BY <1>4, <1>5 DEF Gained
<1>13. Accounts(t)
  <2>1. \A a \in Addrs : kind[a] # "none" \/ heap[a] = "free" => Safe(a)
    <3>1. \A a \in Addrs : heap[a] = "free" => heap'[a] = "free"
      BY <1>8
    <3>2. \A a \in Addrs : kind[a] # "none" => heap'[a] = "free" \/ kind'[a] # "none"
      BY <1>8, <1>9
    <3>3. QED
      BY <3>1, <3>2 DEF Safe, Owned
  <2>2. ASSUME NEW j \in Addrs, NEW a \in Addrs, Kept(j), data[j] = a PROVE Safe(a)
    <3>1. Spent(i)
      <4>1. n \in 1 .. Depth(t)
        BY <1>2
      <4>2. QED
        BY <1>2, <1>4, <4>1 DEF Spent
    <3>2. j # i
      BY <2>2, <3>1 DEF Kept
    <3>3. kind'[j] = kind[j] /\ data'[j] = a
      BY <1>9, <2>2, <3>2
    <3>4. \A d \in 1 .. n : d >= Depth(t) /\ SpentAt(F(t, d)') => F(t, d)'.info # j
      BY <1>4, <1>5, <1>11 DEF SpentAt
    <3>5. QED
      BY <1>2, <1>5, <2>2, <3>3, <3>4, KeptStays
  <2>3. ~ Fresh(t, n) /\ ~ Owning(t, n)
    BY <1>2 DEF Fresh, Owning, Making
  <2>4. \A j \in Addrs : kind'[j] # "none" /\ refct'[j] = 0 => kind[j] # "none" /\ refct[j] = 0
    BY <1>9
  <2>5. \A d \in 1 .. Depth(t) : d = Depth(t) => d = n
    OBVIOUS
  <2>6. QED
    BY <1>4, <1>9, <2>1, <2>2, <2>3, <2>4, <2>5 DEF Accounts
<1>14. Owes(-1, -1, "free_mi", "count_free_mi", 0, 0, 0, 0)
  BY DEF Owes, Is, Uncounted, Unfreed, Undestroyed
<1>15. MemInfos' = MemInfos + (-1)
  <2>1. MemInfos \in Nat /\ MemInfos' = MemInfos + 0 - 1
    BY <1>7, <1>9, MemInfosStep
  <2>2. QED
    BY <2>1
<1>16. UNCHANGED <<shutting, enabled, alloc, free, mi_free>> /\ Ticked(mi_alloc, mi_alloc', 0)
       /\ n <= Depth(t) /\ Depth(t) <= n + 1 /\ \A j \in Addrs : j # i => data'[j] = data[j]
  BY <1>1, <1>2, <1>9 DEF Ticked, stats
<1>17. QED
  BY <1>5, <1>6, <1>8, <1>10, <1>11, <1>12, <1>13, <1>14, <1>15, <1>16, MovesLeaks

LEMMA VarsizeAllocLeaks ==
  ASSUME Inv, Leaks, ~ Fails, NEW t \in Threads, VarsizeAlloc(t)
  PROVE  Leaks'
<1> PICK n : n = Depth(t)
  OBVIOUS
<1> PICK i : i = Top(t).info
  OBVIOUS
<1>1. /\ TypeOK /\ Refs /\ Heap /\ At(t, "varsize_alloc")
      /\ UNCHANGED <<refct, kind, elem, var, shutting, stats, crashed>>
  BY DEF Inv, VarsizeAlloc
<1>2. /\ Stacks /\ stack[t] # <<>> /\ n \in Nat \ {0} /\ Top(t) = F(t, n)
      /\ F(t, n).at = "varsize_alloc" /\ ResizingOK(t, n)
  BY <1>1, AtTop DEF Labels
<1>3. PICK a \in MaybeAddr : Mallocs("system", a) /\ data' = [data EXCEPT ![i] = a]
  BY DEF VarsizeAlloc
<1>4. PICK f \in Frames : Become(t, f) /\ Went(F(t, n), f, "count_varsize_alloc")
  BY <1>1, GotoBecomes DEF VarsizeAlloc, Labels
<1>5. f.at = "count_varsize_alloc" /\ f.info = i /\ F(t, n).info = i /\ f.data = F(t, n).data
  BY <1>2, <1>4 DEF Went
<1>6. Moved(t, n) /\ F(t, n)' = f
  BY <1>2, <1>4, BecomeMoves
<1>7. i \in Addrs /\ kind[i] = "varsize" /\ f.data = data[i]
  BY <1>2, <1>5 DEF ResizingOK, Resizing
<1>8. Mine(t, i) /\ ~ Spent(i)
  BY <1>1, <1>2, <1>5, MineTop, Unspent DEF Resizing, SpentAt
<1>9. /\ a \in Addrs /\ a # NULL /\ heap[a] = "free" /\ Blocks' = Blocks + 1
      /\ \A c \in Addrs : c # a => heap'[c] = heap[c]
  BY <1>1, <1>3, MallocGives
<1>10. data'[i] = a /\ \A j \in Addrs : j # i => data'[j] = data[j]
  BY <1>1, <1>3, <1>7 DEF TypeOK
<1>11. Where(t) = "varsize_alloc" /\ Where(t)' = "count_varsize_alloc"
  BY <1>2, <1>5, <1>6, TopWhere, NewWhere
<1>12. \A d \in 1 .. n : d >= Depth(t) => d = n
  BY <1>2
<1>13. Gained(F(t, n))'
  BY <1>5, <1>6, <1>9, <1>10 DEF Gained
<1>14. n \in 1 .. Depth(t)'
  BY <1>2, <1>6 DEF Moved
<1>15. Accounts(t)
  <2>1. Safe(a)
    <3>1. ~ Spent(i)'
      <4> SUFFICES ASSUME NEW u \in Threads, NEW d \in 1 .. Depth(u)', F(u, d)'.info = i,
                          SpentAt(F(u, d)')
                   PROVE  FALSE
        BY DEF Spent, SpentAt
      <4>1. CASE Bystander(t, u, d)
        <5>1. Depth(t) <= n + 1
          BY <1>2
        <5>2. F(u, d)' = F(u, d) /\ u \in Threads /\ d \in 1 .. Depth(u)
          BY <1>2, <1>6, <4>1, <5>1, BystanderFacts DEF Bystander
        <5>3. QED
          BY <1>8, <5>2 DEF Spent, SpentAt
      <4>2. CASE u = t /\ d >= Depth(t) /\ d <= n /\ d \in Nat
        <5>1. d = n
          BY <1>2, <4>2
        <5>2. QED
          BY <1>5, <1>6, <4>2, <5>1 DEF SpentAt
      <4>3. QED
        BY <1>2, <1>6, <4>1, <4>2, FrameCases
    <3>2. Kept(i)'
      BY <1>1, <1>7, <1>9, <1>10, <3>1 DEF Kept
    <3>3. QED
      BY <1>7, <1>10, <3>2 DEF Safe, Owned
  <2>2. \A c \in Addrs : kind[c] # "none" \/ heap[c] = "free" => Safe(c)
    BY <1>1, <1>9, <2>1 DEF Safe, Owned
  <2>3. ASSUME NEW j \in Addrs, NEW c \in Addrs, Kept(j), data[j] = c PROVE Safe(c)
    <3>1. CASE j = i
      <4>1. c # a /\ c # NULL
        BY <1>1, <1>9, <2>3 DEF Heap, DataOwned, Kept
      <4>2. Owning(t, n)' /\ F(t, n)'.data = c
        BY <1>5, <1>6, <1>7, <1>10, <2>3, <3>1, <4>1 DEF Owning
      <4>3. QED
        BY <1>14, <4>2 DEF Safe, Owned
    <3>2. CASE j # i
      <4>1. kind'[j] = kind[j] /\ data'[j] = c
        BY <1>1, <1>10, <2>3, <3>2
      <4>2. \A d \in 1 .. n : d >= Depth(t) /\ SpentAt(F(t, d)') => F(t, d)'.info # j
        BY <1>5, <1>6, <1>12 DEF SpentAt
      <4>3. QED
        BY <1>2, <1>6, <2>3, <4>1, <4>2, KeptStays
    <3>3. QED
      BY <3>1, <3>2
  <2>4. ~ Fresh(t, n) /\ ~ Owning(t, n) /\ F(t, n).at \notin Destroying
    BY <1>2 DEF Fresh, Owning, Making, Destroying
  <2>5. \A d \in 1 .. Depth(t) : d = Depth(t) => d = n
    OBVIOUS
  <2>6. QED
    BY <1>1, <2>2, <2>3, <2>4, <2>5 DEF Accounts
<1>16. Owes(1, 0, "varsize_alloc", "count_varsize_alloc", 0, 0, 0, 0)
  BY DEF Owes, Is, Uncounted, Unfreed, Undestroyed
<1>17. MemInfos' = MemInfos + 0
  BY <1>1, SameMemInfos
<1>18. UNCHANGED <<shutting, enabled, alloc, free, mi_free>> /\ Ticked(mi_alloc, mi_alloc', 0)
       /\ n <= Depth(t) /\ Depth(t) <= n + 1
  BY <1>1, <1>2 DEF Ticked, stats
<1>19. QED
  BY <1>6, <1>8, <1>9, <1>10, <1>11, <1>12, <1>13, <1>15, <1>16, <1>17, <1>18, MovesLeaks

LEMMA VarsizeFreeLeaks ==
  ASSUME Inv, Leaks, NEW t \in Threads, VarsizeFree(t)
  PROVE  Leaks'
<1> PICK n : n = Depth(t)
  OBVIOUS
<1> PICK i : i = Top(t).info
  OBVIOUS
<1> PICK b : b = Top(t).data
  OBVIOUS
<1>1. /\ TypeOK /\ Refs /\ Heap /\ At(t, "varsize_free") /\ Frees("system", b)
      /\ data' = [data EXCEPT ![i] = IF @ = b THEN NULL ELSE @]
      /\ UNCHANGED <<refct, kind, elem, var, shutting, stats, crashed>>
  BY DEF Inv, VarsizeFree
<1>2. /\ Stacks /\ stack[t] # <<>> /\ n \in Nat \ {0} /\ Top(t) = F(t, n) /\ Top(t) \in Frames
      /\ F(t, n).at = "varsize_free" /\ F(t, n).data = b /\ ResizingOK(t, n)
  BY <1>1, AtTop DEF Labels
<1>3. PICK f \in Frames : Become(t, f) /\ Went(F(t, n), f, "count_varsize_free")
  BY <1>1, GotoBecomes DEF VarsizeFree, Labels
<1>4. f.at = "count_varsize_free" /\ F(t, n).info = i
  BY <1>2, <1>3 DEF Went
<1>5. Moved(t, n) /\ F(t, n)' = f
  BY <1>2, <1>3, BecomeMoves
<1>6. Mine(t, i) /\ ~ Spent(i)
  BY <1>1, <1>2, <1>4, MineTop, Unspent DEF Resizing, SpentAt
<1>7. i \in Addrs /\ kind[i] = "varsize" /\ b \in Addrs /\ b # NULL
  BY <1>1, <1>2, <1>4 DEF ResizingOK, Resizing, Frames, MaybeAddr
<1>8. /\ data'[i] = IF data[i] = b THEN NULL ELSE data[i]
      /\ \A j \in Addrs : j # i => data'[j] = data[j]
  BY <1>1, <1>7 DEF TypeOK
<1>9. heap[b] = "system"
  <2>1. CASE data[i] = b
    BY <1>1, <1>6, <1>7, <2>1 DEF Kept, Heap, DataOwned
  <2>2. CASE data[i] # b
    <3>1. Owning(t, n) /\ n \in 1 .. Depth(t)
      BY <1>2, <1>4, <1>7, <2>2 DEF Owning
    <3>2. QED
      BY <1>1, <1>2, <3>1 DEF Heap, BlocksOwned
  <2>3. QED
    BY <2>1, <2>2
<1>10. /\ heap'[b] = "free" /\ Blocks' = Blocks + (-1)
       /\ \A c \in Addrs : c # b => heap'[c] = heap[c]
  <2>1. TypeOK /\ b \in Addrs /\ heap[b] = "system" /\ Frees("system", b)
    BY <1>1, <1>7, <1>9
  <2>2. QED
    BY <2>1, FreeTakes
<1>11. Where(t) = "varsize_free" /\ Where(t)' = "count_varsize_free"
  BY <1>2, <1>3, <1>4, <1>5, TopWhere, NewWhere
<1>12. \A d \in 1 .. n : d >= Depth(t) => d = n
  BY <1>2
<1>13. Gained(F(t, n))'
  BY <1>4, <1>5 DEF Gained
<1>14. Accounts(t)
  <2>1. \A a \in Addrs : kind[a] # "none" \/ heap[a] = "free" => Safe(a)
    <3>1. \A a \in Addrs : heap[a] = "free" => heap'[a] = "free"
      BY <1>10
    <3>2. QED
      BY <1>1, <3>1 DEF Safe, Owned
  <2>2. Safe(b)
    BY <1>10 DEF Safe
  <2>3. ASSUME NEW j \in Addrs, NEW a \in Addrs, Kept(j), data[j] = a, a # b PROVE Safe(a)
    <3>1. kind'[j] = kind[j] /\ data'[j] = a
      BY <1>1, <1>8, <2>3
    <3>2. \A d \in 1 .. n : d >= Depth(t) /\ SpentAt(F(t, d)') => F(t, d)'.info # j
      BY <1>4, <1>5, <1>12 DEF SpentAt
    <3>3. QED
      BY <1>2, <1>5, <2>3, <3>1, <3>2, KeptStays
  <2>4. ~ Fresh(t, n) /\ F(t, n).at \notin Destroying
    BY <1>2 DEF Fresh, Destroying
  <2>5. \A d \in 1 .. Depth(t) : d = Depth(t) => d = n
    OBVIOUS
  <2>6. QED
    BY <1>1, <1>2, <2>1, <2>2, <2>3, <2>4, <2>5 DEF Accounts
<1>15. Owes(-1, 0, "varsize_free", "count_varsize_free", 0, 0, 0, 0)
  BY DEF Owes, Is, Uncounted, Unfreed, Undestroyed
<1>16. MemInfos' = MemInfos + 0
  BY <1>1, SameMemInfos
<1>17. UNCHANGED <<shutting, enabled, alloc, free, mi_free>> /\ Ticked(mi_alloc, mi_alloc', 0)
       /\ n <= Depth(t) /\ Depth(t) <= n + 1
  BY <1>1, <1>2 DEF Ticked, stats
<1>18. QED
  BY <1>5, <1>6, <1>8, <1>10, <1>11, <1>12, <1>13, <1>14, <1>15, <1>16, <1>17, MovesLeaks

LEMMA ResizeListLeaks ==
  ASSUME Inv, Leaks, ~ Fails, NEW t \in Threads, NEW v \in Own(t), ResizeList(t, v)
  PROVE  Leaks'
<1> PICK i : i = var[v]
  OBVIOUS
<1> PICK old : old = data[i]
  OBVIOUS
<1>1. /\ TypeOK /\ Refs /\ Heap /\ Idle(t) /\ v \in Vars /\ i # NULL
      /\ kind[i] = "varsize" /\ old # NULL /\ ~ Busy(i)
      /\ UNCHANGED <<refct, kind, elem, var, stack, shutting, stats, crashed>>
  BY DEF Inv, ResizeList, MayResize, Own
<1>2. Stacks /\ stack[t] = <<>> /\ Depth(t) = 0
  BY <1>1, IdleDepth
<1>3. i \in Addrs /\ old \in Addrs
  BY <1>1 DEF TypeOK, MaybeAddr
<1>4. Mine(t, i) /\ Kept(i)
  BY <1>1, <1>3, NotBusy DEF Kept
<1>5. heap[old] = "system"
  BY <1>1, <1>3, <1>4 DEF Heap, DataOwned
<1>6. PICK a \in Addrs : /\ heap[a] = "free" \/ a = old
                         /\ heap' = [heap EXCEPT ![old] = "free", ![a] = "system"]
                         /\ data' = [data EXCEPT ![i] = a]
  BY DEF ResizeList
<1>7. CASE a = old
  <2>1. heap' = heap /\ data' = data
    BY <1>1, <1>3, <1>5, <1>6, <1>7 DEF TypeOK
  <2>2. QED
    BY <1>1, <2>1, StillLeaks DEF info, stats
<1>8. CASE a # old
  <2>1. /\ heap[a] = "free" /\ heap'[a] = "system" /\ heap'[old] = "free"
        /\ \A c \in Addrs : c # a /\ c # old => heap'[c] = heap[c]
    BY <1>1, <1>3, <1>6, <1>8 DEF TypeOK
  <2>2. data'[i] = a /\ \A j \in Addrs : j # i => data'[j] = data[j]
    BY <1>1, <1>3, <1>6 DEF TypeOK
  <2>3. Moved(t, 0)
    BY <1>1, <1>2 DEF Moved, Stacks, Depth
  <2>4. Where(t) = "idle" /\ Where(t)' = "idle"
    BY <1>1, <1>2 DEF Where
  <2>5. Blocks' = Blocks + 0
    <3> PICK S : S = {c \in Addrs : heap[c] # "free"}
      OBVIOUS
    <3> PICK T : T = {c \in Addrs : heap'[c] # "free"}
      OBVIOUS
    <3>1. AlikeBut(S, S \cup {a}, a) /\ AlikeBut(S \cup {a}, T, old)
      <4>1. IsFiniteSet(S)
        BY FS_Subset
      <4>2. IsFiniteSet(S \cup {a})
        BY <4>1, FS_AddElement
      <4>3. T \ {old} = (S \cup {a}) \ {old}
        BY <2>1
      <4>4. QED
        BY <4>1, <4>2, <4>3 DEF AlikeBut
    <3>2. a \notin S /\ old \in S \cup {a} /\ old \notin T
      BY <1>3, <1>5, <2>1
    <3>3. /\ Cardinality(S) \in Nat /\ Cardinality(S \cup {a}) = Cardinality(S) + 1 - 0
      BY <3>1, <3>2, SetSteps
    <3>4. Cardinality(T) = Cardinality(S \cup {a}) + 0 - 1
      BY <3>1, <3>2, SetSteps
    <3>5. Blocks = Cardinality(S) /\ Blocks' = Cardinality(T)
      BY DEF Blocks
    <3>6. QED
      BY <3>3, <3>4, <3>5
  <2>6. \A j \in Addrs : Spent(j)' <=> Spent(j)
    BY <1>1 DEF Spent, F, Depth
  <2>7. Accounts(t)
    <3>1. Safe(a)
      <4>1. Kept(i)'
        BY <1>1, <1>3, <1>4, <2>2, <2>6 DEF Kept
      <4>2. QED
        BY <1>3, <2>2, <4>1 DEF Safe, Owned
    <3>2. \A c \in Addrs : kind[c] # "none" \/ heap[c] = "free" => Safe(c)
      BY <1>1, <1>5, <2>1, <3>1 DEF Safe, Owned
    <3>3. ASSUME NEW j \in Addrs, NEW c \in Addrs, Kept(j), data[j] = c PROVE Safe(c)
      <4>1. CASE j = i
        BY <2>1, <3>3, <4>1 DEF Safe
      <4>2. CASE j # i
        <5>1. Kept(j)' /\ data'[j] = c
          BY <1>1, <2>2, <2>6, <3>3, <4>2 DEF Kept
        <5>2. QED
          BY <5>1 DEF Safe, Owned
      <4>3. QED
        BY <4>1, <4>2
    <3>4. \A d \in 1 .. Depth(t) : FALSE
      BY <1>2
    <3>5. QED
      BY <1>1, <3>2, <3>3, <3>4 DEF Accounts
  <2>8. Owes(0, 0, "idle", "idle", 0, 0, 0, 0)
    BY PlainOwes DEF Uncounted, Unfreed, Undestroyed
  <2>9. MemInfos' = MemInfos + 0
    BY <1>1, SameMemInfos
  <2>10. UNCHANGED <<shutting, enabled, alloc, free, mi_free>> /\ Ticked(mi_alloc, mi_alloc', 0)
         /\ 0 <= Depth(t) /\ Depth(t) <= 0 + 1 /\ \A d \in 1 .. 0 : FALSE
    BY <1>1, <1>2 DEF Ticked, stats
  <2>11. QED
    BY <1>4, <2>2, <2>3, <2>4, <2>5, <2>7, <2>8, <2>9, <2>10, MovesLeaks
<1>9. QED
  BY <1>7, <1>8

(* No thread is inside the runtime, and no block is allocated.             *)
LEMMA NothingCounted ==
  ASSUME InfosOwned, \A t \in Threads : stack[t] = <<>>, \A a \in Addrs : heap[a] = "free"
  PROVE  Blocks = 0 /\ MemInfos = 0 /\ \A L : "idle" \notin L => Waiting(L) = 0
<1>1. {a \in Addrs : heap[a] # "free"} = {}
  OBVIOUS
<1>2. {a \in Addrs : kind[a] # "none"} = {}
  BY DEF InfosOwned, AllocatorOf
<1>3. \A L : "idle" \notin L => {t \in Threads : Where(t) \in L} = {}
  BY DEF Where
<1>4. QED
  BY <1>1, <1>2, <1>3, FS_EmptySet DEF Blocks, MemInfos, Waiting

LEMMA EnableStatsLeaks ==
  ASSUME Inv, Leaks, EnableStats
  PROVE  Leaks'
<1>1. /\ ~ enabled /\ enabled' = TRUE /\ \A t \in Threads : Idle(t)
      /\ \A a \in Addrs : heap[a] = "free"
      /\ UNCHANGED <<heap, info, stack, shutting, alloc, free, mi_alloc, mi_free>>
  BY DEF EnableStats
<1>2. Nested' /\ AllGained' /\ (shutting' \/ Ownership')
  BY <1>1, StillOwners
<1>3. alloc' = 0 /\ free' = 0 /\ mi_alloc' = 0 /\ mi_free' = 0
  BY <1>1 DEF Leaks, Counters
<1>4. Blocks' = 0 /\ MemInfos' = 0 /\ Waiting(Uncounted)' = 0 /\ Waiting(Unfreed)' = 0
      /\ Waiting(Undestroyed)' = 0
  <2>1. Blocks = 0 /\ MemInfos = 0 /\ \A L : "idle" \notin L => Waiting(L) = 0
    BY <1>1, NothingCounted DEF Inv, Heap, Idle
  <2>2. Waiting(Uncounted) = 0 /\ Waiting(Unfreed) = 0 /\ Waiting(Undestroyed) = 0
    BY <2>1 DEF Uncounted, Unfreed, Undestroyed
  <2>3. Waiting(Uncounted)' = Waiting(Uncounted) /\ Waiting(Unfreed)' = Waiting(Unfreed)
        /\ Waiting(Undestroyed)' = Waiting(Undestroyed)
    BY <1>1 DEF Waiting, Where, Top, Uncounted, Unfreed, Undestroyed
  <2>4. Blocks' = Blocks /\ MemInfos' = MemInfos
    BY <1>1 DEF Blocks, MemInfos, info
  <2>5. QED
    BY <2>1, <2>2, <2>3, <2>4
<1>5. Same(0, 0)
  BY SameSelf
<1>6. Balanced'
  <2>1. 0 - 0 = 0 /\ 0 - 0 + 0 = 0 /\ 0 + 0 = 0
    OBVIOUS
  <2>2. QED
    BY <1>3, <1>4, <1>5, <2>1 DEF Balanced, Same
<1>7. QED
  BY <1>1, <1>2, <1>6 DEF Leaks, Counters

-----------------------------------------------------------------------------
(* No block is lost and the counters tell.                                 *)

LEMMA InitLeaks == Init => Leaks
<1> SUFFICES ASSUME Init PROVE Leaks
  OBVIOUS
<1>1. \A t \in Threads : Depth(t) = 0
  BY DEF Init, Depth
<1>2. \A t \in Threads : \A d \in 1 .. Depth(t) : FALSE
  BY <1>1
<1>3. Nested /\ AllGained
  BY <1>2 DEF Nested, AllGained
<1>4. Counters /\ Ownership
  BY DEF Init, Counters, Ownership, NoneLost, AllDoomed
<1>5. QED
  BY <1>3, <1>4 DEF Leaks

LEMMA RuntimeLeaks ==
  ASSUME Inv, Leaks, ~ Fails, NEW t \in Threads, RuntimeStep(t)
  PROVE  Leaks'
BY MallocDataLeaks, CountDataLeaks, MallocInfoLeaks, CountInfoLeaks, InitInfoLeaks, CallDtorLeaks,
   FreeDataLeaks, CountFreeDataLeaks, FreeInfoLeaks, CountFreeInfoLeaks, CountDestroyedLeaks,
   ReleaseEntriesLeaks, VarsizeAllocLeaks, CountVarsizeAllocLeaks, VarsizeFreeLeaks,
   CountVarsizeFreeLeaks DEF RuntimeStep

LEMMA NextLeaks ==
  ASSUME ~ Fails
  PROVE  Inv /\ Leaks /\ [Next]_vars => Leaks'
<1> SUFFICES ASSUME Inv, Leaks, [Next]_vars PROVE Leaks'
  OBVIOUS
<1>1. CASE EnableStats
  BY <1>1, EnableStatsLeaks
<1>2. CASE Shutdown
  BY <1>2, StillLeaks DEF Shutdown, stats
<1>3. ASSUME NEW t \in Threads, RuntimeStep(t) PROVE Leaks'
  BY <1>3, RuntimeLeaks
<1>4. ASSUME NEW t \in Threads, NEW v \in Own(t), NEW k \in Kinds, New(t, v, k) PROVE Leaks'
  BY <1>4, NewLeaks
<1>5. ASSUME NEW t \in Threads, NEW v \in Own(t), NEW i \in Addrs, Acquire(t, v, i) PROVE Leaks'
  BY <1>5, AcquireLeaks
<1>6. ASSUME NEW t \in Threads, NEW v \in Own(t), NEW u \in Own(t), Store(t, v, u) PROVE Leaks'
  BY <1>6, StoreLeaks
<1>7. ASSUME NEW t \in Threads, NEW v \in Own(t),
             Release(t, v) \/ GrowSet(t, v) \/ ClearSet(t, v) \/ ResizeList(t, v)
      PROVE  Leaks'
  BY <1>7, ReleaseLeaks, GrowClearLeaks, ResizeListLeaks
<1>8. CASE UNCHANGED vars
  BY <1>8, StillLeaks DEF vars, stats
<1>9. QED
  BY <1>1, <1>2, <1>3, <1>4, <1>5, <1>6, <1>7, <1>8 DEF Next, Ended

LEMMA FrameAt ==
  ASSUME Stacks, NEW t \in Threads, NEW d \in 1 .. Depth(t)
  PROVE  \E k \in DOMAIN stack[t] : stack[t][k] = F(t, d)
<1>1. stack[t] \in Seq(Frames) /\ Depth(t) \in Nat /\ Depth(t) = Len(stack[t])
  BY DEF Stacks, Depth
<1>2. Depth(t) + 1 - d \in DOMAIN stack[t]
  BY <1>1
<1>3. QED
  BY <1>2 DEF F

LEMMA OwnedInUse ==
  ASSUME TypeOK, AllDoomed, NEW a \in Addrs, Owned(a)
  PROVE  InUse(a)
<1>1. Stacks /\ refct[a] \in Nat
  BY DEF TypeOK, Stacks
<1>2. CASE kind[a] # "none" /\ refct[a] = 0
  <2>1. PICK t \in Threads : \E d \in 1 .. Depth(t) : F(t, d).info = a
    BY <1>2 DEF AllDoomed, Doomed
  <2>2. PICK d \in 1 .. Depth(t) : F(t, d).info = a
    BY <2>1
  <2>3. QED
    BY <1>1, <2>2, FrameAt DEF InUse
<1>3. CASE kind[a] # "none" /\ refct[a] # 0
  BY <1>1, <1>3 DEF InUse
<1>4. CASE \E i \in Addrs : Kept(i) /\ data[i] = a
  BY <1>4 DEF Kept, InUse
<1>5. ASSUME NEW t \in Threads, NEW d \in 1 .. Depth(t), F(t, d).info = a \/ F(t, d).data = a
      PROVE  InUse(a)
  <2>1. PICK k \in DOMAIN stack[t] : stack[t][k] = F(t, d)
    BY <1>1, FrameAt
  <2>2. QED
    BY <1>5, <2>1 DEF InUse
<1>6. QED
  BY <1>2, <1>3, <1>4, <1>5 DEF Owned

LEMMA BalancedTells ==
  ASSUME TypeOK, Balanced, \A t \in Threads : stack[t] = <<>>
  PROVE  (alloc - free) % Word = Blocks /\ (mi_alloc - mi_free) % Word = MemInfos
<1> PICK w \in Nat : w = Word
  OBVIOUS
<1> PICK b \in Nat, m \in Nat : b = Blocks /\ m = MemInfos
  BY CountsType
<1>1. b \in 0 .. w - 1 /\ m \in 0 .. w - 1
  <2>1. Cardinality(Addrs) \in Nat /\ Cardinality(Addrs) < w
    BY FS_CardinalityType
  <2>2. b <= Cardinality(Addrs) /\ m <= Cardinality(Addrs)
    <3>1. /\ {a \in Addrs : heap[a] # "free"} \in SUBSET Addrs
          /\ {a \in Addrs : kind[a] # "none"} \in SUBSET Addrs
      OBVIOUS
    <3>2. QED
      BY <3>1, FS_Subset DEF Blocks, MemInfos
  <2>3. QED
    BY <2>1, <2>2
<1>2. Waiting(Uncounted) = 0 /\ Waiting(Unfreed) = 0 /\ Waiting(Undestroyed) = 0
  <2>1. \A L : "idle" \notin L => {t \in Threads : Where(t) \in L} = {}
    BY DEF Where
  <2>2. \A L : "idle" \notin L => Waiting(L) = 0
    BY <2>1, FS_EmptySet DEF Waiting
  <2>3. QED
    BY <2>2 DEF Uncounted, Unfreed, Undestroyed
<1>3. b - 0 + 0 = b /\ m + 0 = m
  OBVIOUS
<1>4. Same(alloc - free, b) /\ Same(mi_alloc - mi_free, m)
  BY <1>2, <1>3 DEF Balanced
<1>5. /\ alloc \in 0 .. w - 1 /\ free \in 0 .. w - 1
      /\ mi_alloc \in 0 .. w - 1 /\ mi_free \in 0 .. w - 1
  BY DEF TypeOK
<1>6. (alloc - free) % Word = b
  BY <1>1, <1>4, <1>5, SameLess
<1>7. (mi_alloc - mi_free) % Word = m
  BY <1>1, <1>4, <1>5, SameLess
<1>8. QED
  BY <1>6, <1>7

LEMMA LeaksTold == Inv /\ Leaks => LeaksSeen
<1> SUFFICES ASSUME Inv, Leaks PROVE LeaksSeen
  OBVIOUS
<1>1. NoLeak
  BY OwnedInUse DEF Inv, Leaks, Ownership, NoneLost, NoLeak
<1>2. StatsTellLeaks
  <2> SUFFICES ASSUME enabled, \A t \in Threads : Idle(t)
               PROVE  (alloc - free) % Word = Blocks /\ (mi_alloc - mi_free) % Word = MemInfos
    BY DEF StatsTellLeaks, Blocks, MemInfos
  <2>1. Balanced /\ TypeOK /\ \A t \in Threads : stack[t] = <<>>
    BY DEF Inv, Leaks, Counters, Idle
  <2>2. QED
    BY <2>1, BalancedTells
<1>3. QED
  BY <1>1, <1>2 DEF LeaksSeen

(* Where malloc() and realloc() never return NULL, every allocated block   *)
(* belongs to a live MemInfo or to a call that is under way, until the     *)
(* interpreter exits, and once no thread is inside nrt.cpp the atomic      *)
(* counters say how many blocks and MemInfos there are, however they were  *)
(* interleaved and even after they wrapped around: a leak cannot hide.     *)
THEOREM LeaksAlwaysSeen ==
  ASSUME ~ Fails
  PROVE  Spec => []LeaksSeen
<1>1. Init => Inv /\ Leaks
  BY InitInv, InitLeaks
<1>2. Inv /\ Leaks /\ [Next]_vars => Inv' /\ Leaks'
  BY NextInv, NextLeaks
<1>3. Inv /\ Leaks => LeaksSeen
  BY LeaksTold
<1>4. QED
  BY <1>1, <1>2, <1>3, PTL DEF Spec

=============================================================================
