-------------------------- MODULE CudaMemoryProofs --------------------------
(***************************************************************************)
(* Theorems about CudaMemory for any number of threads, blocks and         *)
(* allocations: memory is given back by the allocation that holds it, once *)
(* and in time, and an allocation fails only when a flush did not help.    *)
(***************************************************************************)
EXTENDS CudaMemory, FiniteSetTheorems, WellFoundedInduction, TLAPS

USE CudaMemoryAssumption

-----------------------------------------------------------------------------
(* The inductive invariant.                                                *)

(* The activations of a thread, counted from the bottom of its stack.      *)
Depth(t) == Len(stack[t])
F(t, d) == stack[t][Depth(t) + 1 - d]

Activations ==
  [op : {"alloc", "add", "clear", "reset"}, pc : {"try", "retry", "register",
   "alloc", "add", "reset", "count", "store", "each", "flushed"},
   id : 0 .. MaxAllocs, n : Nat, todo : SUBSET Ids]

Shapes ==
  /\ device \in [Addrs -> 0 .. MaxAllocs]
  /\ mem \in [Ids -> [addr : Addrs \cup {0}, refct : Nat, alive : BOOLEAN]]
  /\ queue \in Seq(Ids) /\ size \in Nat
  /\ handles \in [Ids -> [Kinds -> Nat]] /\ garbage \in [Ids -> [Kinds -> Nat]]
  /\ stack \in [Threads -> Seq(Activations)] /\ ops \in [Threads -> 0 .. MaxOps]
  /\ lost \subseteq Ids /\ stale \subseteq Ids

(* The count of a context is the number of blocks its threads are in.      *)
Entered == UNION {{<<t, k>> : k \in 1 .. inside[t]} : t \in Threads}
Deferring ==
  /\ inside \in [Threads -> Nat] /\ IsFiniteSet(Entered)
  /\ disabled = Cardinality(Entered)

(* Pointers to a block keep it alive, up to a reset().                     *)
Held(i) == Pointers(handles, i) + Pointers(garbage, i)
Counts ==
  \A i \in Ids :
    /\ mem[i].alive => mem[i].refct = Held(i) /\ Held(i) > 0
    /\ Held(i) > 0 => mem[i].alive \/ i \in stale
    /\ mem[i].addr = 0 => Held(i) = 0 /\ ~ mem[i].alive /\ i \notin stale

(* The dictionary has the live blocks, without those a reset() met.        *)
Dictionary == allocations = {i \in Ids \ stale : mem[i].alive}

(* An allocation whose pointer died, and that still has its block.         *)
Dead(i) == mem[i].addr # 0 /\ ~ mem[i].alive
Has(i) == device[mem[i].addr] = i
Blocks ==
  /\ \A i \in Ids : mem[i].alive => Has(i)
  /\ \A i \in Queued : Dead(i) /\ Has(i)
  /\ \A k, l \in 1 .. Len(queue) : queue[k] = queue[l] => k = l

(* Two kinds of activation own a block: an allocation that has not         *)
(* registered it, and a flush that took it from the queue.                 *)
Registering(f) == f.op = "alloc" /\ f.pc = "register"
Freeing(f) == f.op = "clear" /\ f.id # 0
Claims(f) == Registering(f) \/ Freeing(f)
FrameOK(f) ==
  /\ Registering(f) => f.id # 0 /\ f.n \in Addrs /\ mem[f.id].addr = 0 /\ device[f.n] = f.id
  /\ Freeing(f) => Dead(f.id) /\ Has(f.id) /\ f.id \notin Queued
  /\ f.op = "reset" => f.todo \subseteq stale
  /\ f.op = "alloc" => \A i \in f.todo : Dead(i)
  /\ f.op = "clear" => f.pc \in {"alloc", "add", "reset"}
FramesOK == \A t \in Threads : \A d \in 1 .. Depth(t) : FrameOK(F(t, d))
OneClaim ==
  \A t, u \in Threads : \A d \in 1 .. Depth(t), e \in 1 .. Depth(u) :
    Claims(F(t, d)) /\ Claims(F(u, e)) /\ F(t, d).id = F(u, e).id => t = u /\ d = e

(* Every block that is not free is somebody's.                             *)
Claimed(i, a) ==
  \E t \in Threads : \E d \in 1 .. Depth(t) :
    /\ F(t, d).id = i
    /\ (Registering(F(t, d)) /\ F(t, d).n = a) \/ (Freeing(F(t, d)) /\ mem[i].addr = a)
Keeps(i, a) ==
  mem[i].addr = a /\ (mem[i].alive \/ i \in Queued \cup lost \cup stale)
Owned == \A a \in Addrs : device[a] # 0 => Keeps(device[a], a) \/ Claimed(device[a], a)

(* A flush is above the activation that asked for it; an allocation that   *)
(* goes on after one finds nothing of what was pending.                    *)
UnderOK(t, d) ==
  F(t, d).op = "clear" /\ F(t, d).pc # "add" =>
    /\ d > 1 /\ F(t, d - 1).op = F(t, d).pc
    /\ ~ Registering(F(t, d - 1))
Covers(t, d) == d \in 1 .. Depth(t) /\ F(t, d).op = "clear" /\ F(t, d).pc = "alloc"
FlushedOK(t, d) ==
  F(t, d).op = "alloc" => F(t, d).todo \cap Queued = {} \/ Covers(t, d + 1)
Flushes ==
  \A t \in Threads : \A d \in 1 .. Depth(t) : UnderOK(t, d) /\ FlushedOK(t, d)

Heap == Counts /\ Dictionary /\ Blocks
Activity == FramesOK /\ OneClaim /\ Owned /\ Flushes
Inv == Shapes /\ Deferring /\ Heap /\ Activity /\ ~ badfree /\ oom = {}

-----------------------------------------------------------------------------
(* What a step of a thread does to the stacks.                             *)

Stacks == stack \in [Threads -> Seq(Activations)]

(* Thread t has n activations now; those below the m-th are the old ones.  *)
Moved(t, m, n) ==
  /\ Stacks' /\ m \in 1 .. Depth(t) + 1 /\ n \in {m - 1, m, m + 1}
  /\ \A u \in Threads \ {t} : stack'[u] = stack[u]
  /\ Depth(t)' = n
  /\ \A d \in 1 .. m - 1 : F(t, d)' = F(t, d)

Put(t, s) == stack' = [stack EXCEPT ![t] = s]

LEMMA PushSeq ==
  ASSUME NEW S, NEW s \in Seq(S), NEW f \in S
  PROVE  /\ <<f>> \o s \in Seq(S) /\ Len(<<f>> \o s) = Len(s) + 1
         /\ (<<f>> \o s)[1] = f
         /\ \A k \in 1 .. Len(s) : (<<f>> \o s)[k + 1] = s[k]
OBVIOUS

LEMMA TailSeq ==
  ASSUME NEW S, NEW s \in Seq(S), s # <<>>
  PROVE  /\ Tail(s) \in Seq(S) /\ Len(Tail(s)) = Len(s) - 1 /\ Len(s) \in Nat \ {0}
         /\ Head(s) = s[1] /\ Head(s) \in S
         /\ \A k \in 1 .. Len(s) - 1 : Tail(s)[k] = s[k + 1]
OBVIOUS

LEMMA DepthType ==
  ASSUME Stacks, NEW t \in Threads
  PROVE  /\ Depth(t) \in Nat /\ (stack[t] = <<>> <=> Depth(t) = 0)
         /\ \A d \in 1 .. Depth(t) : F(t, d) \in Activations
         /\ stack[t] # <<>> => Top(t) = F(t, Depth(t)) /\ Top(t) \in Activations
<1>1. stack[t] \in Seq(Activations)
  BY DEF Stacks
<1>2. Depth(t) \in Nat /\ (stack[t] = <<>> <=> Depth(t) = 0)
  BY <1>1 DEF Depth
<1>3. \A d \in 1 .. Depth(t) : Depth(t) + 1 - d \in 1 .. Len(stack[t])
  BY <1>2 DEF Depth
<1>4. \A k \in 1 .. Len(stack[t]) : stack[t][k] \in Activations
  BY <1>1
<1>5. stack[t] # <<>> => Top(t) = stack[t][1] /\ 1 \in 1 .. Len(stack[t])
  BY <1>1, TailSeq DEF Top
<1>6. QED
  BY <1>2, <1>3, <1>4, <1>5 DEF F

(* r is what lies below the m-th activation; s puts k new ones on r.        *)
Lies(t, m, r) ==
  /\ r \in Seq(Activations) /\ m \in 1 .. Depth(t) + 1 /\ Len(r) = m - 1
  /\ \A d \in 1 .. m - 1 : r[m - d] = F(t, d)
OnTop(s, r, k) ==
  /\ s \in Seq(Activations) /\ k \in {0, 1, 2} /\ Len(s) = Len(r) + k
  /\ \A d \in 1 .. Len(r) : s[k + d] = r[d]

LEMMA Rebuilt ==
  ASSUME Stacks, NEW t \in Threads, NEW m, NEW r, Lies(t, m, r),
         NEW s, NEW k, OnTop(s, r, k), Put(t, s), NEW n, n = m - 1 + k
  PROVE  /\ Moved(t, m, n)
         /\ k > 0 => F(t, n)' = s[1]
         /\ k = 2 => F(t, m)' = s[2]
<1>1. /\ Depth(t) \in Nat /\ m \in Nat \ {0} /\ k \in Nat /\ n \in Nat
      /\ Len(r) = m - 1 /\ Len(s) = n
  BY DepthType DEF Lies, OnTop
<1>2. stack'[t] = s /\ \A u \in Threads \ {t} : stack'[u] = stack[u]
  BY DEF Stacks, Put
<1>3. Stacks'
  BY DEF Stacks, Put, OnTop
<1>4. Depth(t)' = n
  BY <1>1, <1>2 DEF Depth
<1>5. \A d \in 1 .. n : F(t, d)' = s[n + 1 - d]
  BY <1>2, <1>4 DEF F
<1>6. ASSUME NEW d \in 1 .. m - 1 PROVE F(t, d)' = F(t, d)
  <2>1. m - d \in 1 .. Len(r) /\ k + (m - d) = n + 1 - d /\ d \in 1 .. n
    BY <1>1
  <2>2. s[n + 1 - d] = r[m - d]
    BY <2>1 DEF OnTop
  <2>3. QED
    BY <1>5, <2>1, <2>2 DEF Lies
<1>7. k > 0 => F(t, n)' = s[1]
  <2>1. k > 0 => n \in 1 .. n /\ n + 1 - n = 1
    BY <1>1
  <2>2. QED
    BY <1>5, <2>1
<1>8. k = 2 => F(t, m)' = s[2]
  <2>1. k = 2 => m \in 1 .. n /\ n + 1 - m = 2
    BY <1>1
  <2>2. QED
    BY <1>5, <2>1
<1>9. n \in {m - 1, m, m + 1} /\ m \in 1 .. Depth(t) + 1
  BY <1>1 DEF OnTop, Lies
<1>10. QED
  BY <1>2, <1>3, <1>4, <1>6, <1>7, <1>8, <1>9 DEF Moved

LEMMA Whole ==
  ASSUME Stacks, NEW t \in Threads, NEW m, m = Depth(t) + 1
  PROVE  Lies(t, m, stack[t])
<1>1. stack[t] \in Seq(Activations) /\ Depth(t) \in Nat /\ Depth(t) = Len(stack[t])
  BY DepthType DEF Stacks, Depth
<1>2. \A d \in 1 .. m - 1 : m - d = Depth(t) + 1 - d
  BY <1>1
<1>3. QED
  BY <1>1, <1>2 DEF Lies, F

LEMMA Rest ==
  ASSUME Stacks, NEW t \in Threads, stack[t] # <<>>, NEW m, m = Depth(t)
  PROVE  Lies(t, m, Tail(stack[t])) /\ m \in Nat \ {0}
<1>1. stack[t] \in Seq(Activations) /\ m = Len(stack[t])
  BY DEF Stacks, Depth
<1>2. /\ m \in Nat \ {0} /\ Len(Tail(stack[t])) = m - 1
      /\ Tail(stack[t]) \in Seq(Activations)
      /\ \A k \in 1 .. m - 1 : Tail(stack[t])[k] = stack[t][k + 1]
  BY <1>1, TailSeq
<1>3. ASSUME NEW d \in 1 .. m - 1 PROVE Tail(stack[t])[m - d] = F(t, d)
  <2>1. m - d \in 1 .. m - 1 /\ (m - d) + 1 = m + 1 - d
    BY <1>2
  <2>2. QED
    BY <1>2, <2>1 DEF F
<1>4. QED
  BY <1>2, <1>3 DEF Lies

(* The activation under the top.                                           *)
LEMMA RestTwo ==
  ASSUME Stacks, NEW t \in Threads, NEW m, m + 1 = Depth(t), m \in Nat \ {0}
  PROVE  /\ Lies(t, m, Tail(Tail(stack[t])))
         /\ stack[t][2] = F(t, m) /\ F(t, m) \in Activations
<1> DEFINE r == Tail(stack[t])
<1>1. stack[t] # <<>>
  BY DepthType
<1>2. Lies(t, m + 1, r)
  BY <1>1, Rest
<1>3. stack[t][2] = F(t, m)
  <2>1. (m + 1) + 1 - m = 2
    OBVIOUS
  <2>2. QED
    BY <2>1 DEF F
<1>4. F(t, m) \in Activations
  <2>1. m \in 1 .. m + 1
    OBVIOUS
  <2>2. QED
    BY <2>1, DepthType
<1> HIDE DEF r
<1>5. r \in Seq(Activations) /\ Len(r) = m /\ r # <<>>
  BY <1>2 DEF Lies
<1>6. /\ Tail(r) \in Seq(Activations) /\ Len(Tail(r)) = m - 1
      /\ \A k \in 1 .. m - 1 : Tail(r)[k] = r[k + 1]
  BY <1>5, TailSeq
<1>7. ASSUME NEW d \in 1 .. m - 1 PROVE Tail(r)[m - d] = F(t, d)
  <2>1. m - d \in 1 .. m - 1 /\ (m - d) + 1 = (m + 1) - d /\ d \in 1 .. (m + 1) - 1
    OBVIOUS
  <2>2. QED
    BY <1>2, <1>6, <2>1 DEF Lies
<1>8. m \in 1 .. Depth(t) + 1
  OBVIOUS
<1>9. Lies(t, m, Tail(r))
  BY <1>6, <1>7, <1>8 DEF Lies
<1>10. QED
  BY <1>3, <1>4, <1>9 DEF r

LEMMA OneOn ==
  ASSUME NEW r \in Seq(Activations), NEW f \in Activations
  PROVE  OnTop(<<f>> \o r, r, 1) /\ (<<f>> \o r)[1] = f
<1>1. /\ <<f>> \o r \in Seq(Activations) /\ Len(<<f>> \o r) = Len(r) + 1
      /\ (<<f>> \o r)[1] = f
      /\ \A k \in 1 .. Len(r) : (<<f>> \o r)[k + 1] = r[k]
  BY PushSeq
<1>2. \A k \in 1 .. Len(r) : k + 1 = 1 + k
  OBVIOUS
<1>3. QED
  BY <1>1, <1>2 DEF OnTop

LEMMA TwoOn ==
  ASSUME NEW r \in Seq(Activations), NEW f \in Activations, NEW g \in Activations
  PROVE  /\ OnTop(<<g, f>> \o r, r, 2)
         /\ (<<g, f>> \o r)[1] = g /\ (<<g, f>> \o r)[2] = f
<1> DEFINE s == <<g, f>> \o r
<1>1. s \in Seq(Activations) /\ Len(s) = Len(r) + 2 /\ s[1] = g /\ s[2] = f
  OBVIOUS
<1>2. ASSUME NEW d \in 1 .. Len(r) PROVE s[2 + d] = r[d]
  OBVIOUS
<1>3. QED
  BY <1>1, <1>2 DEF OnTop

LEMMA PushMoves ==
  ASSUME Stacks, NEW t \in Threads, NEW f \in Activations, Push(t, f),
         NEW m, m = Depth(t) + 1
  PROVE  Moved(t, m, m) /\ F(t, m)' = f /\ m \in Nat \ {0}
<1> DEFINE s == <<f>> \o stack[t]
<1>1. Lies(t, m, stack[t]) /\ stack[t] \in Seq(Activations)
  BY Whole DEF Stacks
<1>2. Put(t, s) /\ OnTop(s, stack[t], 1) /\ s[1] = f
  BY <1>1, OneOn DEF Push, Put
<1>3. m = m - 1 + 1 /\ m \in Nat \ {0}
  BY DepthType
<1> HIDE DEF s
<1>4. QED
  BY <1>1, <1>2, <1>3, Rebuilt

LEMMA GotoMoves ==
  ASSUME Stacks, NEW t \in Threads, stack[t] # <<>>, NEW f \in Activations, Goto(t, f),
         NEW m, m = Depth(t)
  PROVE  Moved(t, m, m) /\ F(t, m)' = f /\ m \in Nat \ {0}
<1> DEFINE r == Tail(stack[t])
           s == <<f>> \o r
<1>1. Lies(t, m, r) /\ m \in Nat \ {0} /\ m = m - 1 + 1 /\ r \in Seq(Activations)
  BY Rest DEF Lies
<1>2. Put(t, s) /\ OnTop(s, r, 1) /\ s[1] = f
  BY <1>1, OneOn DEF Goto, Put
<1> HIDE DEF s, r
<1>3. QED
  BY <1>1, <1>2, Rebuilt

LEMMA PopMoves ==
  ASSUME Stacks, NEW t \in Threads, stack[t] # <<>>, Put(t, Tail(stack[t])),
         NEW m, m = Depth(t)
  PROVE  Moved(t, m, m - 1) /\ m \in Nat \ {0}
<1> DEFINE r == Tail(stack[t])
<1>1. Lies(t, m, r) /\ m \in Nat \ {0} /\ m - 1 = m - 1 + 0 /\ r \in Seq(Activations)
  BY Rest DEF Lies
<1> HIDE DEF r
<1>2. OnTop(r, r, 0)
  <2>1. \A d \in 1 .. Len(r) : 0 + d = d
    OBVIOUS
  <2>2. Len(r) = Len(r) + 0
    BY <1>1
  <2>3. QED
    BY <1>1, <2>1, <2>2 DEF OnTop
<1>3. QED
  BY <1>1, <1>2, Rebuilt DEF r

(* The two activations at the top are replaced.                            *)
LEMMA NestMoves ==
  ASSUME Stacks, NEW t \in Threads, stack[t] # <<>>, NEW m, m = Depth(t),
         NEW f \in Activations, NEW g \in Activations,
         Put(t, <<g, f>> \o Tail(stack[t]))
  PROVE  Moved(t, m, m + 1) /\ F(t, m)' = f /\ F(t, m + 1)' = g /\ m \in Nat \ {0}
<1> DEFINE r == Tail(stack[t])
           s == <<g, f>> \o r
<1>1. Lies(t, m, r) /\ m \in Nat \ {0} /\ m + 1 = m - 1 + 2 /\ r \in Seq(Activations)
  BY Rest DEF Lies
<1>2. OnTop(s, r, 2) /\ s[1] = g /\ s[2] = f
  <2> HIDE DEF r
  <2>1. QED
    BY <1>1, TwoOn
<1>3. Put(t, s)
  OBVIOUS
<1> HIDE DEF s, r
<1>4. QED
  BY <1>1, <1>2, <1>3, Rebuilt

LEMMA PopTwoMoves ==
  ASSUME Stacks, NEW t \in Threads, NEW m, m + 1 = Depth(t), m \in Nat \ {0},
         Put(t, Tail(Tail(stack[t])))
  PROVE  Moved(t, m, m - 1)
<1> DEFINE r == Tail(Tail(stack[t]))
<1>0. Lies(t, m, r)
  BY RestTwo
<1>1. Lies(t, m, r) /\ m - 1 = m - 1 + 0 /\ r \in Seq(Activations)
  <2>1. r \in Seq(Activations)
    BY <1>0 DEF Lies
  <2>2. m - 1 = m - 1 + 0
    OBVIOUS
  <2>3. QED
    BY <1>0, <2>1, <2>2
<1> HIDE DEF r
<1>2. OnTop(r, r, 0)
  <2>1. \A d \in 1 .. Len(r) : 0 + d = d
    OBVIOUS
  <2>2. Len(r) = Len(r) + 0
    BY <1>1
  <2>3. QED
    BY <1>1, <2>1, <2>2 DEF OnTop
<1>3. QED
  BY <1>1, <1>2, Rebuilt DEF r

(* The top goes, and the activation under it changes.                      *)
LEMMA UnderMoves ==
  ASSUME Stacks, NEW t \in Threads, NEW m, m + 1 = Depth(t), m \in Nat \ {0},
         NEW f \in Activations, Put(t, <<f>> \o Tail(Tail(stack[t])))
  PROVE  Moved(t, m, m) /\ F(t, m)' = f
<1> DEFINE r == Tail(Tail(stack[t]))
           s == <<f>> \o r
<1>0. Lies(t, m, r)
  BY RestTwo
<1>1. Lies(t, m, r) /\ m = m - 1 + 1 /\ r \in Seq(Activations)
  <2>1. r \in Seq(Activations)
    BY <1>0 DEF Lies
  <2>2. m = m - 1 + 1
    OBVIOUS
  <2>3. QED
    BY <1>0, <2>1, <2>2
<1>2. Put(t, s) /\ OnTop(s, r, 1) /\ s[1] = f
  BY <1>1, OneOn
<1> HIDE DEF s, r
<1>3. QED
  BY <1>1, <1>2, Rebuilt

-----------------------------------------------------------------------------
(* What a step keeps.                                                      *)

(* An activation that the step neither removes nor changes.                *)
Stays(t, m, u, d) == u # t \/ d < m

LEMMA Staying ==
  ASSUME Stacks, NEW t \in Threads, NEW m, NEW n, Moved(t, m, n),
         NEW u \in Threads, NEW d \in Nat, Stays(t, m, u, d)
  PROVE  /\ d \in 1 .. Depth(u)' <=> d \in 1 .. Depth(u)
         /\ d \in 1 .. Depth(u) => F(u, d)' = F(u, d)
<1>1. Depth(t) \in Nat
  BY DepthType
<1>2. CASE u # t
  BY <1>2 DEF Moved, Depth, F
<1>3. CASE u = t
  <2>1. d < m /\ m \in 1 .. Depth(t) + 1 /\ n \in {m - 1, m, m + 1} /\ Depth(t)' = n
    BY <1>3 DEF Stays, Moved
  <2>2. d \in 1 .. Depth(t)' <=> d \in 1 .. Depth(t)
    BY <1>1, <2>1
  <2>3. d \in 1 .. Depth(t) => F(t, d)' = F(t, d)
    BY <1>1, <2>1 DEF Moved
  <2>4. QED
    BY <1>3, <2>2, <2>3
<1>4. QED
  BY <1>2, <1>3

(* An activation of the next state is an old one or one of two new ones.   *)
LEMMA Coming ==
  ASSUME Stacks, NEW t \in Threads, NEW m, NEW n, Moved(t, m, n),
         NEW u \in Threads, NEW d \in 1 .. Depth(u)'
  PROVE  /\ Depth(t)' = n /\ m \in Nat \ {0} /\ n \in Nat
         /\ \/ Stays(t, m, u, d) /\ d \in 1 .. Depth(u) /\ F(u, d)' = F(u, d)
            \/ u = t /\ d = m /\ n >= m
            \/ u = t /\ d = m + 1 /\ n = m + 1
<1>1. Depth(t) \in Nat
  BY DepthType
<1>2. m \in 1 .. Depth(t) + 1 /\ n \in {m - 1, m, m + 1} /\ Depth(t)' = n
  BY DEF Moved
<1>3. m \in Nat \ {0} /\ n \in Nat
  BY <1>1, <1>2
<1>4. d \in Nat
  OBVIOUS
<1>5. CASE Stays(t, m, u, d)
  BY <1>2, <1>3, <1>4, <1>5, Staying
<1>6. CASE u = t /\ ~ (d < m)
  <2>1. d \in 1 .. n
    BY <1>2, <1>6
  <2>2. d = m \/ d = m + 1
    BY <1>2, <1>3, <1>6, <2>1
  <2>3. (d = m => n >= m) /\ (d = m + 1 => n = m + 1)
    BY <1>2, <1>3, <2>1
  <2>4. QED
    BY <1>2, <1>3, <1>6, <2>2, <2>3
<1>7. QED
  BY <1>5, <1>6 DEF Stays

(* A step works on allocation i (0 for none): no other activation that     *)
(* stays owns a block of it.                                               *)
Works(t, m, i) ==
  \A u \in Threads : \A d \in 1 .. Depth(u) :
    Stays(t, m, u, d) /\ Claims(F(u, d)) => F(u, d).id # i

(* The new activations are as they should be, the upper one owns nothing   *)
(* and the lower one at most a block of i.                                 *)
NewOK(t, m, n, i) ==
  /\ n >= m => FrameOK(F(t, m)) /\ (Claims(F(t, m)) => F(t, m).id = i)
  /\ n = m + 1 => FrameOK(F(t, n)) /\ ~ Claims(F(t, n))

LEMMA FramesStep ==
  ASSUME Stacks, FramesOK, OneClaim, NEW t \in Threads, NEW m, NEW n, Moved(t, m, n),
         NEW i, Works(t, m, i), NewOK(t, m, n, i)',
         \A f \in Activations : FrameOK(f) /\ (Claims(f) => f.id # i) => FrameOK(f)'
  PROVE  FramesOK' /\ OneClaim'
<1>1. ASSUME NEW u \in Threads, NEW d \in 1 .. Depth(u)'
      PROVE  FrameOK(F(u, d))'
  <2>1. CASE Stays(t, m, u, d) /\ d \in 1 .. Depth(u) /\ F(u, d)' = F(u, d)
    <3>1. PICK f \in Activations : f = F(u, d)
      BY <2>1, DepthType
    <3>2. FrameOK(f) /\ (Claims(f) => f.id # i)
      BY <2>1, <3>1 DEF FramesOK, Works
    <3>3. FrameOK(f)' /\ F(u, d)' = f
      BY <2>1, <3>1, <3>2
    <3>4. QED
      BY <3>3 DEF FrameOK, Claims, Registering, Freeing
  <2>2. CASE u = t /\ d = m /\ n >= m
    BY <2>2 DEF NewOK
  <2>3. CASE u = t /\ d = m + 1 /\ n = m + 1
    BY <2>3 DEF NewOK
  <2>4. QED
    BY <2>1, <2>2, <2>3, Coming
<1>2. FramesOK'
  BY <1>1 DEF FramesOK
<1>3. ASSUME NEW u \in Threads, NEW d \in 1 .. Depth(u)', Claims(F(u, d))'
      PROVE  \/ Stays(t, m, u, d) /\ d \in 1 .. Depth(u) /\ F(u, d)' = F(u, d) /\ Claims(F(u, d))
                /\ F(u, d).id # i
             \/ u = t /\ d = m /\ F(u, d)'.id = i
  <2>1. CASE Stays(t, m, u, d) /\ d \in 1 .. Depth(u) /\ F(u, d)' = F(u, d)
    <3>1. Claims(F(u, d))
      BY <1>3, <2>1 DEF Claims, Registering, Freeing
    <3>2. QED
      BY <2>1, <3>1 DEF Works
  <2>2. CASE u = t /\ d = m /\ n >= m
    BY <1>3, <2>2 DEF NewOK
  <2>3. CASE u = t /\ d = m + 1 /\ n = m + 1
    BY <1>3, <2>3 DEF NewOK
  <2>4. QED
    BY <2>1, <2>2, <2>3, Coming
<1>4. ASSUME NEW u \in Threads, NEW w \in Threads,
             NEW d \in 1 .. Depth(u)', NEW e \in 1 .. Depth(w)',
             Claims(F(u, d))', Claims(F(w, e))', F(u, d)'.id = F(w, e)'.id
      PROVE  u = w /\ d = e
  BY <1>3, <1>4 DEF OneClaim
<1>5. OneClaim'
  BY <1>4 DEF OneClaim
<1>6. QED
  BY <1>2, <1>5

(* Only blocks of i change hands.                                          *)
Drops(t, m, i) ==
  \A d \in 1 .. Depth(t) : d >= m /\ Claims(F(t, d)) => F(t, d).id = i

OthersKeep(i) ==
  \A a \in Addrs : \A j \in Ids : j # i /\ device'[a] = j =>
    /\ device[a] = j /\ (Keeps(j, a) => Keeps(j, a)')
    /\ mem[j].addr = a => mem'[j].addr = a
KeepsWell(i) ==
  \A a \in Addrs : i # 0 /\ device'[a] = i => Keeps(i, a)' \/ Claimed(i, a)'

LEMMA OwnedStep ==
  ASSUME Shapes, Owned, NEW t \in Threads, NEW m, NEW n, Moved(t, m, n),
         NEW i, Drops(t, m, i),
         OthersKeep(i), KeepsWell(i),
         device' \in [Addrs -> 0 .. MaxAllocs]
  PROVE  Owned'
<1> SUFFICES ASSUME NEW a \in Addrs, NEW j, j = device'[a], j # 0
             PROVE  Keeps(j, a)' \/ Claimed(j, a)'
  BY DEF Owned
<1>1. CASE j = i
  BY <1>1 DEF KeepsWell
<1>2. CASE j # i
  <2>1. j \in Ids
    BY DEF Ids
  <2>2. device[a] = j /\ (Keeps(j, a) => Keeps(j, a)') /\ (mem[j].addr = a => mem'[j].addr = a)
    BY <1>2, <2>1 DEF OthersKeep
  <2>3. CASE Keeps(j, a)
    BY <2>2, <2>3
  <2>4. CASE Claimed(j, a)
    <3>0. PICK u \in Threads : \E d \in 1 .. Depth(u) :
            /\ F(u, d).id = j
            /\ (Registering(F(u, d)) /\ F(u, d).n = a) \/ (Freeing(F(u, d)) /\ mem[j].addr = a)
      BY <2>4 DEF Claimed
    <3>1. PICK d \in 1 .. Depth(u) :
            /\ F(u, d).id = j
            /\ (Registering(F(u, d)) /\ F(u, d).n = a) \/ (Freeing(F(u, d)) /\ mem[j].addr = a)
      BY <3>0
    <3>2. Stays(t, m, u, d)
      <4>1. m \in Nat /\ Depth(t) \in Nat
        BY DepthType DEF Moved, Shapes, Stacks
      <4>2. u = t /\ d >= m => F(u, d).id = i
        BY <3>1 DEF Drops, Claims
      <4>3. QED
        BY <1>2, <3>1, <4>1, <4>2 DEF Stays
    <3>3. d \in 1 .. Depth(u)' /\ F(u, d)' = F(u, d)
      BY <3>2, Staying DEF Shapes, Stacks
    <3>4. /\ F(u, d)'.id = j
          /\ (Registering(F(u, d))' /\ F(u, d)'.n = a) \/ (Freeing(F(u, d))' /\ mem'[j].addr = a)
      BY <2>2, <3>1, <3>3 DEF Registering, Freeing
    <3>5. QED
      BY <3>3, <3>4 DEF Claimed
  <2>5. QED
    BY <2>2, <2>3, <2>4 DEF Owned
<1>3. QED
  BY <1>1, <1>2

(* The new activations lie over what they need; if a flush ends that an    *)
(* allocation asked for, what was pending is gone.                         *)
NewFlushes(t, m, n) ==
  /\ n >= m => UnderOK(t, m) /\ FlushedOK(t, m)
  /\ n = m + 1 => UnderOK(t, n) /\ FlushedOK(t, n)

LEMMA FlushesStep ==
  ASSUME Stacks, FramesOK, Flushes, NEW t \in Threads, NEW m, NEW n, Moved(t, m, n),
         \A j \in Queued' : j \in Queued \/ ~ Dead(j),
         NewFlushes(t, m, n)',
         Covers(t, m) => Covers(t, m)' \/ (m > 1 => F(t, m - 1).todo \cap Queued' = {})
  PROVE  Flushes'
<1> SUFFICES ASSUME NEW u \in Threads, NEW d \in 1 .. Depth(u)'
             PROVE  UnderOK(u, d)' /\ FlushedOK(u, d)'
  BY DEF Flushes
<1>1. CASE Stays(t, m, u, d) /\ d \in 1 .. Depth(u) /\ F(u, d)' = F(u, d)
  <2>1. UnderOK(u, d) /\ FlushedOK(u, d) /\ FrameOK(F(u, d))
    BY <1>1 DEF Flushes, FramesOK
  <2>2. m \in Nat /\ Depth(u) \in Nat /\ d \in Nat
    BY DepthType DEF Moved
  <2>3. UnderOK(u, d)'
    <3>1. d > 1 => d - 1 \in 1 .. Depth(u) /\ Stays(t, m, u, d - 1) /\ d - 1 \in Nat
      BY <1>1, <2>2 DEF Stays
    <3>2. d > 1 => F(u, d - 1)' = F(u, d - 1)
      BY <3>1, Staying
    <3>3. QED
      BY <1>1, <2>1, <3>2 DEF UnderOK, Registering
  <2>4. ASSUME F(u, d).op = "alloc", F(u, d).todo \cap Queued # {} PROVE Covers(u, d + 1)
    BY <2>1, <2>4 DEF FlushedOK
  <2>5. ASSUME F(u, d).op = "alloc", F(u, d).todo \cap Queued = {}
        PROVE  F(u, d).todo \cap Queued' = {}
    BY <2>1, <2>5 DEF FrameOK
  <2>6. ASSUME Covers(u, d + 1)
        PROVE  Covers(u, d + 1)' \/ F(u, d).todo \cap Queued' = {}
    <3>1. CASE Stays(t, m, u, d + 1)
      <4>1. d + 1 \in 1 .. Depth(u)' /\ F(u, d + 1)' = F(u, d + 1)
        BY <2>2, <2>6, <3>1, Staying DEF Covers
      <4>2. QED
        BY <2>6, <4>1 DEF Covers
    <3>2. CASE ~ Stays(t, m, u, d + 1)
      <4>1. u = t /\ d + 1 = m /\ m > 1 /\ d = m - 1
        BY <1>1, <2>2, <3>2 DEF Stays
      <4>2. Covers(t, m) => Covers(t, m)' \/ F(t, m - 1).todo \cap Queued' = {}
        BY <4>1
      <4>3. QED
        BY <2>6, <4>1, <4>2
    <3>3. QED
      BY <3>1, <3>2
  <2>7. FlushedOK(u, d)'
    BY <1>1, <2>4, <2>5, <2>6 DEF FlushedOK
  <2>8. QED
    BY <2>3, <2>7
<1>2. CASE u = t /\ d = m /\ n >= m
  BY <1>2 DEF NewFlushes
<1>3. CASE u = t /\ d = m + 1 /\ n = m + 1
  BY <1>3 DEF NewFlushes
<1>4. QED
  BY <1>1, <1>2, <1>3, Coming

LEMMA StillMoves ==
  ASSUME Stacks, NEW t \in Threads, UNCHANGED stack, NEW m, m = Depth(t) + 1
  PROVE  Moved(t, m, m - 1) /\ m \in Nat \ {0}
<1>1. Depth(t) \in Nat
  BY DepthType
<1>2. QED
  BY <1>1 DEF Moved, Stacks, Depth, F

-----------------------------------------------------------------------------
(* Steps that leave the blocks and the queue alone.                        *)

Quietly == UNCHANGED <<device, mem, queue, lost, stale>>
Calm ==
  /\ UNCHANGED <<device, queue, lost, stale>>
  /\ \A i \in Ids : mem'[i].addr = mem[i].addr /\ mem'[i].alive = mem[i].alive

LEMMA QuietActivity ==
  ASSUME Inv, Calm, NEW t \in Threads, NEW m, NEW n, Moved(t, m, n),
         \A d \in 1 .. Depth(t) : d >= m => ~ Claims(F(t, d)),
         NewOK(t, m, n, 0)', NewFlushes(t, m, n)',
         Covers(t, m) => Covers(t, m)' \/ (m > 1 => F(t, m - 1).todo \cap Queued' = {})
  PROVE  Activity'
<1>1. Stacks /\ Shapes /\ FramesOK /\ OneClaim /\ Owned /\ Flushes
  BY DEF Inv, Activity, Shapes, Stacks
<1>2. Works(t, m, 0)
  BY <1>1 DEF Works, FramesOK, FrameOK, Claims, Freeing
<1>3. Queued' = Queued
  BY DEF Calm, Queued
<1>4. ASSUME NEW f \in Activations, FrameOK(f) PROVE FrameOK(f)'
  <2>1. f.todo \subseteq Ids /\ (f.id # 0 => f.id \in Ids)
    BY DEF Activations, Ids
  <2>2. \A i \in Ids : Dead(i) => Dead(i)' /\ (Has(i) => Has(i)')
    BY DEF Calm, Dead, Has
  <2>3. QED
    BY <1>3, <1>4, <2>1, <2>2 DEF Calm, FrameOK, Registering, Freeing
<1>5. FramesOK' /\ OneClaim'
  BY <1>1, <1>2, <1>4, FramesStep
<1>6. Owned'
  <2>1. Drops(t, m, 0)
    BY DEF Drops
  <2>2. OthersKeep(0) /\ KeepsWell(0)
    BY <1>3 DEF Calm, Keeps, OthersKeep, KeepsWell
  <2>3. device' \in [Addrs -> 0 .. MaxAllocs]
    BY <1>1 DEF Calm, Shapes
  <2>4. QED
    BY <1>1, <2>1, <2>2, <2>3, OwnedStep
<1>7. Flushes'
  BY <1>1, <1>3, FlushesStep
<1>8. QED
  BY <1>5, <1>6, <1>7 DEF Activity

LEMMA QuietHeap ==
  ASSUME Inv, Quietly, UNCHANGED <<allocations, handles, garbage, badfree>>, oom' = {},
         Stacks', size' \in Nat, ops' \in [Threads -> 0 .. MaxOps]
  PROVE  Shapes' /\ Heap' /\ ~ badfree' /\ oom' = {}
<1>1. Queued' = Queued
  BY DEF Quietly, Queued
<1>2. Shapes'
  BY DEF Inv, Shapes, Quietly, Stacks
<1>3. Counts'
  BY DEF Inv, Heap, Counts, Quietly, Held, Pointers
<1>4. Dictionary'
  BY DEF Inv, Heap, Dictionary, Quietly
<1>5. Blocks'
  BY <1>1 DEF Inv, Heap, Blocks, Quietly, Dead, Has
<1>6. QED
  BY <1>2, <1>3, <1>4, <1>5 DEF Heap, Inv

LEMMA DeferSame == ASSUME Inv, UNCHANGED defer PROVE Deferring'
BY DEF Inv, Deferring, defer, Entered

LEMMA BeginType ==
  ASSUME Shapes, NEW t \in Threads, Begin(t)
  PROVE  stack[t] = <<>> /\ Depth(t) = 0 /\ ops' \in [Threads -> 0 .. MaxOps]
<1>1. stack[t] = <<>> /\ ops[t] < MaxOps /\ ops' = [ops EXCEPT ![t] = @ + 1]
  BY DEF Begin, Idle
<1>2. ops[t] \in 0 .. MaxOps
  BY DEF Shapes
<1>3. ops[t] + 1 \in 0 .. MaxOps
  BY <1>1, <1>2
<1>4. QED
  BY <1>1, <1>3 DEF Shapes, Depth

LEMMA FrameType ==
  ASSUME NEW op \in {"alloc", "add", "clear", "reset"},
         NEW pc \in {"try", "retry", "register", "alloc", "add", "reset", "count", "store",
                     "each", "flushed"}
  PROVE  /\ Frame(op, pc) \in Activations /\ Frame(op, pc).op = op /\ Frame(op, pc).pc = pc
         /\ Frame(op, pc).id = 0 /\ Frame(op, pc).n = 0 /\ Frame(op, pc).todo = {}
BY DEF Frame, Activations

LEMMA AllocInv ==
  ASSUME Inv, NEW t \in Threads, Alloc(t)
  PROVE  Inv'
<1>1. Stacks /\ Shapes
  BY DEF Inv, Shapes, Stacks
<1> PICK f \in Activations : f = Frame("alloc", "try")
  BY FrameType
<1>2. f.op = "alloc" /\ f.pc = "try" /\ f.id = 0 /\ f.todo = {}
  BY FrameType
<1>3. /\ Depth(t) = 0 /\ ops' \in [Threads -> 0 .. MaxOps]
      /\ Push(t, f) /\ UNCHANGED <<heap, pend, defer, handles, garbage, ghosts>>
  BY <1>1, BeginType DEF Alloc
<1>4. Moved(t, 1, 1) /\ F(t, 1)' = f
  BY <1>1, <1>3, PushMoves
<1>5. Quietly /\ UNCHANGED <<allocations, handles, garbage, badfree>> /\ oom' = {} /\ size' \in Nat
  BY <1>1, <1>3 DEF Quietly, heap, pend, ghosts, Inv, Shapes
<1>6. NewOK(t, 1, 1, 0)'
  BY <1>2, <1>4 DEF NewOK, FrameOK, Claims, Registering, Freeing
<1>7. NewFlushes(t, 1, 1)'
  BY <1>2, <1>4 DEF NewFlushes, UnderOK, FlushedOK
<1>8. Activity'
  BY <1>3, <1>4, <1>5, <1>6, <1>7, QuietActivity DEF Covers, Calm, Quietly
<1>9. Shapes' /\ Heap' /\ ~ badfree' /\ oom' = {} /\ Deferring'
  BY <1>3, <1>4, <1>5, QuietHeap, DeferSame DEF Moved
<1>10. QED
  BY <1>8, <1>9 DEF Inv

LEMMA TopFacts ==
  ASSUME Inv, NEW t \in Threads, stack[t] # <<>>, NEW m, m = Depth(t)
  PROVE  /\ m \in Nat \ {0} /\ F(t, m) = Top(t) /\ Top(t) \in Activations
         /\ FrameOK(F(t, m)) /\ UnderOK(t, m) /\ FlushedOK(t, m)
         /\ ~ Covers(t, m + 1) /\ m \in 1 .. Depth(t)
         /\ \A d \in 1 .. Depth(t) : d >= m => d = m
<1>1. Stacks
  BY DEF Inv, Shapes, Stacks
<1>2. m \in Nat \ {0} /\ F(t, m) = Top(t) /\ Top(t) \in Activations
  BY <1>1, DepthType
<1>3. m \in 1 .. Depth(t) /\ ~ (m + 1 \in 1 .. Depth(t))
  BY <1>2
<1>4. QED
  BY <1>2, <1>3 DEF Inv, Activity, FramesOK, Flushes, Covers

LEMMA OutOfMemoryInv ==
  ASSUME Inv, NEW t \in Threads, OutOfMemory(t)
  PROVE  Inv'
<1>1. Stacks /\ Shapes
  BY DEF Inv, Shapes, Stacks
<1>2. stack[t] # <<>> /\ Top(t).op = "alloc" /\ Top(t).pc = "try"
  BY DEF OutOfMemory, In
<1> PICK m : m = Depth(t)
  OBVIOUS
<1>3. /\ m \in Nat \ {0} /\ F(t, m) = Top(t) /\ Top(t) \in Activations
      /\ \A d \in 1 .. Depth(t) : d >= m => d = m
  BY <1>2, TopFacts
<1>4. Queued \subseteq Ids
  BY <1>1 DEF Shapes, Queued
<1> PICK g \in Activations : g = Frame("clear", "alloc")
  BY FrameType
<1>5. g.op = "clear" /\ g.pc = "alloc" /\ g.id = 0 /\ g.todo = {}
  BY FrameType
<1> PICK f : f = [Top(t) EXCEPT !.pc = "retry", !.todo = {queue[k] : k \in DOMAIN queue}]
  OBVIOUS
<1>6. f \in Activations /\ f.op = "alloc" /\ f.pc = "retry" /\ f.todo = Queued
  BY <1>2, <1>3, <1>4 DEF Activations, Queued
<1>7. Put(t, <<g, f>> \o Tail(stack[t]))
  BY DEF OutOfMemory, Flush, Put
<1>8. Moved(t, m, m + 1) /\ F(t, m)' = f /\ F(t, m + 1)' = g
  BY <1>1, <1>2, <1>6, <1>7, NestMoves
<1>9. UNCHANGED <<heap, pend, defer, handles, garbage, ops, ghosts>>
  BY DEF OutOfMemory
<1>10. Quietly /\ UNCHANGED <<allocations, handles, garbage, badfree>> /\ oom' = {} /\ size' \in Nat
       /\ ops' \in [Threads -> 0 .. MaxOps] /\ Queued' = Queued
  BY <1>1, <1>9 DEF Quietly, heap, pend, ghosts, Inv, Shapes, Queued
<1>11. \A i \in Queued : Dead(i)' 
  BY <1>10 DEF Inv, Heap, Blocks, Dead, Quietly
<1>12. NewOK(t, m, m + 1, 0)'
  BY <1>5, <1>6, <1>8, <1>11 DEF NewOK, FrameOK, Claims, Registering, Freeing
<1>13. NewFlushes(t, m, m + 1)'
  <2>1. Covers(t, m + 1)'
    <3>1. Depth(t)' = m + 1 /\ m + 1 \in 1 .. m + 1
      BY <1>3, <1>8 DEF Moved
    <3>2. QED
      BY <1>5, <1>8, <3>1 DEF Covers
  <2>2. m + 1 > 1 /\ (m + 1) - 1 = m
    BY <1>3
  <2>3. UnderOK(t, m)' /\ FlushedOK(t, m)'
    BY <1>6, <1>8, <2>1 DEF UnderOK, FlushedOK
  <2>4. UnderOK(t, m + 1)' /\ FlushedOK(t, m + 1)'
    BY <1>5, <1>6, <1>8, <2>2 DEF UnderOK, FlushedOK, Registering
  <2>5. QED
    BY <2>3, <2>4 DEF NewFlushes
<1>14. Activity'
  <2>1. ~ Covers(t, m) /\ ~ Claims(F(t, m))
    BY <1>2, <1>3 DEF Covers, Claims, Registering, Freeing
  <2>2. QED
    BY <1>3, <1>8, <1>10, <1>12, <1>13, <2>1, QuietActivity DEF Calm, Quietly
<1>15. Shapes' /\ Heap' /\ ~ badfree' /\ oom' = {} /\ Deferring'
  BY <1>8, <1>9, <1>10, QuietHeap, DeferSame DEF Moved
<1>16. QED
  BY <1>14, <1>15 DEF Inv

(* The top activation goes, or goes on, and owns no block before or after. *)
LEMMA QuietPop ==
  ASSUME Inv, Quietly, NEW t \in Threads, stack[t] # <<>>, Put(t, Tail(stack[t])),
         ~ Claims(Top(t)),
         Top(t).op = "clear" /\ Top(t).pc = "alloc" => queue = <<>>
  PROVE  Activity' /\ Stacks'
<1>1. Stacks
  BY DEF Inv, Shapes, Stacks
<1> PICK m : m = Depth(t)
  OBVIOUS
<1>2. /\ m \in Nat \ {0} /\ F(t, m) = Top(t) /\ Top(t) \in Activations
      /\ \A d \in 1 .. Depth(t) : d >= m => d = m
  BY TopFacts
<1>3. Moved(t, m, m - 1)
  BY <1>1, PopMoves
<1>4. NewOK(t, m, m - 1, 0)' /\ NewFlushes(t, m, m - 1)'
  BY <1>2 DEF NewOK, NewFlushes
<1>5. Covers(t, m) => Queued' = {}
  <2>1. Covers(t, m) => queue = <<>>
    BY <1>2 DEF Covers
  <2>2. queue' = <<>> => Queued' = {}
    BY DEF Queued
  <2>3. QED
    BY <2>1, <2>2 DEF Quietly
<1>6. Activity'
  BY <1>2, <1>3, <1>4, <1>5, QuietActivity DEF Calm, Quietly
<1>7. QED
  BY <1>3, <1>6 DEF Moved

LEMMA QuietGoto ==
  ASSUME Inv, Quietly, NEW t \in Threads, stack[t] # <<>>, NEW f \in Activations, Goto(t, f),
         ~ Claims(Top(t)), Top(t).op # "clear", ~ Claims(f), f.op # "alloc",
         f.op = "clear" => f.pc = "add", f.op # "reset"
  PROVE  Activity' /\ Stacks'
<1>1. Stacks
  BY DEF Inv, Shapes, Stacks
<1> PICK m : m = Depth(t)
  OBVIOUS
<1>2. /\ m \in Nat \ {0} /\ F(t, m) = Top(t) /\ Top(t) \in Activations
      /\ \A d \in 1 .. Depth(t) : d >= m => d = m
  BY TopFacts
<1>3. Moved(t, m, m) /\ F(t, m)' = f
  BY <1>1, GotoMoves
<1>4. NewOK(t, m, m, 0)' /\ NewFlushes(t, m, m)'
  <2>1. FrameOK(f)' /\ ~ Claims(F(t, m))'
    BY <1>3 DEF FrameOK, Claims, Registering, Freeing
  <2>2. FrameOK(F(t, m))'
    BY <1>3, <2>1 DEF FrameOK, Registering, Freeing
  <2>3. UnderOK(t, m)' /\ FlushedOK(t, m)'
    BY <1>3 DEF UnderOK, FlushedOK
  <2>4. m # m + 1
    BY <1>2
  <2>5. QED
    BY <2>1, <2>2, <2>3, <2>4 DEF NewOK, NewFlushes
<1>5. ~ Covers(t, m)
  BY <1>2 DEF Covers
<1>6. Activity'
  BY <1>2, <1>3, <1>4, <1>5, QuietActivity DEF Calm, Quietly
<1>7. QED
  BY <1>3, <1>6 DEF Moved

LEMMA QuietStill ==
  ASSUME Inv, Calm, NEW t \in Threads, UNCHANGED stack
  PROVE  Activity' /\ Stacks'
<1>1. Stacks
  BY DEF Inv, Shapes, Stacks
<1> PICK m : m = Depth(t) + 1
  OBVIOUS
<1>2. Moved(t, m, m - 1) /\ m \in Nat \ {0}
  BY <1>1, StillMoves
<1>3. Depth(t) \in Nat
  BY <1>1, DepthType
<1>4. NewOK(t, m, m - 1, 0)' /\ NewFlushes(t, m, m - 1)'
  BY <1>2 DEF NewOK, NewFlushes
<1>5. ~ Covers(t, m) /\ \A d \in 1 .. Depth(t) : ~ (d >= m)
  BY <1>3 DEF Covers
<1>6. Activity'
  BY <1>2, <1>4, <1>5, QuietActivity
<1>7. QED
  BY <1>2, <1>6 DEF Moved

LEMMA FailAgainInv ==
  ASSUME Inv, NEW t \in Threads, FailAgain(t)
  PROVE  Inv'
<1>1. Shapes
  BY DEF Inv
<1>2. stack[t] # <<>> /\ Top(t).op = "alloc" /\ Top(t).pc = "retry"
  BY DEF FailAgain, In
<1>3. /\ Put(t, Tail(stack[t])) /\ UNCHANGED <<heap, pend, defer, handles, garbage, ops>>
      /\ UNCHANGED <<lost, stale, badfree>>
      /\ oom' = oom \cup (Top(t).todo \cap {queue[k] : k \in DOMAIN queue})
  BY DEF FailAgain, Pop, Put
<1> PICK m : m = Depth(t)
  OBVIOUS
<1>4. F(t, m) = Top(t) /\ FlushedOK(t, m) /\ ~ Covers(t, m + 1)
  BY <1>2, TopFacts
<1>5. Top(t).todo \cap Queued = {}
  BY <1>2, <1>4 DEF FlushedOK
<1>6. oom' = {}
  BY <1>3, <1>5 DEF Inv, Queued
<1>7. Quietly /\ UNCHANGED <<allocations, handles, garbage, badfree>> /\ size' \in Nat
      /\ ops' \in [Threads -> 0 .. MaxOps]
  BY <1>1, <1>3 DEF Quietly, heap, pend, Shapes
<1>8. Activity' /\ Stacks'
  BY <1>2, <1>3, <1>7, QuietPop DEF Claims, Registering, Freeing
<1>9. QED
  BY <1>3, <1>6, <1>7, <1>8, QuietHeap, DeferSame DEF Inv

LEMMA CountInv ==
  ASSUME Inv, NEW t \in Threads, Count(t)
  PROVE  Inv'
<1>1. Shapes
  BY DEF Inv
<1>2. stack[t] # <<>> /\ Top(t).op = "add"
  BY DEF Count, In
<1> PICK f : f = [Top(t) EXCEPT !.pc = "store", !.n = size]
  OBVIOUS
<1>3. Top(t) \in Activations
  BY <1>2, TopFacts
<1>4. f \in Activations /\ f.op = "add"
  BY <1>1, <1>2, <1>3 DEF Activations, Shapes
<1>5. Goto(t, f) /\ UNCHANGED <<heap, pend, defer, handles, garbage, ops, ghosts>>
  BY DEF Count
<1>6. Quietly /\ UNCHANGED <<allocations, handles, garbage, badfree>> /\ size' \in Nat /\ oom' = {}
      /\ ops' \in [Threads -> 0 .. MaxOps]
  BY <1>1, <1>5 DEF Quietly, heap, pend, ghosts, Shapes, Inv
<1>7. Activity' /\ Stacks'
  BY <1>2, <1>4, <1>5, <1>6, QuietGoto DEF Claims, Registering, Freeing
<1>8. QED
  BY <1>5, <1>6, <1>7, QuietHeap, DeferSame DEF Inv

LEMMA StoreInv ==
  ASSUME Inv, NEW t \in Threads, Store(t)
  PROVE  Inv'
<1>1. Shapes
  BY DEF Inv
<1>2. stack[t] # <<>> /\ Top(t).op = "add"
  BY DEF Store, In
<1>3. Top(t) \in Activations
  BY <1>2, TopFacts
<1> PICK f \in Activations : f = Frame("clear", "add")
  BY FrameType
<1>4. f.op = "clear" /\ f.pc = "add" /\ f.id = 0
  BY FrameType
<1>5. /\ Goto(t, f) \/ Put(t, Tail(stack[t]))
      /\ size' = Top(t).n + 1
      /\ UNCHANGED <<heap, queue, defer, handles, garbage, ops, ghosts>>
  BY DEF Store, Pop, Put
<1>6. size' \in Nat
  BY <1>3, <1>5 DEF Activations, Store
<1>7. Quietly /\ UNCHANGED <<allocations, handles, garbage, badfree>> /\ oom' = {}
      /\ ops' \in [Threads -> 0 .. MaxOps]
  BY <1>1, <1>5 DEF Quietly, heap, ghosts, Shapes, Inv
<1>8. Activity' /\ Stacks'
  <2>1. ~ Claims(Top(t)) /\ ~ Claims(f)
    BY <1>2, <1>4 DEF Claims, Registering, Freeing
  <2>2. CASE Goto(t, f)
    BY <1>2, <1>4, <1>7, <2>1, <2>2, QuietGoto
  <2>3. CASE Put(t, Tail(stack[t]))
    BY <1>2, <1>7, <2>1, <2>3, QuietPop
  <2>4. QED
    BY <1>5, <2>2, <2>3
<1>9. QED
  BY <1>5, <1>6, <1>7, <1>8, QuietHeap, DeferSame DEF Inv

(* clear() finds that deallocations are disabled.                          *)
LEMMA ClearDisabledInv ==
  ASSUME Inv, NEW t \in Threads, stack[t] # <<>>, Top(t).op = "clear", Top(t).id = 0,
         Put(t, Below(t)), UNCHANGED pend,
         UNCHANGED <<heap, defer, handles, garbage, ops, ghosts>>
  PROVE  Inv'
<1>1. Shapes /\ Stacks
  BY DEF Inv, Shapes, Stacks
<1>2. Quietly /\ UNCHANGED <<allocations, handles, garbage, badfree>> /\ size' \in Nat /\ oom' = {}
      /\ ops' \in [Threads -> 0 .. MaxOps]
  BY <1>1 DEF Quietly, heap, pend, ghosts, Shapes, Inv
<1>3. ~ Claims(Top(t))
  BY DEF Claims, Registering, Freeing
<1>4. CASE Top(t).pc # "alloc"
  <2>1. Put(t, Tail(stack[t]))
    BY <1>4 DEF Below
  <2>2. Activity' /\ Stacks'
    BY <1>2, <1>3, <1>4, <2>1, QuietPop
  <2>3. QED
    BY <1>2, <2>2, QuietHeap, DeferSame DEF Inv
<1>5. CASE Top(t).pc = "alloc"
  <2> PICK k : k = Depth(t)
    OBVIOUS
  <2>1. k \in Nat \ {0} /\ F(t, k) = Top(t) /\ UnderOK(t, k)
    BY TopFacts
  <2> PICK m : m = k - 1
    OBVIOUS
  <2>2. m \in Nat \ {0} /\ m + 1 = k /\ F(t, m).op = "alloc" /\ ~ Registering(F(t, m))
    BY <1>5, <2>1 DEF UnderOK
  <2>3. stack[t][2] = F(t, m) /\ F(t, m) \in Activations
    BY <1>1, <2>2, RestTwo
  <2> PICK f : f = [F(t, m) EXCEPT !.todo = {}]
    OBVIOUS
  <2>4. f \in Activations /\ f.op = "alloc" /\ ~ Registering(f) /\ f.todo = {}
    BY <2>2, <2>3 DEF Activations, Registering
  <2>5. Put(t, <<f>> \o Tail(Tail(stack[t])))
    BY <1>5, <2>3 DEF Below
  <2>6. Moved(t, m, m) /\ F(t, m)' = f
    BY <1>1, <2>2, <2>4, <2>5, UnderMoves
  <2>7. NewOK(t, m, m, 0)' /\ NewFlushes(t, m, m)'
    <3>1. FrameOK(F(t, m))' /\ ~ Claims(F(t, m))'
      BY <2>4, <2>6 DEF FrameOK, Claims, Registering, Freeing
    <3>2. UnderOK(t, m)' /\ FlushedOK(t, m)'
      BY <2>4, <2>6 DEF UnderOK, FlushedOK
    <3>3. m # m + 1
      BY <2>2
    <3>4. QED
      BY <3>1, <3>2, <3>3 DEF NewOK, NewFlushes
  <2>8. \A d \in 1 .. Depth(t) : d >= m => ~ Claims(F(t, d))
    <3>1. \A d \in 1 .. Depth(t) : d >= m => d = m \/ d = k
      BY <2>2
    <3>2. ~ Claims(F(t, m))
      BY <2>2 DEF Claims, Freeing
    <3>3. QED
      BY <1>3, <2>1, <3>1, <3>2
  <2>9. ~ Covers(t, m)
    BY <2>2 DEF Covers
  <2>10. Activity'
    BY <1>2, <2>6, <2>7, <2>8, <2>9, QuietActivity DEF Calm, Quietly
  <2>11. QED
    BY <1>2, <2>6, <2>10, QuietHeap, DeferSame DEF Inv, Moved
<1>6. QED
  BY <1>4, <1>5

(* clear() finds nothing left to do.                                       *)
LEMMA ClearDoneInv ==
  ASSUME Inv, NEW t \in Threads, stack[t] # <<>>, Top(t).op = "clear", Top(t).id = 0,
         queue = <<>>, Put(t, Tail(stack[t])), size' = 0, UNCHANGED queue,
         UNCHANGED <<heap, defer, handles, garbage, ops, ghosts>>
  PROVE  Inv'
<1>1. Shapes
  BY DEF Inv
<1>2. Quietly /\ UNCHANGED <<allocations, handles, garbage, badfree>> /\ size' \in Nat /\ oom' = {}
      /\ ops' \in [Threads -> 0 .. MaxOps]
  BY <1>1 DEF Quietly, heap, ghosts, Shapes, Inv
<1>3. Activity' /\ Stacks'
  BY <1>2, QuietPop DEF Claims, Registering, Freeing
<1>4. QED
  BY <1>2, <1>3, QuietHeap, DeferSame DEF Inv

LEMMA ResetFlushInv ==
  ASSUME Inv, NEW t \in Threads, ResetFlush(t)
  PROVE  Inv'
<1>1. Stacks /\ Shapes
  BY DEF Inv, Shapes, Stacks
<1>2. stack[t] # <<>> /\ Top(t).op = "reset"
  BY DEF ResetFlush, In
<1> PICK m : m = Depth(t)
  OBVIOUS
<1>3. /\ m \in Nat \ {0} /\ F(t, m) = Top(t) /\ Top(t) \in Activations /\ FrameOK(F(t, m))
      /\ \A d \in 1 .. Depth(t) : d >= m => d = m
  BY <1>2, TopFacts
<1> PICK g \in Activations : g = Frame("clear", "reset")
  BY FrameType
<1>4. g.op = "clear" /\ g.pc = "reset" /\ g.id = 0 /\ g.todo = {}
  BY FrameType
<1> PICK f : f = [Top(t) EXCEPT !.pc = "flushed"]
  OBVIOUS
<1>5. f \in Activations /\ f.op = "reset" /\ f.todo \subseteq stale
  BY <1>2, <1>3 DEF Activations, FrameOK
<1>6. Put(t, <<g, f>> \o Tail(stack[t]))
  BY DEF ResetFlush, FlushAfter, Put
<1>7. Moved(t, m, m + 1) /\ F(t, m)' = f /\ F(t, m + 1)' = g
  BY <1>1, <1>2, <1>5, <1>6, NestMoves
<1>8. UNCHANGED <<heap, pend, defer, handles, garbage, ops, ghosts>>
  BY DEF ResetFlush
<1>9. Quietly /\ UNCHANGED <<allocations, handles, garbage, badfree>> /\ oom' = {} /\ size' \in Nat
      /\ ops' \in [Threads -> 0 .. MaxOps]
  BY <1>1, <1>8 DEF Quietly, heap, pend, ghosts, Inv, Shapes
<1>10. NewOK(t, m, m + 1, 0)'
  BY <1>4, <1>5, <1>7, <1>9 DEF NewOK, FrameOK, Claims, Registering, Freeing, Quietly
<1>11. NewFlushes(t, m, m + 1)'
  <2>1. m + 1 > 1 /\ (m + 1) - 1 = m
    BY <1>3
  <2>2. UnderOK(t, m)' /\ FlushedOK(t, m)'
    BY <1>5, <1>7 DEF UnderOK, FlushedOK
  <2>3. UnderOK(t, m + 1)' /\ FlushedOK(t, m + 1)'
    BY <1>4, <1>5, <1>7, <2>1 DEF UnderOK, FlushedOK, Registering
  <2>4. QED
    BY <2>2, <2>3 DEF NewFlushes
<1>12. ~ Covers(t, m) /\ ~ Claims(F(t, m))
  BY <1>2, <1>3 DEF Covers, Claims, Registering, Freeing
<1>13. Activity'
  BY <1>3, <1>7, <1>9, <1>10, <1>11, <1>12, QuietActivity DEF Calm, Quietly
<1>14. QED
  BY <1>7, <1>8, <1>9, <1>13, QuietHeap, DeferSame DEF Inv, Moved

LEMMA ResetEndInv ==
  ASSUME Inv, NEW t \in Threads, ResetEnd(t)
  PROVE  Inv'
<1>1. Shapes
  BY DEF Inv
<1>2. stack[t] # <<>> /\ Top(t).op = "reset"
  BY DEF ResetEnd, In
<1>3. Put(t, Tail(stack[t])) /\ UNCHANGED <<heap, pend, defer, handles, garbage, ops, ghosts>>
  BY DEF ResetEnd, Pop, Put
<1>4. Quietly /\ UNCHANGED <<allocations, handles, garbage, badfree>> /\ size' \in Nat /\ oom' = {}
      /\ ops' \in [Threads -> 0 .. MaxOps]
  BY <1>1, <1>3 DEF Quietly, heap, pend, ghosts, Shapes, Inv
<1>5. Activity' /\ Stacks'
  BY <1>2, <1>3, <1>4, QuietPop DEF Claims, Registering, Freeing
<1>6. QED
  BY <1>3, <1>4, <1>5, QuietHeap, DeferSame DEF Inv

-----------------------------------------------------------------------------
(* defer_cleanup() and pointers.                                           *)

LEMMA EnterDeferInv ==
  ASSUME Inv, NEW t \in Threads, EnterDefer(t)
  PROVE  Inv'
<1>1. Shapes /\ Deferring
  BY DEF Inv
<1>2. /\ Begin(t) /\ disabled' = disabled + 1 /\ inside' = [inside EXCEPT ![t] = @ + 1]
      /\ UNCHANGED <<heap, pend, handles, garbage, stack, lost, stale, oom, badfree>>
  BY DEF EnterDefer
<1>3. Quietly /\ Calm /\ UNCHANGED <<allocations, handles, garbage, badfree>> /\ size' \in Nat
      /\ oom' = {} /\ ops' \in [Threads -> 0 .. MaxOps]
  BY <1>1, <1>2, BeginType DEF Quietly, Calm, heap, pend, Shapes, Inv
<1>4. Activity' /\ Stacks'
  BY <1>2, <1>3, QuietStill
<1>5. Deferring'
  <2> PICK k : k = inside[t] + 1
    OBVIOUS
  <2>1. inside[t] \in Nat /\ k \in Nat /\ inside' \in [Threads -> Nat] /\ inside'[t] = k
        /\ \A u \in Threads : u # t => inside'[u] = inside[u]
    BY <1>1, <1>2 DEF Deferring
  <2>2. \A j : j \in 1 .. k <=> j \in 1 .. inside[t] \/ j = k
    BY <2>1
  <2>3. <<t, k>> \notin Entered
    BY <2>1 DEF Entered
  <2>4. Entered' = Entered \cup {<<t, k>>}
    <3>1. ASSUME NEW p PROVE p \in Entered' <=> p \in Entered \cup {<<t, k>>}
      <4>1. p \in Entered' <=> \E u \in Threads : \E j \in 1 .. inside'[u] : p = <<u, j>>
        BY DEF Entered
      <4>2. p \in Entered <=> \E u \in Threads : \E j \in 1 .. inside[u] : p = <<u, j>>
        BY DEF Entered
      <4>3. (\E u \in Threads : \E j \in 1 .. inside'[u] : p = <<u, j>>)
              <=> (\E u \in Threads : \E j \in 1 .. inside[u] : p = <<u, j>>) \/ p = <<t, k>>
        BY <2>1, <2>2
      <4>4. QED
        BY <4>1, <4>2, <4>3
    <3>2. QED
      BY <3>1
  <2>5. IsFiniteSet(Entered)' /\ Cardinality(Entered') = Cardinality(Entered) + 1
    BY <1>1, <2>3, <2>4, FS_AddElement DEF Deferring
  <2>6. QED
    BY <1>1, <1>2, <2>1, <2>5 DEF Deferring
<1>6. QED
  BY <1>3, <1>4, <1>5, QuietHeap DEF Inv

LEMMA ExitDeferInv ==
  ASSUME Inv, NEW t \in Threads, ExitDefer(t)
  PROVE  Inv'
<1>1. Shapes /\ Deferring
  BY DEF Inv
<1>2. /\ inside[t] > 0 /\ disabled' = disabled - 1 /\ inside' = [inside EXCEPT ![t] = @ - 1]
      /\ UNCHANGED <<heap, pend, handles, garbage, stack, ops, lost, stale, oom, badfree>>
  BY DEF ExitDefer, Less
<1>3. Quietly /\ Calm /\ UNCHANGED <<allocations, handles, garbage, badfree>> /\ size' \in Nat
      /\ oom' = {} /\ ops' \in [Threads -> 0 .. MaxOps]
  BY <1>1, <1>2 DEF Quietly, Calm, heap, pend, Shapes, Inv
<1>4. Activity' /\ Stacks'
  BY <1>2, <1>3, QuietStill
<1>5. Deferring'
  <2> PICK k : k = inside[t]
    OBVIOUS
  <2>1. k \in Nat \ {0} /\ k - 1 \in Nat /\ inside' \in [Threads -> Nat] /\ inside'[t] = k - 1
        /\ \A u \in Threads : u # t => inside'[u] = inside[u]
    BY <1>1, <1>2 DEF Deferring
  <2>2. \A j : j \in 1 .. k <=> j \in 1 .. k - 1 \/ j = k
    BY <2>1
  <2>3. k \notin 1 .. k - 1 /\ k \in 1 .. k
    BY <2>1
  <2>4. <<t, k>> \in Entered
    BY <2>3 DEF Entered
  <2>5. Entered' = Entered \ {<<t, k>>}
    <3>1. ASSUME NEW p PROVE p \in Entered' <=> p \in Entered \ {<<t, k>>}
      <4>1. p \in Entered' <=> \E u \in Threads : \E j \in 1 .. inside'[u] : p = <<u, j>>
        BY DEF Entered
      <4>2. p \in Entered <=> \E u \in Threads : \E j \in 1 .. inside[u] : p = <<u, j>>
        BY DEF Entered
      <4>3. (\E u \in Threads : \E j \in 1 .. inside'[u] : p = <<u, j>>)
              <=> (\E u \in Threads : \E j \in 1 .. inside[u] : p = <<u, j>>) /\ p # <<t, k>>
        BY <2>1, <2>2, <2>3
      <4>4. QED
        BY <4>1, <4>2, <4>3
    <3>2. QED
      BY <3>1
  <2>6. IsFiniteSet(Entered)' /\ Cardinality(Entered') = Cardinality(Entered) - 1
    BY <1>1, <2>4, <2>5, FS_RemoveElement DEF Deferring
  <2>7. QED
    BY <1>1, <1>2, <2>1, <2>6 DEF Deferring
<1>6. QED
  BY <1>3, <1>4, <1>5, QuietHeap DEF Inv

(* What a map of pointers holds for one allocation.                        *)
LEMMA HeldType ==
  ASSUME Shapes, NEW i \in Ids
  PROVE  /\ \A k \in Kinds : handles[i][k] \in Nat /\ garbage[i][k] \in Nat
         /\ Held(i) = (handles[i]["own"] + handles[i]["view"])
                        + (garbage[i]["own"] + garbage[i]["view"])
         /\ Held(i) \in Nat /\ Kinds = {"own", "view"}
         /\ \A k \in Kinds : handles[i][k] > 0 \/ garbage[i][k] > 0 => Held(i) > 0
<1>1. \A k \in Kinds : handles[i][k] \in Nat /\ garbage[i][k] \in Nat
  BY DEF Shapes
<1>2. Held(i) = (handles[i]["own"] + handles[i]["view"])
                  + (garbage[i]["own"] + garbage[i]["view"])
  BY DEF Held, Pointers
<1>3. /\ handles[i]["own"] \in Nat /\ handles[i]["view"] \in Nat
      /\ garbage[i]["own"] \in Nat /\ garbage[i]["view"] \in Nat
  BY <1>1 DEF Kinds
<1>4. Held(i) \in Nat
  BY <1>2, <1>3
<1>5. ASSUME NEW k \in Kinds, handles[i][k] > 0 \/ garbage[i][k] > 0 PROVE Held(i) > 0
  <2>1. CASE k = "own"
    <3>1. handles[i]["own"] > 0 \/ garbage[i]["own"] > 0
      BY <1>5, <2>1
    <3>2. QED
      BY <1>2, <1>3, <3>1
  <2>2. CASE k = "view"
    <3>1. handles[i]["view"] > 0 \/ garbage[i]["view"] > 0
      BY <1>5, <2>2
    <3>2. QED
      BY <1>2, <1>3, <3>1
  <2>3. QED
    BY <2>1, <2>2 DEF Kinds
<1>6. QED
  BY <1>1, <1>2, <1>4, <1>5 DEF Kinds

LEMMA LoseInv ==
  ASSUME Inv, NEW t \in Threads, NEW i \in Ids, NEW k \in Kinds, Lose(t, i, k)
  PROVE  Inv'
<1>1. Shapes /\ Heap
  BY DEF Inv
<1>2. /\ Begin(t) /\ handles[i][k] > 0
      /\ handles' = [handles EXCEPT ![i][k] = @ - 1]
      /\ garbage' = [garbage EXCEPT ![i][k] = @ + 1]
      /\ UNCHANGED <<heap, pend, defer, stack, ghosts>>
  BY DEF Lose
<1>3. Calm /\ ops' \in [Threads -> 0 .. MaxOps]
  BY <1>1, <1>2, BeginType DEF Calm, heap, pend, ghosts
<1>4. Activity' /\ Stacks'
  BY <1>2, <1>3, QuietStill
<1>5. handles' \in [Ids -> [Kinds -> Nat]] /\ garbage' \in [Ids -> [Kinds -> Nat]]
  <2>1. handles[i][k] - 1 \in Nat /\ garbage[i][k] + 1 \in Nat
    BY <1>1, <1>2, HeldType
  <2>2. QED
    BY <1>1, <1>2, <2>1 DEF Shapes
<1>6. Shapes'
  BY <1>1, <1>2, <1>3, <1>4, <1>5 DEF Shapes, Stacks, heap, pend, ghosts
<1>7. ASSUME NEW j \in Ids PROVE Held(j)' = Held(j)
  <2>1. CASE j = i
    <3>1. handles'[i][k] = handles[i][k] - 1 /\ garbage'[i][k] = garbage[i][k] + 1
          /\ \A l \in Kinds : l # k => /\ handles'[i][l] = handles[i][l]
                                      /\ garbage'[i][l] = garbage[i][l]
      BY <1>1, <1>2 DEF Shapes
    <3>2. \A l \in Kinds : handles[i][l] \in Nat /\ garbage[i][l] \in Nat
      BY <1>1, HeldType
    <3>3. QED
      BY <2>1, <3>1, <3>2 DEF Held, Pointers, Kinds
  <2>2. CASE j # i
    BY <1>1, <1>2, <2>2 DEF Held, Pointers, Shapes
  <2>3. QED
    BY <2>1, <2>2
<1>8. Heap'
  <2>1. Counts'
    BY <1>1, <1>2, <1>7 DEF Heap, Counts, heap, ghosts
  <2>2. Dictionary' /\ Queued' = Queued
    BY <1>1, <1>2 DEF Heap, Dictionary, heap, ghosts, Queued, pend
  <2>3. Blocks'
    BY <1>1, <1>2, <2>2 DEF Heap, Blocks, Dead, Has, heap, pend
  <2>4. QED
    BY <2>1, <2>2, <2>3 DEF Heap
<1>9. QED
  BY <1>2, <1>4, <1>6, <1>8, DeferSame DEF Inv, ghosts

(* One pointer less, wherever it was.                                      *)
LessOne(i, k) ==
  \/ handles[i][k] > 0 /\ handles' = [handles EXCEPT ![i][k] = @ - 1] /\ garbage' = garbage
  \/ garbage[i][k] > 0 /\ garbage' = [garbage EXCEPT ![i][k] = @ - 1] /\ handles' = handles

LEMMA HeldLess ==
  ASSUME Shapes, NEW i \in Ids, NEW k \in Kinds, LessOne(i, k)
  PROVE  /\ handles' \in [Ids -> [Kinds -> Nat]] /\ garbage' \in [Ids -> [Kinds -> Nat]]
         /\ Held(i)' = Held(i) - 1 /\ Held(i) \in Nat \ {0}
         /\ \A j \in Ids : j # i => Held(j)' = Held(j)
<1>1. \A l \in Kinds : handles[i][l] \in Nat /\ garbage[i][l] \in Nat
  BY HeldType
<1>2. Held(i) > 0 /\ Held(i) \in Nat
  BY HeldType DEF LessOne
<1>3. CASE handles[i][k] > 0 /\ handles' = [handles EXCEPT ![i][k] = @ - 1] /\ garbage' = garbage
  <2>1. handles[i][k] - 1 \in Nat
    BY <1>1, <1>3
  <2>2. handles' \in [Ids -> [Kinds -> Nat]] /\ garbage' \in [Ids -> [Kinds -> Nat]]
    BY <1>3, <2>1 DEF Shapes
  <2>3. /\ handles'[i][k] = handles[i][k] - 1
        /\ \A l \in Kinds : l # k => handles'[i][l] = handles[i][l]
    BY <1>3 DEF Shapes
  <2>4. Held(i)' = Held(i) - 1
    BY <1>1, <1>3, <2>3 DEF Held, Pointers, Kinds
  <2>5. \A j \in Ids : j # i => Held(j)' = Held(j)
    BY <1>3 DEF Held, Pointers, Shapes
  <2>6. QED
    BY <1>2, <2>2, <2>4, <2>5
<1>4. CASE garbage[i][k] > 0 /\ garbage' = [garbage EXCEPT ![i][k] = @ - 1] /\ handles' = handles
  <2>1. garbage[i][k] - 1 \in Nat
    BY <1>1, <1>4
  <2>2. handles' \in [Ids -> [Kinds -> Nat]] /\ garbage' \in [Ids -> [Kinds -> Nat]]
    BY <1>4, <2>1 DEF Shapes
  <2>3. /\ garbage'[i][k] = garbage[i][k] - 1
        /\ \A l \in Kinds : l # k => garbage'[i][l] = garbage[i][l]
    BY <1>4 DEF Shapes
  <2>4. Held(i)' = Held(i) - 1
    BY <1>1, <1>4, <2>3 DEF Held, Pointers, Kinds
  <2>5. \A j \in Ids : j # i => Held(j)' = Held(j)
    BY <1>4 DEF Held, Pointers, Shapes
  <2>6. QED
    BY <1>2, <2>2, <2>4, <2>5
<1>5. QED
  BY <1>3, <1>4 DEF LessOne

LEMMA ViewInv ==
  ASSUME Inv, NEW t \in Threads, NEW i \in Ids, View(t, i)
  PROVE  Inv'
<1>1. Shapes /\ Heap
  BY DEF Inv
<1>2. /\ Begin(t) /\ mem[i].alive
      /\ mem' = [mem EXCEPT ![i] = Counted(@)]
      /\ handles' = [handles EXCEPT ![i]["view"] = @ + 1]
      /\ UNCHANGED <<device, allocations, pend, defer, garbage, stack, ghosts>>
  BY DEF View
<1>3. mem[i].refct = Held(i) /\ Held(i) \in Nat
  BY <1>1, <1>2, HeldType DEF Heap, Counts
<1>4. /\ mem' \in [Ids -> [addr : Addrs \cup {0}, refct : Nat, alive : BOOLEAN]]
      /\ mem'[i].refct = mem[i].refct + 1
      /\ \A j \in Ids : mem'[j].addr = mem[j].addr /\ mem'[j].alive = mem[j].alive
      /\ \A j \in Ids : j # i => mem'[j] = mem[j]
  <2>1. mem[i] \in [addr : Addrs \cup {0}, refct : Nat, alive : BOOLEAN]
    BY <1>1 DEF Shapes
  <2> PICK x : x = Counted(mem[i])
    OBVIOUS
  <2>2. /\ x \in [addr : Addrs \cup {0}, refct : Nat, alive : BOOLEAN]
        /\ x.refct = mem[i].refct + 1 /\ x.addr = mem[i].addr /\ x.alive = mem[i].alive
    BY <2>1 DEF Counted
  <2>3. mem' = [mem EXCEPT ![i] = x]
    BY <1>2
  <2>4. mem'[i] = x /\ \A j \in Ids : j # i => mem'[j] = mem[j]
    BY <1>1, <2>3 DEF Shapes
  <2>5. mem' \in [Ids -> [addr : Addrs \cup {0}, refct : Nat, alive : BOOLEAN]]
    BY <1>1, <2>2, <2>3 DEF Shapes
  <2>6. QED
    BY <2>2, <2>4, <2>5
<1>5. Calm /\ ops' \in [Threads -> 0 .. MaxOps]
  BY <1>1, <1>2, <1>4, BeginType DEF Calm, pend, ghosts
<1>6. Activity' /\ Stacks'
  BY <1>2, <1>5, QuietStill
<1>7. /\ handles' \in [Ids -> [Kinds -> Nat]] /\ Held(i)' = Held(i) + 1
      /\ \A j \in Ids : j # i => Held(j)' = Held(j)
  <2>1. \A l \in Kinds : handles[i][l] \in Nat /\ garbage[i][l] \in Nat
    BY <1>1, HeldType
  <2>2. handles' \in [Ids -> [Kinds -> Nat]]
    BY <1>1, <1>2, <2>1 DEF Shapes, Kinds
  <2>3. handles'[i]["view"] = handles[i]["view"] + 1 /\ handles'[i]["own"] = handles[i]["own"]
    BY <1>1, <1>2 DEF Shapes, Kinds
  <2>4. Held(i)' = Held(i) + 1
    BY <1>2, <2>1, <2>3 DEF Held, Pointers, Kinds
  <2>5. \A j \in Ids : j # i => Held(j)' = Held(j)
    BY <1>1, <1>2 DEF Held, Pointers, Shapes
  <2>6. QED
    BY <2>2, <2>4, <2>5
<1>8. Shapes'
  BY <1>1, <1>2, <1>4, <1>5, <1>6, <1>7 DEF Shapes, Stacks, pend, ghosts
<1>9. Counts'
  <2>1. stale' = stale
    BY <1>2 DEF ghosts
  <2>2. ASSUME NEW j \in Ids
        PROVE  /\ mem'[j].alive => mem'[j].refct = Held(j)' /\ Held(j)' > 0
               /\ Held(j)' > 0 => mem'[j].alive \/ j \in stale
               /\ mem'[j].addr = 0 => Held(j)' = 0 /\ ~ mem'[j].alive /\ j \notin stale
    <3>1. CASE j = i
      <4>1. mem'[i].refct = Held(i)' /\ Held(i)' > 0 /\ mem'[i].alive /\ mem'[i].addr # 0
        BY <1>1, <1>2, <1>3, <1>4, <1>7 DEF Heap, Counts
      <4>2. QED
        BY <3>1, <4>1
    <3>2. CASE j # i
      BY <1>1, <1>4, <1>7, <3>2 DEF Heap, Counts
    <3>3. QED
      BY <3>1, <3>2
  <2>3. QED
    BY <2>1, <2>2 DEF Counts
<1>10. Dictionary' /\ Queued' = Queued
  <2>1. allocations' = allocations /\ stale' = stale /\ queue' = queue
    BY <1>2 DEF ghosts, pend
  <2>2. Dictionary'
    BY <1>1, <1>4, <2>1 DEF Heap, Dictionary
  <2>3. QED
    BY <2>1, <2>2 DEF Queued
<1>11. Blocks'
  <2>1. Queued \subseteq Ids
    BY <1>1 DEF Shapes, Queued
  <2>2. QED
    BY <1>1, <1>2, <1>4, <1>10, <2>1 DEF Heap, Blocks, Dead, Has, pend
<1>12. QED
  BY <1>2, <1>6, <1>8, <1>9, <1>10, <1>11, DeferSame DEF Inv, Heap, ghosts

-----------------------------------------------------------------------------
(* A pointer dies.                                                         *)

(* Nothing else is in charge of a block whose pointer lives.               *)
LEMMA Living ==
  ASSUME Inv, NEW i \in Ids, mem[i].alive
  PROVE  /\ i \notin Queued /\ Has(i) /\ mem[i].addr # 0 /\ i # 0
         /\ \A u \in Threads : \A d \in 1 .. Depth(u) : Claims(F(u, d)) => F(u, d).id # i
         /\ \A a \in Addrs : device[a] = i => mem[i].addr = a
<1>1. Heap /\ FramesOK /\ Owned
  BY DEF Inv, Activity
<1>2. mem[i].addr # 0 /\ ~ Dead(i)
  BY <1>1 DEF Heap, Counts, Dead
<1>3. i \notin Queued /\ Has(i) /\ i # 0
  BY <1>1, <1>2 DEF Heap, Blocks, Ids
<1>4. ASSUME NEW u \in Threads, NEW d \in 1 .. Depth(u), Claims(F(u, d)) PROVE F(u, d).id # i
  BY <1>1, <1>2, <1>4 DEF FramesOK, FrameOK, Claims
<1>5. ASSUME NEW a \in Addrs, device[a] = i PROVE mem[i].addr = a
  BY <1>1, <1>3, <1>4, <1>5 DEF Owned, Keeps, Claimed, Claims
<1>6. QED
  BY <1>2, <1>3, <1>4, <1>5

(* Its block joins the queue, or was given up by a reset().                *)
Dies(t, i) ==
  /\ mem[i].alive /\ mem' \in [Ids -> [addr : Addrs \cup {0}, refct : Nat, alive : BOOLEAN]]
  /\ mem'[i].addr = mem[i].addr /\ ~ mem'[i].alive
  /\ \A j \in Ids : j # i => mem'[j] = mem[j]
  /\ UNCHANGED <<device, lost, stale>>
  /\ \/ queue' = Append(queue, i) /\ Push(t, [Frame("add", "count") EXCEPT !.id = i])
     \/ queue' = queue /\ UNCHANGED stack /\ i \in stale

LEMMA AppendSeq ==
  ASSUME NEW S, NEW s \in Seq(S), NEW x \in S, NEW q, q = Append(s, x)
  PROVE  /\ q \in Seq(S) /\ Len(q) = Len(s) + 1 /\ q[Len(s) + 1] = x
         /\ \A k \in 1 .. Len(s) : q[k] = s[k]
         /\ DOMAIN q = 1 .. Len(s) + 1 /\ DOMAIN s = 1 .. Len(s)
OBVIOUS

LEMMA DiesQueue ==
  ASSUME Inv, NEW t \in Threads, NEW i \in Ids, Dies(t, i)
  PROVE  /\ queue' \in Seq(Ids)
         /\ \A j \in Queued' : j \in Queued \/ j = i
         /\ \A j \in Queued : j \in Queued'
         /\ i \in Queued' \/ i \in stale
         /\ \A k, l \in 1 .. Len(queue') : queue'[k] = queue'[l] => k = l
<1>1. /\ queue \in Seq(Ids) /\ i \notin Queued
      /\ \A k, l \in 1 .. Len(queue) : queue[k] = queue[l] => k = l
  BY Living DEF Inv, Shapes, Dies, Heap, Blocks
<1>2. CASE queue' = queue /\ i \in stale
  BY <1>1, <1>2 DEF Queued
<1>3. CASE queue' = Append(queue, i)
  <2> PICK n \in Nat : n = Len(queue)
    BY <1>1
  <2> PICK q : q = queue'
    OBVIOUS
  <2>1. /\ q \in Seq(Ids) /\ Len(q) = n + 1 /\ q[n + 1] = i
        /\ \A k \in 1 .. n : q[k] = queue[k]
        /\ DOMAIN q = 1 .. n + 1 /\ DOMAIN queue = 1 .. n
    BY <1>1, <1>3, AppendSeq
  <2>2. \A k \in 1 .. n + 1 : k \in 1 .. n \/ k = n + 1
    OBVIOUS
  <2>3. \A k \in 1 .. n : queue[k] # i /\ queue[k] \in Queued /\ k \in 1 .. n + 1
    BY <1>1, <2>1 DEF Queued
  <2>4. n + 1 \in 1 .. n + 1
    OBVIOUS
  <2>5. Queued' = {q[k] : k \in 1 .. n + 1} /\ Queued = {queue[k] : k \in 1 .. n}
    BY <2>1 DEF Queued
  <2>6. \A k, l \in 1 .. n + 1 : q[k] = q[l] => k = l
    BY <1>1, <2>1, <2>2, <2>3
  <2>7. QED
    BY <2>1, <2>2, <2>3, <2>4, <2>5, <2>6
<1>4. QED
  BY <1>2, <1>3 DEF Dies

LEMMA DiesActivity ==
  ASSUME Inv, NEW t \in Threads, NEW i \in Ids, Dies(t, i)
  PROVE  Activity' /\ Stacks' /\ Blocks'
<1>1. Shapes /\ Stacks /\ FramesOK /\ OneClaim /\ Owned /\ Flushes /\ Heap
  BY DEF Inv, Activity, Shapes, Stacks
<1>2. /\ mem[i].alive /\ mem'[i].addr = mem[i].addr /\ ~ mem'[i].alive
      /\ \A j \in Ids : j # i => mem'[j] = mem[j]
      /\ UNCHANGED <<device, lost, stale>>
  BY DEF Dies
<1>3. /\ Has(i) /\ mem[i].addr # 0 /\ i # 0
      /\ \A u \in Threads : \A d \in 1 .. Depth(u) : Claims(F(u, d)) => F(u, d).id # i
      /\ \A a \in Addrs : device[a] = i => mem[i].addr = a
  BY <1>2, Living
<1>4. /\ \A j \in Queued' : j \in Queued \/ j = i
      /\ \A j \in Queued : j \in Queued'
      /\ i \in Queued' \/ i \in stale
      /\ \A k, l \in 1 .. Len(queue') : queue'[k] = queue'[l] => k = l
  BY DiesQueue
<1>5. \A j \in Ids : (Dead(j) => Dead(j)') /\ (Has(j) => Has(j)')
  BY <1>2 DEF Dead, Has
<1>6. Dead(i)' /\ Queued \subseteq Ids
  BY <1>1, <1>2, <1>3 DEF Dead, Shapes, Queued
<1>7. Blocks'
  <2>1. ASSUME NEW j \in Ids, mem'[j].alive PROVE Has(j)'
    BY <1>1, <1>2, <1>5, <2>1 DEF Heap, Blocks
  <2>2. ASSUME NEW j \in Queued' PROVE Dead(j)' /\ Has(j)'
    BY <1>1, <1>3, <1>4, <1>5, <1>6 DEF Heap, Blocks
  <2>3. QED
    BY <1>4, <2>1, <2>2 DEF Blocks
<1> PICK m : m = Depth(t) + 1
  OBVIOUS
<1> PICK f : f = [Frame("add", "count") EXCEPT !.id = i]
  OBVIOUS
<1>8. f \in Activations /\ f.op = "add"
  BY DEF Activations, Frame, Ids
<1>9. m \in Nat \ {0} /\ \A d \in 1 .. Depth(t) : ~ (d >= m)
  <2>1. Depth(t) \in Nat
    BY <1>1, DepthType
  <2>2. QED
    BY <2>1
<1>10. PICK n : Moved(t, m, n) /\ (n = m - 1 \/ (n = m /\ F(t, m)' = f))
  <2>1. CASE Push(t, f)
    BY <1>1, <1>8, <2>1, PushMoves
  <2>2. CASE UNCHANGED stack
    BY <1>1, <2>2, StillMoves
  <2>3. QED
    BY <2>1, <2>2 DEF Dies
<1>11. FramesOK' /\ OneClaim'
  <2>1. Works(t, m, i)
    BY <1>3 DEF Works
  <2>2. NewOK(t, m, n, i)'
    <3>0. n = m => F(t, m)' = f
      BY <1>9, <1>10
    <3>1. n = m => FrameOK(F(t, m))' /\ ~ Claims(F(t, m))'
      BY <1>8, <3>0 DEF FrameOK, Claims, Registering, Freeing
    <3>2. (n >= m => n = m) /\ n # m + 1
      BY <1>9, <1>10
    <3>3. QED
      BY <3>1, <3>2 DEF NewOK
  <2>3. ASSUME NEW g \in Activations, FrameOK(g), Claims(g) => g.id # i PROVE FrameOK(g)'
    <3>1. g.todo \subseteq Ids /\ (g.id # 0 => g.id \in Ids)
      BY DEF Activations, Ids
    <3>2. QED
      BY <1>2, <1>4, <1>5, <2>3, <3>1 DEF FrameOK, Claims, Registering, Freeing
  <2>4. QED
    BY <1>1, <1>10, <2>1, <2>2, <2>3, FramesStep
<1>12. Owned'
  <2>1. Drops(t, m, i)
    BY <1>9 DEF Drops
  <2>2. OthersKeep(i)
    BY <1>2, <1>4 DEF Keeps, OthersKeep
  <2>3. KeepsWell(i)
    BY <1>2, <1>3, <1>4 DEF Keeps, KeepsWell
  <2>4. device' \in [Addrs -> 0 .. MaxAllocs]
    BY <1>1, <1>2 DEF Shapes
  <2>5. QED
    BY <1>1, <1>10, <2>1, <2>2, <2>3, <2>4, OwnedStep
<1>13. Flushes'
  <2>1. \A j \in Queued' : j \in Queued \/ ~ Dead(j)
    BY <1>2, <1>4 DEF Dead
  <2>2. NewFlushes(t, m, n)'
    <3>0. n = m => F(t, m)' = f
      BY <1>9, <1>10
    <3>1. n = m => UnderOK(t, m)' /\ FlushedOK(t, m)'
      BY <1>8, <3>0 DEF UnderOK, FlushedOK
    <3>2. (n >= m => n = m) /\ n # m + 1
      BY <1>9, <1>10
    <3>3. QED
      BY <3>1, <3>2 DEF NewFlushes
  <2>3. ~ Covers(t, m)
    BY <1>9 DEF Covers
  <2>4. QED
    BY <1>1, <1>10, <2>1, <2>2, <2>3, FlushesStep
<1>14. QED
  BY <1>7, <1>10, <1>11, <1>12, <1>13 DEF Activity, Moved

(* A pointer goes, by a drop or by the collector.                          *)
LEMMA DerefInv ==
  ASSUME Inv, NEW t \in Threads, NEW i \in Ids, NEW k \in Kinds, LessOne(i, k),
         NEW views, Deref(t, i, views),
         ops' \in [Threads -> 0 .. MaxOps], UNCHANGED <<device, size, defer, ghosts>>
  PROVE  Inv'
<1>1. Shapes /\ Heap
  BY DEF Inv
<1>2. /\ handles' \in [Ids -> [Kinds -> Nat]] /\ garbage' \in [Ids -> [Kinds -> Nat]]
      /\ Held(i)' = Held(i) - 1 /\ Held(i) \in Nat \ {0}
      /\ \A j \in Ids : j # i => Held(j)' = Held(j)
  BY <1>1, HeldLess
<1> PICK h : h = Held(i)'
  OBVIOUS
<1>20. h \in Nat
  BY <1>2
<1>21. Held(i) = h + 1
  BY <1>2
<1>3. UNCHANGED <<device, size, lost, stale, oom, badfree>>
  BY DEF ghosts
<1>4. ASSUME mem[i].alive \/ i \in stale PROVE mem[i].addr # 0
  BY <1>1, <1>4 DEF Heap, Counts
<1>5. mem[i].alive \/ i \in stale
  BY <1>1, <1>2 DEF Heap, Counts
<1>6. CASE ~ mem[i].alive
  <2>1. UNCHANGED <<mem, allocations, queue, stack>>
    BY <1>6 DEF Deref
  <2>2. Activity' /\ Stacks'
    BY <1>3, <2>1, QuietStill DEF Calm
  <2>3. Shapes'
    BY <1>1, <1>2, <1>3, <2>1, <2>2 DEF Shapes, Stacks
  <2>4. Counts'
    BY <1>1, <1>2, <1>3, <1>4, <1>5, <1>6, <2>1 DEF Heap, Counts
  <2>5. Dictionary' /\ Blocks'
    BY <1>1, <1>3, <2>1 DEF Heap, Dictionary, Blocks, Queued, Dead, Has
  <2>6. QED
    BY <1>3, <2>2, <2>3, <2>4, <2>5, DeferSame DEF Inv, Heap
<1>7. CASE mem[i].alive
  <2> PICK x : x = [mem[i] EXCEPT !.refct = @ - 1]
    OBVIOUS
  <2> PICK y : y = [x EXCEPT !.alive = FALSE]
    OBVIOUS
  <2>1. mem[i].refct = Held(i) /\ mem[i].addr # 0
    BY <1>1, <1>4, <1>7 DEF Heap, Counts
  <2>2. mem[i] \in [addr : Addrs \cup {0}, refct : Nat, alive : BOOLEAN]
    BY <1>1 DEF Shapes
  <2>3. /\ x \in [addr : Addrs \cup {0}, refct : Nat, alive : BOOLEAN]
        /\ x.refct = h /\ x.addr = mem[i].addr /\ x.alive = mem[i].alive
    <3>1. mem[i].refct - 1 = h
      BY <1>20, <1>21, <2>1
    <3>2. x = [mem[i] EXCEPT !.refct = h]
      BY <3>1
    <3>3. QED
      BY <1>20, <2>2, <3>2
  <2>4. y \in [addr : Addrs \cup {0}, refct : Nat, alive : BOOLEAN] /\ y.addr = mem[i].addr
        /\ y.alive = FALSE
    BY <2>3
  <2>5. CASE Unreferenced(x) \/ (i \notin allocations /\ views = 0)
    <3>1. mem' = [mem EXCEPT ![i] = y] /\ Finalize(t, i)
      BY <1>7, <2>5 DEF Deref
    <3>2. /\ mem' \in [Ids -> [addr : Addrs \cup {0}, refct : Nat, alive : BOOLEAN]]
          /\ mem'[i] = y /\ \A j \in Ids : j # i => mem'[j] = mem[j]
      BY <1>1, <2>4, <3>1 DEF Shapes
    <3>3. i \notin allocations => i \in stale
      BY <1>1, <1>7 DEF Heap, Dictionary
    <3>4. Dies(t, i)
      BY <1>3, <1>7, <2>4, <3>1, <3>2, <3>3 DEF Dies, Finalize
    <3>5. Activity' /\ Stacks' /\ Blocks'
      BY <3>4, DiesActivity
    <3>6. Shapes'
      BY <1>1, <1>2, <1>3, <3>2, <3>4, <3>5, DiesQueue DEF Shapes, Stacks
    <3>7. Dictionary'
      <4>1. allocations' = allocations \ {i}
        BY <3>1 DEF Finalize
      <4>2. allocations = {j \in Ids \ stale : mem[j].alive}
        BY <1>1 DEF Heap, Dictionary
      <4>3. \A j \in Ids : mem'[j].alive <=> mem[j].alive /\ j # i
        BY <2>4, <3>2
      <4>4. allocations' = {j \in Ids \ stale : mem'[j].alive}
        BY <4>1, <4>2, <4>3
      <4>5. QED
        BY <1>3, <4>4 DEF Dictionary
    <3>8. Counts'
      <4>1. Held(i)' > 0 => i \in stale
        <5>1. h > 0 => ~ Unreferenced(x)
          BY <1>20, <2>3 DEF Unreferenced
        <5>2. QED
          BY <2>5, <3>3, <5>1
      <4>2. ASSUME NEW j \in Ids
            PROVE  /\ mem'[j].alive => mem'[j].refct = Held(j)' /\ Held(j)' > 0
                   /\ Held(j)' > 0 => mem'[j].alive \/ j \in stale
                   /\ mem'[j].addr = 0 => Held(j)' = 0 /\ ~ mem'[j].alive /\ j \notin stale
        BY <1>1, <1>2, <2>1, <2>4, <3>2, <4>1 DEF Heap, Counts
      <4>3. QED
        BY <1>3, <4>2 DEF Counts
    <3>9. QED
      BY <1>3, <3>5, <3>6, <3>7, <3>8, DeferSame DEF Inv, Heap
  <2>6. CASE ~ (Unreferenced(x) \/ (i \notin allocations /\ views = 0))
    <3>1. mem' = [mem EXCEPT ![i] = x] /\ UNCHANGED <<allocations, queue, stack>>
      BY <1>7, <2>6 DEF Deref
    <3>2. /\ mem' \in [Ids -> [addr : Addrs \cup {0}, refct : Nat, alive : BOOLEAN]]
          /\ mem'[i] = x /\ \A j \in Ids : j # i => mem'[j] = mem[j]
      BY <1>1, <2>3, <3>1 DEF Shapes
    <3>3. \A j \in Ids : mem'[j].addr = mem[j].addr /\ mem'[j].alive = mem[j].alive
      BY <2>3, <3>2
    <3>4. Activity' /\ Stacks'
      BY <1>3, <3>1, <3>3, QuietStill DEF Calm
    <3>5. Shapes'
      BY <1>1, <1>2, <1>3, <3>1, <3>2, <3>4 DEF Shapes, Stacks
    <3>6. Counts'
      <4>1. Held(i)' > 0
        <5>1. x.refct # 0
          BY <2>6 DEF Unreferenced
        <5>2. h # 0
          BY <2>3, <5>1
        <5>3. h > 0
          BY <1>20, <5>2
        <5>4. QED
          BY <5>3
      <4>2. ASSUME NEW j \in Ids
            PROVE  /\ mem'[j].alive => mem'[j].refct = Held(j)' /\ Held(j)' > 0
                   /\ Held(j)' > 0 => mem'[j].alive \/ j \in stale
                   /\ mem'[j].addr = 0 => Held(j)' = 0 /\ ~ mem'[j].alive /\ j \notin stale
        BY <1>1, <1>2, <1>7, <2>1, <2>3, <3>2, <4>1 DEF Heap, Counts
      <4>3. QED
        BY <1>3, <4>2 DEF Counts
    <3>7. Dictionary'
      BY <1>1, <1>3, <3>1, <3>3 DEF Heap, Dictionary
    <3>8. Blocks'
      <4>1. Queued' = Queued /\ Queued \subseteq Ids
        BY <1>1, <3>1 DEF Queued, Shapes
      <4>2. QED
        BY <1>1, <1>3, <3>1, <3>3, <4>1 DEF Heap, Blocks, Dead, Has
    <3>9. QED
      BY <1>3, <3>4, <3>5, <3>6, <3>7, <3>8, DeferSame DEF Inv, Heap
  <2>7. QED
    BY <2>5, <2>6
<1>8. QED
  BY <1>6, <1>7

LEMMA DropInv ==
  ASSUME Inv, NEW t \in Threads, NEW i \in Ids, NEW k \in Kinds, Drop(t, i, k)
  PROVE  Inv'
<1>1. LessOne(i, k) /\ UNCHANGED <<device, size, defer, ghosts>>
  BY DEF Drop, LessOne
<1>2. ops' \in [Threads -> 0 .. MaxOps]
  BY BeginType DEF Drop, Inv
<1>3. PICK views : Deref(t, i, views)
  BY DEF Drop
<1>4. QED
  BY <1>1, <1>2, <1>3, DerefInv

LEMMA CollectInv ==
  ASSUME Inv, NEW t \in Threads, NEW i \in Ids, NEW k \in Kinds, Collect(t, i, k)
  PROVE  Inv'
<1>1. LessOne(i, k) /\ UNCHANGED <<device, size, defer, ghosts>>
  BY DEF Collect, LessOne
<1>2. ops' \in [Threads -> 0 .. MaxOps]
  BY DEF Collect, Inv, Shapes
<1>3. PICK views : Deref(t, i, views)
  BY DEF Collect
<1>4. QED
  BY <1>1, <1>2, <1>3, DerefInv

-----------------------------------------------------------------------------
(* A block is allocated.                                                   *)

LEMMA FreshType ==
  ASSUME Ids \ Taken # {}
  PROVE  FreshId \in Ids \ Taken
<1> DEFINE S == Ids \ Taken
<1>1. S \subseteq Nat /\ S # {}
  BY DEF Ids
<1> HIDE DEF S
<1>2. PICK i \in S : \A j \in S : ~ (<<j, i>> \in OpToRel(<, Nat))
  BY <1>1, NatLessThanWellFounded, WFMin
<1>3. \A j \in S : i <= j
  <2> SUFFICES ASSUME NEW j \in S PROVE i <= j
    OBVIOUS
  <2>1. i \in Nat /\ j \in Nat
    BY <1>1
  <2>2. ~ (j < i)
    BY <1>2, <2>1 DEF OpToRel
  <2>3. QED
    BY <2>1, <2>2
<1>4. QED
  BY <1>3 DEF FreshId, S

LEMMA MemType ==
  ASSUME Shapes, NEW i \in Ids
  PROVE  /\ mem[i] \in [addr : Addrs \cup {0}, refct : Nat, alive : BOOLEAN]
         /\ mem[i].addr # 0 => mem[i].addr \in Addrs
         /\ i # 0 /\ 0 \notin Addrs
BY DEF Shapes, Ids

LEMMA ObtainInv ==
  ASSUME Inv, NEW t \in Threads, Obtain(t)
  PROVE  Inv'
<1>1. Shapes /\ Stacks /\ FramesOK /\ OneClaim /\ Owned /\ Flushes /\ Heap
  BY DEF Inv, Activity, Shapes, Stacks
<1>2. stack[t] # <<>> /\ Top(t).op = "alloc" /\ Top(t).pc \in {"try", "retry"}
  BY DEF Obtain, In
<1>3. FreshId \in Ids \ Taken
  BY FreshType DEF Obtain
<1> PICK i \in Ids : i = FreshId
  BY <1>3
<1>4. PICK a \in FreeAddrs : device' = [device EXCEPT ![a] = i]
                             /\ Goto(t, [Top(t) EXCEPT !.pc = "register", !.id = i, !.n = a])
  BY DEF Obtain
<1>5. UNCHANGED <<mem, allocations, queue, size, defer, handles, garbage, ops, lost, stale,
                  oom, badfree>>
  BY DEF Obtain, pend, ghosts
<1>6. a \in Addrs /\ a \in Nat /\ device[a] = 0 /\ i # 0 /\ i \in 0 .. MaxAllocs
  BY DEF FreeAddrs, Ids
<1>7. mem[i].addr = 0 /\ \A b \in Addrs : device[b] # i
  BY <1>3 DEF Taken
<1>8. /\ device' \in [Addrs -> 0 .. MaxAllocs] /\ device'[a] = i
      /\ \A b \in Addrs : b # a => device'[b] = device[b]
  BY <1>1, <1>4, <1>6 DEF Shapes
<1>9. \A j \in Ids : mem[j].addr # 0 /\ Has(j) => Has(j)'
  BY <1>1, <1>5, <1>6, <1>8, MemType DEF Has
<1>10. Dead(i) = FALSE /\ ~ mem[i].alive
  BY <1>1, <1>7 DEF Dead, Heap, Counts
<1> PICK m : m = Depth(t)
  OBVIOUS
<1>11. /\ m \in Nat \ {0} /\ F(t, m) = Top(t) /\ Top(t) \in Activations
       /\ FrameOK(F(t, m)) /\ FlushedOK(t, m) /\ ~ Covers(t, m + 1)
       /\ \A d \in 1 .. Depth(t) : d >= m => d = m
  BY <1>2, TopFacts
<1> PICK f : f = [Top(t) EXCEPT !.pc = "register", !.id = i, !.n = a]
  OBVIOUS
<1>12. /\ f \in Activations /\ f.op = "alloc" /\ f.pc = "register" /\ f.id = i /\ f.n = a
       /\ f.todo = Top(t).todo
  BY <1>2, <1>6, <1>11 DEF Activations
<1>13. Moved(t, m, m) /\ F(t, m)' = f
  BY <1>1, <1>2, <1>4, <1>12, GotoMoves
<1>14. Queued' = Queued /\ Queued \subseteq Ids
  BY <1>1, <1>5 DEF Queued, Shapes
<1>15. \A u \in Threads : \A d \in 1 .. Depth(u) : Claims(F(u, d)) => F(u, d).id # i
  BY <1>1, <1>7, <1>10 DEF FramesOK, FrameOK, Claims
<1>16. FramesOK' /\ OneClaim'
  <2>1. Works(t, m, i)
    BY <1>15 DEF Works
  <2>2. NewOK(t, m, m, i)'
    <3>1. FrameOK(F(t, m))' /\ F(t, m)'.id = i
      <4>1. \A j \in f.todo : Dead(j)'
        BY <1>2, <1>5, <1>11, <1>12 DEF FrameOK, Dead
      <4>2. QED
        BY <1>5, <1>6, <1>7, <1>8, <1>12, <1>13, <4>1 DEF FrameOK, Registering, Freeing
    <3>2. m # m + 1
      BY <1>11
    <3>3. QED
      BY <3>1, <3>2 DEF NewOK
  <2>3. ASSUME NEW g \in Activations, FrameOK(g), Claims(g) => g.id # i PROVE FrameOK(g)'
    <3>1. g.todo \subseteq Ids /\ (g.id # 0 => g.id \in Ids)
      BY DEF Activations, Ids
    <3>2. Registering(g) => device'[g.n] = g.id
      BY <1>6, <1>8, <2>3 DEF FrameOK
    <3>3. Freeing(g) => Has(g.id)'
      BY <1>9, <2>3, <3>1 DEF FrameOK, Freeing, Dead
    <3>4. QED
      BY <1>5, <1>14, <2>3, <3>1, <3>2, <3>3 DEF FrameOK, Registering, Freeing, Dead
  <2>4. QED
    BY <1>1, <1>13, <2>1, <2>2, <2>3, FramesStep
<1>17. Owned'
  <2>1. Drops(t, m, i)
    <3>1. ~ Claims(F(t, m))
      BY <1>2, <1>11 DEF Claims, Registering, Freeing
    <3>2. QED
      BY <1>11, <3>1 DEF Drops
  <2>2. OthersKeep(i)
    BY <1>5, <1>8, <1>14 DEF Keeps, OthersKeep
  <2>3. KeepsWell(i)
    <3>1. ASSUME NEW b \in Addrs, device'[b] = i PROVE Claimed(i, b)'
      <4>1. b = a
        BY <1>7, <1>8, <3>1
      <4>2. Depth(t)' = m /\ m \in 1 .. m
        BY <1>11, <1>13 DEF Moved
      <4>3. F(t, m)'.id = i /\ F(t, m)'.n = b /\ Registering(F(t, m))'
        BY <1>12, <1>13, <4>1 DEF Registering
      <4>4. QED
        BY <4>2, <4>3 DEF Claimed
    <3>2. QED
      BY <3>1 DEF KeepsWell
  <2>4. QED
    BY <1>1, <1>8, <1>13, <2>1, <2>2, <2>3, OwnedStep
<1>18. Flushes'
  <2>1. NewFlushes(t, m, m)'
    <3>1. UnderOK(t, m)' /\ FlushedOK(t, m)'
      BY <1>2, <1>11, <1>12, <1>13, <1>14 DEF UnderOK, FlushedOK
    <3>2. m # m + 1
      BY <1>11
    <3>3. QED
      BY <3>1, <3>2 DEF NewFlushes
  <2>2. ~ Covers(t, m)
    BY <1>2, <1>11 DEF Covers
  <2>3. QED
    BY <1>1, <1>13, <1>14, <2>1, <2>2, FlushesStep
<1>19. Shapes'
  BY <1>1, <1>5, <1>8, <1>13 DEF Shapes, Moved, Stacks
<1>20. Counts' /\ Dictionary'
  BY <1>1, <1>5 DEF Heap, Counts, Dictionary, Held, Pointers
<1>21. Blocks'
  <2>1. \A j \in Ids : mem[j].alive => mem[j].addr # 0
    BY <1>1 DEF Heap, Counts
  <2>2. \A j \in Ids : mem'[j].alive => Has(j)'
    BY <1>1, <1>5, <1>9, <2>1 DEF Heap, Blocks
  <2>3. \A j \in Queued' : Dead(j)' /\ Has(j)'
    BY <1>1, <1>5, <1>9, <1>14 DEF Heap, Blocks, Dead
  <2>4. QED
    BY <1>1, <1>5, <2>2, <2>3 DEF Heap, Blocks
<1>22. QED
  BY <1>5, <1>16, <1>17, <1>18, <1>19, <1>20, <1>21, DeferSame DEF Inv, Heap, Activity

LEMMA RegisterInv ==
  ASSUME Inv, NEW t \in Threads, Register(t)
  PROVE  Inv'
<1>1. Shapes /\ Stacks /\ FramesOK /\ OneClaim /\ Owned /\ Flushes /\ Heap
  BY DEF Inv, Activity, Shapes, Stacks
<1>2. stack[t] # <<>> /\ Top(t).op = "alloc" /\ Top(t).pc = "register"
  BY DEF Register, In
<1> PICK i, a : i = Top(t).id /\ a = Top(t).n
  OBVIOUS
<1>3. /\ mem' = [mem EXCEPT ![i] = [addr |-> a, refct |-> 1, alive |-> TRUE]]
      /\ allocations' = allocations \cup {i}
      /\ handles' = [handles EXCEPT ![i]["own"] = 1]
      /\ Put(t, Tail(stack[t]))
      /\ UNCHANGED <<device, queue, size, defer, garbage, ops, lost, stale, oom, badfree>>
  BY DEF Register, Pop, Put, pend, ghosts
<1> PICK m : m = Depth(t)
  OBVIOUS
<1>4. /\ m \in Nat \ {0} /\ F(t, m) = Top(t) /\ Top(t) \in Activations /\ FrameOK(F(t, m))
      /\ m \in 1 .. Depth(t) /\ \A d \in 1 .. Depth(t) : d >= m => d = m
  BY <1>2, TopFacts
<1>5. /\ i \in Ids /\ a \in Addrs /\ mem[i].addr = 0 /\ device[a] = i
      /\ Claims(F(t, m)) /\ F(t, m).id = i /\ F(t, m).n = a
  <2>1. Registering(F(t, m)) /\ i # 0 /\ a \in Addrs /\ mem[i].addr = 0 /\ device[a] = i
    BY <1>2, <1>4 DEF Registering, FrameOK
  <2>2. i \in 0 .. MaxAllocs
    BY <1>4 DEF Activations
  <2>3. i \in Ids
    BY <2>1, <2>2 DEF Ids
  <2>4. QED
    BY <1>4, <2>1, <2>3 DEF Claims
<1>6. /\ mem' \in [Ids -> [addr : Addrs \cup {0}, refct : Nat, alive : BOOLEAN]]
      /\ mem'[i].addr = a /\ mem'[i].refct = 1 /\ mem'[i].alive
      /\ \A j \in Ids : j # i => mem'[j] = mem[j]
  <2> PICK x : x = [addr |-> a, refct |-> 1, alive |-> TRUE]
    OBVIOUS
  <2>1. /\ x \in [addr : Addrs \cup {0}, refct : Nat, alive : BOOLEAN]
        /\ x.addr = a /\ x.refct = 1 /\ x.alive
    BY <1>5
  <2>2. mem' = [mem EXCEPT ![i] = x]
    BY <1>3
  <2>3. mem'[i] = x /\ \A j \in Ids : j # i => mem'[j] = mem[j]
    BY <1>1, <1>5, <2>2 DEF Shapes
  <2>4. mem' \in [Ids -> [addr : Addrs \cup {0}, refct : Nat, alive : BOOLEAN]]
    BY <1>1, <2>1, <2>2 DEF Shapes
  <2>5. QED
    BY <2>1, <2>3, <2>4
<1>7. Held(i) = 0 /\ ~ mem[i].alive /\ i \notin stale /\ ~ Dead(i) /\ i \notin Queued
  BY <1>1, <1>5 DEF Heap, Counts, Dead, Blocks
<1>8. /\ handles' \in [Ids -> [Kinds -> Nat]] /\ Held(i)' = 1
      /\ \A j \in Ids : j # i => Held(j)' = Held(j)
  <2>1. \A k \in Kinds : handles[i][k] = 0 /\ garbage[i][k] = 0
    <3>1. \A k \in Kinds : handles[i][k] \in Nat /\ garbage[i][k] \in Nat
      BY <1>1, <1>5, HeldType
    <3>2. \A k \in Kinds : ~ (handles[i][k] > 0) /\ ~ (garbage[i][k] > 0)
      BY <1>1, <1>5, <1>7, HeldType
    <3>3. QED
      BY <3>1, <3>2
  <2>2. handles' \in [Ids -> [Kinds -> Nat]]
    BY <1>1, <1>3 DEF Shapes
  <2>3. handles'[i]["own"] = 1 /\ handles'[i]["view"] = handles[i]["view"]
    BY <1>1, <1>3, <1>5 DEF Shapes, Kinds
  <2>4. Held(i)' = 1
    BY <1>3, <2>1, <2>3 DEF Held, Pointers, Kinds
  <2>5. \A j \in Ids : j # i => Held(j)' = Held(j)
    BY <1>1, <1>3 DEF Held, Pointers, Shapes
  <2>6. QED
    BY <2>2, <2>4, <2>5
<1>9. Moved(t, m, m - 1)
  BY <1>1, <1>2, <1>3, PopMoves
<1>10. Queued' = Queued /\ Queued \subseteq Ids
  BY <1>1, <1>3 DEF Queued, Shapes
<1>11. \A j \in Ids : (Dead(j) => Dead(j)') /\ (j # i /\ Has(j) => Has(j)')
  BY <1>3, <1>6, <1>7 DEF Dead, Has
<1>12. FramesOK' /\ OneClaim'
  <2>1. Works(t, m, i)
    <3>1. ASSUME NEW u \in Threads, NEW d \in 1 .. Depth(u), Stays(t, m, u, d), Claims(F(u, d)),
                 F(u, d).id = i
          PROVE  FALSE
      <4>1. u = t /\ d = m
        BY <1>1, <1>4, <1>5, <3>1 DEF OneClaim
      <4>2. QED
        BY <1>4, <3>1, <4>1 DEF Stays
    <3>2. QED
      BY <3>1 DEF Works
  <2>2. NewOK(t, m, m - 1, i)'
    BY <1>4 DEF NewOK
  <2>3. ASSUME NEW g \in Activations, FrameOK(g), Claims(g) => g.id # i PROVE FrameOK(g)'
    <3>1. g.todo \subseteq Ids /\ (g.id # 0 => g.id \in Ids)
      BY DEF Activations, Ids
    <3>2. Registering(g) => mem'[g.id].addr = 0
      BY <1>6, <2>3, <3>1 DEF FrameOK, Claims
    <3>3. Freeing(g) => Dead(g.id)' /\ Has(g.id)'
      BY <1>11, <2>3, <3>1 DEF FrameOK, Freeing, Claims
    <3>4. QED
      BY <1>3, <1>10, <1>11, <2>3, <3>1, <3>2, <3>3 DEF FrameOK, Registering, Freeing
  <2>4. QED
    BY <1>1, <1>9, <2>1, <2>2, <2>3, FramesStep
<1>13. Owned'
  <2>1. Drops(t, m, i)
    BY <1>4, <1>5 DEF Drops
  <2>2. OthersKeep(i)
    BY <1>3, <1>6, <1>10 DEF Keeps, OthersKeep
  <2>3. KeepsWell(i)
    <3>1. ASSUME NEW b \in Addrs, device'[b] = i PROVE Keeps(i, b)'
      <4>1. device[b] = i /\ b # 0
        BY <1>3, <3>1
      <4>2. Claimed(i, b)
        BY <1>1, <1>5, <4>1, MemType DEF Owned, Keeps
      <4>3. PICK u \in Threads : \E d \in 1 .. Depth(u) :
              /\ F(u, d).id = i /\ Claims(F(u, d))
              /\ (Registering(F(u, d)) /\ F(u, d).n = b) \/ (Freeing(F(u, d)) /\ mem[i].addr = b)
        BY <4>2 DEF Claimed, Claims
      <4>4. PICK d \in 1 .. Depth(u) :
              /\ F(u, d).id = i /\ Claims(F(u, d))
              /\ (Registering(F(u, d)) /\ F(u, d).n = b) \/ (Freeing(F(u, d)) /\ mem[i].addr = b)
        BY <4>3
      <4>5. u = t /\ d = m
        BY <1>1, <1>4, <1>5, <4>4 DEF OneClaim
      <4>6. b = a
        BY <1>5, <4>1, <4>4, <4>5
      <4>7. QED
        BY <1>6, <4>6 DEF Keeps
    <3>2. QED
      BY <3>1 DEF KeepsWell
  <2>4. device' \in [Addrs -> 0 .. MaxAllocs]
    BY <1>1, <1>3 DEF Shapes
  <2>5. QED
    BY <1>1, <1>9, <2>1, <2>2, <2>3, <2>4, OwnedStep
<1>14. Flushes'
  <2>1. NewFlushes(t, m, m - 1)'
    BY <1>4 DEF NewFlushes
  <2>2. ~ Covers(t, m)
    BY <1>2, <1>4 DEF Covers
  <2>3. QED
    BY <1>1, <1>9, <1>10, <2>1, <2>2, FlushesStep
<1>15. Shapes'
  BY <1>1, <1>3, <1>6, <1>8, <1>9 DEF Shapes, Moved, Stacks
<1>16. Counts'
  <2>1. ASSUME NEW j \in Ids
        PROVE  /\ mem'[j].alive => mem'[j].refct = Held(j)' /\ Held(j)' > 0
               /\ Held(j)' > 0 => mem'[j].alive \/ j \in stale
               /\ mem'[j].addr = 0 => Held(j)' = 0 /\ ~ mem'[j].alive /\ j \notin stale
    <3>1. CASE j = i
      BY <1>5, <1>6, <1>8, <3>1, MemType, <1>1
    <3>2. CASE j # i
      BY <1>1, <1>6, <1>8, <3>2 DEF Heap, Counts
    <3>3. QED
      BY <3>1, <3>2
  <2>2. QED
    BY <1>3, <2>1 DEF Counts
<1>17. Dictionary'
  BY <1>1, <1>3, <1>5, <1>6, <1>7 DEF Heap, Dictionary
<1>18. Blocks'
  <2>1. ASSUME NEW j \in Ids, mem'[j].alive PROVE Has(j)'
    <3>1. CASE j = i
      BY <1>3, <1>5, <1>6, <3>1 DEF Has
    <3>2. CASE j # i
      BY <1>1, <1>6, <1>11, <2>1, <3>2 DEF Heap, Blocks
    <3>3. QED
      BY <3>1, <3>2
  <2>2. \A j \in Queued' : Dead(j)' /\ Has(j)'
    BY <1>1, <1>7, <1>10, <1>11 DEF Heap, Blocks
  <2>3. QED
    BY <1>1, <1>3, <2>1, <2>2 DEF Heap, Blocks
<1>19. QED
  BY <1>3, <1>12, <1>13, <1>14, <1>15, <1>16, <1>17, <1>18, DeferSame DEF Inv, Heap, Activity

-----------------------------------------------------------------------------
(* A flush takes the first block of the queue and gives it back.           *)

LEMMA TailQueue ==
  ASSUME Inv, queue # <<>>, queue' = Tail(queue), NEW i, i = Head(queue)
  PROVE  /\ queue' \in Seq(Ids) /\ i \in Ids /\ i \in Queued
         /\ Queued' = Queued \ {i}
         /\ \A k, l \in 1 .. Len(queue') : queue'[k] = queue'[l] => k = l
<1>1. queue \in Seq(Ids) /\ \A k, l \in 1 .. Len(queue) : queue[k] = queue[l] => k = l
  BY DEF Inv, Shapes, Heap, Blocks
<1> PICK n \in Nat : n = Len(queue)
  BY <1>1
<1> PICK q : q = queue'
  OBVIOUS
<1>2. /\ q \in Seq(Ids) /\ Len(q) = n - 1 /\ n \in Nat \ {0} /\ i = queue[1] /\ i \in Ids
      /\ \A k \in 1 .. n - 1 : q[k] = queue[k + 1]
  BY <1>1, TailSeq
<1>3. \A k \in 1 .. n - 1 : q[k] = queue[k + 1]
  BY <1>2
<1>4. DOMAIN q = 1 .. n - 1 /\ DOMAIN queue = 1 .. n
  BY <1>1, <1>2
<1>5. Queued' = {q[k] : k \in 1 .. n - 1} /\ Queued = {queue[k] : k \in 1 .. n}
  BY <1>4 DEF Queued
<1>6. \A k \in 1 .. n - 1 : k + 1 \in 1 .. n /\ k + 1 # 1 /\ 1 \in 1 .. n
  BY <1>2
<1>7. \A k \in 1 .. n : k = 1 \/ (k - 1 \in 1 .. n - 1 /\ (k - 1) + 1 = k)
  BY <1>2
<1>8. \A k, l \in 1 .. n - 1 : k + 1 = l + 1 => k = l
  BY <1>2
<1>9. 1 \in 1 .. n
  BY <1>2
<1>10. ASSUME NEW j \in Queued' PROVE j \in Queued \ {i}
  <2>1. PICK k \in 1 .. n - 1 : j = queue[k + 1]
    BY <1>2, <1>5
  <2>2. k + 1 \in 1 .. n /\ k + 1 # 1
    BY <1>6
  <2> PICK l : l = k + 1
    OBVIOUS
  <2>3. queue[l] # queue[1]
    BY <1>1, <1>9, <2>2
  <2>4. QED
    BY <1>2, <1>5, <2>1, <2>2, <2>3
<1>11. ASSUME NEW j \in Queued \ {i} PROVE j \in Queued'
  <2>1. PICK k \in 1 .. n : j = queue[k]
    BY <1>5
  <2>2. k # 1
    BY <1>2, <2>1
  <2> PICK l : l = k - 1
    OBVIOUS
  <2>3. l \in 1 .. n - 1 /\ l + 1 = k
    BY <1>7, <2>2
  <2>4. q[l] = j
    BY <1>3, <2>1, <2>3
  <2>5. QED
    BY <1>5, <2>3, <2>4
<1>12. ASSUME NEW k \in 1 .. n - 1, NEW l \in 1 .. n - 1, q[k] = q[l] PROVE k = l
  <2> PICK k1 : k1 = k + 1
    OBVIOUS
  <2> PICK l1 : l1 = l + 1
    OBVIOUS
  <2>1. k1 \in 1 .. n /\ l1 \in 1 .. n
    BY <1>6
  <2>2. q[k] = queue[k1] /\ q[l] = queue[l1]
    BY <1>3
  <2>3. queue[k1] = queue[l1]
    BY <1>12, <2>2
  <2>4. k1 = l1
    BY <1>1, <2>1, <2>3
  <2>5. QED
    BY <1>8, <2>4
<1>13. i \in Queued
  BY <1>2, <1>5, <1>9
<1>14. QED
  BY <1>2, <1>10, <1>11, <1>12, <1>13

LEMMA ClearPopInv ==
  ASSUME Inv, NEW t \in Threads, stack[t] # <<>>, Top(t).op = "clear", Top(t).id = 0,
         queue # <<>>, Goto(t, [Top(t) EXCEPT !.id = Head(queue), !.n = 1]),
         queue' = Popped, UNCHANGED size,
         UNCHANGED <<heap, defer, handles, garbage, ops, ghosts>>
  PROVE  Inv'
<1>1. Shapes /\ Stacks /\ FramesOK /\ OneClaim /\ Owned /\ Flushes /\ Heap
  BY DEF Inv, Activity, Shapes, Stacks
<1> PICK i : i = Head(queue)
  OBVIOUS
<1>2. /\ queue' \in Seq(Ids) /\ i \in Ids /\ i \in Queued /\ Queued' = Queued \ {i}
      /\ \A k, l \in 1 .. Len(queue') : queue'[k] = queue'[l] => k = l
  BY TailQueue DEF Popped
<1>3. UNCHANGED <<device, mem, allocations, size, handles, garbage, ops, lost, stale, oom, badfree>>
  BY DEF heap, ghosts
<1>4. Dead(i) /\ Has(i)
  BY <1>1, <1>2 DEF Heap, Blocks
<1> PICK m : m = Depth(t)
  OBVIOUS
<1>5. /\ m \in Nat \ {0} /\ F(t, m) = Top(t) /\ Top(t) \in Activations
      /\ FrameOK(F(t, m)) /\ UnderOK(t, m) /\ m \in 1 .. Depth(t)
      /\ \A d \in 1 .. Depth(t) : d >= m => d = m
  BY TopFacts
<1> PICK f : f = [Top(t) EXCEPT !.id = i, !.n = 1]
  OBVIOUS
<1>6. f \in Activations /\ f.op = "clear" /\ f.id = i /\ f.pc = Top(t).pc
  <2>1. i \in 0 .. MaxAllocs /\ Top(t) \in Activations
    BY <1>2, <1>5 DEF Ids
  <2>2. QED
    BY <2>1 DEF Activations
<1>7. Moved(t, m, m) /\ F(t, m)' = f
  BY <1>1, <1>6, GotoMoves
<1>8. ~ Claims(F(t, m)) /\ i # 0
  BY <1>2, <1>5 DEF Claims, Registering, Freeing, Ids
<1>9. \A u \in Threads : \A d \in 1 .. Depth(u) : Claims(F(u, d)) => F(u, d).id # i
  BY <1>1, <1>2, <1>4 DEF FramesOK, FrameOK, Claims, Dead
<1>10. m # m + 1
  BY <1>5
<1>11. \A j : (Dead(j) <=> Dead(j)') /\ (Has(j) <=> Has(j)')
  BY <1>3 DEF Dead, Has
<1>12. FramesOK' /\ OneClaim'
  <2>1. Works(t, m, i)
    BY <1>9 DEF Works
  <2>2. NewOK(t, m, m, i)'
    <3>1. FrameOK(F(t, m))' /\ F(t, m)'.id = i
      BY <1>2, <1>4, <1>5, <1>6, <1>7, <1>11 DEF FrameOK, Registering, Freeing
    <3>2. QED
      BY <1>10, <3>1 DEF NewOK
  <2>3. ASSUME NEW g \in Activations, FrameOK(g), Claims(g) => g.id # i PROVE FrameOK(g)'
    BY <1>2, <1>3, <1>11, <2>3 DEF FrameOK, Registering, Freeing
  <2>4. QED
    BY <1>1, <1>7, <2>1, <2>2, <2>3, FramesStep
<1>13. Owned'
  <2>1. Drops(t, m, i)
    BY <1>5, <1>8 DEF Drops
  <2>2. OthersKeep(i)
    BY <1>2, <1>3 DEF Keeps, OthersKeep
  <2>3. KeepsWell(i)
    <3>1. ASSUME NEW b \in Addrs, device'[b] = i PROVE Claimed(i, b)'
      <4>1. mem'[i].addr = b
        BY <1>1, <1>3, <1>8, <1>9, <3>1 DEF Owned, Keeps, Claimed, Claims
      <4>2. Depth(t)' = m /\ m \in 1 .. m
        BY <1>5, <1>7 DEF Moved
      <4>3. F(t, m)'.id = i /\ Freeing(F(t, m))'
        BY <1>6, <1>7, <1>8 DEF Freeing
      <4>4. QED
        BY <4>1, <4>2, <4>3 DEF Claimed
    <3>2. QED
      BY <3>1 DEF KeepsWell
  <2>4. device' \in [Addrs -> 0 .. MaxAllocs]
    BY <1>1, <1>3 DEF Shapes
  <2>5. QED
    BY <1>1, <1>7, <2>1, <2>2, <2>3, <2>4, OwnedStep
<1>14. Flushes'
  <2>1. UnderOK(t, m)'
    <3>1. m > 1 => m - 1 \in 1 .. m - 1
      BY <1>5
    <3>2. m > 1 => F(t, m - 1)' = F(t, m - 1)
      BY <1>7, <3>1 DEF Moved
    <3>3. QED
      BY <1>5, <1>6, <1>7, <3>2 DEF UnderOK, Registering
  <2>2. NewFlushes(t, m, m)'
    BY <1>6, <1>7, <1>10, <2>1 DEF NewFlushes, FlushedOK
  <2>3. Covers(t, m) => Covers(t, m)'
    <3>1. Depth(t)' = m /\ m \in 1 .. m
      BY <1>5, <1>7 DEF Moved
    <3>2. QED
      BY <1>5, <1>6, <1>7, <3>1 DEF Covers
  <2>4. QED
    BY <1>1, <1>2, <1>7, <2>2, <2>3, FlushesStep
<1>15. Shapes'
  BY <1>1, <1>2, <1>3, <1>7 DEF Shapes, Moved, Stacks
<1>16. Counts' /\ Dictionary'
  BY <1>1, <1>3 DEF Heap, Counts, Dictionary, Held, Pointers
<1>17. Blocks'
  BY <1>1, <1>2, <1>3, <1>11 DEF Heap, Blocks
<1>18. QED
  BY <1>3, <1>12, <1>13, <1>14, <1>15, <1>16, <1>17, DeferSame DEF Inv, Heap, Activity

LEMMA ClearInv ==
  ASSUME Inv, NEW t \in Threads, Clear(t)
  PROVE  Inv'
<1>1. /\ stack[t] # <<>> /\ Top(t).op = "clear" /\ Top(t).id = 0
      /\ UNCHANGED <<heap, defer, handles, garbage, ops, ghosts>>
  BY DEF Clear
<1>2. CASE Put(t, Below(t)) /\ UNCHANGED pend
  BY <1>1, <1>2, ClearDisabledInv
<1>3. CASE queue = <<>> /\ Put(t, Tail(stack[t])) /\ size' = 0 /\ UNCHANGED queue
  BY <1>1, <1>3, ClearDoneInv
<1>4. CASE queue # <<>> /\ Goto(t, [Top(t) EXCEPT !.id = Head(queue), !.n = 1])
           /\ queue' = Popped /\ UNCHANGED size
  BY <1>1, <1>4, ClearPopInv
<1>5. QED
  BY <1>2, <1>3, <1>4 DEF Clear, Put, Pop

(* The block goes back to the driver.                                      *)
LEMMA DeallocInv ==
  ASSUME Inv, NEW t \in Threads, Dealloc(t)
  PROVE  Inv'
<1>1. Shapes /\ Stacks /\ FramesOK /\ OneClaim /\ Owned /\ Flushes /\ Heap
  BY DEF Inv, Activity, Shapes, Stacks
<1>2. stack[t] # <<>> /\ Top(t).op = "clear" /\ Top(t).id # 0
  BY DEF Dealloc
<1> PICK i : i = Top(t).id
  OBVIOUS
<1> PICK a : a = mem[i].addr
  OBVIOUS
<1>3. /\ badfree' = (badfree \/ device[a] # i)
      /\ device' = [device EXCEPT ![a] = IF @ = i THEN 0 ELSE @]
      /\ Goto(t, [Top(t) EXCEPT !.id = 0])
      /\ UNCHANGED <<mem, allocations, queue, size, defer, handles, garbage, ops, lost, stale, oom>>
  BY DEF Dealloc, pend
<1> PICK m : m = Depth(t)
  OBVIOUS
<1>4. /\ m \in Nat \ {0} /\ F(t, m) = Top(t) /\ Top(t) \in Activations
      /\ FrameOK(F(t, m)) /\ UnderOK(t, m) /\ m \in 1 .. Depth(t)
      /\ \A d \in 1 .. Depth(t) : d >= m => d = m
  BY <1>2, TopFacts
<1>5. /\ Claims(F(t, m)) /\ Dead(i) /\ Has(i) /\ i \notin Queued /\ i # 0 /\ i \in Ids
      /\ F(t, m).id = i
  <2>1. Freeing(F(t, m)) /\ i # 0 /\ F(t, m).id = i
    BY <1>2, <1>4 DEF Freeing
  <2>2. i \in Ids
    BY <1>4, <2>1 DEF Activations, Ids
  <2>3. QED
    BY <1>4, <2>1, <2>2 DEF FrameOK, Claims
<1>6. device[a] = i /\ a \in Addrs
  BY <1>1, <1>5, MemType DEF Has, Dead
<1>7. ~ badfree' /\ oom' = {}
  BY <1>3, <1>6 DEF Inv
<1>8. /\ device' \in [Addrs -> 0 .. MaxAllocs] /\ device'[a] = 0
      /\ \A b \in Addrs : b # a => device'[b] = device[b]
  <2>1. device' = [device EXCEPT ![a] = 0]
    BY <1>3, <1>6
  <2>2. 0 \in 0 .. MaxAllocs
    OBVIOUS
  <2>3. QED
    BY <1>1, <1>6, <2>1, <2>2 DEF Shapes
<1>9. \A j \in Ids : j # i /\ mem[j].addr # 0 /\ Has(j) => Has(j)'
  BY <1>1, <1>3, <1>6, <1>8, MemType DEF Has
<1>10. \A j : Dead(j) <=> Dead(j)'
  BY <1>3 DEF Dead
<1>11. Queued' = Queued /\ Queued \subseteq Ids
  BY <1>1, <1>3 DEF Queued, Shapes
<1> PICK f : f = [Top(t) EXCEPT !.id = 0]
  OBVIOUS
<1>12. f \in Activations /\ f.op = "clear" /\ f.id = 0 /\ f.pc = Top(t).pc
  BY <1>2, <1>4 DEF Activations
<1>13. Moved(t, m, m) /\ F(t, m)' = f
  BY <1>1, <1>2, <1>3, <1>12, GotoMoves
<1>14. m # m + 1
  BY <1>4
<1>15. FramesOK' /\ OneClaim'
  <2>1. Works(t, m, i)
    <3>1. ASSUME NEW u \in Threads, NEW d \in 1 .. Depth(u), Stays(t, m, u, d), Claims(F(u, d)),
                 F(u, d).id = i
          PROVE  FALSE
      <4>1. u = t /\ d = m
        BY <1>1, <1>4, <1>5, <3>1 DEF OneClaim
      <4>2. QED
        BY <1>4, <3>1, <4>1 DEF Stays
    <3>2. QED
      BY <3>1 DEF Works
  <2>2. NewOK(t, m, m, i)'
    <3>1. FrameOK(F(t, m))' /\ ~ Claims(F(t, m))'
      BY <1>2, <1>4, <1>12, <1>13 DEF FrameOK, Claims, Registering, Freeing
    <3>2. QED
      BY <1>14, <3>1 DEF NewOK
  <2>3. ASSUME NEW g \in Activations, FrameOK(g), Claims(g) => g.id # i PROVE FrameOK(g)'
    <3>1. g.id # 0 => g.id \in Ids
      BY DEF Activations, Ids
    <3>2. Registering(g) => device'[g.n] = g.id
      BY <1>6, <1>8, <2>3 DEF FrameOK, Claims
    <3>3. Freeing(g) => Has(g.id)'
      BY <1>9, <2>3, <3>1 DEF FrameOK, Freeing, Dead, Claims
    <3>4. QED
      BY <1>3, <1>10, <1>11, <2>3, <3>2, <3>3 DEF FrameOK, Registering, Freeing
  <2>4. QED
    BY <1>1, <1>13, <2>1, <2>2, <2>3, FramesStep
<1>16. Owned'
  <2>1. Drops(t, m, i)
    BY <1>4, <1>5 DEF Drops
  <2>2. OthersKeep(i)
    <3>1. \A b \in Addrs : \A j \in Ids : device'[b] = j => device[b] = j
      BY <1>8 DEF Ids
    <3>2. QED
      BY <1>3, <1>11, <3>1 DEF Keeps, OthersKeep
  <2>3. KeepsWell(i)
    <3>1. ASSUME NEW b \in Addrs, device'[b] = i PROVE Keeps(i, b)'
      <4>1. device[b] = i /\ b # a
        BY <1>5, <1>8, <3>1
      <4>2. Keeps(i, b) \/ Claimed(i, b)
        BY <1>1, <1>5, <4>1 DEF Owned
      <4>3. CASE Claimed(i, b)
        <5>1. PICK u \in Threads : \E d \in 1 .. Depth(u) :
                /\ F(u, d).id = i /\ Claims(F(u, d))
                /\ (Registering(F(u, d)) /\ F(u, d).n = b) \/ (Freeing(F(u, d)) /\ mem[i].addr = b)
          BY <4>3 DEF Claimed, Claims
        <5>2. PICK d \in 1 .. Depth(u) :
                /\ F(u, d).id = i /\ Claims(F(u, d))
                /\ (Registering(F(u, d)) /\ F(u, d).n = b) \/ (Freeing(F(u, d)) /\ mem[i].addr = b)
          BY <5>1
        <5>3. u = t /\ d = m
          BY <1>1, <1>4, <1>5, <5>2 DEF OneClaim
        <5>4. FALSE
          BY <1>2, <1>4, <4>1, <5>2, <5>3 DEF Registering
        <5>5. QED
          BY <5>4
      <4>4. QED
        BY <4>1, <4>2, <4>3 DEF Keeps
    <3>2. QED
      BY <3>1 DEF KeepsWell
  <2>4. QED
    BY <1>1, <1>8, <1>13, <2>1, <2>2, <2>3, OwnedStep
<1>17. Flushes'
  <2>1. UnderOK(t, m)'
    <3>1. m > 1 => m - 1 \in 1 .. m - 1
      BY <1>4
    <3>2. m > 1 => F(t, m - 1)' = F(t, m - 1)
      BY <1>13, <3>1 DEF Moved
    <3>3. QED
      BY <1>2, <1>4, <1>12, <1>13, <3>2 DEF UnderOK, Registering
  <2>2. NewFlushes(t, m, m)'
    BY <1>12, <1>13, <1>14, <2>1 DEF NewFlushes, FlushedOK
  <2>3. Covers(t, m) => Covers(t, m)'
    <3>1. Depth(t)' = m /\ m \in 1 .. m
      BY <1>4, <1>13 DEF Moved
    <3>2. QED
      BY <1>4, <1>12, <1>13, <3>1 DEF Covers
  <2>4. QED
    BY <1>1, <1>11, <1>13, <2>2, <2>3, FlushesStep
<1>18. Shapes'
  BY <1>1, <1>3, <1>8, <1>13 DEF Shapes, Moved, Stacks
<1>19. Counts' /\ Dictionary'
  BY <1>1, <1>3 DEF Heap, Counts, Dictionary, Held, Pointers
<1>20. Blocks'
  <2>1. ASSUME NEW j \in Ids, mem'[j].alive PROVE Has(j)'
    <3>1. j # i /\ mem[j].addr # 0 /\ Has(j)
      BY <1>1, <1>3, <1>5, <2>1 DEF Heap, Counts, Blocks, Dead
    <3>2. QED
      BY <1>9, <3>1
  <2>2. ASSUME NEW j \in Queued' PROVE Dead(j)' /\ Has(j)'
    <3>1. j # i /\ j \in Ids /\ Dead(j) /\ Has(j)
      BY <1>1, <1>5, <1>11, <2>2 DEF Heap, Blocks
    <3>2. QED
      BY <1>9, <1>10, <3>1 DEF Dead
  <2>3. QED
    BY <1>1, <1>3, <2>1, <2>2 DEF Heap, Blocks
<1>21. QED
  BY <1>3, <1>7, <1>15, <1>16, <1>17, <1>18, <1>19, <1>20, DeferSame DEF Inv, Heap, Activity

(* The driver refuses: the flush ends, and the activation that asked for   *)
(* it unless that is a finalizer.                                          *)
LEMMA DeallocFailsInv ==
  ASSUME Inv, NEW t \in Threads, DeallocFails(t)
  PROVE  Inv'
<1>1. Shapes /\ Stacks /\ FramesOK /\ OneClaim /\ Owned /\ Flushes /\ Heap
  BY DEF Inv, Activity, Shapes, Stacks
<1>2. stack[t] # <<>> /\ Top(t).op = "clear" /\ Top(t).id # 0
  BY DEF DeallocFails
<1> PICK i : i = Top(t).id
  OBVIOUS
<1>3. /\ lost' = lost \cup {i}
      /\ UNCHANGED <<device, mem, allocations, queue, size, defer, handles, garbage, ops, stale,
                     oom, badfree>>
  BY DEF DeallocFails, heap, Kept
<1> PICK k : k = Depth(t)
  OBVIOUS
<1>4. /\ k \in Nat \ {0} /\ F(t, k) = Top(t) /\ Top(t) \in Activations
      /\ FrameOK(F(t, k)) /\ UnderOK(t, k) /\ k \in 1 .. Depth(t)
  BY <1>2, TopFacts
<1>5. /\ Claims(F(t, k)) /\ Dead(i) /\ i \notin Queued /\ i # 0 /\ i \in Ids
      /\ F(t, k).id = i
  <2>1. Freeing(F(t, k)) /\ i # 0 /\ F(t, k).id = i
    BY <1>2, <1>4 DEF Freeing
  <2>2. i \in Ids
    BY <1>4, <2>1 DEF Activations, Ids
  <2>3. QED
    BY <1>4, <2>1, <2>2 DEF FrameOK, Claims
(* m is the lowest activation that goes.                                   *)
<1>6. PICK m : /\ m \in Nat \ {0} /\ m <= k /\ Moved(t, m, m - 1) /\ ~ Covers(t, m)
               /\ \A d \in 1 .. Depth(t) : d >= m /\ Claims(F(t, d)) => d = k
  <2>1. CASE Top(t).pc = "add"
    <3>1. Put(t, Tail(stack[t]))
      BY <2>1 DEF DeallocFails, Put
    <3>2. Moved(t, k, k - 1)
      BY <1>1, <1>2, <3>1, PopMoves
    <3>3. \A d \in 1 .. Depth(t) : d >= k => d = k
      BY <1>4
    <3>4. ~ Covers(t, k)
      BY <1>4, <2>1 DEF Covers
    <3>5. k <= k
      BY <1>4
    <3>6. QED
      BY <1>4, <3>2, <3>3, <3>4, <3>5
  <2>2. CASE Top(t).pc # "add"
    <3> PICK m : m = k - 1
      OBVIOUS
    <3>1. m \in Nat \ {0} /\ m + 1 = k /\ F(t, m).op = Top(t).pc /\ ~ Registering(F(t, m))
      BY <1>2, <1>4, <2>2 DEF UnderOK
    <3>2. F(t, m).op # "clear"
      BY <1>2, <1>4, <3>1 DEF FrameOK
    <3>3. Put(t, Tail(Tail(stack[t])))
      BY <2>2 DEF DeallocFails, Put
    <3>4. Moved(t, m, m - 1)
      BY <1>1, <3>1, <3>3, PopTwoMoves
    <3>5. \A d \in 1 .. Depth(t) : d >= m => d = m \/ d = k
      BY <3>1
    <3>6. ~ Claims(F(t, m)) /\ ~ Covers(t, m)
      BY <3>1, <3>2 DEF Claims, Freeing, Covers
    <3>7. m <= k
      BY <3>1
    <3>8. QED
      BY <3>1, <3>4, <3>5, <3>6, <3>7
  <2>3. QED
    BY <2>1, <2>2
<1>7. ~ Covers(t, m)
  BY <1>4, <1>6 DEF Covers
<1>8. NewOK(t, m, m - 1, i)' /\ NewFlushes(t, m, m - 1)'
  BY <1>6 DEF NewOK, NewFlushes
<1>9. Queued' = Queued /\ Queued \subseteq Ids
  BY <1>1, <1>3 DEF Queued, Shapes
<1>10. \A j : (Dead(j) <=> Dead(j)') /\ (Has(j) <=> Has(j)')
  BY <1>3 DEF Dead, Has
<1>11. FramesOK' /\ OneClaim'
  <2>1. Works(t, m, i)
    <3>1. ASSUME NEW u \in Threads, NEW d \in 1 .. Depth(u), Stays(t, m, u, d), Claims(F(u, d)),
                 F(u, d).id = i
          PROVE  FALSE
      <4>1. u = t /\ d = k
        BY <1>1, <1>4, <1>5, <3>1 DEF OneClaim
      <4>2. QED
        BY <1>4, <1>6, <3>1, <4>1 DEF Stays
    <3>2. QED
      BY <3>1 DEF Works
  <2>2. ASSUME NEW g \in Activations, FrameOK(g), Claims(g) => g.id # i PROVE FrameOK(g)'
    BY <1>3, <1>9, <1>10, <2>2 DEF FrameOK, Registering, Freeing
  <2>3. QED
    BY <1>1, <1>6, <1>8, <2>1, <2>2, FramesStep
<1>12. Owned'
  <2>1. Drops(t, m, i)
    BY <1>5, <1>6 DEF Drops
  <2>2. OthersKeep(i)
    BY <1>3, <1>9 DEF Keeps, OthersKeep
  <2>3. KeepsWell(i)
    <3>1. ASSUME NEW b \in Addrs, device'[b] = i PROVE Keeps(i, b)'
      <4>1. Keeps(i, b) \/ Claimed(i, b)
        BY <1>1, <1>3, <1>5, <3>1 DEF Owned
      <4>2. CASE Claimed(i, b)
        <5>1. PICK u \in Threads : \E d \in 1 .. Depth(u) :
                /\ F(u, d).id = i /\ Claims(F(u, d))
                /\ (Registering(F(u, d)) /\ F(u, d).n = b) \/ (Freeing(F(u, d)) /\ mem[i].addr = b)
          BY <4>2 DEF Claimed, Claims
        <5>2. PICK d \in 1 .. Depth(u) :
                /\ F(u, d).id = i /\ Claims(F(u, d))
                /\ (Registering(F(u, d)) /\ F(u, d).n = b) \/ (Freeing(F(u, d)) /\ mem[i].addr = b)
          BY <5>1
        <5>3. u = t /\ d = k
          BY <1>1, <1>4, <1>5, <5>2 DEF OneClaim
        <5>4. mem[i].addr = b
          BY <1>2, <1>4, <5>2, <5>3 DEF Registering
        <5>5. QED
          BY <1>3, <5>4 DEF Keeps
      <4>3. CASE Keeps(i, b)
        BY <1>3, <4>3 DEF Keeps
      <4>4. QED
        BY <4>1, <4>2, <4>3
    <3>2. QED
      BY <3>1 DEF KeepsWell
  <2>4. device' \in [Addrs -> 0 .. MaxAllocs]
    BY <1>1, <1>3 DEF Shapes
  <2>5. QED
    BY <1>1, <1>6, <2>1, <2>2, <2>3, <2>4, OwnedStep
<1>13. Flushes'
  BY <1>1, <1>6, <1>7, <1>8, <1>9, FlushesStep
<1>14. Shapes'
  BY <1>1, <1>3, <1>5, <1>6 DEF Shapes, Moved, Stacks
<1>15. Counts' /\ Dictionary'
  BY <1>1, <1>3 DEF Heap, Counts, Dictionary, Held, Pointers
<1>16. Blocks'
  BY <1>1, <1>3, <1>9, <1>10 DEF Heap, Blocks
<1>17. QED
  BY <1>3, <1>11, <1>12, <1>13, <1>14, <1>15, <1>16, DeferSame DEF Inv, Heap, Activity

-----------------------------------------------------------------------------
(* The context is reset.                                                   *)

LEMMA ResetInv ==
  ASSUME Inv, NEW t \in Threads, Reset(t)
  PROVE  Inv'
<1>1. Shapes /\ Stacks /\ FramesOK /\ OneClaim /\ Owned /\ Flushes /\ Heap
  BY DEF Inv, Activity, Shapes, Stacks
<1> PICK todo : todo = {i \in allocations : Views(i) = 0}
  OBVIOUS
<1>2. /\ allocations' = {} /\ stale' = stale \cup allocations
      /\ Push(t, [Frame("reset", "each") EXCEPT !.todo = todo])
      /\ UNCHANGED <<device, mem, queue, size, defer, handles, garbage, lost, oom, badfree>>
  BY DEF Reset, pend
<1>3. Depth(t) = 0 /\ ops' \in [Threads -> 0 .. MaxOps]
  BY <1>1, BeginType DEF Reset
<1>4. allocations = {i \in Ids \ stale : mem[i].alive} /\ todo \subseteq allocations
  BY <1>1 DEF Heap, Dictionary
<1> PICK f : f = [Frame("reset", "each") EXCEPT !.todo = todo]
  OBVIOUS
<1>5. f \in Activations /\ f.op = "reset" /\ f.todo = todo
  <2> PICK g \in Activations : g = Frame("reset", "each")
    BY FrameType
  <2>1. g.op = "reset" /\ f = [g EXCEPT !.todo = todo]
    BY FrameType
  <2>2. todo \in SUBSET Ids
    BY <1>4
  <2>3. QED
    BY <2>1, <2>2 DEF Activations
<1>6. Moved(t, 1, 1) /\ F(t, 1)' = f
  BY <1>1, <1>2, <1>3, <1>5, PushMoves
<1>7. Queued' = Queued /\ Queued \subseteq Ids
  BY <1>1, <1>2 DEF Queued, Shapes
<1>8. \A j : (Dead(j) <=> Dead(j)') /\ (Has(j) <=> Has(j)')
  BY <1>2 DEF Dead, Has
<1>9. FramesOK' /\ OneClaim'
  <2>1. Works(t, 1, 0)
    BY <1>1 DEF Works, FramesOK, FrameOK, Claims, Freeing
  <2>2. NewOK(t, 1, 1, 0)'
    BY <1>2, <1>4, <1>5, <1>6 DEF NewOK, FrameOK, Claims, Registering, Freeing
  <2>3. ASSUME NEW g \in Activations, FrameOK(g) PROVE FrameOK(g)'
    BY <1>2, <1>7, <1>8, <2>3 DEF FrameOK, Registering, Freeing
  <2>4. QED
    BY <1>1, <1>6, <2>1, <2>2, <2>3, FramesStep
<1>10. Owned'
  <2>1. Drops(t, 1, 0)
    BY <1>3 DEF Drops
  <2>2. OthersKeep(0) /\ KeepsWell(0)
    BY <1>2, <1>7 DEF Keeps, OthersKeep, KeepsWell
  <2>3. device' \in [Addrs -> 0 .. MaxAllocs]
    BY <1>1, <1>2 DEF Shapes
  <2>4. QED
    BY <1>1, <1>6, <2>1, <2>2, <2>3, OwnedStep
<1>11. Flushes'
  <2>1. NewFlushes(t, 1, 1)'
    BY <1>5, <1>6 DEF NewFlushes, UnderOK, FlushedOK
  <2>2. ~ Covers(t, 1)
    BY <1>3 DEF Covers
  <2>3. QED
    BY <1>1, <1>6, <1>7, <2>1, <2>2, FlushesStep
<1>12. Shapes'
  BY <1>1, <1>2, <1>3, <1>4, <1>6 DEF Shapes, Moved, Stacks
<1>13. Counts' /\ Dictionary'
  <2>1. Dictionary'
    BY <1>2, <1>4 DEF Dictionary
  <2>2. \A j \in Ids : Held(j)' = Held(j)
    BY <1>2 DEF Held, Pointers
  <2>3. \A j \in stale' : j \in stale \/ mem[j].alive
    BY <1>2, <1>4
  <2>4. Counts'
    BY <1>1, <1>2, <2>2, <2>3 DEF Heap, Counts
  <2>5. QED
    BY <2>1, <2>4
<1>14. Blocks'
  BY <1>1, <1>2, <1>7, <1>8 DEF Heap, Blocks
<1>15. QED
  BY <1>2, <1>9, <1>10, <1>11, <1>12, <1>13, <1>14, DeferSame DEF Inv, Heap, Activity

LEMMA ResetEachInv ==
  ASSUME Inv, NEW t \in Threads, ResetEach(t)
  PROVE  Inv'
<1>1. Shapes /\ Stacks /\ Heap
  BY DEF Inv, Shapes, Stacks
<1>2. stack[t] # <<>> /\ Top(t).op = "reset"
  BY DEF ResetEach, In
<1>3. PICK i \in Top(t).todo :
        /\ mem[i].alive /\ mem' = [mem EXCEPT ![i].alive = FALSE]
        /\ queue' = Append(queue, i)
        /\ Push(t, [Frame("add", "count") EXCEPT !.id = i])
  BY DEF ResetEach
<1>4. /\ UNCHANGED <<device, allocations, size, defer, handles, garbage, ops, lost, stale,
                     oom, badfree>>
  BY DEF ResetEach, ghosts
<1>5. Top(t) \in Activations /\ Top(t).todo \subseteq stale /\ i \in stale /\ i \in Ids
  <2> PICK m : m = Depth(t)
    OBVIOUS
  <2>1. F(t, m) = Top(t) /\ Top(t) \in Activations /\ FrameOK(F(t, m))
    BY <1>2, TopFacts
  <2>2. QED
    BY <1>1, <1>2, <1>3, <2>1 DEF FrameOK, Shapes
<1>6. /\ mem' \in [Ids -> [addr : Addrs \cup {0}, refct : Nat, alive : BOOLEAN]]
      /\ mem'[i].addr = mem[i].addr /\ ~ mem'[i].alive
      /\ \A j \in Ids : j # i => mem'[j] = mem[j]
  <2> PICK x : x = [mem[i] EXCEPT !.alive = FALSE]
    OBVIOUS
  <2>1. mem[i] \in [addr : Addrs \cup {0}, refct : Nat, alive : BOOLEAN]
    BY <1>1, <1>5, MemType
  <2>2. /\ x \in [addr : Addrs \cup {0}, refct : Nat, alive : BOOLEAN]
        /\ x.addr = mem[i].addr /\ ~ x.alive
    BY <2>1
  <2>3. mem' = [mem EXCEPT ![i] = x]
    BY <1>3
  <2>4. mem'[i] = x /\ \A j \in Ids : j # i => mem'[j] = mem[j]
    BY <1>1, <1>5, <2>3 DEF Shapes
  <2>5. mem' \in [Ids -> [addr : Addrs \cup {0}, refct : Nat, alive : BOOLEAN]]
    BY <1>1, <2>2, <2>3 DEF Shapes
  <2>6. QED
    BY <2>2, <2>4, <2>5
<1>7. Dies(t, i)
  BY <1>3, <1>4, <1>6 DEF Dies
<1>8. Activity' /\ Stacks' /\ Blocks' /\ queue' \in Seq(Ids)
  BY <1>5, <1>7, DiesActivity, DiesQueue
<1>9. Shapes'
  BY <1>1, <1>4, <1>6, <1>8 DEF Shapes, Stacks
<1>10. Dictionary'
  BY <1>1, <1>4, <1>5, <1>6 DEF Heap, Dictionary
<1>11. Counts'
  <2>1. \A j \in Ids : Held(j)' = Held(j)
    BY <1>4 DEF Held, Pointers
  <2>2. ASSUME NEW j \in Ids
        PROVE  /\ mem'[j].alive => mem'[j].refct = Held(j)' /\ Held(j)' > 0
               /\ Held(j)' > 0 => mem'[j].alive \/ j \in stale
               /\ mem'[j].addr = 0 => Held(j)' = 0 /\ ~ mem'[j].alive /\ j \notin stale
    BY <1>1, <1>3, <1>5, <1>6, <2>1 DEF Heap, Counts
  <2>3. QED
    BY <1>4, <2>2 DEF Counts
<1>12. QED
  BY <1>4, <1>8, <1>9, <1>10, <1>11, DeferSame DEF Inv, Heap

-----------------------------------------------------------------------------
(* The theorems.                                                           *)

LEMMA InitInv == Init => Inv
<1> SUFFICES ASSUME Init PROVE Inv
  OBVIOUS
<1>1. Shapes
  <2>1. 0 \in 0 .. MaxAllocs /\ 0 \in 0 .. MaxOps
    OBVIOUS
  <2>2. queue \in Seq(Ids) /\ stack \in [Threads -> Seq(Activations)]
    BY DEF Init
  <2>3. handles \in [Ids -> [Kinds -> Nat]] /\ garbage \in [Ids -> [Kinds -> Nat]]
    BY DEF Init
  <2>4. mem \in [Ids -> [addr : Addrs \cup {0}, refct : Nat, alive : BOOLEAN]]
    BY DEF Init
  <2>5. QED
    BY <2>1, <2>2, <2>3, <2>4 DEF Init, Shapes
<1>2. Deferring
  <2>1. inside = [t \in Threads |-> 0] /\ disabled = 0
    BY DEF Init
  <2>2. Entered = {}
    BY <2>1 DEF Entered
  <2>3. QED
    BY <2>1, <2>2, FS_EmptySet DEF Deferring
<1>3. Queued = {} /\ Len(queue) = 0
  BY DEF Init, Queued
<1>4. Heap
  <2>1. \A i \in Ids : Held(i) = 0
    BY DEF Init, Held, Pointers, Kinds
  <2>2. \A i \in Ids : mem[i].addr = 0 /\ ~ mem[i].alive
    BY DEF Init
  <2>3. Counts /\ Dictionary
    BY <2>1, <2>2 DEF Init, Counts, Dictionary
  <2>4. Blocks
    BY <1>3, <2>2 DEF Blocks
  <2>5. QED
    BY <2>3, <2>4 DEF Heap
<1>5. Activity
  <2>1. \A t \in Threads : Depth(t) = 0
    BY DEF Init, Depth
  <2>2. \A t \in Threads : 1 .. Depth(t) = {}
    BY <2>1
  <2>3. Owned
    BY DEF Owned, Init
  <2>4. QED
    BY <2>2, <2>3 DEF Activity, FramesOK, OneClaim, Flushes
<1>6. QED
  BY <1>1, <1>2, <1>4, <1>5 DEF Init, Inv

LEMMA StepInv ==
  ASSUME Inv, NEW t \in Threads, Step(t)
  PROVE  Inv'
<1>1. CASE Alloc(t) \/ Obtain(t) \/ OutOfMemory(t) \/ FailAgain(t) \/ Register(t)
  BY <1>1, AllocInv, ObtainInv, OutOfMemoryInv, FailAgainInv, RegisterInv
<1>2. CASE Count(t) \/ Store(t) \/ Clear(t) \/ Dealloc(t) \/ DeallocFails(t)
  BY <1>2, CountInv, StoreInv, ClearInv, DeallocInv, DeallocFailsInv
<1>3. CASE EnterDefer(t) \/ ExitDefer(t) \/ Reset(t) \/ ResetEach(t) \/ ResetFlush(t)
           \/ ResetEnd(t)
  BY <1>3, EnterDeferInv, ExitDeferInv, ResetInv, ResetEachInv, ResetFlushInv, ResetEndInv
<1>4. CASE \E i \in Ids :
             View(t, i) \/ \E k \in Kinds : Lose(t, i, k) \/ Drop(t, i, k) \/ Collect(t, i, k)
  BY <1>4, ViewInv, LoseInv, DropInv, CollectInv
<1>5. QED
  BY <1>1, <1>2, <1>3, <1>4 DEF Step

LEMMA StutterInv == Inv /\ UNCHANGED vars => Inv'
<1> SUFFICES ASSUME Inv, UNCHANGED vars PROVE Inv'
  OBVIOUS
<1>1. /\ UNCHANGED <<device, mem, allocations, queue, size, disabled, inside, handles>>
      /\ UNCHANGED <<garbage, stack, ops, lost, stale, oom, badfree>> /\ UNCHANGED defer
  BY DEF vars, heap, pend, defer, ghosts
<1>2. Shapes' /\ Stacks'
  BY <1>1 DEF Inv, Shapes, Stacks
<1>3. Heap' /\ Deferring'
  <2>1. Quietly /\ size' \in Nat /\ ops' \in [Threads -> 0 .. MaxOps] /\ oom' = {}
    BY <1>1, <1>2 DEF Quietly, Shapes, Inv
  <2>2. QED
    BY <1>1, <1>2, <2>1, QuietHeap, DeferSame
<1>4. Activity'
  <2>1. CASE \E t : t \in Threads
    BY <1>1, <2>1, QuietStill DEF Calm
  <2>2. CASE ~ \E t : t \in Threads
    <3>1. FramesOK' /\ OneClaim' /\ Flushes'
      BY <2>2 DEF FramesOK, OneClaim, Flushes
    <3>2. \A a \in Addrs : device[a] # 0 => Keeps(device[a], a)
      BY <2>2 DEF Inv, Activity, Owned, Claimed
    <3>3. Owned'
      BY <1>1, <3>2 DEF Owned, Keeps, Queued
    <3>4. QED
      BY <3>1, <3>3 DEF Activity
  <2>3. QED
    BY <2>1, <2>2
<1>5. QED
  BY <1>1, <1>2, <1>3, <1>4 DEF Inv

(* The inductive invariant holds in every state the memory manager and the *)
(* queue of pending deallocations can be in: memalloc(), finalizers on any *)
(* thread, flushes, defer_cleanup() and reset() all keep it.               *)
THEOREM InvAlways == Spec => []Inv
<1>1. Inv /\ [Next]_vars => Inv'
  BY StepInv, StutterInv DEF Next
<1>2. QED
  BY InitInv, <1>1, PTL DEF Spec

LEMMA InFrames ==
  ASSUME Stacks, NEW t \in Threads, NEW d \in 1 .. Depth(t)
  PROVE  F(t, d) \in Frames
<1>1. stack[t] \in Seq(Activations) /\ Depth(t) \in Nat /\ Depth(t) = Len(stack[t])
  BY DepthType DEF Stacks, Depth
<1> PICK k : k = Depth(t) + 1 - d
  OBVIOUS
<1>2. k \in 1 .. Depth(t)
  BY <1>1
<1>3. DOMAIN stack[t] = 1 .. Depth(t)
  BY <1>1
<1>4. F(t, d) = stack[t][k] /\ k \in DOMAIN stack[t]
  BY <1>2, <1>3 DEF F
<1>5. F(t, d) \in {stack[t][j] : j \in DOMAIN stack[t]}
  BY <1>4
<1>6. QED
  BY <1>5 DEF Frames

LEMMA InvSafe == Inv => MemorySafe
<1> SUFFICES ASSUME Inv PROVE MemorySafe
  OBVIOUS
<1>1. Shapes /\ Stacks /\ Heap /\ Owned /\ Deferring /\ ~ badfree
  BY DEF Inv, Activity, Shapes, Stacks
<1>2. TypeOK
  <2>1. Queued \subseteq Ids /\ allocations \subseteq Ids
    BY <1>1 DEF Shapes, Queued, Heap, Dictionary
  <2>2. disabled \in Nat
    BY <1>1, FS_CardinalityType DEF Deferring
  <2>3. \A i \in Ids : mem[i].alive => mem[i].refct = Pointers(handles, i) + Pointers(garbage, i)
    BY <1>1 DEF Heap, Counts, Held
  <2>4. QED
    BY <1>1, <2>1, <2>2, <2>3 DEF TypeOK, Shapes
<1>3. NoDoubleFree
  <2>1. \A i, j \in allocations : mem[i].addr = mem[j].addr => i = j
    BY <1>1 DEF Heap, Dictionary, Blocks, Has
  <2>2. queue \in Seq(Ids)
    BY <1>1 DEF Shapes
  <2>3. DOMAIN queue = 1 .. Len(queue)
    BY <2>2
  <2>4. QED
    BY <1>1, <2>1, <2>3 DEF NoDoubleFree, Heap, Blocks
<1>4. NoUseAfterFree
  BY <1>1 DEF NoUseAfterFree, Heap, Counts, Blocks, Has, Held
<1>5. NoLeak
  <2> SUFFICES ASSUME NEW a \in Addrs, NEW i, i = device[a], i # 0
               PROVE  \/ Pointers(handles, i) + Pointers(garbage, i) > 0
                      \/ i \in Queued \cup lost \cup stale
                      \/ \E fr \in Frames : fr.id = i
    BY DEF NoLeak
  <2>1. i \in Ids
    BY <1>1 DEF Shapes, Ids
  <2>2. CASE Keeps(i, a)
    BY <1>1, <2>1, <2>2 DEF Keeps, Heap, Counts, Held
  <2>3. CASE Claimed(i, a)
    <3>1. PICK t \in Threads : \E d \in 1 .. Depth(t) : F(t, d).id = i
      BY <2>3 DEF Claimed
    <3>2. PICK d \in 1 .. Depth(t) : F(t, d).id = i
      BY <3>1
    <3>3. QED
      BY <1>1, <3>2, InFrames
  <2>4. QED
    BY <1>1, <2>2, <2>3 DEF Owned
<1>6. QED
  BY <1>2, <1>3, <1>4, <1>5 DEF MemorySafe

(* Device memory is given back by the allocation that holds it, once only, *)
(* and not before the last pointer to it is gone, and a block nobody       *)
(* points to is on its way back: whatever finalizers run during memalloc() *)
(* or a flush (_PendingDeallocs.clear), on any number of threads, however  *)
(* addresses are reused.                                                   *)
THEOREM MemoryAlwaysSafe == Spec => []MemorySafe
BY InvAlways, InvSafe, PTL

(* memalloc() fails only for want of memory that the flush it asked for    *)
(* could not have given back: what was pending when the driver first       *)
(* refused is not in the queue when it refuses again.                      *)
THEOREM OomAlwaysMeansFull == Spec => []OomMeansFull
<1>1. Inv => OomMeansFull
  BY DEF Inv, OomMeansFull
<1>2. QED
  BY InvAlways, <1>1, PTL

-----------------------------------------------------------------------------
(* Deallocations on time.  A second inductive invariant, which rests on    *)
(* the first, follows the flushes through defer_cleanup() and reset().     *)

(* While a deferral that was promised lasts, no flush has begun: each will *)
(* test is_disabled first.                                                 *)
Fresh(f) == f.op = "clear" => f.n = 0 /\ f.id = 0
Promise ==
  promised =>
    /\ \E u \in Threads : inside[u] > 0
    /\ \A u \in Threads : \A d \in 1 .. Depth(u) : Fresh(F(u, d))

(* A block is not forgotten: its pointer will still be finalized, or it    *)
(* waits in the queue, or a flush has it, or the driver refused it.        *)
Freed(i) == \E u \in Threads : \E d \in 1 .. Depth(u) : Freeing(F(u, d)) /\ F(u, d).id = i
Settled(i) == mem[i].alive \/ ~ Has(i) \/ i \in Queued \cup lost \/ Freed(i)

(* A reset() is alone with the finalizers, and after its flush nothing of  *)
(* what it found is in the queue, unless deallocations are disabled.       *)
NoAlloc == \A u \in Threads : \A d \in 1 .. Depth(u) : F(u, d).op # "alloc"
Asked(f) == f.op = "clear" /\ f.pc = "reset"
Flushed(t) == \E d \in 1 .. Depth(t) : Asked(F(t, d))
Ends(t, r) ==
  /\ allocations = {} /\ NoAlloc
  /\ \A i \in r.todo : Settled(i) /\ mem[i].addr # 0
  /\ r.pc = "flushed" =>
       /\ \A i \in r.todo : Dead(i)
       /\ r.todo \cap Queued = {} \/ IsDisabled \/ Flushed(t)
Resets ==
  \A t \in Threads : \A d \in 1 .. Depth(t) : F(t, d).op = "reset" => d = 1 /\ Ends(t, F(t, d))

Timely == Promise /\ Resets

(* What a step of t does, whose stack changes from the m-th activation on. *)
NoReset == \A u \in Threads : \A d \in 1 .. Depth(u) : F(u, d).op # "reset"
NoFlush == \A u \in Threads : \A d \in 1 .. Depth(u) : F(u, d).op # "clear"
Goes ==
  /\ allocations' \subseteq allocations \/ ~ NoAlloc
  /\ \A j \in Ids : Dead(j) => Dead(j)'
  /\ \A j \in Queued' : j \in Queued \/ ~ Dead(j)
  /\ disabled' = disabled \/ NoReset
  /\ promised' => (\E u \in Threads : inside'[u] > 0) /\ (promised \/ NoFlush)
Settles ==
  allocations = {} /\ NoAlloc =>
    \A i \in Ids : mem[i].addr # 0 /\ Settled(i) => mem'[i].addr # 0 /\ Settled(i)'
NewTimely(t, k) ==
  /\ F(t, k)'.op = "alloc" => ~ NoAlloc \/ NoReset
  /\ F(t, k)'.op = "reset" => k = 1 /\ Ends(t, F(t, k))'
  /\ promised' => Fresh(F(t, k))'
AllTimely(t, m, n) == (n >= m => NewTimely(t, m)) /\ (n = m + 1 => NewTimely(t, m + 1))
Gone(t, m) ==
  \A d \in 1 .. Depth(t) : d >= m /\ Asked(F(t, d)) =>
    Flushed(t)' \/ Queued' = {} \/ IsDisabled' \/ m = 1

LEMMA TimelyStep ==
  ASSUME Inv, Timely, NEW t \in Threads, NEW m, NEW n, Moved(t, m, n),
         Goes, Settles, AllTimely(t, m, n), Gone(t, m)
  PROVE  Timely'
<1>1. Stacks
  BY DEF Inv, Shapes, Stacks
<1>2. ASSUME NEW u \in Threads, NEW d \in 1 .. Depth(u)'
      PROVE  \/ Stays(t, m, u, d) /\ d \in 1 .. Depth(u) /\ F(u, d)' = F(u, d)
             \/ u = t /\ NewTimely(t, d)
  BY <1>1, Coming DEF AllTimely
<1>3. Promise'
  <2> SUFFICES ASSUME promised' PROVE Promise'
    BY DEF Promise
  <2>1. (\E u \in Threads : inside'[u] > 0) /\ (promised \/ NoFlush)
    BY DEF Goes
  <2>2. ASSUME NEW u \in Threads, NEW d \in 1 .. Depth(u)' PROVE Fresh(F(u, d))'
    <3>1. CASE Stays(t, m, u, d) /\ d \in 1 .. Depth(u) /\ F(u, d)' = F(u, d)
      BY <2>1, <3>1 DEF Timely, Promise, NoFlush, Fresh
    <3>2. CASE u = t /\ NewTimely(t, d)
      BY <3>2 DEF NewTimely
    <3>3. QED
      BY <1>2, <3>1, <3>2
  <2>3. QED
    BY <2>1, <2>2 DEF Promise
<1>4. ASSUME NEW u \in Threads, NEW d \in 1 .. Depth(u)', F(u, d)'.op = "reset"
      PROVE  d = 1 /\ Ends(u, F(u, d))'
  <2>1. CASE u = t /\ NewTimely(t, d)
    BY <1>4, <2>1 DEF NewTimely
  <2>2. CASE Stays(t, m, u, d) /\ d \in 1 .. Depth(u) /\ F(u, d)' = F(u, d)
    <3> PICK r \in Activations : r = F(u, d)
      BY <1>1, <2>2, DepthType
    <3>1. F(u, d)' = r /\ r.op = "reset" /\ F(u, d).op = "reset"
      BY <1>4, <2>2
    <3>2. d = 1 /\ Ends(u, r) /\ ~ NoReset
      BY <2>2, <3>1 DEF Timely, Resets, NoReset
    <3>3. r.todo \subseteq Ids
      BY DEF Activations
    <3>4. allocations' = {} /\ NoAlloc /\ allocations = {}
      BY <3>2 DEF Ends, Goes
    <3>5. NoAlloc'
      <4>1. ASSUME NEW w \in Threads, NEW e \in 1 .. Depth(w)' PROVE F(w, e)'.op # "alloc"
        <5>1. CASE Stays(t, m, w, e) /\ e \in 1 .. Depth(w) /\ F(w, e)' = F(w, e)
          BY <3>4, <5>1 DEF NoAlloc
        <5>2. CASE w = t /\ NewTimely(t, e)
          BY <3>2, <3>4, <5>2 DEF NewTimely
        <5>3. QED
          BY <1>2, <5>1, <5>2
      <4>2. QED
        BY <4>1 DEF NoAlloc
    <3>6. \A i \in r.todo : Settled(i)' /\ mem'[i].addr # 0
      BY <3>2, <3>3, <3>4 DEF Settles, Ends
    <3>7. ASSUME r.pc = "flushed"
          PROVE  /\ \A i \in r.todo : Dead(i)'
                 /\ r.todo \cap Queued' = {} \/ IsDisabled' \/ Flushed(u)'
      <4>1. /\ \A i \in r.todo : Dead(i) /\ Dead(i)'
            /\ r.todo \cap Queued = {} \/ IsDisabled \/ Flushed(u)
        BY <3>2, <3>3, <3>7 DEF Ends, Goes
      <4>2. r.todo \cap Queued = {} => r.todo \cap Queued' = {}
        BY <4>1 DEF Goes
      <4>3. IsDisabled => IsDisabled'
        BY <3>2 DEF IsDisabled, Goes
      <4>4. ASSUME Flushed(u) PROVE Flushed(u)' \/ Queued' = {} \/ IsDisabled'
        <5>1. PICK e \in 1 .. Depth(u) : Asked(F(u, e))
          BY <4>4 DEF Flushed
        <5>2. CASE Stays(t, m, u, e)
          <6>1. e \in 1 .. Depth(u)' /\ F(u, e)' = F(u, e)
            BY <1>1, <5>2, Staying
          <6>2. QED
            BY <5>1, <6>1 DEF Flushed, Asked
        <5>3. CASE ~ Stays(t, m, u, e)
          <6>1. u = t /\ ~ (e < m) /\ d < m
            BY <2>2, <5>3 DEF Stays
          <6>2. m \in Nat /\ Depth(t) \in Nat
            BY <1>1, DepthType DEF Moved
          <6>3. e >= m /\ m # 1
            BY <3>2, <6>1, <6>2
          <6>4. QED
            BY <5>1, <6>1, <6>3 DEF Gone
        <5>4. QED
          BY <5>2, <5>3
      <4>5. QED
        BY <4>1, <4>2, <4>3, <4>4
    <3>8. Ends(u, r)'
      BY <3>4, <3>5, <3>6, <3>7 DEF Ends
    <3>9. QED
      BY <3>1, <3>2, <3>8 DEF Ends
  <2>3. QED
    BY <1>2, <2>1, <2>2
<1>5. QED
  BY <1>3, <1>4 DEF Timely, Resets

LEMMA Placed ==
  ASSUME Stacks, NEW u \in Threads, NEW x
  PROVE  (\E k \in DOMAIN stack[u] : stack[u][k].op = x)
           <=> (\E d \in 1 .. Depth(u) : F(u, d).op = x)
<1>1. Depth(u) \in Nat /\ DOMAIN stack[u] = 1 .. Depth(u)
  BY DepthType DEF Stacks, Depth
<1>2. ASSUME NEW k \in 1 .. Depth(u), stack[u][k].op = x
      PROVE  \E d \in 1 .. Depth(u) : F(u, d).op = x
  <2> PICK d : d = Depth(u) + 1 - k
    OBVIOUS
  <2>1. d \in 1 .. Depth(u) /\ Depth(u) + 1 - d = k
    BY <1>1
  <2>2. F(u, d).op = x
    BY <1>2, <2>1 DEF F
  <2>3. QED
    BY <2>1, <2>2
<1>3. ASSUME NEW d \in 1 .. Depth(u), F(u, d).op = x
      PROVE  \E k \in 1 .. Depth(u) : stack[u][k].op = x
  <2> PICK k : k = Depth(u) + 1 - d
    OBVIOUS
  <2>1. k \in 1 .. Depth(u)
    BY <1>1
  <2>2. stack[u][k].op = x
    BY <1>3 DEF F
  <2>3. QED
    BY <2>1, <2>2
<1>4. QED
  BY <1>1, <1>2, <1>3

LEMMA Alone ==
  ASSUME Stacks
  PROVE  /\ (\A u \in Threads : ~ Resetting(u)) => NoReset
         /\ ~ Flushing => NoFlush
<1>1. ASSUME NEW u \in Threads, ~ Resetting(u), NEW d \in 1 .. Depth(u)
      PROVE  F(u, d).op # "reset"
  BY <1>1, Placed DEF Resetting
<1>2. ASSUME NEW u \in Threads, ~ Flushing, NEW d \in 1 .. Depth(u)
      PROVE  F(u, d).op # "clear"
  <2>1. ~ \E k \in DOMAIN stack[u] : stack[u][k].op = "clear"
    BY <1>2 DEF Flushing
  <2>2. QED
    BY <2>1, Placed
<1>3. QED
  BY <1>1, <1>2 DEF NoReset, NoFlush

LEMMA Promised ==
  ASSUME Inv, Promise, promised
  PROVE  IsDisabled
<1>1. PICK u \in Threads : inside[u] > 0
  BY DEF Promise
<1>2. Deferring /\ inside[u] \in Nat
  BY DEF Inv, Deferring
<1>3. 1 \in 1 .. inside[u]
  BY <1>1, <1>2
<1>4. <<u, 1>> \in Entered
  BY <1>3 DEF Entered
<1>5. Cardinality(Entered) \in Nat /\ Cardinality(Entered) # 0
  BY <1>2, <1>4, FS_CardinalityType, FS_EmptySet DEF Deferring
<1>6. QED
  BY <1>2, <1>5 DEF Deferring, IsDisabled

(* A flush that has a block of i stays.                                    *)
LEMMA FreedStays ==
  ASSUME Stacks, NEW t \in Threads, NEW m, NEW n, Moved(t, m, n), NEW i, Freed(i),
         \A d \in 1 .. Depth(t) : d >= m /\ Freeing(F(t, d)) => F(t, d).id # i
  PROVE  Freed(i)'
<1>1. PICK u \in Threads : \E d \in 1 .. Depth(u) : Freeing(F(u, d)) /\ F(u, d).id = i
  BY DEF Freed
<1>2. PICK d \in 1 .. Depth(u) : Freeing(F(u, d)) /\ F(u, d).id = i
  BY <1>1
<1>3. m \in Nat /\ Depth(t) \in Nat
  BY DepthType DEF Moved
<1>4. Stays(t, m, u, d)
  <2>1. ~ (u = t /\ d >= m)
    BY <1>2
  <2>2. QED
    BY <1>3, <2>1 DEF Stays
<1>5. d \in 1 .. Depth(u)' /\ F(u, d)' = F(u, d)
  BY <1>4, Staying
<1>6. QED
  BY <1>2, <1>5 DEF Freed, Freeing

(* The blocks, the queue and the refusals stay as they are.                *)
Rests ==
  /\ UNCHANGED <<device, queue, lost>>
  /\ \A i \in Ids : mem'[i].addr = mem[i].addr /\ mem'[i].alive = mem[i].alive

LEMMA RestsSettles ==
  ASSUME Stacks, Rests, NEW t \in Threads, NEW m, NEW n, Moved(t, m, n),
         \A d \in 1 .. Depth(t) : d >= m => ~ Freeing(F(t, d))
  PROVE  Settles
<1> SUFFICES ASSUME NEW i \in Ids, mem[i].addr # 0, Settled(i)
             PROVE  mem'[i].addr # 0 /\ Settled(i)'
  BY DEF Settles
<1>1. Freed(i) => Freed(i)'
  BY FreedStays
<1>2. QED
  BY <1>1 DEF Rests, Settled, Has, Queued

LEMMA RestsTimely ==
  ASSUME Inv, Timely, Rests, allocations' = allocations, UNCHANGED <<disabled, inside, promised>>,
         NEW t \in Threads, NEW m, NEW n, Moved(t, m, n),
         \A d \in 1 .. Depth(t) : d >= m => ~ Freeing(F(t, d)),
         AllTimely(t, m, n), Gone(t, m)
  PROVE  Timely'
<1>1. Stacks
  BY DEF Inv, Shapes, Stacks
<1>2. Settles
  BY <1>1, RestsSettles
<1>3. Goes
  <2>1. \A j \in Ids : Dead(j) => Dead(j)'
    BY DEF Rests, Dead
  <2>2. Queued' = Queued
    BY DEF Rests, Queued
  <2>3. promised => \E u \in Threads : inside[u] > 0
    BY DEF Timely, Promise
  <2>4. QED
    BY <2>1, <2>2, <2>3 DEF Goes
<1>4. QED
  BY <1>2, <1>3, TimelyStep

LEMMA RestsStill ==
  ASSUME Inv, Timely, Rests, allocations' = allocations, UNCHANGED <<disabled, inside, promised>>,
         NEW t \in Threads, UNCHANGED stack
  PROVE  Timely'
<1>1. Stacks
  BY DEF Inv, Shapes, Stacks
<1> PICK m : m = Depth(t) + 1
  OBVIOUS
<1>2. Moved(t, m, m - 1) /\ m \in Nat \ {0} /\ Depth(t) \in Nat
  BY <1>1, StillMoves, DepthType
<1>3. \A d \in 1 .. Depth(t) : ~ (d >= m)
  BY <1>2
<1>4. AllTimely(t, m, m - 1)
  BY <1>2 DEF AllTimely
<1>5. QED
  BY <1>2, <1>3, <1>4, RestsTimely DEF Gone

LEMMA RestsPop ==
  ASSUME Inv, Timely, Rests, allocations' = allocations, UNCHANGED <<disabled, inside, promised>>,
         NEW t \in Threads, stack[t] # <<>>, Put(t, Tail(stack[t])), ~ Freeing(Top(t)),
         Asked(Top(t)) => queue = <<>> \/ IsDisabled
  PROVE  Timely'
<1>1. Stacks
  BY DEF Inv, Shapes, Stacks
<1> PICK m : m = Depth(t)
  OBVIOUS
<1>2. m \in Nat \ {0} /\ F(t, m) = Top(t) /\ \A d \in 1 .. Depth(t) : d >= m => d = m
  BY TopFacts
<1>3. Moved(t, m, m - 1)
  BY <1>1, PopMoves
<1>4. AllTimely(t, m, m - 1)
  BY <1>2 DEF AllTimely
<1>5. queue = <<>> => Queued' = {}
  BY DEF Rests, Queued
<1>6. Gone(t, m)
  BY <1>2, <1>5 DEF Gone, IsDisabled
<1>7. QED
  BY <1>2, <1>3, <1>4, <1>6, RestsTimely

LEMMA RestsGoto ==
  ASSUME Inv, Timely, Rests, allocations' = allocations, UNCHANGED <<disabled, inside, promised>>,
         NEW t \in Threads, stack[t] # <<>>, NEW f \in Activations, Goto(t, f),
         Top(t).op = "add", f.op = "add" \/ (f.op = "clear" /\ f.n = 0 /\ f.id = 0)
  PROVE  Timely'
<1>1. Stacks
  BY DEF Inv, Shapes, Stacks
<1> PICK m : m = Depth(t)
  OBVIOUS
<1>2. m \in Nat \ {0} /\ F(t, m) = Top(t) /\ \A d \in 1 .. Depth(t) : d >= m => d = m
  BY TopFacts
<1>3. Moved(t, m, m) /\ F(t, m)' = f
  BY <1>1, GotoMoves
<1>4. AllTimely(t, m, m)
  <2>1. m # m + 1
    BY <1>2
  <2>2. QED
    BY <1>3, <2>1 DEF AllTimely, NewTimely, Fresh
<1>5. \A d \in 1 .. Depth(t) : d >= m => ~ Freeing(F(t, d)) /\ ~ Asked(F(t, d))
  BY <1>2 DEF Freeing, Asked
<1>6. QED
  BY <1>3, <1>4, <1>5, RestsTimely DEF Gone

(* The allocation.                                                         *)

LEMMA AllocTimely ==
  ASSUME Inv, Timely, NEW t \in Threads, Alloc(t)
  PROVE  Timely'
<1>1. Stacks /\ Shapes
  BY DEF Inv, Shapes, Stacks
<1> PICK f \in Activations : f = Frame("alloc", "try")
  BY FrameType
<1>2. f.op = "alloc"
  BY FrameType
<1>3. Depth(t) = 0 /\ Push(t, f) /\ NoReset /\ UNCHANGED <<heap, pend, defer, ghosts>>
  BY <1>1, BeginType, Alone DEF Alloc, Begin
<1>4. Moved(t, 1, 1) /\ F(t, 1)' = f
  BY <1>1, <1>3, PushMoves
<1>5. Rests /\ allocations' = allocations /\ UNCHANGED <<disabled, inside, promised>>
  BY <1>3 DEF Rests, heap, pend, defer, ghosts
<1>6. AllTimely(t, 1, 1)
  BY <1>2, <1>3, <1>4 DEF AllTimely, NewTimely, Fresh
<1>7. QED
  BY <1>3, <1>4, <1>5, <1>6, RestsTimely DEF Gone

LEMMA OutOfMemoryTimely ==
  ASSUME Inv, Timely, NEW t \in Threads, OutOfMemory(t)
  PROVE  Timely'
<1>1. Stacks /\ Shapes
  BY DEF Inv, Shapes, Stacks
<1>2. stack[t] # <<>> /\ Top(t).op = "alloc"
  BY DEF OutOfMemory, In
<1> PICK m : m = Depth(t)
  OBVIOUS
<1>3. /\ m \in Nat \ {0} /\ F(t, m) = Top(t) /\ Top(t) \in Activations /\ m \in 1 .. Depth(t)
      /\ \A d \in 1 .. Depth(t) : d >= m => d = m
  BY <1>2, TopFacts
<1>4. Queued \subseteq Ids
  BY <1>1 DEF Shapes, Queued
<1> PICK g \in Activations : g = Frame("clear", "alloc")
  BY FrameType
<1>5. g.op = "clear" /\ g.id = 0 /\ g.n = 0
  BY FrameType
<1> PICK f : f = [Top(t) EXCEPT !.pc = "retry", !.todo = {queue[k] : k \in DOMAIN queue}]
  OBVIOUS
<1>6. f \in Activations /\ f.op = "alloc"
  BY <1>2, <1>3, <1>4 DEF Activations, Queued
<1>7. Put(t, <<g, f>> \o Tail(stack[t])) /\ UNCHANGED <<heap, pend, defer, ghosts>>
  BY DEF OutOfMemory, Flush, Put
<1>8. Moved(t, m, m + 1) /\ F(t, m)' = f /\ F(t, m + 1)' = g
  BY <1>1, <1>2, <1>6, <1>7, NestMoves
<1>9. Rests /\ allocations' = allocations /\ UNCHANGED <<disabled, inside, promised>>
  BY <1>7 DEF Rests, heap, pend, defer, ghosts
<1>10. ~ NoAlloc
  BY <1>2, <1>3 DEF NoAlloc
<1>11. AllTimely(t, m, m + 1)
  BY <1>5, <1>6, <1>8, <1>10 DEF AllTimely, NewTimely, Fresh
<1>12. \A d \in 1 .. Depth(t) : d >= m => ~ Freeing(F(t, d)) /\ ~ Asked(F(t, d))
  BY <1>2, <1>3 DEF Freeing, Asked
<1>13. QED
  BY <1>8, <1>9, <1>11, <1>12, RestsTimely DEF Gone

LEMMA FailAgainTimely ==
  ASSUME Inv, Timely, NEW t \in Threads, FailAgain(t)
  PROVE  Timely'
<1>1. stack[t] # <<>> /\ Top(t).op = "alloc" /\ Put(t, Tail(stack[t]))
  BY DEF FailAgain, In, Put, Pop
<1>2. Rests /\ allocations' = allocations /\ UNCHANGED <<disabled, inside, promised>>
  BY DEF FailAgain, Rests, heap, pend, defer
<1>3. QED
  BY <1>1, <1>2, RestsPop DEF Freeing, Asked

(* An allocation is under way, so nobody resets.                           *)
LEMMA Allocating ==
  ASSUME Inv, NEW t \in Threads, stack[t] # <<>>, Top(t).op = "alloc"
  PROVE  ~ NoAlloc /\ Settles
<1> PICK m : m = Depth(t)
  OBVIOUS
<1>1. F(t, m) = Top(t) /\ m \in 1 .. Depth(t)
  BY TopFacts
<1>2. ~ NoAlloc
  BY <1>1 DEF NoAlloc
<1>3. QED
  BY <1>2 DEF Settles

LEMMA ObtainTimely ==
  ASSUME Inv, Timely, NEW t \in Threads, Obtain(t)
  PROVE  Timely'
<1>1. Stacks /\ Shapes
  BY DEF Inv, Shapes, Stacks
<1>2. stack[t] # <<>> /\ Top(t).op = "alloc"
  BY DEF Obtain, In
<1>3. FreshId \in Ids
  BY FreshType DEF Obtain
<1>4. PICK a \in FreeAddrs : Goto(t, [Top(t) EXCEPT !.pc = "register", !.id = FreshId, !.n = a])
  BY DEF Obtain
<1>5. UNCHANGED <<mem, allocations, pend, defer, ghosts>>
  BY DEF Obtain
<1> PICK m : m = Depth(t)
  OBVIOUS
<1>6. /\ m \in Nat \ {0} /\ F(t, m) = Top(t) /\ Top(t) \in Activations
      /\ \A d \in 1 .. Depth(t) : d >= m => d = m
  BY <1>2, TopFacts
<1> PICK f : f = [Top(t) EXCEPT !.pc = "register", !.id = FreshId, !.n = a]
  OBVIOUS
<1>7. f \in Activations /\ f.op = "alloc"
  <2>1. a \in Nat /\ FreshId \in 0 .. MaxAllocs
    BY <1>3 DEF FreeAddrs, Ids
  <2>2. QED
    BY <1>2, <1>6, <2>1 DEF Activations
<1>8. Moved(t, m, m) /\ F(t, m)' = f
  BY <1>1, <1>2, <1>4, <1>7, GotoMoves
<1>9. ~ NoAlloc /\ Settles
  BY <1>2, Allocating
<1>10. AllTimely(t, m, m)
  <2>1. m # m + 1
    BY <1>6
  <2>2. QED
    BY <1>7, <1>8, <1>9, <2>1 DEF AllTimely, NewTimely, Fresh
<1>11. Goes
  <2>1. \A j \in Ids : Dead(j) => Dead(j)'
    BY <1>5 DEF Dead
  <2>2. Queued' = Queued
    BY <1>5 DEF Queued, pend
  <2>3. promised => \E u \in Threads : inside[u] > 0
    BY DEF Timely, Promise
  <2>4. QED
    BY <1>5, <2>1, <2>2, <2>3 DEF Goes, defer, ghosts
<1>12. Gone(t, m)
  BY <1>2, <1>6 DEF Gone, Asked
<1>13. QED
  BY <1>8, <1>9, <1>10, <1>11, <1>12, TimelyStep

LEMMA RegisterTimely ==
  ASSUME Inv, Timely, NEW t \in Threads, Register(t)
  PROVE  Timely'
<1>1. Stacks /\ Shapes
  BY DEF Inv, Shapes, Stacks
<1>2. stack[t] # <<>> /\ Top(t).op = "alloc" /\ Top(t).pc = "register"
  BY DEF Register, In
<1> PICK i : i = Top(t).id
  OBVIOUS
<1>3. /\ mem' = [mem EXCEPT ![i] = [addr |-> Top(t).n, refct |-> 1, alive |-> TRUE]]
      /\ Put(t, Tail(stack[t])) /\ UNCHANGED <<pend, defer, ghosts>>
  BY DEF Register, Pop, Put
<1> PICK m : m = Depth(t)
  OBVIOUS
<1>4. /\ m \in Nat \ {0} /\ F(t, m) = Top(t) /\ Top(t) \in Activations /\ FrameOK(F(t, m))
      /\ \A d \in 1 .. Depth(t) : d >= m => d = m
  BY <1>2, TopFacts
<1>5. mem[i].addr = 0
  BY <1>2, <1>4 DEF FrameOK, Registering
<1>6. Moved(t, m, m - 1)
  BY <1>1, <1>2, <1>3, PopMoves
<1>7. ~ NoAlloc /\ Settles
  BY <1>2, Allocating
<1>8. AllTimely(t, m, m - 1)
  BY <1>4 DEF AllTimely
<1>9. Goes
  <2>1. \A j \in Ids : j # i => mem'[j] = mem[j]
    BY <1>1, <1>3 DEF Shapes
  <2>2. \A j \in Ids : Dead(j) => Dead(j)'
    BY <1>5, <2>1 DEF Dead
  <2>3. Queued' = Queued
    BY <1>3 DEF Queued, pend
  <2>4. promised => \E u \in Threads : inside[u] > 0
    BY DEF Timely, Promise
  <2>5. QED
    BY <1>3, <1>7, <2>2, <2>3, <2>4 DEF Goes, defer, ghosts
<1>10. Gone(t, m)
  BY <1>2, <1>4 DEF Gone, Asked
<1>11. QED
  BY <1>6, <1>7, <1>8, <1>9, <1>10, TimelyStep

(* The queue.                                                              *)

LEMMA CountTimely ==
  ASSUME Inv, Timely, NEW t \in Threads, Count(t)
  PROVE  Timely'
<1>1. stack[t] # <<>> /\ Top(t).op = "add" /\ size \in Nat
  BY DEF Count, In, Inv, Shapes
<1> PICK f : f = [Top(t) EXCEPT !.pc = "store", !.n = size]
  OBVIOUS
<1>2. Top(t) \in Activations
  BY <1>1, TopFacts
<1>3. f \in Activations /\ f.op = "add"
  BY <1>1, <1>2 DEF Activations
<1>4. Goto(t, f) /\ Rests /\ allocations' = allocations /\ UNCHANGED <<disabled, inside, promised>>
  BY DEF Count, Rests, heap, pend, defer, ghosts
<1>5. QED
  BY <1>1, <1>3, <1>4, RestsGoto

LEMMA StoreTimely ==
  ASSUME Inv, Timely, NEW t \in Threads, Store(t)
  PROVE  Timely'
<1>1. stack[t] # <<>> /\ Top(t).op = "add"
  BY DEF Store, In
<1> PICK f \in Activations : f = Frame("clear", "add")
  BY FrameType
<1>2. f.op = "clear" /\ f.n = 0 /\ f.id = 0
  BY FrameType
<1>3. Goto(t, f) \/ Put(t, Tail(stack[t]))
  BY DEF Store, Pop, Put
<1>4. Rests /\ allocations' = allocations /\ UNCHANGED <<disabled, inside, promised>>
  BY DEF Store, Rests, heap, defer, ghosts
<1>5. CASE Goto(t, f)
  BY <1>1, <1>2, <1>4, <1>5, RestsGoto
<1>6. CASE Put(t, Tail(stack[t]))
  BY <1>1, <1>4, <1>6, RestsPop DEF Freeing, Asked
<1>7. QED
  BY <1>3, <1>5, <1>6

LEMMA ClearDisabledTimely ==
  ASSUME Inv, Timely, NEW t \in Threads, stack[t] # <<>>, Top(t).op = "clear", Top(t).id = 0,
         IsDisabled, Put(t, Below(t)), UNCHANGED pend, UNCHANGED <<heap, defer, ghosts>>
  PROVE  Timely'
<1>1. Stacks
  BY DEF Inv, Shapes, Stacks
<1>2. Rests /\ allocations' = allocations /\ UNCHANGED <<disabled, inside, promised>>
  BY DEF Rests, heap, pend, defer, ghosts
<1>3. ~ Freeing(Top(t))
  BY DEF Freeing
<1>4. CASE Top(t).pc # "alloc"
  <2>1. Put(t, Tail(stack[t]))
    BY <1>4 DEF Below
  <2>2. QED
    BY <1>2, <1>3, <2>1, RestsPop
<1>5. CASE Top(t).pc = "alloc"
  <2> PICK k : k = Depth(t)
    OBVIOUS
  <2>1. k \in Nat \ {0} /\ F(t, k) = Top(t) /\ UnderOK(t, k)
    BY TopFacts
  <2> PICK m : m = k - 1
    OBVIOUS
  <2>2. m \in Nat \ {0} /\ m + 1 = k /\ F(t, m).op = "alloc" /\ m \in 1 .. Depth(t)
    BY <1>5, <2>1 DEF UnderOK
  <2>3. stack[t][2] = F(t, m) /\ F(t, m) \in Activations
    BY <1>1, <2>2, RestTwo
  <2> PICK f : f = [F(t, m) EXCEPT !.todo = {}]
    OBVIOUS
  <2>4. f \in Activations /\ f.op = "alloc"
    BY <2>2, <2>3 DEF Activations
  <2>5. Put(t, <<f>> \o Tail(Tail(stack[t])))
    BY <1>5, <2>3 DEF Below
  <2>6. Moved(t, m, m) /\ F(t, m)' = f
    BY <1>1, <2>2, <2>4, <2>5, UnderMoves
  <2>7. ~ NoAlloc
    BY <2>2 DEF NoAlloc
  <2>8. AllTimely(t, m, m)
    <3>1. m # m + 1
      BY <2>2
    <3>2. QED
      BY <2>4, <2>6, <2>7, <3>1 DEF AllTimely, NewTimely, Fresh
  <2>9. \A d \in 1 .. Depth(t) : d >= m => d = m \/ d = k
    BY <2>2
  <2>10. \A d \in 1 .. Depth(t) : d >= m => ~ Freeing(F(t, d)) /\ ~ Asked(F(t, d))
    BY <1>3, <1>5, <2>1, <2>2, <2>9 DEF Freeing, Asked
  <2>11. QED
    BY <1>2, <2>6, <2>8, <2>10, RestsTimely DEF Gone
<1>6. QED
  BY <1>4, <1>5

LEMMA ClearDoneTimely ==
  ASSUME Inv, Timely, NEW t \in Threads, stack[t] # <<>>, Top(t).op = "clear", Top(t).id = 0,
         queue = <<>>, Put(t, Tail(stack[t])), UNCHANGED queue, UNCHANGED <<heap, defer, ghosts>>
  PROVE  Timely'
<1>1. Rests /\ allocations' = allocations /\ UNCHANGED <<disabled, inside, promised>>
  BY DEF Rests, heap, defer, ghosts
<1>2. QED
  BY <1>1, RestsPop DEF Freeing

(* A flush goes on at the same place of the stack.                         *)
LEMMA GoesOn ==
  ASSUME NEW t \in Threads, NEW m \in Nat \ {0}, m = Depth(t), Moved(t, m, m), F(t, m) = Top(t),
         F(t, m)'.op = "clear", F(t, m)'.pc = Top(t).pc, ~ promised'
  PROVE  AllTimely(t, m, m) /\ Gone(t, m)
<1>1. m # m + 1 /\ \A d \in 1 .. Depth(t) : d >= m => d = m
  OBVIOUS
<1>2. AllTimely(t, m, m)
  BY <1>1 DEF AllTimely, NewTimely
<1>3. Depth(t)' = m /\ m \in 1 .. m
  BY DEF Moved
<1>4. Asked(F(t, m)) => Flushed(t)'
  BY <1>3 DEF Asked, Flushed
<1>5. QED
  BY <1>1, <1>2, <1>4 DEF Gone

LEMMA ClearPopTimely ==
  ASSUME Inv, Timely, NEW t \in Threads, stack[t] # <<>>, Top(t).op = "clear", Top(t).id = 0,
         Top(t).n = 1 \/ ~ IsDisabled,
         queue # <<>>, Goto(t, [Top(t) EXCEPT !.id = Head(queue), !.n = 1]),
         queue' = Popped, UNCHANGED <<heap, defer, ghosts>>
  PROVE  Timely'
<1>1. Stacks
  BY DEF Inv, Shapes, Stacks
<1> PICK i : i = Head(queue)
  OBVIOUS
<1>2. i \in Ids /\ Queued' = Queued \ {i}
  BY TailQueue DEF Popped
<1>3. UNCHANGED <<device, mem, allocations, disabled, inside, promised, lost>>
  BY DEF heap, defer, ghosts
<1> PICK m : m = Depth(t)
  OBVIOUS
<1>4. /\ m \in Nat \ {0} /\ F(t, m) = Top(t) /\ Top(t) \in Activations /\ m \in 1 .. Depth(t)
      /\ \A d \in 1 .. Depth(t) : d >= m => d = m
  BY TopFacts
<1> PICK f : f = [Top(t) EXCEPT !.id = i, !.n = 1]
  OBVIOUS
<1>5. f \in Activations /\ f.op = "clear" /\ f.id = i /\ f.pc = Top(t).pc
  <2>1. i \in 0 .. MaxAllocs /\ Top(t) \in Activations
    BY <1>2, <1>4 DEF Ids
  <2>2. QED
    BY <2>1 DEF Activations
<1>6. Moved(t, m, m) /\ F(t, m)' = f
  BY <1>1, <1>5, GotoMoves
<1>7. ~ promised /\ ~ promised'
  <2>1. ASSUME promised PROVE FALSE
    <3>1. IsDisabled
      BY <2>1, Promised DEF Timely
    <3>2. Fresh(F(t, m))
      BY <1>4, <2>1 DEF Timely, Promise
    <3>3. QED
      BY <1>4, <3>1, <3>2 DEF Fresh
  <2>2. QED
    BY <1>3, <2>1
<1>8. AllTimely(t, m, m) /\ Gone(t, m)
  BY <1>4, <1>5, <1>6, <1>7, GoesOn
<1>9. Goes
  BY <1>2, <1>3, <1>7 DEF Goes, Dead
<1>10. Settles
  <2> SUFFICES ASSUME NEW j \in Ids, mem[j].addr # 0, Settled(j)
               PROVE  mem'[j].addr # 0 /\ Settled(j)'
    BY DEF Settles
  <2>1. Freed(j) => Freed(j)'
    BY <1>1, <1>4, <1>6, FreedStays DEF Freeing
  <2>2. Freed(i)'
    <3>1. Depth(t)' = m /\ m \in 1 .. m
      BY <1>4, <1>6 DEF Moved
    <3>2. Freeing(F(t, m))' /\ F(t, m)'.id = i
      BY <1>2, <1>5, <1>6 DEF Freeing, Ids
    <3>3. QED
      BY <3>1, <3>2 DEF Freed
  <2>3. QED
    BY <1>2, <1>3, <2>1, <2>2 DEF Settled, Has
<1>11. QED
  BY <1>6, <1>8, <1>9, <1>10, TimelyStep

LEMMA ClearTimely ==
  ASSUME Inv, Timely, NEW t \in Threads, Clear(t)
  PROVE  Timely'
<1>1. /\ stack[t] # <<>> /\ Top(t).op = "clear" /\ Top(t).id = 0
      /\ UNCHANGED <<heap, defer, ghosts>>
  BY DEF Clear
<1>2. CASE IsDisabled /\ Put(t, Below(t)) /\ UNCHANGED pend
  BY <1>1, <1>2, ClearDisabledTimely
<1>3. CASE queue = <<>> /\ Put(t, Tail(stack[t])) /\ UNCHANGED queue
  BY <1>1, <1>3, ClearDoneTimely
<1>4. CASE /\ Top(t).n = 1 \/ ~ IsDisabled
           /\ queue # <<>> /\ Goto(t, [Top(t) EXCEPT !.id = Head(queue), !.n = 1])
           /\ queue' = Popped
  BY <1>1, <1>4, ClearPopTimely
<1>5. QED
  BY <1>2, <1>3, <1>4 DEF Clear, Put, Pop

(* A flush that has a block was not promised to wait.                      *)
LEMMA NotPromised ==
  ASSUME Inv, Timely, NEW t \in Threads, stack[t] # <<>>, Top(t).op = "clear", Top(t).id # 0
  PROVE  ~ promised
<1> PICK m : m = Depth(t)
  OBVIOUS
<1>1. F(t, m) = Top(t) /\ m \in 1 .. Depth(t)
  BY TopFacts
<1>2. promised => Fresh(F(t, m))
  BY <1>1 DEF Timely, Promise
<1>3. QED
  BY <1>1, <1>2 DEF Fresh

LEMMA DeallocTimely ==
  ASSUME Inv, Timely, NEW t \in Threads, Dealloc(t)
  PROVE  Timely'
<1>1. Stacks /\ Shapes
  BY DEF Inv, Shapes, Stacks
<1>2. stack[t] # <<>> /\ Top(t).op = "clear" /\ Top(t).id # 0
  BY DEF Dealloc
<1> PICK i : i = Top(t).id
  OBVIOUS
<1> PICK a : a = mem[i].addr
  OBVIOUS
<1>3. /\ device' = [device EXCEPT ![a] = IF @ = i THEN 0 ELSE @]
      /\ Goto(t, [Top(t) EXCEPT !.id = 0])
      /\ UNCHANGED <<mem, allocations, queue, disabled, inside, promised, lost>>
  BY DEF Dealloc, pend, defer
<1> PICK m : m = Depth(t)
  OBVIOUS
<1>4. /\ m \in Nat \ {0} /\ F(t, m) = Top(t) /\ Top(t) \in Activations /\ FrameOK(F(t, m))
      /\ \A d \in 1 .. Depth(t) : d >= m => d = m
  BY <1>2, TopFacts
<1>5. i \in Ids /\ i # 0
  BY <1>2, <1>4 DEF Activations, Ids
<1>6. device[a] = i /\ a \in Addrs
  <2>1. Dead(i) /\ Has(i)
    BY <1>2, <1>4 DEF FrameOK, Freeing
  <2>2. QED
    BY <1>1, <1>5, <2>1, MemType DEF Dead, Has
<1>7. device'[a] = 0 /\ \A b \in Addrs : b # a => device'[b] = device[b]
  BY <1>1, <1>3, <1>6 DEF Shapes
<1> PICK f : f = [Top(t) EXCEPT !.id = 0]
  OBVIOUS
<1>8. f \in Activations /\ f.op = "clear" /\ f.pc = Top(t).pc
  BY <1>2, <1>4 DEF Activations
<1>9. Moved(t, m, m) /\ F(t, m)' = f
  BY <1>1, <1>2, <1>3, <1>8, GotoMoves
<1>10. ~ promised /\ ~ promised'
  BY <1>2, <1>3, NotPromised
<1>11. AllTimely(t, m, m) /\ Gone(t, m)
  BY <1>4, <1>8, <1>9, <1>10, GoesOn
<1>12. Goes
  BY <1>3, <1>10 DEF Goes, Dead, Queued
<1>13. Settles
  <2> SUFFICES ASSUME NEW j \in Ids, mem[j].addr # 0, Settled(j)
               PROVE  mem'[j].addr # 0 /\ Settled(j)'
    BY DEF Settles
  <2>1. j # 0 /\ mem[j].addr \in Addrs
    BY <1>1, MemType
  <2>2. Has(j)' => Has(j) /\ j # i
    BY <1>3, <1>5, <1>6, <1>7, <2>1 DEF Has
  <2>3. Freed(j) /\ j # i => Freed(j)'
    BY <1>1, <1>4, <1>9, FreedStays
  <2>4. QED
    BY <1>3, <2>2, <2>3 DEF Settled, Queued
<1>14. QED
  BY <1>9, <1>11, <1>12, <1>13, TimelyStep

LEMMA DeallocFailsTimely ==
  ASSUME Inv, Timely, NEW t \in Threads, DeallocFails(t)
  PROVE  Timely'
<1>1. Stacks
  BY DEF Inv, Shapes, Stacks
<1>2. stack[t] # <<>> /\ Top(t).op = "clear" /\ Top(t).id # 0
  BY DEF DeallocFails
<1> PICK i : i = Top(t).id
  OBVIOUS
<1>3. /\ lost' = lost \cup {i}
      /\ UNCHANGED <<device, mem, allocations, queue, disabled, inside, promised>>
  BY DEF DeallocFails, heap, defer, Kept
<1> PICK k : k = Depth(t)
  OBVIOUS
<1>4. /\ k \in Nat \ {0} /\ F(t, k) = Top(t) /\ FrameOK(F(t, k)) /\ UnderOK(t, k)
      /\ \A d \in 1 .. Depth(t) : d >= k => d = k
  BY <1>2, TopFacts
<1>5. PICK m : /\ m \in Nat \ {0} /\ Moved(t, m, m - 1)
               /\ \A d \in 1 .. Depth(t) : d >= m /\ Freeing(F(t, d)) => d = k
               /\ \A d \in 1 .. Depth(t) : d >= m /\ Asked(F(t, d)) => m = 1
  <2>1. CASE Top(t).pc = "add"
    <3>1. Put(t, Tail(stack[t]))
      BY <2>1 DEF DeallocFails, Put
    <3>2. Moved(t, k, k - 1)
      BY <1>1, <1>2, <3>1, PopMoves
    <3>3. ~ Asked(F(t, k))
      BY <1>4, <2>1 DEF Asked
    <3>4. QED
      BY <1>4, <3>2, <3>3
  <2>2. CASE Top(t).pc # "add"
    <3> PICK m : m = k - 1
      OBVIOUS
    <3>1. m \in Nat \ {0} /\ m + 1 = k /\ F(t, m).op = Top(t).pc /\ m \in 1 .. Depth(t)
      BY <1>2, <1>4, <2>2 DEF UnderOK
    <3>2. F(t, m).op # "clear"
      BY <1>2, <1>4, <3>1 DEF FrameOK
    <3>3. Put(t, Tail(Tail(stack[t])))
      BY <2>2 DEF DeallocFails, Put
    <3>4. Moved(t, m, m - 1)
      BY <1>1, <3>1, <3>3, PopTwoMoves
    <3>5. \A d \in 1 .. Depth(t) : d >= m => d = m \/ d = k
      BY <3>1
    <3>6. ~ Freeing(F(t, m)) /\ ~ Asked(F(t, m))
      BY <3>2 DEF Freeing, Asked
    <3>7. Asked(F(t, k)) => m = 1
      BY <1>4, <3>1 DEF Asked, Timely, Resets
    <3>8. QED
      BY <3>1, <3>4, <3>5, <3>6, <3>7
  <2>3. QED
    BY <2>1, <2>2
<1>6. ~ promised
  BY <1>2, NotPromised
<1>7. AllTimely(t, m, m - 1)
  BY <1>5 DEF AllTimely
<1>8. Goes
  BY <1>3, <1>6 DEF Goes, Dead, Queued
<1>9. Settles
  <2> SUFFICES ASSUME NEW j \in Ids, mem[j].addr # 0, Settled(j)
               PROVE  mem'[j].addr # 0 /\ Settled(j)'
    BY DEF Settles
  <2>1. Freed(j) /\ j # i => Freed(j)'
    BY <1>1, <1>4, <1>5, FreedStays
  <2>2. QED
    BY <1>3, <2>1 DEF Settled, Queued, Has
<1>10. QED
  BY <1>5, <1>7, <1>8, <1>9, TimelyStep DEF Gone

(* Pointers.                                                               *)

LEMMA DiesTimely ==
  ASSUME Inv, Timely, NEW t \in Threads, NEW i \in Ids, Dies(t, i),
         allocations' \subseteq allocations, allocations = {} => queue' = Append(queue, i),
         UNCHANGED <<disabled, inside, promised>>
  PROVE  Timely'
<1>1. Stacks /\ queue \in Seq(Ids)
  BY DEF Inv, Shapes, Stacks
<1>2. /\ mem[i].alive /\ mem'[i].addr = mem[i].addr /\ ~ mem'[i].alive
      /\ \A j \in Ids : j # i => mem'[j] = mem[j]
      /\ UNCHANGED <<device, lost>>
  BY DEF Dies
<1>3. /\ \A j \in Queued' : j \in Queued \/ j = i
      /\ \A j \in Queued : j \in Queued'
  BY DiesQueue
<1>4. allocations = {} => i \in Queued'
  <2> SUFFICES ASSUME queue' = Append(queue, i) PROVE i \in Queued'
    OBVIOUS
  <2> PICK n \in Nat : n = Len(queue)
    BY <1>1
  <2> PICK q : q = queue'
    OBVIOUS
  <2>1. q[n + 1] = i /\ DOMAIN q = 1 .. n + 1
    BY <1>1, AppendSeq
  <2>2. n + 1 \in 1 .. n + 1
    OBVIOUS
  <2>3. QED
    BY <2>1, <2>2 DEF Queued
<1> PICK m : m = Depth(t) + 1
  OBVIOUS
<1> PICK f : f = [Frame("add", "count") EXCEPT !.id = i]
  OBVIOUS
<1>5. f \in Activations /\ f.op = "add"
  BY DEF Activations, Frame, Ids
<1>6. m \in Nat \ {0} /\ \A d \in 1 .. Depth(t) : ~ (d >= m)
  <2>1. Depth(t) \in Nat
    BY <1>1, DepthType
  <2>2. QED
    BY <2>1
<1>7. PICK n : Moved(t, m, n) /\ (n = m - 1 \/ (n = m /\ F(t, m)' = f))
  <2>1. CASE Push(t, f)
    BY <1>1, <1>5, <2>1, PushMoves
  <2>2. CASE UNCHANGED stack
    BY <1>1, <2>2, StillMoves
  <2>3. QED
    BY <2>1, <2>2 DEF Dies
<1>8. AllTimely(t, m, n)
  <2>1. n = m => NewTimely(t, m)
    <3>1. n = m => F(t, m)' = f
      BY <1>6, <1>7
    <3>2. QED
      BY <1>5, <3>1 DEF NewTimely, Fresh
  <2>2. (n >= m => n = m) /\ n # m + 1
    BY <1>6, <1>7
  <2>3. QED
    BY <2>1, <2>2 DEF AllTimely
<1>9. Goes
  <2>1. \A j \in Ids : Dead(j) => Dead(j)'
    BY <1>2 DEF Dead
  <2>2. \A j \in Queued' : j \in Queued \/ ~ Dead(j)
    BY <1>2, <1>3 DEF Dead
  <2>3. promised => \E u \in Threads : inside[u] > 0
    BY DEF Timely, Promise
  <2>4. QED
    BY <2>1, <2>2, <2>3 DEF Goes
<1>10. Settles
  <2> SUFFICES ASSUME allocations = {}, NEW j \in Ids, mem[j].addr # 0, Settled(j)
               PROVE  mem'[j].addr # 0 /\ Settled(j)'
    BY DEF Settles
  <2>1. Freed(j) => Freed(j)'
    BY <1>1, <1>6, <1>7, FreedStays
  <2>2. QED
    BY <1>2, <1>3, <1>4, <2>1 DEF Settled, Has
<1>11. QED
  BY <1>6, <1>7, <1>8, <1>9, <1>10, TimelyStep DEF Gone

LEMMA DerefTimely ==
  ASSUME Inv, Timely, NEW t \in Threads, NEW i \in Ids, NEW views, Deref(t, i, views),
         UNCHANGED <<device, defer, ghosts>>
  PROVE  Timely'
<1>1. Shapes /\ Heap
  BY DEF Inv
<1>2. UNCHANGED <<device, disabled, inside, promised, lost, stale>>
  BY DEF defer, ghosts
<1> PICK x : x = [mem[i] EXCEPT !.refct = @ - 1]
  OBVIOUS
<1> PICK y : y = [x EXCEPT !.alive = FALSE]
  OBVIOUS
<1>3. /\ x.addr = mem[i].addr /\ x.alive = mem[i].alive
      /\ y.addr = mem[i].addr /\ ~ y.alive
  <2>1. mem[i] \in [addr : Addrs \cup {0}, refct : Nat, alive : BOOLEAN]
    BY <1>1, MemType
  <2>2. QED
    BY <2>1
<1>4. CASE ~ mem[i].alive
  <2>1. UNCHANGED <<mem, allocations, queue, stack>>
    BY <1>4 DEF Deref
  <2>2. QED
    BY <1>2, <2>1, RestsStill DEF Rests
<1>5. CASE mem[i].alive /\ ~ (Unreferenced(x) \/ (i \notin allocations /\ views = 0))
  <2>1. mem' = [mem EXCEPT ![i] = x] /\ UNCHANGED <<allocations, queue, stack>>
    BY <1>5 DEF Deref
  <2>2. \A j \in Ids : mem'[j].addr = mem[j].addr /\ mem'[j].alive = mem[j].alive
    BY <1>1, <1>3, <2>1 DEF Shapes
  <2>3. QED
    BY <1>2, <2>1, <2>2, RestsStill DEF Rests
<1>6. CASE mem[i].alive /\ (Unreferenced(x) \/ (i \notin allocations /\ views = 0))
  <2>1. mem' = [mem EXCEPT ![i] = y] /\ Finalize(t, i)
    BY <1>6 DEF Deref
  <2>2. mem'[i] = y /\ \A j \in Ids : j # i => mem'[j] = mem[j]
    BY <1>1, <2>1 DEF Shapes
  <2>3. i \notin allocations => i \in stale
    BY <1>1, <1>6 DEF Heap, Dictionary
  <2>4. mem' \in [Ids -> [addr : Addrs \cup {0}, refct : Nat, alive : BOOLEAN]]
    <3>1. mem[i] \in [addr : Addrs \cup {0}, refct : Nat, alive : BOOLEAN]
      BY <1>1, MemType
    <3>2. mem[i].refct = Held(i) /\ Held(i) > 0 /\ Held(i) \in Nat
      BY <1>1, <1>6, HeldType DEF Heap, Counts
    <3> PICK h : h = mem[i].refct - 1
      OBVIOUS
    <3>3. h \in Nat
      BY <3>2
    <3>4. x = [mem[i] EXCEPT !.refct = h]
      OBVIOUS
    <3>5. y \in [addr : Addrs \cup {0}, refct : Nat, alive : BOOLEAN]
      BY <3>1, <3>3, <3>4
    <3>6. QED
      BY <1>1, <2>1, <3>5 DEF Shapes
  <2>5. Dies(t, i)
    BY <1>2, <1>3, <1>6, <2>1, <2>2, <2>3, <2>4 DEF Dies, Finalize
  <2>6. allocations' \subseteq allocations /\ (allocations = {} => queue' = Append(queue, i))
    BY <2>1 DEF Finalize
  <2>7. QED
    BY <1>2, <2>5, <2>6, DiesTimely
<1>7. QED
  BY <1>4, <1>5, <1>6

LEMMA PointerTimely ==
  ASSUME Inv, Timely, NEW t \in Threads, NEW i \in Ids,
         \/ View(t, i)
         \/ \E k \in Kinds : Lose(t, i, k) \/ Drop(t, i, k) \/ Collect(t, i, k)
  PROVE  Timely'
<1>1. CASE View(t, i)
  <2>1. mem' = [mem EXCEPT ![i] = Counted(@)]
    BY <1>1 DEF View
  <2>2. \A j \in Ids : mem'[j].addr = mem[j].addr /\ mem'[j].alive = mem[j].alive
    <3>1. Shapes /\ mem[i] \in [addr : Addrs \cup {0}, refct : Nat, alive : BOOLEAN]
      BY MemType DEF Inv
    <3> PICK x : x = Counted(mem[i])
      OBVIOUS
    <3>2. x.addr = mem[i].addr /\ x.alive = mem[i].alive
      BY <3>1 DEF Counted
    <3>3. mem' = [mem EXCEPT ![i] = x]
      BY <2>1
    <3>4. QED
      BY <3>1, <3>2, <3>3 DEF Shapes
  <2>3. QED
    BY <1>1, <2>2, RestsStill DEF View, Rests, pend, defer, ghosts
<1>2. ASSUME NEW k \in Kinds, Lose(t, i, k) PROVE Timely'
  BY <1>2, RestsStill DEF Lose, Rests, heap, pend, defer, ghosts
<1>3. ASSUME NEW k \in Kinds, Drop(t, i, k) PROVE Timely'
  BY <1>3, DerefTimely DEF Drop
<1>4. ASSUME NEW k \in Kinds, Collect(t, i, k) PROVE Timely'
  BY <1>4, DerefTimely DEF Collect
<1>5. QED
  BY <1>1, <1>2, <1>3, <1>4

(* Deferrals.                                                              *)

LEMMA DeferTimely ==
  ASSUME Inv, Timely, NEW t \in Threads, EnterDefer(t) \/ ExitDefer(t)
  PROVE  Timely'
<1>1. Stacks /\ inside \in [Threads -> Nat]
  BY DEF Inv, Shapes, Stacks, Deferring
<1>2. UNCHANGED <<heap, pend, stack, lost>>
  BY DEF EnterDefer, ExitDefer
<1>3. Rests /\ allocations' = allocations
  BY <1>2 DEF Rests, heap, pend
<1>4. NoReset
  BY <1>1, Alone DEF EnterDefer, ExitDefer, Begin
<1>5. promised' => (\E u \in Threads : inside'[u] > 0) /\ (promised \/ NoFlush)
  <2>1. CASE EnterDefer(t)
    <3>1. inside'[t] = inside[t] + 1 /\ inside[t] \in Nat
      BY <1>1, <2>1 DEF EnterDefer
    <3>2. inside'[t] > 0
      BY <3>1
    <3>3. promised' => promised \/ NoFlush
      BY <1>1, <2>1, Alone DEF EnterDefer
    <3>4. QED
      BY <3>2, <3>3
  <2>2. CASE ExitDefer(t)
    BY <2>2 DEF ExitDefer
  <2>3. QED
    BY <2>1, <2>2
<1>6. Goes
  BY <1>3, <1>4, <1>5 DEF Goes, Rests, Dead, Queued
<1> PICK m : m = Depth(t) + 1
  OBVIOUS
<1>7. Moved(t, m, m - 1) /\ m \in Nat \ {0} /\ Depth(t) \in Nat
  BY <1>1, <1>2, StillMoves, DepthType
<1>8. \A d \in 1 .. Depth(t) : ~ (d >= m)
  BY <1>7
<1>9. AllTimely(t, m, m - 1)
  BY <1>7 DEF AllTimely
<1>10. Settles
  BY <1>1, <1>3, <1>7, <1>8, RestsSettles
<1>11. QED
  BY <1>6, <1>7, <1>8, <1>9, <1>10, TimelyStep DEF Gone

(* The reset.                                                              *)

LEMMA NoAllocStep ==
  ASSUME Stacks, NoAlloc, NEW t \in Threads, NEW m, NEW n, Moved(t, m, n),
         n >= m => F(t, m)'.op # "alloc", n = m + 1 => F(t, m + 1)'.op # "alloc"
  PROVE  NoAlloc'
<1> SUFFICES ASSUME NEW u \in Threads, NEW d \in 1 .. Depth(u)' PROVE F(u, d)'.op # "alloc"
  BY DEF NoAlloc
<1>1. QED
  BY Coming DEF NoAlloc

LEMMA ResetTimely ==
  ASSUME Inv, Timely, NEW t \in Threads, Reset(t)
  PROVE  Timely'
<1>1. Stacks /\ Shapes /\ Heap
  BY DEF Inv, Shapes, Stacks
<1> PICK todo : todo = {i \in allocations : Views(i) = 0}
  OBVIOUS
<1>2. /\ allocations' = {}
      /\ Push(t, [Frame("reset", "each") EXCEPT !.todo = todo])
      /\ UNCHANGED <<device, mem, queue, lost, disabled, inside, promised>>
  BY DEF Reset, pend, defer
<1>3. Depth(t) = 0 /\ NoAlloc
  <2>1. \A u \in Threads : Depth(u) = 0
    BY DEF Reset, Idle, Depth
  <2>2. QED
    BY <2>1 DEF NoAlloc
<1>4. \A i \in todo : mem[i].alive /\ mem[i].addr # 0 /\ i \in Ids
  BY <1>1 DEF Heap, Dictionary, Counts
<1> PICK f : f = [Frame("reset", "each") EXCEPT !.todo = todo]
  OBVIOUS
<1>5. f \in Activations /\ f.op = "reset" /\ f.pc = "each" /\ f.todo = todo
  <2> PICK g \in Activations : g = Frame("reset", "each")
    BY FrameType
  <2>1. g.op = "reset" /\ g.pc = "each" /\ f = [g EXCEPT !.todo = todo]
    BY FrameType
  <2>2. todo \in SUBSET Ids
    BY <1>4
  <2>3. QED
    BY <2>1, <2>2 DEF Activations
<1>6. Moved(t, 1, 1) /\ F(t, 1)' = f
  BY <1>1, <1>2, <1>3, <1>5, PushMoves
<1>7. Rests
  BY <1>2 DEF Rests
<1>8. AllTimely(t, 1, 1)
  <2>1. NoAlloc'
    BY <1>1, <1>3, <1>5, <1>6, NoAllocStep
  <2>2. \A i \in f.todo : Settled(i)' /\ mem'[i].addr # 0
    BY <1>2, <1>4, <1>5 DEF Settled
  <2>3. Ends(t, f)'
    BY <1>2, <1>5, <2>1, <2>2 DEF Ends
  <2>4. QED
    BY <1>5, <1>6, <2>3 DEF AllTimely, NewTimely, Ends, Fresh
<1>9. Goes
  <2>1. promised => \E u \in Threads : inside[u] > 0
    BY DEF Timely, Promise
  <2>2. QED
    BY <1>2, <2>1 DEF Goes, Dead, Queued
<1>10. Settles
  BY <1>1, <1>3, <1>6, <1>7, RestsSettles
<1>11. QED
  BY <1>3, <1>6, <1>8, <1>9, <1>10, TimelyStep DEF Gone

LEMMA ResetTop ==
  ASSUME Inv, Timely, NEW t \in Threads, stack[t] # <<>>, Top(t).op = "reset"
  PROVE  /\ Depth(t) = 1 /\ Ends(t, Top(t)) /\ Top(t) \in Activations /\ F(t, 1) = Top(t)
         /\ ~ Flushed(t)
<1> PICK m : m = Depth(t)
  OBVIOUS
<1>1. F(t, m) = Top(t) /\ Top(t) \in Activations /\ m \in 1 .. Depth(t)
  BY TopFacts
<1>2. m = 1 /\ Ends(t, F(t, m))
  BY <1>1 DEF Timely, Resets
<1>3. \A d \in 1 .. Depth(t) : d = m
  BY <1>2
<1>4. ~ Flushed(t)
  BY <1>1, <1>3 DEF Flushed, Asked
<1>5. QED
  BY <1>1, <1>2, <1>4

LEMMA ResetEachTimely ==
  ASSUME Inv, Timely, NEW t \in Threads, ResetEach(t)
  PROVE  Timely'
<1>1. stack[t] # <<>> /\ Top(t).op = "reset" /\ Shapes
  BY DEF ResetEach, In, Inv
<1>2. PICK i \in Top(t).todo :
        /\ mem[i].alive /\ mem' = [mem EXCEPT ![i].alive = FALSE]
        /\ queue' = Append(queue, i)
        /\ Push(t, [Frame("add", "count") EXCEPT !.id = i])
  BY DEF ResetEach
<1>3. UNCHANGED <<device, allocations, disabled, inside, promised, lost, stale>>
  BY DEF ResetEach, defer, ghosts
<1>4. i \in Ids
  BY <1>1, ResetTop DEF Activations
<1>5. /\ mem' \in [Ids -> [addr : Addrs \cup {0}, refct : Nat, alive : BOOLEAN]]
      /\ mem'[i].addr = mem[i].addr /\ ~ mem'[i].alive
      /\ \A j \in Ids : j # i => mem'[j] = mem[j]
  <2> PICK x : x = [mem[i] EXCEPT !.alive = FALSE]
    OBVIOUS
  <2>1. mem[i] \in [addr : Addrs \cup {0}, refct : Nat, alive : BOOLEAN]
    BY <1>1, <1>4, MemType
  <2>2. /\ x \in [addr : Addrs \cup {0}, refct : Nat, alive : BOOLEAN]
        /\ x.addr = mem[i].addr /\ ~ x.alive
    BY <2>1
  <2>3. mem' = [mem EXCEPT ![i] = x]
    BY <1>2
  <2>4. mem'[i] = x /\ \A j \in Ids : j # i => mem'[j] = mem[j]
    BY <1>1, <1>4, <2>3 DEF Shapes
  <2>5. mem' \in [Ids -> [addr : Addrs \cup {0}, refct : Nat, alive : BOOLEAN]]
    BY <1>1, <2>2, <2>3 DEF Shapes
  <2>6. QED
    BY <2>2, <2>4, <2>5
<1>6. Dies(t, i)
  BY <1>2, <1>3, <1>5 DEF Dies
<1>7. QED
  BY <1>2, <1>3, <1>4, <1>6, DiesTimely

LEMMA ResetFlushTimely ==
  ASSUME Inv, Timely, NEW t \in Threads, ResetFlush(t)
  PROVE  Timely'
<1>1. Stacks
  BY DEF Inv, Shapes, Stacks
<1>2. stack[t] # <<>> /\ Top(t).op = "reset" /\ \A i \in Top(t).todo : ~ mem[i].alive
  BY DEF ResetFlush, In
<1>3. /\ 1 = Depth(t) /\ Ends(t, Top(t)) /\ Top(t) \in Activations /\ F(t, 1) = Top(t)
      /\ \A d \in 1 .. Depth(t) : d = 1
  BY <1>2, ResetTop
<1> PICK g \in Activations : g = Frame("clear", "reset")
  BY FrameType
<1>4. g.op = "clear" /\ g.pc = "reset" /\ g.id = 0 /\ g.n = 0
  BY FrameType
<1> PICK f : f = [Top(t) EXCEPT !.pc = "flushed"]
  OBVIOUS
<1>5. f \in Activations /\ f.op = "reset" /\ f.todo = Top(t).todo
  BY <1>2, <1>3 DEF Activations
<1>6. Put(t, <<g, f>> \o Tail(stack[t])) /\ UNCHANGED <<heap, pend, defer, ghosts>>
  BY DEF ResetFlush, FlushAfter, Put
<1>7. Moved(t, 1, 1 + 1) /\ F(t, 1)' = f /\ F(t, 1 + 1)' = g
  BY <1>1, <1>2, <1>3, <1>5, <1>6, NestMoves
<1>8. Rests /\ allocations' = allocations /\ UNCHANGED <<disabled, inside, promised, mem>>
  BY <1>6 DEF Rests, heap, pend, defer, ghosts
<1>9. \A d \in 1 .. Depth(t) : ~ Freeing(F(t, d)) /\ ~ Asked(F(t, d))
  BY <1>2, <1>3 DEF Freeing, Asked
<1>10. Settles
  BY <1>1, <1>7, <1>8, <1>9, RestsSettles
<1>11. AllTimely(t, 1, 1 + 1)
  <2>1. allocations' = {} /\ NoAlloc /\ allocations = {}
    BY <1>3, <1>8 DEF Ends
  <2>2. NoAlloc'
    BY <1>1, <1>4, <1>5, <1>7, <2>1, NoAllocStep
  <2>3. \A i \in f.todo : i \in Ids /\ mem[i].addr # 0 /\ ~ mem[i].alive /\ Settled(i)
    BY <1>2, <1>3, <1>5 DEF Ends, Activations
  <2>4. \A i \in f.todo : Settled(i)' /\ mem'[i].addr # 0
    BY <1>10, <2>1, <2>3 DEF Settles
  <2>5. \A i \in f.todo : Dead(i)'
    BY <1>8, <2>3 DEF Dead
  <2>6. Flushed(t)'
    <3>1. Depth(t)' = 1 + 1 /\ 1 + 1 \in 1 .. 1 + 1
      BY <1>7 DEF Moved
    <3>2. Asked(F(t, 1 + 1))'
      BY <1>4, <1>7 DEF Asked
    <3>3. QED
      BY <3>1, <3>2 DEF Flushed
  <2>7. Ends(t, f)'
    BY <2>1, <2>2, <2>4, <2>5, <2>6 DEF Ends
  <2>8. NewTimely(t, 1)
    BY <1>5, <1>7, <2>7 DEF NewTimely, Ends, Fresh
  <2>9. NewTimely(t, 1 + 1)
    BY <1>4, <1>7 DEF NewTimely, Fresh
  <2>10. QED
    BY <2>8, <2>9 DEF AllTimely
<1>12. QED
  BY <1>7, <1>8, <1>9, <1>11, RestsTimely DEF Gone

LEMMA ResetEndTimely ==
  ASSUME Inv, Timely, NEW t \in Threads, ResetEnd(t)
  PROVE  Timely'
<1>1. stack[t] # <<>> /\ Top(t).op = "reset" /\ Put(t, Tail(stack[t]))
  BY DEF ResetEnd, In, Pop, Put
<1>2. Rests /\ allocations' = allocations /\ UNCHANGED <<disabled, inside, promised>>
  BY DEF ResetEnd, Rests, heap, pend, defer, ghosts
<1>3. QED
  BY <1>1, <1>2, RestsPop DEF Freeing, Asked

(* The theorem.                                                            *)

LEMMA InitTimely == Init => Timely
<1> SUFFICES ASSUME Init PROVE Timely
  OBVIOUS
<1>1. \A t \in Threads : Depth(t) = 0
  BY DEF Init, Depth
<1>2. \A t \in Threads : 1 .. Depth(t) = {}
  BY <1>1
<1>3. QED
  BY <1>2 DEF Init, Timely, Promise, Resets

LEMMA StepTimely ==
  ASSUME Inv, Timely, NEW t \in Threads, Step(t)
  PROVE  Timely'
<1>1. CASE Alloc(t) \/ Obtain(t) \/ OutOfMemory(t) \/ FailAgain(t) \/ Register(t)
  BY <1>1, AllocTimely, ObtainTimely, OutOfMemoryTimely, FailAgainTimely, RegisterTimely
<1>2. CASE Count(t) \/ Store(t) \/ Clear(t) \/ Dealloc(t) \/ DeallocFails(t)
  BY <1>2, CountTimely, StoreTimely, ClearTimely, DeallocTimely, DeallocFailsTimely
<1>3. CASE EnterDefer(t) \/ ExitDefer(t) \/ Reset(t) \/ ResetEach(t) \/ ResetFlush(t)
           \/ ResetEnd(t)
  BY <1>3, DeferTimely, ResetTimely, ResetEachTimely, ResetFlushTimely, ResetEndTimely
<1>4. CASE \E i \in Ids :
             View(t, i) \/ \E k \in Kinds : Lose(t, i, k) \/ Drop(t, i, k) \/ Collect(t, i, k)
  BY <1>4, PointerTimely
<1>5. QED
  BY <1>1, <1>2, <1>3, <1>4 DEF Step

LEMMA StutterTimely == Inv /\ Timely /\ UNCHANGED vars => Timely'
<1> SUFFICES ASSUME Inv, Timely, UNCHANGED vars PROVE Timely'
  OBVIOUS
<1>1. UNCHANGED <<device, mem, allocations, queue, disabled, inside, stack, lost, promised>>
  BY DEF vars, heap, pend, defer, ghosts
<1>2. CASE \E t : t \in Threads
  BY <1>1, <1>2, RestsStill DEF Rests
<1>3. CASE ~ \E t : t \in Threads
  BY <1>1, <1>3 DEF Timely, Promise, Resets
<1>4. QED
  BY <1>2, <1>3

(* While a promised deferral lasts, the device only gets new blocks.       *)
LEMMA NoneFreed ==
  ASSUME Inv, Timely, [Next]_vars, promised, NEW a \in Addrs, device[a] # 0
  PROVE  device'[a] = device[a]
<1>1. CASE UNCHANGED vars
  BY <1>1 DEF vars, heap
<1>2. ASSUME NEW t \in Threads, Step(t) PROVE device'[a] = device[a]
  <2>1. CASE Obtain(t)
    <3>1. PICK b \in FreeAddrs : device' = [device EXCEPT ![b] = FreshId]
      BY <2>1 DEF Obtain
    <3>2. a # b
      BY <3>1 DEF FreeAddrs
    <3>3. QED
      BY <3>1, <3>2 DEF Inv, Shapes
  <2>2. CASE Dealloc(t)
    BY <2>2, NotPromised DEF Dealloc
  <2>3. CASE Alloc(t) \/ OutOfMemory(t) \/ FailAgain(t) \/ Register(t) \/ Count(t)
    BY <2>3 DEF Alloc, OutOfMemory, FailAgain, Register, Count, heap
  <2>4. CASE Store(t) \/ Clear(t) \/ DeallocFails(t) \/ EnterDefer(t) \/ ExitDefer(t)
    BY <2>4 DEF Store, Clear, DeallocFails, EnterDefer, ExitDefer, heap
  <2>5. CASE Reset(t) \/ ResetEach(t) \/ ResetFlush(t) \/ ResetEnd(t)
    BY <2>5 DEF Reset, ResetEach, ResetFlush, ResetEnd, heap
  <2>6. CASE \E i \in Ids :
               View(t, i) \/ \E k \in Kinds : Lose(t, i, k) \/ Drop(t, i, k) \/ Collect(t, i, k)
    BY <2>6 DEF View, Lose, Drop, Collect, heap
  <2>7. QED
    BY <1>2, <2>1, <2>2, <2>3, <2>4, <2>5, <2>6 DEF Step
<1>3. QED
  BY <1>1, <1>2 DEF Next

(* When a reset() returns, what it found and still has its block was       *)
(* refused, or another thread is freeing it.                               *)
LEMMA AllFreed ==
  ASSUME Inv, Timely, NEW t \in Threads, In(t, "reset", "flushed"), ~ IsDisabled,
         NEW a \in Addrs, device[a] \in Top(t).todo
  PROVE  device[a] \in lost \/ \E fr \in Frames : fr.id = device[a]
<1> PICK i : i = device[a]
  OBVIOUS
<1>1. stack[t] # <<>> /\ Top(t).op = "reset" /\ Top(t).pc = "flushed"
  BY DEF In
<1>2. /\ Ends(t, Top(t)) /\ ~ Flushed(t) /\ Top(t) \in Activations
  BY <1>1, ResetTop
<1>3. /\ i \in Ids /\ i # 0
      /\ mem[i].addr # 0 /\ ~ mem[i].alive /\ Settled(i) /\ i \notin Queued
  BY <1>1, <1>2 DEF Ends, Dead, Activations, Ids
<1>4. Stacks /\ Owned /\ FramesOK
  BY DEF Inv, Shapes, Stacks, Activity
<1>5. mem[i].addr = a
  <2>1. CASE Keeps(i, a)
    BY <2>1 DEF Keeps
  <2>2. CASE Claimed(i, a)
    <3>1. PICK u \in Threads : \E d \in 1 .. Depth(u) :
            /\ F(u, d).id = i
            /\ (Registering(F(u, d)) /\ F(u, d).n = a) \/ (Freeing(F(u, d)) /\ mem[i].addr = a)
      BY <2>2 DEF Claimed
    <3>2. PICK d \in 1 .. Depth(u) :
            /\ F(u, d).id = i
            /\ (Registering(F(u, d)) /\ F(u, d).n = a) \/ (Freeing(F(u, d)) /\ mem[i].addr = a)
      BY <3>1
    <3>3. Registering(F(u, d)) => mem[i].addr = 0
      BY <1>4, <3>2 DEF FramesOK, FrameOK
    <3>4. QED
      BY <1>3, <3>2, <3>3
  <2>3. QED
    BY <1>3, <1>4, <2>1, <2>2 DEF Owned
<1>6. i \in lost \/ Freed(i)
  BY <1>3, <1>5 DEF Settled, Has
<1>7. Freed(i) => \E fr \in Frames : fr.id = i
  BY <1>4, InFrames DEF Freed
<1>8. QED
  BY <1>6, <1>7

(* No deallocation reaches the driver from a defer_cleanup() that begins   *)
(* when no flush is running to its end, the nested ones included: clear()  *)
(* tests is_disabled before its first item.  And when a reset() returns,   *)
(* every block it found is free, except what a view holds, what is         *)
(* deferred, what another thread is freeing, and what the driver refused,  *)
(* however the finalizers of other threads run in between.                 *)
THEOREM FreedAlwaysOnTime == Spec => FreedOnTime
<1>1. Inv /\ Inv' /\ Timely /\ [Next]_vars => Timely'
  BY StepTimely, StutterTimely DEF Next
<1>2. Spec => []Timely
  BY InitTimely, InvAlways, <1>1, PTL DEF Spec
<1>3. Inv /\ Timely /\ [Next]_vars =>
        [promised /\ promised' => \A a \in Addrs : device[a] # 0 => device'[a] = device[a]]_vars
  BY NoneFreed
<1>4. Inv /\ Timely /\ [Next]_vars =>
        [\A t \in Threads :
           In(t, "reset", "flushed") /\ stack'[t] = <<>> /\ ~ IsDisabled =>
             \A a \in Addrs : device[a] \in Top(t).todo =>
               device[a] \in lost \/ \E fr \in Frames : fr.id = device[a]]_vars
  BY AllFreed
<1>5. QED
  BY InvAlways, <1>2, <1>3, <1>4, PTL DEF Spec, FreedOnTime, Deferred, ResetFrees

=============================================================================
