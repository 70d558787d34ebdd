------------------------ MODULE ChunkSchedulerProofs ------------------------
(***************************************************************************)
(* Theorems about ChunkScheduler for any number of threads, any iteration  *)
(* spaces, masks and chunk sizes, and any depth of nesting: first what     *)
(* happens to the chunk size, then the schedules of loops in one           *)
(* dimension.                                                              *)
(***************************************************************************)
EXTENDS ChunkScheduler, FiniteSetTheorems, SequenceTheorems, TLAPS

USE ChunkAssumption

-----------------------------------------------------------------------------
(* Stacks.                                                                 *)

LEMMA AppendType ==
  ASSUME NEW s \in Seq(Frames), NEW f \in Frames
  PROVE  /\ Append(s, f) \in Seq(Frames)
         /\ DOMAIN Append(s, f) = 1..(Len(s) + 1)
         /\ Len(Append(s, f)) = Len(s) + 1
         /\ Append(s, f)[Len(s) + 1] = f
         /\ \A n \in DOMAIN s : Append(s, f)[n] = s[n]
  OBVIOUS

LEMMA PopType ==
  ASSUME NEW s \in Seq(Frames), s # <<>>
  PROVE  /\ SubSeq(s, 1, Len(s) - 1) \in Seq(Frames)
         /\ DOMAIN SubSeq(s, 1, Len(s) - 1) = 1..(Len(s) - 1)
         /\ Len(SubSeq(s, 1, Len(s) - 1)) = Len(s) - 1
         /\ \A n \in 1..(Len(s) - 1) : SubSeq(s, 1, Len(s) - 1)[n] = s[n]
         /\ Len(s) \in DOMAIN s /\ s[Len(s)] \in Frames
<1>1. Len(s) \in Nat \ {0} /\ DOMAIN s = 1..Len(s) /\ \A n \in 1..Len(s) : s[n] \in Frames
  BY LenProperties, EmptySeq, ElementOfSeq
<1> DEFINE k == Len(s) - 1
<1>2. k \in Nat /\ \A n \in 1..k : s[n] \in Frames
  BY <1>1
<1>2a. 1 \in Int /\ k \in Int
  BY <1>2
<1> HIDE DEF k
<1>3. /\ SubSeq(s, 1, k) \in Seq(Frames)
      /\ Len(SubSeq(s, 1, k)) = IF 1 <= k THEN k - 1 + 1 ELSE 0
      /\ \A n \in 1..(k - 1 + 1) : SubSeq(s, 1, k)[n] = s[1 + n - 1]
  <2>1. SubSeq(s, 1, k) \in Seq(Frames)
    BY <1>2, <1>2a, SubSeqProperties
  <2>2. Len(SubSeq(s, 1, k)) = IF 1 <= k THEN k - 1 + 1 ELSE 0
    BY <1>2, <1>2a, SubSeqProperties
  <2>3. \A n \in 1..(k - 1 + 1) : SubSeq(s, 1, k)[n] = s[1 + n - 1]
    BY <1>2, <1>2a, SubSeqProperties
  <2>4. QED
    BY <2>1, <2>2, <2>3
<1>4. /\ DOMAIN SubSeq(s, 1, k) = 1..k /\ Len(SubSeq(s, 1, k)) = k
      /\ \A n \in 1..k : SubSeq(s, 1, k)[n] = s[n]
  BY <1>2, <1>3, LenProperties
<1>5. QED
  BY <1>1, <1>3, <1>4 DEF k

(* Two stacks that agree on all but the rows that wait.                    *)
Agree(s, s2) ==
  /\ Len(s2) = Len(s)
  /\ \A n \in DOMAIN s : /\ s2[n].kind = s[n].kind /\ s2[n].old = s[n].old
                         /\ s2[n].saved = s[n].saved /\ s2[n].of = s[n].of

Lower(o, n) == [stack EXCEPT ![o][n].todo = @ - 1]

LEMMA LowerType ==
  ASSUME TypeOK, NEW o \in Threads, NEW n \in DOMAIN stack[o], stack[o][n].todo > 0
  PROVE  /\ Lower(o, n) \in [Threads -> Seq(Frames)]
         /\ \A u \in Threads : /\ Agree(stack[u], Lower(o, n)[u])
                               /\ \A m \in DOMAIN stack[u] : Lower(o, n)[u][m].todo >= 0
<1> DEFINE f == [stack[o][n] EXCEPT !.todo = @ - 1]
           s == [stack[o] EXCEPT ![n] = f]
<1>1. stack[o] \in Seq(Frames) /\ stack[o][n] \in Frames
  BY DEF TypeOK
<1>2. /\ f \in Frames /\ f.todo >= 0
      /\ f.kind = stack[o][n].kind /\ f.old = stack[o][n].old
      /\ f.saved = stack[o][n].saved /\ f.of = stack[o][n].of
  <2> DEFINE Ofs == {<<>>} \cup (Threads \X Nat)
  <2>1. stack[o][n] \in [kind : Kinds, old : Nat, saved : Nat, todo : Int, of : Ofs]
    BY <1>1 DEF Frames
  <2> HIDE DEF Ofs
  <2>2. /\ f \in [kind : Kinds, old : Nat, saved : Nat, todo : Int, of : Ofs]
        /\ f.todo = stack[o][n].todo - 1
        /\ f.kind = stack[o][n].kind /\ f.old = stack[o][n].old
        /\ f.saved = stack[o][n].saved /\ f.of = stack[o][n].of
    BY <2>1
  <2>3. stack[o][n].todo \in Int
    BY <2>1
  <2>4. QED
    BY <2>2, <2>3 DEF Frames, Ofs
<1>3. Lower(o, n) = [stack EXCEPT ![o] = s]
  BY DEF Lower
<1> HIDE DEF f
<1>4. s \in Seq(Frames) /\ Len(s) = Len(stack[o])
  BY <1>1, <1>2
<1>5. Agree(stack[o], s)
  BY <1>1, <1>2 DEF Agree
<1>6. \A m \in DOMAIN stack[o] : s[m].todo >= 0
  BY <1>1, <1>2 DEF TypeOK
<1> HIDE DEF s
<1>7. QED
  BY <1>3, <1>4, <1>5, <1>6 DEF TypeOK, Agree

LEMMA SchedSizeType ==
  ASSUME NEW mask \in Nat, NEW c \in Nat, NEW space \in Spaces \cup InnerSpaces
  PROVE  get_sched_size(mask, c, space) \in Nat
<1> DEFINE t == total_size(space)
<1>1. t \in Nat
  OBVIOUS
<1>2. get_sched_size(mask, c, space) =
        IF c = 0 THEN mask
        ELSE IF t \div c < mask THEN mask ELSE t \div c
  BY DEF get_sched_size
<1> HIDE DEF t
<1>3. QED
  BY <1>1, <1>2

LEMMA FrameType ==
  ASSUME TypeOK, NEW t \in Threads, NEW kind \in Kinds, NEW saved \in Nat,
         NEW todo \in Nat, NEW of \in {<<>>} \cup (Threads \X Nat)
  PROVE  /\ Frame(t, kind, saved, todo, of) \in Frames
         /\ Frame(t, kind, saved, todo, of).kind = kind
         /\ Frame(t, kind, saved, todo, of).old = parallel_chunksize[t]
         /\ Frame(t, kind, saved, todo, of).saved = saved
         /\ Frame(t, kind, saved, todo, of).todo = todo
  BY DEF Frame, Frames, TypeOK

LEMMA EnterPushes ==
  ASSUME TypeOK, NEW t \in Threads, Enter(t)
  PROVE  /\ \E f \in Frames : /\ f.kind = "region" /\ f.todo >= 0
                              /\ f.old = parallel_chunksize[t] /\ f.saved = parallel_chunksize[t]
                              /\ Push(t, f)
         /\ parallel_chunksize' = [parallel_chunksize EXCEPT ![t] = 0]
         /\ UNCHANGED manager /\ Executes(t)
<1>1. PICK mask \in 1..NumThreads, space \in Spaces \cup InnerSpaces :
        Push(t, Frame(t, "region", parallel_chunksize[t],
                      get_sched_size(mask, parallel_chunksize[t], space), <<>>))
  BY DEF Enter, Before
<1> DEFINE n == get_sched_size(mask, parallel_chunksize[t], space)
<1>2. mask \in Nat /\ parallel_chunksize[t] \in Nat
  BY DEF TypeOK
<1>3. n \in Nat
  BY <1>2, SchedSizeType
<1>4. Push(t, Frame(t, "region", parallel_chunksize[t], n, <<>>))
  BY <1>1
<1> HIDE DEF n
<1>5. \E f \in Frames : /\ f.kind = "region" /\ f.todo >= 0
                        /\ f.old = parallel_chunksize[t] /\ f.saved = parallel_chunksize[t]
                        /\ Push(t, f)
  BY <1>2, <1>3, <1>4, FrameType DEF Kinds
<1>6. QED
  BY <1>5 DEF Enter, set_parallel_chunksize, ChunkInside

LEMMA WithPushes ==
  ASSUME TypeOK, NEW t \in Threads, With(t)
  PROVE  \E f \in Frames : /\ f.kind = "with" /\ f.todo >= 0
                           /\ f.old = parallel_chunksize[t] /\ f.saved = parallel_chunksize[t]
                           /\ Push(t, f)
<1>1. parallel_chunksize[t] \in Nat
  BY DEF TypeOK
<1>2. QED
  BY <1>1, FrameType DEF With, Kinds

LEMMA PyCallPushes ==
  ASSUME TypeOK, NEW t \in Threads, PyCall(t)
  PROVE  \E f \in Frames : /\ f.kind = "called" /\ f.todo >= 0
                           /\ f.old = parallel_chunksize[t]
                           /\ Push(t, f)
<1> DEFINE f == Frame(t, "called", 0, 0, <<>>)
<1>1. f \in Frames /\ f.kind = "called" /\ f.todo >= 0 /\ f.old = parallel_chunksize[t]
  BY FrameType DEF Kinds
<1>2. Push(t, f)
  BY DEF PyCall
<1>3. QED
  BY <1>1, <1>2

LEMMA TakeRowPushes ==
  ASSUME TypeOK, NEW t \in Threads, TakeRow(t)
  PROVE  \E l \in [Threads -> Seq(Frames)] : \E f \in Frames :
           /\ \A u \in Threads : /\ Agree(stack[u], l[u])
                                 /\ \A m \in DOMAIN l[u] : l[u][m].todo >= 0
           /\ f.kind = "kernel" /\ f.todo >= 0 /\ f.old = parallel_chunksize[t]
           /\ stack' = [l EXCEPT ![t] = Append(l[t], f)]
<1>1. PICK o \in Threads : \E n \in DOMAIN stack[o] :
        /\ Waiting(o, n)
        /\ stack' = [Lower(o, n) EXCEPT ![t] = Append(@, Frame(t, "kernel", 0, 0, <<o, n>>))]
  BY DEF TakeRow, Lower
<1>2. PICK n \in DOMAIN stack[o] :
        /\ Waiting(o, n)
        /\ stack' = [Lower(o, n) EXCEPT ![t] = Append(@, Frame(t, "kernel", 0, 0, <<o, n>>))]
  BY <1>1
<1> DEFINE f == Frame(t, "kernel", 0, 0, <<o, n>>)
           l == Lower(o, n)
<1>3. f \in Frames /\ f.kind = "kernel" /\ f.todo >= 0 /\ f.old = parallel_chunksize[t]
  <2>1. n \in Nat
    BY DEF TypeOK
  <2>2. QED
    BY <2>1, FrameType DEF Kinds
<1>4. /\ l \in [Threads -> Seq(Frames)]
      /\ \A u \in Threads : /\ Agree(stack[u], l[u])
                            /\ \A m \in DOMAIN l[u] : l[u][m].todo >= 0
  BY <1>2, LowerType DEF Waiting, Agree, TypeOK
<1>5. stack' = [l EXCEPT ![t] = Append(l[t], f)]
  BY <1>2
<1> HIDE DEF f, l
<1>6. QED
  BY <1>3, <1>4, <1>5

-----------------------------------------------------------------------------
(* Stacks stay well-formed.                                                *)

StacksOK == /\ stack \in [Threads -> Seq(Frames)]
            /\ \A t \in Threads : \A n \in DOMAIN stack[t] : stack[t][n].todo >= 0

LEMMA PushOK ==
  ASSUME TypeOK, NEW t \in Threads, NEW f \in Frames, f.todo >= 0, Push(t, f)
  PROVE  StacksOK'
<1>1. stack[t] \in Seq(Frames) /\ \A n \in DOMAIN stack[t] : stack[t][n].todo >= 0
  BY DEF TypeOK
<1>2. stack' = [stack EXCEPT ![t] = Append(stack[t], f)]
  BY DEF Push
<1>3. /\ Append(stack[t], f) \in Seq(Frames)
      /\ \A n \in DOMAIN Append(stack[t], f) : Append(stack[t], f)[n].todo >= 0
  BY <1>1, AppendType
<1>4. QED
  BY <1>2, <1>3 DEF TypeOK, StacksOK

LEMMA PopOK ==
  ASSUME TypeOK, NEW t \in Threads, stack[t] # <<>>, Pop(t)
  PROVE  StacksOK'
<1>1. stack[t] \in Seq(Frames) /\ \A n \in DOMAIN stack[t] : stack[t][n].todo >= 0
  BY DEF TypeOK
<1> DEFINE s == SubSeq(stack[t], 1, Len(stack[t]) - 1)
<1>2. stack' = [stack EXCEPT ![t] = s]
  BY DEF Pop
<1>3. /\ s \in Seq(Frames)
      /\ \A n \in DOMAIN s : s[n].todo >= 0
  BY <1>1, PopType
<1>4. QED
  BY <1>2, <1>3 DEF TypeOK, StacksOK

LEMMA PyGoOK ==
  ASSUME TypeOK, NEW t \in Threads, stack[t] # <<>>, NEW kind \in Kinds, PyGo(t, kind)
  PROVE  StacksOK'
<1> DEFINE n == Len(stack[t])
           f == [stack[t][n] EXCEPT !.kind = kind]
           s == [stack[t] EXCEPT ![n] = f]
<1>1. /\ stack[t] \in Seq(Frames) /\ \A m \in DOMAIN stack[t] : stack[t][m].todo >= 0
      /\ n \in DOMAIN stack[t] /\ stack[t][n] \in Frames
  BY PopType DEF TypeOK
<1>2. f \in Frames /\ f.todo >= 0
  <2> DEFINE Ofs == {<<>>} \cup (Threads \X Nat)
  <2>1. stack[t][n] \in [kind : Kinds, old : Nat, saved : Nat, todo : Int, of : Ofs]
    BY <1>1 DEF Frames
  <2>2. stack[t][n].todo >= 0
    BY <1>1
  <2> HIDE DEF Ofs, n
  <2>3. /\ f \in [kind : Kinds, old : Nat, saved : Nat, todo : Int, of : Ofs]
        /\ f.todo = stack[t][n].todo
    BY <2>1
  <2>4. QED
    BY <2>2, <2>3 DEF Frames, Ofs
<1>3. stack' = [stack EXCEPT ![t] = s]
  BY DEF PyGo
<1> HIDE DEF f, n
<1>4. s \in Seq(Frames) /\ \A m \in DOMAIN s : s[m].todo >= 0
  BY <1>1, <1>2
<1> HIDE DEF s
<1>5. QED
  BY <1>3, <1>4 DEF TypeOK, StacksOK

LEMMA TakeRowOK ==
  ASSUME TypeOK, NEW t \in Threads, TakeRow(t)
  PROVE  StacksOK'
<1>1. PICK l \in [Threads -> Seq(Frames)] : \E f \in Frames :
        /\ \A u \in Threads : \A m \in DOMAIN l[u] : l[u][m].todo >= 0
        /\ f.todo >= 0
        /\ stack' = [l EXCEPT ![t] = Append(l[t], f)]
  BY TakeRowPushes
<1>2. PICK f \in Frames : f.todo >= 0 /\ stack' = [l EXCEPT ![t] = Append(l[t], f)]
  BY <1>1
<1>3. /\ Append(l[t], f) \in Seq(Frames)
      /\ \A m \in DOMAIN Append(l[t], f) : Append(l[t], f)[m].todo >= 0
  BY <1>1, <1>2, AppendType
<1>4. QED
  BY <1>1, <1>2, <1>3 DEF StacksOK

-----------------------------------------------------------------------------
LEMMA TypeStep == TypeOK /\ [Next]_vars => TypeOK'
<1> SUFFICES ASSUME TypeOK, [Next]_vars PROVE TypeOK'
  OBVIOUS
<1>1. /\ parallel_chunksize \in [Threads -> Nat]
      /\ manager \in [chunksize : Nat, orig_chunksize : Nat]
      /\ \A t \in Threads : parallel_chunksize[t] \in Nat
  BY DEF TypeOK
<1>2. \A t \in Threads : stack[t] # <<>> => Top(t) \in Frames /\ Top(t).saved \in Nat
  BY PopType DEF TypeOK, Top, Frames
<1>3. ASSUME NEW t \in Threads, Enter(t) PROVE TypeOK'
  <2>1. StacksOK'
    BY <1>3, EnterPushes, PushOK
  <2>2. parallel_chunksize' = [parallel_chunksize EXCEPT ![t] = 0] /\ UNCHANGED manager
    BY <1>3, EnterPushes
  <2>3. QED
    BY <1>1, <2>1, <2>2 DEF TypeOK, StacksOK
<1>4. ASSUME NEW t \in Threads, TakeRow(t) PROVE TypeOK'
  BY <1>1, <1>4, TakeRowOK DEF TakeRow, TypeOK, StacksOK
<1>5. ASSUME NEW t \in Threads, FinishRow(t) PROVE TypeOK'
  BY <1>1, <1>5, PopOK DEF FinishRow, In, TypeOK, StacksOK
<1>6. ASSUME NEW t \in Threads, Leave(t) PROVE TypeOK'
  BY <1>1, <1>2, <1>6, PopOK
  DEF Leave, In, TypeOK, StacksOK, set_parallel_chunksize
<1>7. ASSUME NEW t \in Threads, Set(t) PROVE TypeOK'
  BY <1>1, <1>7 DEF Set, TypeOK, set_parallel_chunksize
<1>8. ASSUME NEW t \in Threads, With(t) PROVE TypeOK'
  <2>1. StacksOK'
    BY <1>8, WithPushes, PushOK
  <2>2. QED
    BY <1>1, <1>8, <2>1 DEF With, TypeOK, StacksOK, set_parallel_chunksize
<1>9. ASSUME NEW t \in Threads, EndWith(t) PROVE TypeOK'
  BY <1>1, <1>2, <1>9, PopOK
  DEF EndWith, In, TypeOK, StacksOK, set_parallel_chunksize
<1>10. ASSUME NEW t \in Threads, PyCall(t) PROVE TypeOK'
  <2>1. StacksOK'
    BY <1>10, PyCallPushes, PushOK
  <2>2. QED
    BY <1>1, <1>10, <2>1 DEF PyCall, TypeOK, StacksOK
<1>11. ASSUME NEW t \in Threads, PySave(t) PROVE TypeOK'
  BY <1>1, <1>11, PyGoOK DEF PySave, In, Kinds, TypeOK, StacksOK
<1>12. ASSUME NEW t \in Threads, PySet(t) PROVE TypeOK'
  BY <1>1, <1>12, PyGoOK DEF PySet, In, Kinds, TypeOK, StacksOK, set_parallel_chunksize
<1>13. ASSUME NEW t \in Threads, PyExit(t) PROVE TypeOK'
  BY <1>1, <1>13, PopOK DEF PyExit, In, TypeOK, StacksOK, set_parallel_chunksize
<1>14. CASE UNCHANGED vars
  BY <1>14 DEF vars, TypeOK
<1>15. QED
  BY <1>3, <1>4, <1>5, <1>6, <1>7, <1>8, <1>9, <1>10, <1>11, <1>12, <1>13, <1>14
  DEF Next

(* Chunk sizes are numbers, stacks hold well-formed frames, and no region  *)
(* gives out more rows than it has.                                        *)
THEOREM TypeCorrect == Spec => []TypeOK
<1>1. Init => TypeOK
  BY EmptySeq DEF Init, TypeOK
<1>2. QED
  BY <1>1, TypeStep, PTL DEF Spec

-----------------------------------------------------------------------------
(* Thread t with stack s and chunk size c: what the frames saved is what   *)
(* they found, what is in a region or a kernel call found 0, as did the    *)
(* first call of a worker, and the chunk size is 0 in between.             *)
Zero == {"region", "kernel"}

SavesOld(s) == \A n \in DOMAIN s : s[n].kind \in {"region", "with"} => s[n].saved = s[n].old

FindsZero(t, s) ==
  \A n \in DOMAIN s :
    (IF n = 1 THEN t \in Workers ELSE s[n - 1].kind \in Zero) => s[n].old = 0

Nests(t, s) ==
  \A n \in DOMAIN s :
    /\ s[n].kind = "kernel" => IF n = 1 THEN t \in Workers ELSE s[n - 1].kind = "region"
    /\ s[n].kind \in PyKinds => t \in Callers /\ (n = 1 \/ s[n - 1].kind = "managed")

RestsAtZero(t, s, c) ==
  (IF s = <<>> THEN t \in Workers ELSE s[Len(s)].kind \in Zero) => c = 0

Sound(t, s, c) == SavesOld(s) /\ FindsZero(t, s) /\ Nests(t, s) /\ RestsAtZero(t, s, c)

ChunkInv == \A t \in Threads : Sound(t, stack[t], parallel_chunksize[t])

LEMMA PushSound ==
  ASSUME NEW t \in Threads, NEW s \in Seq(Frames), NEW c \in Nat, NEW c2 \in Nat,
         NEW f \in Frames, Sound(t, s, c), f.old = c,
         f.kind \in {"region", "with"} => f.saved = c,
         f.kind \in Zero => c2 = 0,
         f.kind = "kernel" => IF s = <<>> THEN t \in Workers
                              ELSE s[Len(s)].kind = "region",
         f.kind \in PyKinds => t \in Callers /\ (s = <<>> \/ s[Len(s)].kind = "managed")
  PROVE  Sound(t, Append(s, f), c2)
<1> DEFINE p == Append(s, f)
           k == Len(s) + 1
<1>1. /\ Len(s) \in Nat /\ DOMAIN s = 1..Len(s) /\ (s = <<>> <=> Len(s) = 0)
      /\ p \in Seq(Frames) /\ DOMAIN p = 1..k /\ Len(p) = k /\ p # <<>>
      /\ p[k] = f /\ \A n \in DOMAIN s : p[n] = s[n]
  BY AppendType, LenProperties, EmptySeq
<1> HIDE DEF p
<1>2. SavesOld(p)
  BY <1>1 DEF Sound, SavesOld
<1>3. FindsZero(t, p)
  BY <1>1 DEF Sound, FindsZero, RestsAtZero
<1>4. Nests(t, p)
  BY <1>1 DEF Sound, Nests
<1>5. RestsAtZero(t, p, c2)
  BY <1>1 DEF RestsAtZero
<1>6. QED
  BY <1>2, <1>3, <1>4, <1>5 DEF Sound, p

LEMMA PopSound ==
  ASSUME NEW t \in Threads, NEW s \in Seq(Frames), NEW c \in Nat, NEW c2 \in Nat,
         s # <<>>, Sound(t, s, c),
         s[Len(s)].kind \in PyKinds \/ c2 = s[Len(s)].old
  PROVE  Sound(t, SubSeq(s, 1, Len(s) - 1), c2)
<1> DEFINE p == SubSeq(s, 1, Len(s) - 1)
           k == Len(s)
<1>1. /\ k \in Nat \ {0} /\ DOMAIN s = 1..k
      /\ p \in Seq(Frames) /\ DOMAIN p = 1..(k - 1) /\ Len(p) = k - 1
      /\ (p = <<>> <=> k = 1)
      /\ \A n \in 1..(k - 1) : p[n] = s[n]
  <2>1. k \in Nat \ {0} /\ DOMAIN s = 1..k
    BY LenProperties, EmptySeq
  <2>2. /\ p \in Seq(Frames) /\ DOMAIN p = 1..(k - 1) /\ Len(p) = k - 1
        /\ \A n \in 1..(k - 1) : p[n] = s[n]
    BY PopType
  <2>3. p = <<>> <=> Len(p) = 0
    BY <2>2, EmptySeq
  <2>4. QED
    BY <2>1, <2>2, <2>3
<1> HIDE DEF p
<1>2. SavesOld(p)
  BY <1>1 DEF Sound, SavesOld
<1>3. FindsZero(t, p)
  BY <1>1 DEF Sound, FindsZero
<1>4. Nests(t, p)
  BY <1>1 DEF Sound, Nests
<1>5. RestsAtZero(t, p, c2)
  <2>1. CASE c2 = s[k].old
    BY <1>1, <2>1 DEF Sound, FindsZero, RestsAtZero
  <2>2. CASE s[k].kind \in PyKinds
    BY <1>1, <2>2 DEF Sound, Nests, RestsAtZero, Zero
  <2>3. QED
    BY <2>1, <2>2
<1>6. QED
  BY <1>2, <1>3, <1>4, <1>5 DEF Sound, p

LEMMA AgreeSound ==
  ASSUME NEW t \in Threads, NEW s \in Seq(Frames), NEW s2 \in Seq(Frames), NEW c \in Nat,
         Agree(s, s2), Sound(t, s, c)
  PROVE  Sound(t, s2, c)
<1>1. /\ Len(s) \in Nat /\ DOMAIN s = 1..Len(s) /\ DOMAIN s2 = 1..Len(s)
      /\ Len(s2) = Len(s) /\ (s = <<>> <=> Len(s) = 0) /\ (s2 = <<>> <=> Len(s) = 0)
  BY LenProperties, EmptySeq DEF Agree
<1>2. \A n \in 1..Len(s) : /\ s2[n].kind = s[n].kind /\ s2[n].old = s[n].old
                           /\ s2[n].saved = s[n].saved
  BY <1>1 DEF Agree
<1>3. SavesOld(s2)
  BY <1>1, <1>2 DEF Sound, SavesOld
<1>4. FindsZero(t, s2)
  BY <1>1, <1>2 DEF Sound, FindsZero
<1>5. Nests(t, s2)
  BY <1>1, <1>2 DEF Sound, Nests
<1>6. RestsAtZero(t, s2, c)
  BY <1>1, <1>2 DEF Sound, RestsAtZero
<1>7. QED
  BY <1>3, <1>4, <1>5, <1>6 DEF Sound

(* The top frame goes from one part of the context manager to the next.    *)
LEMMA TurnSound ==
  ASSUME NEW t \in Threads, NEW s \in Seq(Frames), NEW c \in Nat, NEW c2 \in Nat,
         s # <<>>, Sound(t, s, c), s[Len(s)].kind \in PyKinds, NEW kind \in PyKinds
  PROVE  Sound(t, [s EXCEPT ![Len(s)].kind = kind], c2)
<1> DEFINE k == Len(s)
           f == [s[k] EXCEPT !.kind = kind]
           p == [s EXCEPT ![k] = f]
<1>1. k \in Nat \ {0} /\ DOMAIN s = 1..k /\ s[k] \in Frames
  BY LenProperties, EmptySeq, ElementOfSeq
<1>2. f.kind = kind /\ f.old = s[k].old
  BY <1>1 DEF Frames
<1> HIDE DEF f, k
<1>3. /\ DOMAIN p = 1..k /\ p[k] = f
      /\ \A n \in 1..(k - 1) : p[n] = s[n]
  BY <1>1
<1>4. Len(p) = k /\ p # <<>>
  BY <1>1, <1>3
<1> HIDE DEF p
<1>5. SavesOld(p)
  BY <1>1, <1>2, <1>3 DEF Sound, SavesOld, PyKinds
<1>6. FindsZero(t, p)
  BY <1>1, <1>2, <1>3 DEF Sound, FindsZero, PyKinds, Zero, k
<1>7. Nests(t, p)
  <2> SUFFICES ASSUME NEW n \in 1..k
               PROVE  /\ p[n].kind = "kernel" =>
                           IF n = 1 THEN t \in Workers ELSE p[n - 1].kind = "region"
                      /\ p[n].kind \in PyKinds =>
                           t \in Callers /\ (n = 1 \/ p[n - 1].kind = "managed")
    BY <1>3 DEF Nests
  <2>1. n # 1 => p[n - 1] = s[n - 1]
    BY <1>1, <1>3
  <2>2. /\ s[n].kind = "kernel" =>
             IF n = 1 THEN t \in Workers ELSE s[n - 1].kind = "region"
        /\ s[n].kind \in PyKinds =>
             t \in Callers /\ (n = 1 \/ s[n - 1].kind = "managed")
    BY <1>1 DEF Sound, Nests
  <2>3. IF n = k THEN p[n].kind = kind /\ s[n].kind \in PyKinds ELSE p[n] = s[n]
    <3>1. s[k].kind \in PyKinds
      BY DEF k
    <3>2. n # k => n \in 1..(k - 1)
      BY <1>1
    <3>3. QED
      BY <1>2, <1>3, <3>1, <3>2
  <2>4. "kernel" \notin PyKinds
    BY DEF PyKinds
  <2>5. CASE n = k
    BY <2>1, <2>2, <2>3, <2>4, <2>5, Zenon
  <2>6. CASE n # k
    BY <2>1, <2>2, <2>3, <2>6, Zenon
  <2>7. QED
    BY <2>5, <2>6
<1>8. RestsAtZero(t, p, c2)
  BY <1>2, <1>3, <1>4 DEF RestsAtZero, PyKinds, Zero
<1>9. QED
  BY <1>5, <1>6, <1>7, <1>8 DEF Sound, p, f, k

(* The same of the threads: one thread's stack and chunk size change.      *)
LEMMA OneThread ==
  ASSUME TypeOK, ChunkInv, NEW t \in Threads, NEW s, NEW c,
         stack' = [stack EXCEPT ![t] = s],
         parallel_chunksize' = [parallel_chunksize EXCEPT ![t] = c],
         Sound(t, s, c)
  PROVE  ChunkInv'
  BY DEF TypeOK, ChunkInv

LEMMA ChunkInvStep ==
  ASSUME ~KernelsSet, TypeOK, ChunkInv, [Next]_vars
  PROVE  ChunkInv'
<1>1. \A t \in Threads :
        /\ parallel_chunksize[t] \in Nat /\ stack[t] \in Seq(Frames)
        /\ Sound(t, stack[t], parallel_chunksize[t])
        /\ parallel_chunksize = [parallel_chunksize EXCEPT ![t] = parallel_chunksize[t]]
        /\ stack = [stack EXCEPT ![t] = stack[t]]
  BY DEF TypeOK, ChunkInv
<1>2. \A t \in Threads : stack[t] # <<>> =>
        /\ Len(stack[t]) \in DOMAIN stack[t] /\ Top(t) \in Frames
        /\ Top(t).old \in Nat /\ Top(t).saved \in Nat
  BY <1>1, PopType DEF Top, Frames
<1>3. ASSUME NEW t \in Threads, Enter(t) PROVE ChunkInv'
  <2>1. PICK f \in Frames : /\ f.kind = "region"
                            /\ f.old = parallel_chunksize[t] /\ f.saved = parallel_chunksize[t]
                            /\ Push(t, f)
    BY <1>3, EnterPushes
  <2>2. stack' = [stack EXCEPT ![t] = Append(stack[t], f)]
    BY <2>1 DEF Push
  <2>3. Sound(t, Append(stack[t], f), 0)
    BY <1>1, <2>1, PushSound DEF PyKinds
  <2>4. parallel_chunksize' = [parallel_chunksize EXCEPT ![t] = 0]
    BY <1>3, EnterPushes
  <2>5. QED
    BY <2>2, <2>3, <2>4, OneThread
<1>4. ASSUME NEW t \in Threads, TakeRow(t) PROVE ChunkInv'
  <2> DEFINE c == parallel_chunksize
  <2>1. PICK l \in [Threads -> Seq(Frames)] : \E f \in Frames :
          /\ \A u \in Threads : Agree(stack[u], l[u])
          /\ f.kind = "kernel" /\ f.old = c[t]
          /\ stack' = [l EXCEPT ![t] = Append(l[t], f)]
    BY <1>4, TakeRowPushes
  <2>2. PICK f \in Frames : /\ f.kind = "kernel" /\ f.old = c[t]
                            /\ stack' = [l EXCEPT ![t] = Append(l[t], f)]
    BY <2>1
  <2>3. \A u \in Threads : Sound(u, l[u], c[u])
    BY <1>1, <2>1, AgreeSound
  <2>4. IF l[t] = <<>> THEN t \in Workers ELSE l[t][Len(l[t])].kind = "region"
    <3>1. IF stack[t] = <<>> THEN t \in Workers ELSE stack[t][Len(stack[t])].kind = "region"
      BY <1>4 DEF TakeRow, Top
    <3>2. Agree(stack[t], l[t]) /\ stack[t] \in Seq(Frames) /\ l[t] \in Seq(Frames)
      BY <1>1, <2>1
    <3>3. l[t] = <<>> <=> stack[t] = <<>>
      BY <3>2, EmptySeq DEF Agree
    <3>4. stack[t] # <<>> => l[t][Len(l[t])].kind = stack[t][Len(stack[t])].kind
      BY <1>2, <3>2 DEF Agree
    <3>5. QED
      BY <3>1, <3>3, <3>4
  <2>5. c[t] = 0
    BY <2>3, <2>4 DEF Sound, RestsAtZero, Zero
  <2>6. Sound(t, Append(l[t], f), c[t])
    BY <1>1, <2>2, <2>3, <2>4, <2>5, PushSound DEF PyKinds
  <2>7. parallel_chunksize' = parallel_chunksize
    BY <1>4 DEF TakeRow
  <2>8. QED
    BY <2>2, <2>3, <2>6, <2>7 DEF ChunkInv
<1>5. ASSUME NEW t \in Threads, FinishRow(t) PROVE ChunkInv'
  <2> DEFINE c == parallel_chunksize[t]
  <2>1. stack[t] # <<>> /\ Top(t).kind = "kernel"
    BY <1>5 DEF FinishRow, In
  <2>2. Top(t).old = c
    <3>1. c = 0
      BY <1>1, <2>1 DEF Sound, RestsAtZero, Zero, Top
    <3>2. Top(t).old = 0
      BY <1>1, <1>2, <2>1 DEF Sound, FindsZero, Nests, Zero, Top
    <3>3. QED
      BY <3>1, <3>2
  <2>3. Sound(t, SubSeq(stack[t], 1, Len(stack[t]) - 1), c)
    BY <1>1, <2>1, <2>2, PopSound DEF Top
  <2>4. QED
    BY <1>1, <1>5, <2>3, OneThread DEF FinishRow, Pop
<1>6. ASSUME NEW t \in Threads, Leave(t) PROVE ChunkInv'
  <2>1. stack[t] # <<>> /\ Top(t).kind = "region"
    BY <1>6 DEF Leave, In
  <2>2. Top(t).saved = Top(t).old /\ Top(t).saved \in Nat
    BY <1>1, <1>2, <2>1 DEF Sound, SavesOld, Top
  <2>3. Sound(t, SubSeq(stack[t], 1, Len(stack[t]) - 1), Top(t).saved)
    BY <1>1, <2>1, <2>2, PopSound DEF Top
  <2>4. QED
    BY <1>6, <2>3, OneThread DEF Leave, Pop, set_parallel_chunksize
<1>7. ASSUME NEW t \in Threads, Set(t) PROVE ChunkInv'
  <2>1. PICK n \in ChunkSizes : parallel_chunksize' = [parallel_chunksize EXCEPT ![t] = n]
    BY <1>7 DEF Set, set_parallel_chunksize
  <2>2. IF stack[t] = <<>> THEN t \notin Workers ELSE Top(t).kind \notin Zero
    <3>1. IF stack[t] = <<>> THEN t \in Callers ELSE Top(t).kind # "region"
      BY <1>7 DEF Set, Executes
    <3>2. stack[t] # <<>> => Top(t).kind # "kernel"
      BY <1>2, <1>7 DEF Set, InKernel, Top
    <3>3. QED
      BY <3>1, <3>2 DEF Zero
  <2>3. Sound(t, stack[t], n)
    BY <1>1, <2>2 DEF Sound, RestsAtZero, Top
  <2>4. UNCHANGED stack
    BY <1>7 DEF Set
  <2>5. QED
    BY <1>1, <2>1, <2>3, <2>4, OneThread
<1>8. ASSUME NEW t \in Threads, With(t) PROVE ChunkInv'
  <2>1. PICK n \in ChunkSizes : parallel_chunksize' = [parallel_chunksize EXCEPT ![t] = n]
    BY <1>8 DEF With, set_parallel_chunksize
  <2>2. PICK f \in Frames : /\ f.kind = "with"
                            /\ f.old = parallel_chunksize[t] /\ f.saved = parallel_chunksize[t]
                            /\ Push(t, f)
    BY <1>8, WithPushes
  <2>3. stack' = [stack EXCEPT ![t] = Append(stack[t], f)]
    BY <2>2 DEF Push
  <2>4. Sound(t, Append(stack[t], f), n)
    BY <1>1, <2>2, PushSound DEF PyKinds, Zero
  <2>5. QED
    BY <2>1, <2>3, <2>4, OneThread
<1>9. ASSUME NEW t \in Threads, EndWith(t) PROVE ChunkInv'
  <2>1. stack[t] # <<>> /\ Top(t).kind = "with"
    BY <1>9 DEF EndWith, In
  <2>2. Top(t).saved = Top(t).old /\ Top(t).saved \in Nat
    BY <1>1, <1>2, <2>1 DEF Sound, SavesOld, Top
  <2>3. Sound(t, SubSeq(stack[t], 1, Len(stack[t]) - 1), Top(t).saved)
    BY <1>1, <2>1, <2>2, PopSound DEF Top
  <2>4. QED
    BY <1>9, <2>3, OneThread DEF EndWith, Pop, set_parallel_chunksize
<1>10. ASSUME NEW t \in Threads, PyCall(t) PROVE ChunkInv'
  <2>1. PICK f \in Frames : f.kind = "called" /\ f.old = parallel_chunksize[t] /\ Push(t, f)
    BY <1>10, PyCallPushes
  <2>2. /\ t \in Callers /\ stack' = [stack EXCEPT ![t] = Append(stack[t], f)]
        /\ \A n \in DOMAIN stack[t] : stack[t][n].kind = "managed"
        /\ UNCHANGED parallel_chunksize
    BY <1>10, <2>1 DEF PyCall, Push
  <2>3. stack[t] = <<>> \/ stack[t][Len(stack[t])].kind = "managed"
    BY <1>2, <2>2
  <2>4. Sound(t, Append(stack[t], f), parallel_chunksize[t])
    BY <1>1, <2>1, <2>2, <2>3, PushSound DEF Zero
  <2>5. QED
    BY <1>1, <2>2, <2>4, OneThread
<1>11. ASSUME NEW t \in Threads, NEW from \in PyKinds, NEW kind \in PyKinds, NEW c \in Nat,
              In(t, from), PyGo(t, kind),
              parallel_chunksize' = [parallel_chunksize EXCEPT ![t] = c]
       PROVE  ChunkInv'
  <2>1. stack[t] # <<>> /\ stack[t][Len(stack[t])].kind \in PyKinds
    BY <1>11 DEF In, Top
  <2>2. Sound(t, [stack[t] EXCEPT ![Len(stack[t])].kind = kind], c)
    BY <1>1, <2>1, TurnSound
  <2>3. stack' = [stack EXCEPT ![t] = [stack[t] EXCEPT ![Len(stack[t])].kind = kind]]
    BY <1>11 DEF PyGo
  <2>4. QED
    BY <1>11, <2>2, <2>3, OneThread
<1>12. ASSUME NEW t \in Threads, PySave(t) PROVE ChunkInv'
  BY <1>1, <1>11, <1>12 DEF PySave, PyKinds
<1>13. ASSUME NEW t \in Threads, PySet(t) PROVE ChunkInv'
  BY <1>11, <1>13 DEF PySet, PyKinds, set_parallel_chunksize, TypeOK
<1>14. ASSUME NEW t \in Threads, PyExit(t) PROVE ChunkInv'
  <2>1. stack[t] # <<>> /\ Top(t).kind \in PyKinds /\ manager.orig_chunksize \in Nat
    BY <1>14 DEF PyExit, In, PyKinds, TypeOK
  <2>2. Sound(t, SubSeq(stack[t], 1, Len(stack[t]) - 1), manager.orig_chunksize)
    BY <1>1, <2>1, PopSound DEF Top
  <2>3. QED
    BY <1>14, <2>2, OneThread DEF PyExit, Pop, set_parallel_chunksize
<1>15. CASE UNCHANGED vars
  BY <1>15 DEF vars, ChunkInv
<1>16. QED
  BY <1>3, <1>4, <1>5, <1>6, <1>7, <1>8, <1>9, <1>10, <1>12, <1>13, <1>14, <1>15 DEF Next

LEMMA ChunkInvInit == Init => ChunkInv
  BY EmptySeq DEF Init, ChunkInv, Sound, SavesOld, FindsZero, Nests, RestsAtZero

(* A kernel call finds the chunk size at 0, on whatever thread it runs, if *)
(* no kernel sets its thread's chunk size for good.                        *)
THEOREM KernelsFindZero ==
  ASSUME ~KernelsSet
  PROVE  Spec => []KernelSeesZero
<1>1. TypeOK /\ ChunkInv => KernelSeesZero
  BY LenProperties DEF TypeOK, ChunkInv, Sound, Nests, FindsZero, Zero, KernelSeesZero
<1>2. TypeOK /\ ChunkInv /\ [Next]_vars => ChunkInv'
  BY ChunkInvStep
<1>3. QED
  BY TypeCorrect, ChunkInvInit, <1>1, <1>2, PTL DEF Spec

-----------------------------------------------------------------------------
(* One use of the context manager at a time: the only frame of it is at    *)
(* the bottom of one thread's stack, nothing is above it until it is       *)
(* entered, and from the save on the object holds what the thread had.     *)
Managed(s, c, orig) ==
  /\ \A n \in DOMAIN s : s[n].kind \in PyKinds => n = 1
  /\ s # <<>> =>
       /\ s[1].kind \in {"called", "entering"} => Len(s) = 1 /\ c = s[1].old
       /\ s[1].kind \in {"entering", "managed"} => orig = s[1].old

ManagerInv ==
  /\ \A t \in Threads : Managed(stack[t], parallel_chunksize[t], manager.orig_chunksize)
  /\ \A t, u \in Threads : InPyWith(t) /\ InPyWith(u) => t = u

HasPy(s) == \E n \in DOMAIN s : s[n].kind \in PyKinds

(* A thread whose stack was entered may change its chunk size, push and    *)
(* pop.                                                                    *)
Entered(s) == s # <<>> => s[Len(s)].kind \notin {"called", "entering"}

LEMMA SetManaged ==
  ASSUME NEW s \in Seq(Frames), NEW c, NEW c2, NEW orig, Managed(s, c, orig), Entered(s)
  PROVE  Managed(s, c2, orig)
  BY LenProperties, EmptySeq DEF Managed, Entered

LEMMA PushManaged ==
  ASSUME NEW s \in Seq(Frames), NEW c, NEW c2, NEW orig, Managed(s, c, orig), Entered(s),
         NEW f \in Frames, f.kind \notin PyKinds
  PROVE  /\ Managed(Append(s, f), c2, orig)
         /\ HasPy(Append(s, f)) => HasPy(s)
<1> DEFINE p == Append(s, f)
           k == Len(s) + 1
<1>1. /\ Len(s) \in Nat /\ DOMAIN s = 1..Len(s) /\ (s = <<>> <=> Len(s) = 0)
      /\ DOMAIN p = 1..k /\ p[k] = f /\ \A n \in DOMAIN s : p[n] = s[n]
  BY AppendType, LenProperties, EmptySeq
<1> HIDE DEF p
<1>2. \A n \in DOMAIN p : p[n].kind \in PyKinds => n \in DOMAIN s /\ s[n].kind \in PyKinds
  BY <1>1
<1>3. HasPy(p) => HasPy(s)
  BY <1>2 DEF HasPy
<1>4. \A n \in DOMAIN p : p[n].kind \in PyKinds => n = 1
  BY <1>2 DEF Managed
<1>5. /\ p[1].kind \notin {"called", "entering"}
      /\ p[1].kind = "managed" => orig = p[1].old
  <2>1. CASE s = <<>>
    BY <1>1, <2>1 DEF PyKinds
  <2>2. CASE s # <<>>
    BY <1>1, <2>2 DEF Managed, Entered
  <2>3. QED
    BY <2>1, <2>2
<1>6. QED
  BY <1>3, <1>4, <1>5 DEF Managed, p

LEMMA PopManaged ==
  ASSUME NEW s \in Seq(Frames), NEW c, NEW c2, NEW orig, Managed(s, c, orig), s # <<>>
  PROVE  /\ Managed(SubSeq(s, 1, Len(s) - 1), c2, orig)
         /\ HasPy(SubSeq(s, 1, Len(s) - 1)) => HasPy(s)
<1> DEFINE p == SubSeq(s, 1, Len(s) - 1)
           k == Len(s)
<1>1. k \in Nat \ {0} /\ DOMAIN s = 1..k
  BY LenProperties, EmptySeq
<1>2. /\ p \in Seq(Frames) /\ DOMAIN p = 1..(k - 1)
      /\ \A n \in 1..(k - 1) : p[n] = s[n]
  BY PopType
<1> HIDE DEF p, k
<1>3. HasPy(p) => HasPy(s)
  BY <1>1, <1>2 DEF HasPy
<1>4. \A n \in DOMAIN p : p[n].kind \in PyKinds => n = 1
  BY <1>1, <1>2 DEF Managed
<1>5. p # <<>> => k # 1
  BY <1>2, EmptySeq, LenProperties
<1>6. p # <<>> => /\ p[1].kind \notin {"called", "entering"}
                  /\ p[1].kind = "managed" => orig = p[1].old
  BY <1>1, <1>2, <1>5 DEF Managed, k
<1>7. QED
  BY <1>3, <1>4, <1>6 DEF Managed, p, k

LEMMA AgreeManaged ==
  ASSUME NEW s \in Seq(Frames), NEW s2 \in Seq(Frames), NEW c, NEW orig,
         Agree(s, s2), Managed(s, c, orig)
  PROVE  Managed(s2, c, orig) /\ (HasPy(s2) => HasPy(s)) /\ (Entered(s) => Entered(s2))
<1>1. /\ Len(s) \in Nat /\ DOMAIN s = 1..Len(s) /\ DOMAIN s2 = 1..Len(s)
      /\ Len(s2) = Len(s) /\ (s = <<>> <=> Len(s) = 0) /\ (s2 = <<>> <=> Len(s) = 0)
  BY LenProperties, EmptySeq DEF Agree
<1>2. \A n \in 1..Len(s) : s2[n].kind = s[n].kind /\ s2[n].old = s[n].old
  BY <1>1 DEF Agree
<1>3. QED
  BY <1>1, <1>2 DEF Managed, HasPy, Entered

(* A step of thread t that leaves the object alone and calls it on no      *)
(* other stack.                                                            *)
LEMMA OneManagedThread ==
  ASSUME TypeOK, ManagerInv, NEW t \in Threads, NEW s, NEW c,
         stack' = [stack EXCEPT ![t] = s],
         parallel_chunksize' = [parallel_chunksize EXCEPT ![t] = c],
         UNCHANGED manager,
         Managed(s, c, manager.orig_chunksize), HasPy(s) => HasPy(stack[t])
  PROVE  ManagerInv'
<1>1. \A u \in Threads :
        /\ stack'[u] = IF u = t THEN s ELSE stack[u]
        /\ parallel_chunksize'[u] = IF u = t THEN c ELSE parallel_chunksize[u]
  BY DEF TypeOK
<1>2. \A u \in Threads : HasPy(stack'[u]) => HasPy(stack[u])
  BY <1>1
<1>3. \A u \in Threads : Managed(stack'[u], parallel_chunksize'[u], manager.orig_chunksize)
  BY <1>1 DEF ManagerInv
<1>4. QED
  BY <1>2, <1>3 DEF ManagerInv, InPyWith, HasPy

LEMMA ManagerInvStep ==
  ASSUME ~PyNested, TypeOK, ManagerInv, [Next]_vars
  PROVE  ManagerInv'
<1> DEFINE orig == manager.orig_chunksize
<1>1. \A t \in Threads :
        /\ parallel_chunksize[t] \in Nat /\ stack[t] \in Seq(Frames)
        /\ Managed(stack[t], parallel_chunksize[t], orig)
        /\ parallel_chunksize = [parallel_chunksize EXCEPT ![t] = parallel_chunksize[t]]
        /\ stack = [stack EXCEPT ![t] = stack[t]]
  BY DEF TypeOK, ManagerInv
<1>2. \A t \in Threads : Executes(t) => Entered(stack[t])
  BY DEF Executes, Entered, Top
<1>3. ASSUME NEW t \in Threads, NEW f \in Frames, f.kind \notin PyKinds,
             Entered(stack[t]), Push(t, f), NEW c,
             parallel_chunksize' = [parallel_chunksize EXCEPT ![t] = c],
             UNCHANGED manager
      PROVE  ManagerInv'
  <2>1. stack' = [stack EXCEPT ![t] = Append(stack[t], f)]
    BY <1>3 DEF Push
  <2>2. /\ Managed(Append(stack[t], f), c, orig)
        /\ HasPy(Append(stack[t], f)) => HasPy(stack[t])
    BY <1>1, <1>3, PushManaged
  <2>3. QED
    BY <1>3, <2>1, <2>2, OneManagedThread
<1>4. ASSUME NEW t \in Threads, stack[t] # <<>>, Pop(t), NEW c,
             parallel_chunksize' = [parallel_chunksize EXCEPT ![t] = c],
             UNCHANGED manager
      PROVE  ManagerInv'
  <2> DEFINE s == SubSeq(stack[t], 1, Len(stack[t]) - 1)
  <2>1. stack' = [stack EXCEPT ![t] = s]
    BY <1>4 DEF Pop
  <2>2. Managed(s, c, orig) /\ (HasPy(s) => HasPy(stack[t]))
    BY <1>1, <1>4, PopManaged
  <2> HIDE DEF s
  <2>3. QED
    BY <1>4, <2>1, <2>2, OneManagedThread
<1>5. ASSUME NEW t \in Threads, Enter(t) PROVE ManagerInv'
  <2>1. PICK f \in Frames : f.kind = "region" /\ Push(t, f)
    BY <1>5, EnterPushes
  <2>2. /\ parallel_chunksize' = [parallel_chunksize EXCEPT ![t] = 0]
        /\ UNCHANGED manager /\ Executes(t)
    BY <1>5, EnterPushes
  <2>3. f.kind \notin PyKinds
    BY <2>1 DEF PyKinds
  <2>4. QED
    BY <1>2, <1>3, <2>1, <2>2, <2>3
<1>6. ASSUME NEW t \in Threads, TakeRow(t) PROVE ManagerInv'
  <2>1. PICK l \in [Threads -> Seq(Frames)] : \E f \in Frames :
          /\ \A u \in Threads : Agree(stack[u], l[u])
          /\ f.kind = "kernel"
          /\ stack' = [l EXCEPT ![t] = Append(l[t], f)]
    BY <1>6, TakeRowPushes
  <2>2. PICK f \in Frames : /\ f.kind = "kernel"
                            /\ stack' = [l EXCEPT ![t] = Append(l[t], f)]
    BY <2>1
  <2>3. UNCHANGED <<parallel_chunksize, manager>> /\ Entered(stack[t])
    BY <1>6 DEF TakeRow, Top, Entered
  <2>4. \A u \in Threads : /\ Managed(l[u], parallel_chunksize[u], orig)
                           /\ HasPy(l[u]) => HasPy(stack[u])
                           /\ Entered(stack[u]) => Entered(l[u])
    BY <1>1, <2>1, AgreeManaged
  <2>5. f.kind \notin PyKinds
    BY <2>2 DEF PyKinds
  <2>6. /\ Managed(Append(l[t], f), parallel_chunksize[t], orig)
        /\ HasPy(Append(l[t], f)) => HasPy(l[t])
    BY <2>3, <2>4, <2>5, PushManaged
  <2>7. \A u \in Threads : stack'[u] = IF u = t THEN Append(l[t], f) ELSE l[u]
    BY <2>2
  <2>8. \A u \in Threads : HasPy(stack'[u]) => HasPy(stack[u])
    BY <2>4, <2>6, <2>7
  <2>9. \A u \in Threads : Managed(stack'[u], parallel_chunksize[u], orig)
    BY <2>4, <2>6, <2>7
  <2>10. QED
    BY <2>3, <2>8, <2>9 DEF ManagerInv, InPyWith, HasPy
<1>7. ASSUME NEW t \in Threads, FinishRow(t) PROVE ManagerInv'
  BY <1>1, <1>4, <1>7 DEF FinishRow, In
<1>8. ASSUME NEW t \in Threads, Leave(t) PROVE ManagerInv'
  BY <1>4, <1>8 DEF Leave, In, set_parallel_chunksize
<1>9. ASSUME NEW t \in Threads, Set(t) PROVE ManagerInv'
  <2>1. PICK n \in ChunkSizes : parallel_chunksize' = [parallel_chunksize EXCEPT ![t] = n]
    BY <1>9 DEF Set, set_parallel_chunksize
  <2>2. Managed(stack[t], n, orig)
    BY <1>1, <1>2, <1>9, SetManaged DEF Set
  <2>3. QED
    BY <1>1, <1>9, <2>1, <2>2, OneManagedThread DEF Set
<1>10. ASSUME NEW t \in Threads, With(t) PROVE ManagerInv'
  <2>1. PICK n \in ChunkSizes : parallel_chunksize' = [parallel_chunksize EXCEPT ![t] = n]
    BY <1>10 DEF With, set_parallel_chunksize
  <2>2. PICK f \in Frames : f.kind = "with" /\ Push(t, f)
    BY <1>10, WithPushes
  <2>3. f.kind \notin PyKinds
    BY <2>2 DEF PyKinds
  <2>4. QED
    BY <1>2, <1>3, <1>10, <2>1, <2>2, <2>3 DEF With
<1>11. ASSUME NEW t \in Threads, EndWith(t) PROVE ManagerInv'
  BY <1>4, <1>11 DEF EndWith, In, set_parallel_chunksize
<1>12. ASSUME NEW t \in Threads, PyCall(t) PROVE ManagerInv'
  <2>1. PICK f \in Frames : f.kind = "called" /\ f.old = parallel_chunksize[t] /\ Push(t, f)
    BY <1>12, PyCallPushes
  <2>2. /\ \A u \in Threads : ~HasPy(stack[u])
        /\ \A n \in DOMAIN stack[t] : stack[t][n].kind = "managed"
        /\ stack' = [stack EXCEPT ![t] = Append(stack[t], f)]
        /\ manager'.orig_chunksize = orig
        /\ UNCHANGED parallel_chunksize
    BY <1>12, <2>1 DEF PyCall, InPyWith, HasPy, Push, TypeOK
  <2>3. stack[t] = <<>>
    BY <1>1, <2>2, LenProperties, EmptySeq DEF HasPy, PyKinds
  <2>4. /\ DOMAIN Append(stack[t], f) = {1} /\ Len(Append(stack[t], f)) = 1
        /\ Append(stack[t], f)[1] = f
    BY <1>1, <2>3, AppendType
  <2>5. Managed(Append(stack[t], f), parallel_chunksize[t], orig)
    BY <2>1, <2>4 DEF Managed
  <2>6. \A u \in Threads : stack'[u] = IF u = t THEN Append(stack[t], f) ELSE stack[u]
    BY <2>2 DEF TypeOK
  <2>7. \A u \in Threads : HasPy(stack'[u]) => u = t
    BY <2>2, <2>6
  <2>8. \A u \in Threads : Managed(stack'[u], parallel_chunksize[u], orig)
    BY <1>1, <2>5, <2>6
  <2>9. QED
    BY <2>2, <2>7, <2>8 DEF ManagerInv, InPyWith, HasPy
<1>13. ASSUME NEW t \in Threads, NEW from \in PyKinds, NEW kind \in PyKinds, NEW c,
              In(t, from), PyGo(t, kind),
              parallel_chunksize' = [parallel_chunksize EXCEPT ![t] = c],
              kind # "managed" => c = parallel_chunksize[t] /\ from = "called",
              IF kind = "entering" THEN manager'.orig_chunksize = parallel_chunksize[t]
                                   ELSE manager'.orig_chunksize = orig /\ from = "entering",
              kind # "called"
       PROVE  ManagerInv'
  <2> DEFINE s == [stack[t] EXCEPT ![1].kind = kind]
  <2>1. Len(stack[t]) = 1 /\ stack[t][1] \in Frames /\ stack[t][1].kind = from
    <3>1. Len(stack[t]) \in DOMAIN stack[t] /\ stack[t][Len(stack[t])].kind = from
      BY <1>1, <1>13, PopType DEF In, Top
    <3>2. QED
      BY <1>1, <1>13, <3>1, ElementOfSeq DEF Managed
  <2>2. from \in {"called", "entering"} /\ stack[t] # <<>>
    BY <1>13 DEF PyKinds, In
  <2>3. stack[t][1].old = parallel_chunksize[t]
    BY <1>1, <2>1, <2>2 DEF Managed
  <2>4. from = "entering" => orig = parallel_chunksize[t]
    BY <1>1, <2>1, <2>2, <2>3 DEF Managed
  <2>5. stack' = [stack EXCEPT ![t] = s]
    BY <1>13, <2>1 DEF PyGo
  <2>6. /\ DOMAIN s = {1} /\ Len(s) = 1
        /\ s[1].kind = kind /\ s[1].old = stack[t][1].old
    <3>1. DOMAIN stack[t] = {1}
      BY <1>1, <2>1, LenProperties
    <3>2. s = [stack[t] EXCEPT ![1] = [stack[t][1] EXCEPT !.kind = kind]]
      OBVIOUS
    <3>3. QED
      BY <1>1, <2>1, <3>1, <3>2 DEF Frames
  <2> HIDE DEF s
  <2>7. Managed(s, c, manager'.orig_chunksize)
    BY <1>13, <2>3, <2>4, <2>6 DEF Managed
  <2>8. \A u \in Threads : u # t => ~HasPy(stack[u])
    BY <1>1, <2>1, <1>13, LenProperties DEF ManagerInv, InPyWith, HasPy
  <2>9. \A u \in Threads :
          /\ stack'[u] = IF u = t THEN s ELSE stack[u]
          /\ parallel_chunksize'[u] = IF u = t THEN c ELSE parallel_chunksize[u]
    BY <1>13, <2>5 DEF TypeOK
  <2>10. \A u \in Threads : HasPy(stack'[u]) => u = t
    BY <2>8, <2>9
  <2>11. ASSUME NEW u \in Threads, u # t
         PROVE  Managed(stack[u], parallel_chunksize[u], manager'.orig_chunksize)
    <3>1. stack[u] # <<>> => stack[u][1].kind \notin PyKinds
      BY <1>1, <2>8, <2>11, LenProperties, EmptySeq DEF HasPy
    <3>2. QED
      BY <1>1, <3>1 DEF Managed, PyKinds
  <2>12. \A u \in Threads :
           Managed(stack'[u], parallel_chunksize'[u], manager'.orig_chunksize)
    BY <2>7, <2>9, <2>11
  <2>13. QED
    BY <2>10, <2>12 DEF ManagerInv, InPyWith, HasPy
<1>14. ASSUME NEW t \in Threads, PySave(t) PROVE ManagerInv'
  <2>1. manager'.orig_chunksize = parallel_chunksize[t]
    BY <1>14 DEF PySave, TypeOK
  <2>2. QED
    BY <1>1, <1>13, <1>14, <2>1 DEF PySave, PyKinds
<1>15. ASSUME NEW t \in Threads, PySet(t) PROVE ManagerInv'
  BY <1>13, <1>15 DEF PySet, PyKinds, set_parallel_chunksize
<1>16. ASSUME NEW t \in Threads, PyExit(t) PROVE ManagerInv'
  BY <1>4, <1>16 DEF PyExit, In, set_parallel_chunksize
<1>17. CASE UNCHANGED vars
  BY <1>17 DEF vars, ManagerInv, InPyWith
<1>18. QED
  BY <1>5, <1>6, <1>7, <1>8, <1>9, <1>10, <1>11, <1>12, <1>14, <1>15, <1>16, <1>17
  DEF Next

LEMMA ManagerInvInit == Init => ManagerInv
  BY EmptySeq DEF Init, ManagerInv, Managed, InPyWith

(* Only a pop makes a stack shorter; it is a kernel call, a region, a with *)
(* statement or the manager that ends, and each restores what it found.    *)
LEMMA RestoredStep ==
  ASSUME TypeOK, ChunkInv, ManagerInv, [Next]_vars, NEW u \in Threads, Popped(u)
  PROVE  parallel_chunksize'[u] = Top(u).old
<1>1. \A t \in Threads :
        /\ parallel_chunksize[t] \in Nat /\ stack[t] \in Seq(Frames)
        /\ Len(stack[t]) \in Nat /\ DOMAIN stack[t] = 1..Len(stack[t])
        /\ stack[t] # <<>> => Len(stack[t]) \in DOMAIN stack[t]
        /\ Sound(t, stack[t], parallel_chunksize[t])
        /\ Managed(stack[t], parallel_chunksize[t], manager.orig_chunksize)
  BY LenProperties, EmptySeq DEF TypeOK, ChunkInv, ManagerInv
<1>2. Len(stack'[u]) < Len(stack[u])
  BY DEF Popped
<1>3. ASSUME NEW t \in Threads, NEW f \in Frames, Push(t, f) PROVE FALSE
  <2>1. stack'[u] = IF u = t THEN Append(stack[t], f) ELSE stack[u]
    BY <1>3 DEF Push, TypeOK
  <2>2. QED
    BY <1>1, <1>2, <2>1, AppendType
<1>4. ASSUME NEW t \in Threads, stack[t] # <<>>, NEW kind, PyGo(t, kind) PROVE FALSE
  <2>1. stack'[u] = IF u = t THEN [stack[t] EXCEPT ![Len(stack[t])].kind = kind] ELSE stack[u]
    BY <1>4 DEF PyGo, TypeOK
  <2>2. Len([stack[t] EXCEPT ![Len(stack[t])].kind = kind]) = Len(stack[t])
    BY <1>1
  <2>3. QED
    BY <1>1, <1>2, <2>1, <2>2
<1>5. ASSUME NEW t \in Threads, stack[t] # <<>>, Pop(t),
             parallel_chunksize'[t] = Top(t).old
      PROVE  parallel_chunksize'[u] = Top(u).old
  <2>1. CASE u = t
    BY <1>5, <2>1
  <2>2. CASE u # t
    <3>1. stack'[u] = stack[u]
      BY <1>5, <2>2 DEF Pop, TypeOK
    <3>2. QED
      BY <1>1, <1>2, <3>1
  <2>3. QED
    BY <2>1, <2>2
<1>6. ASSUME NEW t \in Threads, TakeRow(t) PROVE FALSE
  <2>1. PICK l \in [Threads -> Seq(Frames)] : \E f \in Frames :
          /\ \A v \in Threads : Agree(stack[v], l[v])
          /\ stack' = [l EXCEPT ![t] = Append(l[t], f)]
    BY <1>6, TakeRowPushes
  <2>2. PICK f \in Frames : stack' = [l EXCEPT ![t] = Append(l[t], f)]
    BY <2>1
  <2>3. Len(l[u]) = Len(stack[u])
    BY <2>1 DEF Agree
  <2>4. Len(stack'[u]) = IF u = t THEN Len(stack[u]) + 1 ELSE Len(stack[u])
    BY <2>1, <2>2, <2>3, AppendType
  <2>5. QED
    BY <1>1, <1>2, <2>4
<1>7. ASSUME NEW t \in Threads, FinishRow(t) PROVE parallel_chunksize'[u] = Top(u).old
  <2>1. stack[t] # <<>> /\ Pop(t) /\ UNCHANGED parallel_chunksize /\ Top(t).kind = "kernel"
    BY <1>7 DEF FinishRow, In
  <2>2. parallel_chunksize[t] = 0
    BY <1>1, <2>1 DEF Sound, RestsAtZero, Zero, Top
  <2>3. Top(t).old = 0
    BY <1>1, <2>1 DEF Sound, FindsZero, Nests, Zero, Top
  <2>4. QED
    BY <1>5, <2>1, <2>2, <2>3
<1>8. ASSUME NEW t \in Threads, Leave(t) \/ EndWith(t)
      PROVE  parallel_chunksize'[u] = Top(u).old
  <2>1. /\ stack[t] # <<>> /\ Pop(t) /\ Top(t).kind \in {"region", "with"}
        /\ parallel_chunksize' = [parallel_chunksize EXCEPT ![t] = Top(t).saved]
    BY <1>8 DEF Leave, EndWith, In, set_parallel_chunksize
  <2>2. Top(t).saved = Top(t).old
    BY <1>1, <2>1 DEF Sound, SavesOld, Top
  <2>3. QED
    BY <1>5, <2>1, <2>2 DEF TypeOK
<1>9. ASSUME NEW t \in Threads, PyExit(t) PROVE parallel_chunksize'[u] = Top(u).old
  <2>1. /\ stack[t] # <<>> /\ Pop(t) /\ Top(t).kind = "managed"
        /\ parallel_chunksize' = [parallel_chunksize EXCEPT ![t] = manager.orig_chunksize]
    BY <1>9 DEF PyExit, In, set_parallel_chunksize
  <2>2. Len(stack[t]) = 1
    BY <1>1, <2>1 DEF Managed, Top, PyKinds
  <2>3. manager.orig_chunksize = Top(t).old
    BY <1>1, <2>1, <2>2 DEF Managed, Top
  <2>4. QED
    BY <1>5, <2>1, <2>3 DEF TypeOK
<1>10. ASSUME NEW t \in Threads, Enter(t) \/ With(t) \/ PyCall(t) PROVE FALSE
  BY <1>3, <1>10, EnterPushes, WithPushes, PyCallPushes
<1>11. ASSUME NEW t \in Threads, PySave(t) \/ PySet(t) PROVE FALSE
  BY <1>4, <1>11 DEF PySave, PySet, In
<1>12. UNCHANGED stack => FALSE
  BY <1>1, <1>2
<1>13. \A t \in Threads : Set(t) => UNCHANGED stack
  BY DEF Set
<1>14. QED
  BY <1>6, <1>7, <1>8, <1>9, <1>10, <1>11, <1>12, <1>13 DEF Next, vars

(* What ends gives its thread the chunk size that it found, if no kernel   *)
(* sets its thread's chunk size for good and Python code does not use the  *)
(* context manager inside itself or in two threads at once.                *)
THEOREM AlwaysRestored ==
  ASSUME ~KernelsSet, ~PyNested
  PROVE  Spec => Restored
<1>1. TypeOK /\ ChunkInv /\ ManagerInv /\ [Next]_vars => ChunkInv' /\ ManagerInv'
  BY ChunkInvStep, ManagerInvStep
<1>2. TypeOK /\ ChunkInv /\ ManagerInv /\ [Next]_vars
        => [\A t \in Threads : Popped(t) => parallel_chunksize'[t] = Top(t).old]_vars
  BY RestoredStep
<1>3. QED
  BY TypeCorrect, ChunkInvInit, ManagerInvInit, <1>1, <1>2, PTL DEF Spec, Restored

-----------------------------------------------------------------------------
(* The rows of a loop in one dimension.                                    *)

(* A set of numbers that has 0 and, with a number below n, the next one,   *)
(* has all of 0..n: otherwise going one down would be an injection of the  *)
(* missing ones up to some k into themselves that does not reach k.        *)
LEMMA Induction ==
  ASSUME NEW n \in Nat, NEW S, 0 \in S,
         \A k \in 0..(n - 1) : k \in S => k + 1 \in S
  PROVE  \A k \in 0..n : k \in S
<1> SUFFICES ASSUME NEW k \in 0..n, k \notin S
             PROVE  FALSE
  OBVIOUS
<1> DEFINE M == {j \in 0..k : j \notin S}
           f == [j \in M |-> j - 1]
<1>1. IsFiniteSet(M)
  <2>1. IsFiniteSet(0..k)
    BY FS_Interval
  <2>2. QED
    BY <2>1, FS_Subset
<1>2. \A j \in M : j - 1 \in M
  OBVIOUS
<1>3. f \in Injection(M, M)
  BY <1>2 DEF Injection, IsInjective
<1>4. f \in Surjection(M, M)
  <2> HIDE DEF M, f
  <2>1. QED
    BY <1>1, <1>3, FS_Injection
<1>5. k \in M
  OBVIOUS
<1>6. PICK j \in M : f[j] = k
  BY <1>4, <1>5 DEF Surjection
<1>7. QED
  BY <1>6

LEMMA MaxIs ==
  ASSUME NEW k \in Int, NEW s, k \in s, \A y \in s : y \in Int /\ y <= k
  PROVE  Max(s) = k
<1>1. \A y \in s : k >= y
  OBVIOUS
<1>2. \A x \in s : (\A y \in s : x >= y) => x = k
  <2> TAKE x \in s
  <2> HAVE \A y \in s : x >= y
  <2>1. x >= k /\ x \in Int /\ x <= k
    OBVIOUS
  <2>2. QED
    BY <2>1
<1>3. QED
  BY <1>1, <1>2, Zenon DEF Max

(* A nonempty set of positions has a last one.                             *)
LEMMA MaxIn ==
  ASSUME NEW n \in Nat, NEW s \in SUBSET (1..n), s # {}
  PROVE  Max(s) \in s
<1> DEFINE K == {k \in 0..n : s \cap (1..k) # {} => \E m \in s : \A y \in s \cap (1..k) : y <= m}
<1>1. 0 \in K
  OBVIOUS
<1>2. ASSUME NEW k \in 0..(n - 1), k \in K PROVE k + 1 \in K
  <2>1. k + 1 \in 0..n /\ 1..(k + 1) = (1..k) \cup {k + 1}
    OBVIOUS
  <2>2. CASE k + 1 \in s
    BY <2>1, <2>2
  <2>3. CASE k + 1 \notin s
    <3>1. s \cap (1..(k + 1)) = s \cap (1..k)
      BY <2>1, <2>3
    <3>2. QED
      BY <1>2, <2>1, <3>1
  <2>4. QED
    BY <2>2, <2>3
<1>3. n \in K
  <2> HIDE DEF K
  <2>1. \A k \in 0..n : k \in K
    BY <1>1, <1>2, Induction
  <2>2. QED
    BY <2>1
<1>4. s \cap (1..n) = s
  OBVIOUS
<1>5. PICK m \in s : \A y \in s : y <= m
  BY <1>3, <1>4
<1>6. m \in Int /\ \A y \in s : y \in Int /\ y <= m
  BY <1>5
<1>7. Max(s) = m
  BY <1>6, MaxIs
<1>8. QED
  BY <1>7

(* FoldLeft over a sequence of n items is a function on the sets of their  *)
(* positions: g[<<x, v>>] is the result v of the positions before x, with  *)
(* the item at x.                                                          *)
FoldsUpTo(F, n, base, g, k) ==
  \A s \in SUBSET (1..k) :
    F[s] = IF s = {} THEN base ELSE g[<<Max(s), F[s \ {Max(s)}]>>]

LEMMA FoldExists ==
  ASSUME NEW n \in Nat, NEW V, NEW base \in V, NEW g \in [(1..n) \X V -> V]
  PROVE  \E F \in [SUBSET (1..n) -> V] : FoldsUpTo(F, n, base, g, n)
<1> DEFINE K == {k \in 0..n : \E F \in [SUBSET (1..n) -> V] : FoldsUpTo(F, n, base, g, k)}
<1>1. 0 \in K
  <2> DEFINE F == [s \in SUBSET (1..n) |-> base]
  <2>1. F \in [SUBSET (1..n) -> V]
    OBVIOUS
  <2>2. \A s \in SUBSET (1..0) : s = {} /\ s \in SUBSET (1..n)
    OBVIOUS
  <2>3. \A s \in SUBSET (1..n) : F[s] = base
    OBVIOUS
  <2>4. FoldsUpTo(F, n, base, g, 0)
    <3> HIDE DEF F
    <3>1. QED
      BY <2>2, <2>3 DEF FoldsUpTo
  <2>5. 0 \in 0..n
    OBVIOUS
  <2> HIDE DEF F
  <2>6. QED
    BY <2>1, <2>4, <2>5
<1>2. ASSUME NEW k \in 0..(n - 1), k \in K PROVE k + 1 \in K
  <2>1. PICK F \in [SUBSET (1..n) -> V] : FoldsUpTo(F, n, base, g, k)
    BY <1>2
  <2> DEFINE EndsHere(s) == k + 1 \in s /\ s \in SUBSET (1..(k + 1))
             G == [s \in SUBSET (1..n) |->
                     IF EndsHere(s) THEN g[<<k + 1, F[s \ {k + 1}]>>] ELSE F[s]]
  <2>2. k + 1 \in 1..n /\ k + 1 \in 0..n /\ SUBSET (1..(k + 1)) \subseteq SUBSET (1..n)
    OBVIOUS
  <2>3. \A s \in SUBSET (1..n) : s \ {k + 1} \in SUBSET (1..n)
    OBVIOUS
  <2>4. G \in [SUBSET (1..n) -> V]
    BY <2>2, <2>3
  <2>5. \A s \in SUBSET (1..n) : G[s] = IF EndsHere(s) THEN g[<<k + 1, F[s \ {k + 1}]>>] ELSE F[s]
    OBVIOUS
  <2> HIDE DEF G
  <2>6. ASSUME NEW s \in SUBSET (1..(k + 1))
        PROVE  G[s] = IF s = {} THEN base ELSE g[<<Max(s), G[s \ {Max(s)}]>>]
    <3>1. CASE k + 1 \in s
      <4>1. Max(s) = k + 1
        <5>1. k + 1 \in Int /\ \A y \in s : y \in Int /\ y <= k + 1
          OBVIOUS
        <5>2. QED
          BY <3>1, <5>1, MaxIs
      <4>2. s \ {k + 1} \in SUBSET (1..n) /\ ~ EndsHere(s \ {k + 1}) /\ s \in SUBSET (1..n)
        BY <2>2
      <4>3. G[s \ {k + 1}] = F[s \ {k + 1}] /\ G[s] = g[<<k + 1, F[s \ {k + 1}]>>]
        BY <2>5, <3>1, <4>2
      <4>4. QED
        BY <3>1, <4>1, <4>3
    <3>2. CASE k + 1 \notin s
      <4>1. s \in SUBSET (1..k) /\ s \in SUBSET (1..n)
        BY <2>2, <3>2
      <4>2. G[s] = F[s] /\ \A x : G[s \ {x}] = F[s \ {x}]
        <5>1. \A x : s \ {x} \in SUBSET (1..n) /\ ~ EndsHere(s \ {x})
          BY <3>2, <4>1
        <5>2. QED
          BY <2>5, <3>2, <4>1, <5>1
      <4>3. F[s] = IF s = {} THEN base ELSE g[<<Max(s), F[s \ {Max(s)}]>>]
        BY <2>1, <4>1 DEF FoldsUpTo
      <4>4. QED
        BY <4>2, <4>3
    <3>3. QED
      BY <3>1, <3>2
  <2>7. FoldsUpTo(G, n, base, g, k + 1)
    BY <2>6 DEF FoldsUpTo
  <2>8. QED
    BY <2>2, <2>4, <2>7
<1>3. n \in K
  <2> HIDE DEF K
  <2>1. QED
    BY <1>1, <1>2, Induction
<1>4. QED
  BY <1>3

(* What it is for the first k items.                                       *)
LEMMA FoldStep ==
  ASSUME NEW k \in Nat, k # 0
  PROVE  1..k # {} /\ Max(1..k) = k /\ (1..k) \ {Max(1..k)} = 1..(k - 1)
<1>1. k \in 1..k /\ \A y \in 1..k : y \in Int /\ y <= k
  OBVIOUS
<1>2. Max(1..k) = k
  BY <1>1, MaxIs
<1>3. QED
  BY <1>1, <1>2

(* The size of a space of one dimension.                                   *)
LEMMA TotalOfOne ==
  ASSUME NEW r, Length(r) \in Int
  PROVE  total_size(<<r>>) = Length(r)
<1> DEFINE IsFold(F) ==
             F = [s \in SUBSET DOMAIN <<r>> |->
                    IF s = {} THEN 1 ELSE F[s \ {Max(s)}] * Length(<<r>>[Max(s)])]
           g == [xv \in (1..1) \X Int |-> xv[2] * Length(<<r>>[xv[1]])]
<1>1. total_size(<<r>>) = (CHOOSE F : IsFold(F))[DOMAIN <<r>>]
  BY DEF total_size, FoldLeft, MapThenFoldSet
<1>2. DOMAIN <<r>> = 1..1 /\ <<r>>[1] = r
  OBVIOUS
<1>3. g \in [(1..1) \X Int -> Int] /\ \A v \in Int : g[<<1, v>>] = v * Length(r)
  OBVIOUS
<1> HIDE DEF g
<1>4. PICK F \in [SUBSET (1..1) -> Int] : FoldsUpTo(F, 1, 1, g, 1)
  <2>1. 1 \in Nat /\ 1 \in Int /\ g \in [(1..1) \X Int -> Int]
    BY <1>3
  <2>2. QED
    BY <2>1, FoldExists, Zenon
<1>5. ASSUME NEW s \in SUBSET (1..1), s # {}
      PROVE  Max(s) = 1 /\ s \ {Max(s)} \in SUBSET (1..1)
  <2>1. \A y \in s : y = 1
    OBVIOUS
  <2> PICK z \in s : TRUE
    BY <1>5
  <2>2. 1 \in Int /\ 1 \in s /\ \A y \in s : y \in Int /\ y <= 1
    BY <2>1
  <2>3. Max(s) = 1
    BY <2>2, MaxIs
  <2>4. QED
    BY <2>3
<1>6. \A s \in SUBSET (1..1) :
        F[s] = IF s = {} THEN 1 ELSE F[s \ {Max(s)}] * Length(<<r>>[Max(s)])
  BY <1>2, <1>3, <1>4, <1>5 DEF FoldsUpTo
<1>7. F = [s \in SUBSET (1..1) |-> F[s]]
  OBVIOUS
<1>8. IsFold(F)
  BY <1>2, <1>6, <1>7
<1>9. PICK G : IsFold(G) /\ total_size(<<r>>) = G[1..1]
  BY <1>1, <1>2, <1>8
<1>10. \A s \in SUBSET (1..1) :
         G[s] = IF s = {} THEN 1 ELSE G[s \ {Max(s)}] * Length(<<r>>[Max(s)])
  BY <1>2, <1>9
<1>11. G[{}] = 1 /\ 1..1 # {} /\ Max(1..1) = 1 /\ (1..1) \ {Max(1..1)} = {}
  <2>1. {} \in SUBSET (1..1) /\ 1..1 \in SUBSET (1..1) /\ 1..1 = {1}
    OBVIOUS
  <2>2. Max(1..1) = 1
    BY <1>5, <2>1
  <2>3. G[{}] = 1
    BY <1>10, <2>1
  <2>4. QED
    BY <2>1, <2>2, <2>3
<1>12. G[1..1] = 1 * Length(r)
  BY <1>2, <1>10, <1>11
<1>13. QED
  BY <1>9, <1>12

(* The sizes of the rows, added up.                                        *)
RowSum(row) == FoldLeft(LAMBDA m, r : m + total_size(r), 0, row)
Sums(h, row, n) == h[0] = 0 /\ \A k \in 1..n : h[k] = h[k - 1] + total_size(row[k])

LEMMA SumOfRows ==
  ASSUME NEW n \in Nat, NEW row, DOMAIN row = 1..n, \A i \in 1..n : total_size(row[i]) \in Int
  PROVE  \E h : Sums(h, row, n) /\ RowSum(row) = h[n]
<1> DEFINE IsFold(F) ==
             F = [s \in SUBSET DOMAIN row |->
                    IF s = {} THEN 0 ELSE F[s \ {Max(s)}] + total_size(row[Max(s)])]
           g == [xv \in (1..n) \X Int |-> xv[2] + total_size(row[xv[1]])]
<1>1. RowSum(row) = (CHOOSE F : IsFold(F))[DOMAIN row]
  BY DEF RowSum, FoldLeft, MapThenFoldSet
<1>2. /\ g \in [(1..n) \X Int -> Int]
      /\ \A x \in 1..n, v \in Int : g[<<x, v>>] = v + total_size(row[x])
  OBVIOUS
<1> HIDE DEF g
<1>3. PICK F \in [SUBSET (1..n) -> Int] : FoldsUpTo(F, n, 0, g, n)
  <2>1. 0 \in Int /\ g \in [(1..n) \X Int -> Int]
    BY <1>2
  <2>2. QED
    BY <2>1, FoldExists, Zenon
<1>4. ASSUME NEW s \in SUBSET (1..n), s # {}
      PROVE  Max(s) \in 1..n /\ s \ {Max(s)} \in SUBSET (1..n)
  <2>1. Max(s) \in s
    BY <1>4, MaxIn
  <2>2. QED
    BY <2>1
<1>5. \A s \in SUBSET (1..n) :
        F[s] = IF s = {} THEN 0 ELSE F[s \ {Max(s)}] + total_size(row[Max(s)])
  BY <1>2, <1>3, <1>4 DEF FoldsUpTo
<1>6. F = [s \in SUBSET (1..n) |-> F[s]]
  OBVIOUS
<1>7. IsFold(F)
  BY <1>5, <1>6
<1>8. PICK G : IsFold(G) /\ RowSum(row) = G[1..n]
  BY <1>1, <1>7
<1>9. \A s \in SUBSET (1..n) :
        G[s] = IF s = {} THEN 0 ELSE G[s \ {Max(s)}] + total_size(row[Max(s)])
  BY <1>8
<1> DEFINE h == [k \in 0..n |-> G[1..k]]
<1>10. h[0] = 0 /\ h[n] = RowSum(row)
  <2>1. 1..0 = {} /\ {} \in SUBSET (1..n) /\ 0 \in 0..n /\ n \in 0..n
    OBVIOUS
  <2>2. QED
    BY <1>8, <1>9, <2>1
<1>11. ASSUME NEW k \in 1..n PROVE h[k] = h[k - 1] + total_size(row[k])
  <2>1. k \in 0..n /\ k - 1 \in 0..n /\ 1..k \in SUBSET (1..n) /\ k \in Nat /\ k # 0
    OBVIOUS
  <2>2. G[1..k] = G[1..(k - 1)] + total_size(row[k])
    BY <1>9, <2>1, FoldStep
  <2>3. QED
    BY <2>1, <2>2
<1> HIDE DEF h
<1>12. Sums(h, row, n) /\ RowSum(row) = h[n]
  BY <1>10, <1>11 DEF Sums
<1>13. QED
  BY <1>12

-----------------------------------------------------------------------------
(* The division of len iterations among n rows, in a dimension longer than *)
(* that: cur[i] are given to the first i rows.                             *)

LEMMA Quotients ==
  ASSUME NEW a \in Nat, NEW b \in Nat, b > 0
  PROVE  a \div b \in Nat /\ (a \div b) * b <= a /\ a < (a \div b) * b + b
OBVIOUS

Cutting(cur, len, n) ==
  cur = [i \in 0..n |-> IF i = 0 THEN 0 ELSE NextCur(len, n, i - 1, cur[i - 1])]

(* A share is R / m rounded upwards, of R iterations that m rows are left  *)
(* for: it is between two numbers whose products with m are on either side *)
(* of R, and so are those of what remains.                                 *)
Between(q, Q, m, R) == q * m <= R /\ R <= Q * m

LEMMA ShareBetween ==
  ASSUME NEW m \in Nat, m > 0, NEW R \in Nat, R > 0, NEW q \in Nat, NEW Q \in Nat,
         q <= Q, Q <= q + 1, Between(q, Q, m, R), NEW s, s = (R - 1) \div m + 1
  PROVE  /\ s \in Nat /\ q <= s /\ s <= Q /\ R - s \in Nat
         /\ Between(q, Q, m - 1, R - s)
<1>1. R - 1 \in Nat /\ s - 1 = (R - 1) \div m
  BY Quotients
<1>2. s - 1 \in Nat /\ (s - 1) * m <= R - 1 /\ R - 1 < (s - 1) * m + m
  BY <1>1, Quotients
<1>3. s \in Nat /\ s >= 1 /\ (s - 1) * m = s * m - m
  BY <1>2
<1>4. s * m - m < R /\ R <= s * m
  BY <1>2, <1>3
<1>5. s <= Q
  <2>1. CASE s >= Q + 1
    <3>1. (s - 1) * m >= Q * m
      BY <2>1, <1>3
    <3>2. QED
      BY <3>1, <1>3, <1>4 DEF Between
  <2>2. QED
    BY <2>1, <1>3
<1>6. q <= s
  <2>1. CASE s + 1 <= q
    <3>1. (s + 1) * m <= q * m /\ (s + 1) * m = s * m + m
      BY <2>1, <1>3
    <3>2. QED
      BY <3>1, <1>4 DEF Between
  <2>2. QED
    BY <2>1, <1>3
<1>7. q * (m - 1) = q * m - q /\ Q * (m - 1) = Q * m - Q
  OBVIOUS
<1>8. s = q \/ (s = q + 1 /\ Q = q + 1)
  BY <1>3, <1>5, <1>6
<1>9. s = q => R = q * m
  BY <1>4 DEF Between
<1>10. s = q + 1 => R > q * m
  BY <1>3, <1>4
<1>11. Between(q, Q, m - 1, R - s)
  <2>1. CASE s = q
    <3>1. q * m - q <= Q * m - Q
      <4>1. q * (m - 1) <= Q * (m - 1)
        OBVIOUS
      <4>2. QED
        BY <4>1, <1>7
    <3>2. QED
      BY <2>1, <3>1, <1>7, <1>9 DEF Between
  <2>2. CASE s = q + 1 /\ Q = q + 1
    BY <2>2, <1>7, <1>10 DEF Between
  <2>3. QED
    BY <1>8, <2>1, <2>2
<1>12. R - s \in Nat
  <2>1. q * (m - 1) \in Nat
    OBVIOUS
  <2>2. QED
    BY <1>3, <1>11, <2>1 DEF Between
<1>13. QED
  BY <1>3, <1>5, <1>6, <1>11, <1>12

LEMMA CuttingExists ==
  ASSUME NEW len \in Nat, NEW n \in Nat
  PROVE  \E cur : Cutting(cur, len, n)
<1> DEFINE g == [kv \in (1..n) \X Int |-> NextCur(len, n, kv[1] - 1, kv[2])]
<1>1. \A k \in 1..n, v \in Int : NextCur(len, n, k - 1, v) \in Int
  <2> TAKE k \in 1..n, v \in Int
  <2>1. n - (k - 1) \in Nat /\ n - (k - 1) > 0 /\ len - v - 1 \in Int
    OBVIOUS
  <2>2. (len - v - 1) \div (n - (k - 1)) \in Int
    BY <2>1
  <2>3. QED
    BY <2>2 DEF NextCur
<1>2. /\ g \in [(1..n) \X Int -> Int]
      /\ \A k \in 1..n, v \in Int : g[<<k, v>>] = NextCur(len, n, k - 1, v)
  <2>1. \A kv \in (1..n) \X Int : NextCur(len, n, kv[1] - 1, kv[2]) \in Int
    BY <1>1
  <2> QED
    BY <2>1
<1> HIDE DEF g
<1>3. PICK F \in [SUBSET (1..n) -> Int] : FoldsUpTo(F, n, 0, g, n)
  <2>1. 0 \in Int /\ g \in [(1..n) \X Int -> Int]
    BY <1>2
  <2>2. QED
    BY <2>1, FoldExists, Zenon
<1> DEFINE cur == [i \in 0..n |-> F[1..i]]
<1>4. cur[0] = 0
  <2>1. 1..0 = {} /\ {} \in SUBSET (1..n) /\ 0 \in 0..n
    OBVIOUS
  <2>2. QED
    BY <1>3, <2>1 DEF FoldsUpTo
<1>5. ASSUME NEW i \in 0..n, i # 0 PROVE cur[i] = NextCur(len, n, i - 1, cur[i - 1])
  <2>1. /\ i \in 1..n /\ i - 1 \in 0..n /\ i \in Nat
        /\ 1..i \in SUBSET (1..n) /\ 1..(i - 1) \in SUBSET (1..n)
    BY <1>5
  <2>2. F[1..i] = g[<<i, F[1..(i - 1)]>>]
    BY <1>3, <1>5, <2>1, FoldStep DEF FoldsUpTo
  <2>3. F[1..(i - 1)] \in Int
    BY <2>1
  <2>4. QED
    BY <1>2, <2>1, <2>2, <2>3
<1>6. cur = [i \in 0..n |-> IF i = 0 THEN 0 ELSE NextCur(len, n, i - 1, cur[i - 1])]
  <2>1. \A i \in 0..n : cur[i] = IF i = 0 THEN 0 ELSE NextCur(len, n, i - 1, cur[i - 1])
    BY <1>4, <1>5
  <2>2. cur = [i \in 0..n |-> cur[i]]
    OBVIOUS
  <2> HIDE DEF cur
  <2>3. QED
    BY <2>1, <2>2
<1>7. QED
  BY <1>6 DEF Cutting

(* The least and the greatest share differ by at most one.                 *)
Shares(cur, len, n, q, Q) ==
  /\ cur[0] = 0 /\ cur[n] = len
  /\ \A k \in 0..n : cur[k] \in 0..len
  /\ \A k \in 1..n : q <= cur[k] - cur[k - 1] /\ cur[k] - cur[k - 1] <= Q

LEMMA SharesDiffer ==
  ASSUME NEW len \in Nat, NEW n \in Nat, n > 0, n < len,
         NEW q, q = len \div n, NEW Q, Q = (len - 1) \div n + 1
  PROVE  /\ q \in Nat /\ Q \in Nat /\ q >= 1 /\ q <= Q /\ Q <= q + 1
         /\ Between(q, Q, n, len) /\ (Q - 1) * n < len
<1>1. q \in Nat /\ q * n <= len /\ len < q * n + n
  BY Quotients
<1>2. len - 1 \in Nat /\ Q - 1 = (len - 1) \div n
  BY Quotients
<1>3. Q - 1 \in Nat /\ (Q - 1) * n <= len - 1 /\ len - 1 < (Q - 1) * n + n
  BY <1>2, Quotients
<1>4. Q \in Nat /\ (Q - 1) * n = Q * n - n
  BY <1>3
<1>5. q <= Q
  <2>1. CASE Q + 1 <= q
    <3>1. (Q + 1) * n <= q * n /\ (Q + 1) * n = Q * n + n
      BY <1>1, <1>4, <2>1
    <3>2. QED
      BY <1>1, <1>3, <1>4, <3>1
  <2>2. QED
    BY <1>1, <1>4, <2>1
<1>6. Q <= q + 1
  <2>1. CASE q + 2 <= Q
    <3>1. (q + 1) * n <= (Q - 1) * n /\ (q + 1) * n = q * n + n
      BY <1>1, <1>3, <2>1
    <3>2. QED
      BY <1>1, <1>3, <3>1
  <2>2. QED
    BY <1>1, <1>4, <2>1
<1>7. q >= 1
  <2>1. q = 0 => q * n = 0
    OBVIOUS
  <2>2. QED
    BY <1>1, <2>1
<1>8. QED
  BY <1>1, <1>3, <1>4, <1>5, <1>6, <1>7 DEF Between

LEMMA CuttingShares ==
  ASSUME NEW len \in Nat, NEW n \in Nat, n > 0, n < len, NEW cur, Cutting(cur, len, n),
         NEW q \in Nat, NEW Q \in Nat, q >= 1, q <= Q, Q <= q + 1, Between(q, Q, n, len)
  PROVE  Shares(cur, len, n, q, Q)
<1>1. q \in Nat /\ Q \in Nat /\ q >= 1 /\ q <= Q /\ Q <= q + 1 /\ Between(q, Q, n, len)
  OBVIOUS
<1>2. cur[0] = 0 /\ \A i \in 1..n : cur[i] = NextCur(len, n, i - 1, cur[i - 1])
  <2>1. \A i \in 0..n : cur[i] = IF i = 0 THEN 0 ELSE NextCur(len, n, i - 1, cur[i - 1])
    BY DEF Cutting
  <2>2. 0 \in 0..n /\ \A i \in 1..n : i \in 0..n /\ i # 0
    OBVIOUS
  <2>3. QED
    BY <2>1, <2>2
<1> DEFINE K == {k \in 0..n : cur[k] \in 0..len /\ Between(q, Q, n - k, len - cur[k])}
<1>3. 0 \in K
  BY <1>1, <1>2
<1>4. ASSUME NEW k \in 0..(n - 1), k \in K
      PROVE  /\ k + 1 \in K
             /\ q <= cur[k + 1] - cur[k] /\ cur[k + 1] - cur[k] <= Q
  <2> DEFINE m == n - k
             R == len - cur[k]
             s == (R - 1) \div m + 1
  <2>1. m \in Nat /\ m > 0 /\ R \in Nat /\ cur[k] \in Nat /\ Between(q, Q, m, R)
    BY <1>4
  <2>2. R > 0
    <3>1. q * m >= 1
      BY <1>1, <2>1
    <3>2. QED
      BY <2>1, <3>1 DEF Between
  <2>3. k + 1 \in 1..n /\ (k + 1) - 1 = k /\ k + 1 \in 0..n /\ m - 1 = n - (k + 1)
    OBVIOUS
  <2>4. cur[k + 1] = cur[k] + s
    <3>1. cur[k + 1] = NextCur(len, n, k, cur[k])
      BY <1>2, <2>3
    <3>2. (R - 1) \div m \in Int
      BY <2>1, <2>2
    <3>3. QED
      BY <2>1, <3>1, <3>2 DEF NextCur
  <2> HIDE DEF m, R
  <2>5. /\ s \in Nat /\ q <= s /\ s <= Q /\ R - s \in Nat
        /\ Between(q, Q, m - 1, R - s)
    <3> HIDE DEF s
    <3>1. s = (R - 1) \div m + 1
      BY DEF s
    <3>2. QED
      BY <1>1, <2>1, <2>2, <3>1, ShareBetween
  <2> HIDE DEF s
  <2>6. len - cur[k + 1] = R - s /\ cur[k + 1] \in 0..len
    BY <2>1, <2>4, <2>5 DEF R
  <2>7. k + 1 \in K
    BY <2>3, <2>5, <2>6
  <2>8. cur[k + 1] - cur[k] = s
    BY <2>1, <2>4, <2>5
  <2>9. QED
    BY <2>5, <2>7, <2>8
<1>5. \A k \in 0..n : k \in K
  <2> HIDE DEF K
  <2>1. QED
    BY <1>3, <1>4, Induction
<1>6. cur[n] = len
  <2>1. n \in K
    BY <1>5
  <2>2. n - n = 0 /\ q * 0 = 0 /\ Q * 0 = 0 /\ cur[n] \in 0..len
    BY <1>1, <2>1
  <2>3. QED
    BY <2>1, <2>2 DEF Between
<1>7. ASSUME NEW k \in 1..n PROVE q <= cur[k] - cur[k - 1] /\ cur[k] - cur[k - 1] <= Q
  <2>1. k - 1 \in 0..(n - 1) /\ k - 1 \in 0..n /\ (k - 1) + 1 = k
    OBVIOUS
  <2>2. k - 1 \in K
    BY <1>5, <2>1
  <2>3. QED
    BY <1>4, <2>1, <2>2
<1>8. QED
  BY <1>2, <1>5, <1>6, <1>7 DEF Shares

-----------------------------------------------------------------------------
(* The rows of Line.                                                       *)

Ranges == [start : Int, end : Int]

LEMMA LengthIs ==
  ASSUME NEW r \in Ranges
  PROVE  Length(r) \in Nat /\ (Length(r) > 0 => r.end = r.start + Length(r) - 1)
BY DEF Ranges, Length

(* The i-th row holds what lies between the cuts on its two sides.         *)
SpreadRow(p, r, a, b) ==
  /\ p \in Ranges /\ Length(p) = b - a
  /\ a < b => p.start = r.start + a /\ p.end = r.start + b - 1

Spread(cur, row, r, n) ==
  /\ cur[0] = 0 /\ cur[n] = Length(r) /\ \A k \in 0..n : cur[k] \in 0..Length(r)
  /\ \A i \in 1..n : cur[i - 1] <= cur[i]
  /\ DOMAIN row = 1..n /\ Len(row) = n
  /\ \A i \in 1..n : \E p : row[i] = <<p>> /\ SpreadRow(p, r, cur[i - 1], cur[i])

Evenly(cur, len, n) ==
  /\ len <= n => \A k \in 0..n : cur[k] = IF k <= len THEN k ELSE len
  /\ n < len => Shares(cur, len, n, len \div n, (len - 1) \div n + 1)

LEMMA ShortLine ==
  ASSUME NEW r \in Ranges, NEW n \in Nat, n > 0, NEW len, len = Length(r), len <= n,
         NEW row, row = Line(r, n)
  PROVE  \E cur : Spread(cur, row, r, n) /\ Evenly(cur, len, n)
<1>1. len \in Nat
  BY LengthIs
<1>2. row = [i \in 1..n |-> IF len < i THEN <<NoWork>>
                            ELSE <<[start |-> r.start + i - 1, end |-> r.start + i - 1]>>]
  BY DEF Line
<1> DEFINE cur == [k \in 0..n |-> IF k <= len THEN k ELSE len]
<1>3. cur[0] = 0 /\ cur[n] = len
  BY <1>1
<1>4. \A k \in 0..n : cur[k] = IF k <= len THEN k ELSE len
  OBVIOUS
<1> HIDE DEF cur
<1>5. \A k \in 0..n : cur[k] \in 0..len
  BY <1>1, <1>4
<1>6. \A i \in 1..n : i \in 0..n /\ i - 1 \in 0..n
  OBVIOUS
<1>7. \A i \in 1..n : cur[i - 1] <= cur[i]
  BY <1>1, <1>4, <1>6
<1>8. DOMAIN row = 1..n /\ Len(row) = n
  BY <1>2
<1>9. ASSUME NEW i \in 1..n
      PROVE  \E p : row[i] = <<p>> /\ SpreadRow(p, r, cur[i - 1], cur[i])
  <2>1. cur[i] = (IF i <= len THEN i ELSE len) /\ cur[i - 1] = IF i - 1 <= len THEN i - 1 ELSE len
    BY <1>4, <1>6
  <2>2. CASE len < i
    <3>1. row[i] = <<NoWork>> /\ cur[i - 1] = len /\ cur[i] = len
      BY <1>1, <1>2, <2>1, <2>2
    <3>2. SpreadRow(NoWork, r, len, len)
      BY <1>1 DEF NoWork, SpreadRow, Ranges, Length
    <3>3. QED
      BY <3>1, <3>2
  <2>3. CASE i <= len
    <3> DEFINE p == [start |-> r.start + i - 1, end |-> r.start + i - 1]
    <3>1. row[i] = <<p>> /\ cur[i - 1] = i - 1 /\ cur[i] = i
      BY <1>1, <1>2, <2>1, <2>3
    <3>2. p \in Ranges /\ p.start = r.start + (i - 1) /\ p.end = r.start + i - 1
      BY DEF Ranges
    <3>3. Length(p) = 1
      BY DEF Ranges, Length
    <3> HIDE DEF p
    <3>4. SpreadRow(p, r, i - 1, i)
      BY <3>2, <3>3 DEF SpreadRow
    <3>5. QED
      BY <3>1, <3>4
  <2>4. QED
    BY <1>1, <2>2, <2>3
<1>10. Spread(cur, row, r, n)
  BY <1>3, <1>5, <1>7, <1>8, <1>9 DEF Spread
<1>11. Evenly(cur, len, n)
  BY <1>1, <1>4 DEF Evenly
<1>12. QED
  BY <1>10, <1>11

LEMMA LongLine ==
  ASSUME NEW r \in Ranges, NEW n \in Nat, n > 0, NEW len, len = Length(r), n < len,
         NEW row, row = Line(r, n)
  PROVE  \E cur : Spread(cur, row, r, n) /\ Evenly(cur, len, n)
<1>1. len \in Nat /\ r.end = r.start + len - 1 /\ r.start \in Int
  BY LengthIs DEF Ranges
<1> DEFINE rows(cur) == [i \in 1..n |-> <<[start |-> r.start + cur[i - 1],
                                           end |-> LineEnd(r, n, i - 1, cur[i])]>>]
<1>2. row = rows(CHOOSE cur : Cutting(cur, len, n))
  BY <1>1 DEF Line, Cutting
<1>3. PICK cur : Cutting(cur, len, n) /\ row = rows(cur)
  BY <1>1, <1>2, CuttingExists
<1>4. PICK q : q = len \div n
  OBVIOUS
<1>5. PICK Q : Q = (len - 1) \div n + 1
  OBVIOUS
<1>6. q \in Nat /\ Q \in Nat /\ q >= 1 /\ q <= Q /\ Q <= q + 1 /\ Between(q, Q, n, len)
  BY <1>1, <1>4, <1>5, SharesDiffer
<1>7. Shares(cur, len, n, q, Q)
  BY <1>1, <1>3, <1>6, CuttingShares
<1>8. cur[0] = 0 /\ cur[n] = len /\ \A k \in 0..n : cur[k] \in 0..len
  BY <1>7 DEF Shares
<1>9. \A i \in 1..n : i \in 0..n /\ i - 1 \in 0..n /\ cur[i - 1] < cur[i]
  <2> TAKE i \in 1..n
  <2>1. i \in 0..n /\ i - 1 \in 0..n
    OBVIOUS
  <2>2. cur[i] \in 0..len /\ cur[i - 1] \in 0..len /\ q <= cur[i] - cur[i - 1]
    BY <1>7, <2>1 DEF Shares
  <2>3. QED
    BY <1>1, <1>6, <2>1, <2>2
<1>10. DOMAIN row = 1..n /\ Len(row) = n
  BY <1>3
<1>11. ASSUME NEW i \in 1..n
       PROVE  \E p : row[i] = <<p>> /\ SpreadRow(p, r, cur[i - 1], cur[i])
  <2>1. /\ cur[i - 1] \in 0..len /\ cur[i] \in 0..len /\ cur[i - 1] < cur[i]
        /\ i = n => cur[i] = len
    BY <1>8, <1>9
  <2> DEFINE p == [start |-> r.start + cur[i - 1], end |-> LineEnd(r, n, i - 1, cur[i])]
  <2>2. row[i] = <<p>>
    BY <1>3
  <2>3. LineEnd(r, n, i - 1, cur[i]) = r.start + cur[i] - 1
    BY <1>1, <2>1 DEF LineEnd
  <2>4. p.start = r.start + cur[i - 1] /\ p.end = r.start + cur[i] - 1 /\ p \in Ranges
    BY <1>1, <2>1, <2>3 DEF Ranges
  <2> HIDE DEF p
  <2>5. Length(p) = cur[i] - cur[i - 1]
    BY <1>1, <2>1, <2>4 DEF Length
  <2>6. SpreadRow(p, r, cur[i - 1], cur[i])
    BY <2>4, <2>5 DEF SpreadRow
  <2>7. QED
    BY <2>2, <2>6
<1>12. \A i \in 1..n : cur[i - 1] <= cur[i]
  <2> TAKE i \in 1..n
  <2>1. cur[i - 1] \in 0..len /\ cur[i] \in 0..len /\ cur[i - 1] < cur[i]
    BY <1>8, <1>9
  <2>2. QED
    BY <2>1
<1>13. Spread(cur, row, r, n)
  BY <1>8, <1>10, <1>11, <1>12 DEF Spread
<1>14. Evenly(cur, len, n)
  BY <1>1, <1>4, <1>5, <1>7 DEF Evenly
<1>15. QED
  BY <1>13, <1>14

LEMMA SpreadMonotone ==
  ASSUME NEW r \in Ranges, NEW n \in Nat, NEW row, NEW cur, Spread(cur, row, r, n),
         NEW a \in 0..n, NEW b \in 0..n, a <= b
  PROVE  cur[a] <= cur[b]
<1>1. /\ Length(r) \in Nat /\ \A k \in 0..n : cur[k] \in 0..Length(r)
      /\ \A i \in 1..n : cur[i - 1] <= cur[i]
  BY LengthIs DEF Spread
<1> DEFINE K == {k \in 0..n : a <= k => cur[a] <= cur[k]}
<1>2. 0 \in K
  BY <1>1
<1>3. ASSUME NEW k \in 0..(n - 1), k \in K PROVE k + 1 \in K
  <2>1. k \in 0..n /\ k + 1 \in 0..n /\ k + 1 \in 1..n /\ (k + 1) - 1 = k
    OBVIOUS
  <2>2. cur[k] <= cur[k + 1] /\ cur[k] \in Int /\ cur[k + 1] \in Int /\ cur[a] \in Int
    BY <1>1, <2>1
  <2>3. CASE a <= k
    BY <1>3, <2>1, <2>2, <2>3
  <2>4. CASE a = k + 1
    BY <2>1, <2>2, <2>4
  <2>5. CASE a > k + 1
    BY <2>1, <2>5
  <2>6. QED
    BY <2>3, <2>4, <2>5
<1>4. \A k \in 0..n : k \in K
  <2> HIDE DEF K
  <2>1. QED
    BY <1>2, <1>3, Induction
<1>5. QED
  BY <1>4

LEMMA SpreadTotals ==
  ASSUME NEW r \in Ranges, NEW n \in Nat, NEW row, NEW cur, Spread(cur, row, r, n)
  PROVE  \A i \in 1..n : /\ total_size(row[i]) = cur[i] - cur[i - 1] /\ Len(row[i]) = 1
                         /\ Length(row[i][1]) = cur[i] - cur[i - 1]
                         /\ SpreadRow(row[i][1], r, cur[i - 1], cur[i])
<1> TAKE i \in 1..n
<1>1. PICK p : row[i] = <<p>> /\ SpreadRow(p, r, cur[i - 1], cur[i])
  BY DEF Spread
<1>2. p \in Ranges /\ Length(p) = cur[i] - cur[i - 1]
  BY <1>1 DEF SpreadRow
<1>3. Length(p) \in Int
  BY <1>2, LengthIs
<1>4. total_size(<<p>>) = Length(p)
  BY <1>3, TotalOfOne
<1>5. Len(<<p>>) = 1 /\ <<p>>[1] = p
  OBVIOUS
<1>6. QED
  BY <1>1, <1>2, <1>4, <1>5

LEMMA SpreadSum ==
  ASSUME NEW r \in Ranges, NEW n \in Nat, NEW row, NEW cur, Spread(cur, row, r, n)
  PROVE  RowSum(row) = total_size(<<r>>)
<1>1. /\ Length(r) \in Nat /\ \A k \in 0..n : cur[k] \in 0..Length(r)
      /\ cur[0] = 0 /\ cur[n] = Length(r) /\ DOMAIN row = 1..n
  BY LengthIs DEF Spread
<1>2. \A i \in 1..n : total_size(row[i]) = cur[i] - cur[i - 1]
  BY SpreadTotals
<1>3. \A i \in 1..n : total_size(row[i]) \in Int
  <2> TAKE i \in 1..n
  <2>1. i \in 0..n /\ i - 1 \in 0..n
    OBVIOUS
  <2>2. cur[i] \in Int /\ cur[i - 1] \in Int
    BY <1>1, <2>1
  <2>3. QED
    BY <1>2, <2>2
<1>4. PICK h : Sums(h, row, n) /\ RowSum(row) = h[n]
  BY <1>1, <1>3, SumOfRows
<1> DEFINE K == {k \in 0..n : h[k] = cur[k]}
<1>5. 0 \in K
  <2>1. h[0] = 0 /\ 0 \in 0..n
    BY <1>4 DEF Sums
  <2>2. QED
    BY <1>1, <2>1
<1>6. ASSUME NEW k \in 0..(n - 1), k \in K PROVE k + 1 \in K
  <2>1. k \in 0..n /\ k + 1 \in 0..n /\ k + 1 \in 1..n /\ (k + 1) - 1 = k
    OBVIOUS
  <2>2. h[k + 1] = cur[k] + (cur[k + 1] - cur[k])
    BY <1>2, <1>4, <1>6, <2>1 DEF Sums
  <2>3. cur[k] \in Int /\ cur[k + 1] \in Int
    BY <1>1, <2>1
  <2>4. QED
    BY <2>1, <2>2, <2>3
<1>7. n \in K
  <2> HIDE DEF K
  <2>1. \A k \in 0..n : k \in K
    BY <1>5, <1>6, Induction
  <2>2. QED
    BY <2>1
<1>8. total_size(<<r>>) = Length(r)
  BY <1>1, TotalOfOne
<1>9. QED
  BY <1>1, <1>4, <1>7, <1>8

(* The rows divide the iterations of the range.                            *)
Divides(row, r, n) ==
  /\ DOMAIN row = 1..n
  /\ \A i \in 1..n : Len(row[i]) = 1
  /\ \A i \in 1..n : total_size(row[i]) > 0 =>
       row[i][1].start >= r.start /\ row[i][1].end <= r.end
  /\ \A h, i \in 1..n : total_size(row[h]) > 0 /\ total_size(row[i]) > 0 /\ h # i =>
       row[h][1].end < row[i][1].start \/ row[i][1].end < row[h][1].start
  /\ RowSum(row) = total_size(<<r>>)

LEMMA SpreadDivides ==
  ASSUME NEW r \in Ranges, NEW n \in Nat, NEW row, NEW cur, Spread(cur, row, r, n)
  PROVE  Divides(row, r, n)
<1>1. PICK len : len = Length(r)
  OBVIOUS
<1>2. /\ len \in Nat /\ r.start \in Int /\ r.end \in Int
      /\ len > 0 => r.end = r.start + len - 1
  BY <1>1, LengthIs DEF Ranges
<1>3. \A k \in 0..n : cur[k] \in 0..len
  BY <1>1 DEF Spread
<1>4. ASSUME NEW i \in 1..n, total_size(row[i]) > 0
      PROVE  /\ i \in 0..n /\ i - 1 \in 0..n
             /\ row[i][1].start = r.start + cur[i - 1] /\ row[i][1].end = r.start + cur[i] - 1
             /\ cur[i - 1] \in 0..len /\ cur[i] \in 0..len /\ len > 0
  <2>1. i \in 0..n /\ i - 1 \in 0..n
    OBVIOUS
  <2>2. cur[i - 1] \in 0..len /\ cur[i] \in 0..len
    BY <1>3, <2>1
  <2>3. total_size(row[i]) = cur[i] - cur[i - 1] /\ SpreadRow(row[i][1], r, cur[i - 1], cur[i])
    BY SpreadTotals
  <2>4. cur[i - 1] < cur[i]
    BY <1>4, <2>2, <2>3
  <2>5. QED
    BY <1>2, <2>1, <2>2, <2>3, <2>4 DEF SpreadRow
<1>5. \A i \in 1..n : total_size(row[i]) > 0 =>
        row[i][1].start >= r.start /\ row[i][1].end <= r.end
  BY <1>2, <1>4
<1>6. ASSUME NEW h \in 1..n, NEW i \in 1..n,
             total_size(row[h]) > 0, total_size(row[i]) > 0, h < i
      PROVE  row[h][1].end < row[i][1].start
  <2>1. h \in 0..n /\ i - 1 \in 0..n /\ h <= i - 1
    BY <1>6
  <2>2. cur[h] <= cur[i - 1]
    BY <2>1, SpreadMonotone
  <2>3. QED
    BY <1>2, <1>4, <1>6, <2>2
<1>7. \A h, i \in 1..n : total_size(row[h]) > 0 /\ total_size(row[i]) > 0 /\ h # i =>
        row[h][1].end < row[i][1].start \/ row[i][1].end < row[h][1].start
  <2> TAKE h, i \in 1..n
  <2> HAVE total_size(row[h]) > 0 /\ total_size(row[i]) > 0 /\ h # i
  <2>1. h < i \/ i < h
    OBVIOUS
  <2>2. QED
    BY <1>6, <2>1
<1>8. DOMAIN row = 1..n /\ \A i \in 1..n : Len(row[i]) = 1
  BY SpreadTotals DEF Spread
<1>9. RowSum(row) = total_size(<<r>>)
  BY SpreadSum
<1>10. QED
  BY <1>5, <1>7, <1>8, <1>9 DEF Divides

(* As many rows as the mask has threads or the chunks need.                *)
LEMMA SchedSizeIs ==
  ASSUME NEW r \in Ranges, NEW mask \in Nat, NEW c \in Nat,
         NEW n, n = get_sched_size(mask, c, <<r>>)
  PROVE  /\ n \in Nat /\ mask <= n
         /\ c > 0 /\ Length(r) >= c * mask => n = Length(r) \div c
<1>1. PICK len : len = Length(r)
  OBVIOUS
<1>2. len \in Nat /\ total_size(<<r>>) = len
  BY <1>1, LengthIs, TotalOfOne
<1>3. CASE c = 0
  BY <1>3 DEF get_sched_size
<1>4. CASE c > 0
  <2> DEFINE d == len \div c
  <2>1. d \in Nat /\ len < d * c + c
    BY <1>2, <1>4, Quotients
  <2>2. n = IF d < mask THEN mask ELSE d
    BY <1>2, <1>4 DEF get_sched_size
  <2>3. ASSUME len >= c * mask PROVE ~ (d < mask)
    <3>1. SUFFICES ASSUME d + 1 <= mask PROVE FALSE
      BY <2>1
    <3>2. (d + 1) * c <= mask * c /\ (d + 1) * c = d * c + c /\ mask * c = c * mask
      <4> HIDE DEF d
      <4>1. QED
        BY <2>1, <3>1
    <3>3. d * c \in Nat /\ c * mask \in Nat
      <4> HIDE DEF d
      <4>1. QED
        BY <2>1
    <3> HIDE DEF d
    <3>4. QED
      BY <1>2, <2>1, <2>3, <3>2, <3>3
  <2>4. QED
    BY <1>1, <2>1, <2>2, <2>3
<1>5. QED
  BY <1>3, <1>4

(* The rows of a region are of the size that was asked for.                *)
Suits(cur, len, n, mask, c) ==
  /\ \A i, j \in 1..n : cur[i] - cur[i - 1] <= cur[j] - cur[j - 1] + 1
  /\ c > 0 /\ len >= c * mask =>
       \A i \in 1..n : cur[i] - cur[i - 1] >= c /\ cur[i] - cur[i - 1] < 2 * c

LEMMA ShortSuits ==
  ASSUME NEW len \in Nat, NEW n \in Nat, NEW mask \in Nat, mask > 0, NEW c \in Nat, len <= n,
         c > 0 /\ len >= c * mask => n = len \div c,
         NEW cur, Evenly(cur, len, n)
  PROVE  Suits(cur, len, n, mask, c)
<1>1. \A k \in 0..n : cur[k] = IF k <= len THEN k ELSE len
  BY DEF Evenly
<1>2. ASSUME NEW i \in 1..n PROVE cur[i] - cur[i - 1] = IF i <= len THEN 1 ELSE 0
  <2>1. i \in 0..n /\ i - 1 \in 0..n
    OBVIOUS
  <2>2. QED
    BY <1>1, <2>1
<1>3. ASSUME c > 0, len >= c * mask PROVE c = 1 /\ n = len
  <2>1. n = len \div c
    BY <1>3
  <2>2. n * c <= len /\ len < n * c + c
    BY <1>3, <2>1, Quotients
  <2>3. n > 0
    <3>1. c * mask >= 1
      BY <1>3
    <3>2. QED
      BY <1>3, <3>1
  <2>4. CASE c >= 2
    <3>1. n * 2 <= n * c
      BY <2>4
    <3>2. QED
      BY <2>2, <2>3, <3>1
  <2>5. CASE c = 1
    BY <2>1, <2>5
  <2>6. QED
    BY <1>3, <2>4, <2>5
<1>4. \A i, j \in 1..n : cur[i] - cur[i - 1] <= cur[j] - cur[j - 1] + 1
  BY <1>2
<1>5. ASSUME c > 0, len >= c * mask, NEW i \in 1..n
      PROVE  cur[i] - cur[i - 1] >= c /\ cur[i] - cur[i - 1] < 2 * c
  BY <1>2, <1>3, <1>5
<1>6. QED
  BY <1>4, <1>5 DEF Suits

LEMMA LongSuits ==
  ASSUME NEW len \in Nat, NEW n \in Nat, n > 0, NEW mask \in Nat, NEW c \in Nat, n < len,
         c > 0 /\ len >= c * mask => n = len \div c,
         NEW cur, Evenly(cur, len, n)
  PROVE  Suits(cur, len, n, mask, c)
<1>1. PICK q : q = len \div n
  OBVIOUS
<1>2. PICK Q : Q = (len - 1) \div n + 1
  OBVIOUS
<1>3. /\ q \in Nat /\ Q \in Nat /\ q >= 1 /\ q <= Q /\ Q <= q + 1 /\ Between(q, Q, n, len)
      /\ (Q - 1) * n < len
  BY <1>1, <1>2, SharesDiffer
<1>4. Shares(cur, len, n, q, Q)
  BY <1>1, <1>2 DEF Evenly
<1>5. ASSUME NEW i \in 1..n
      PROVE  cur[i] - cur[i - 1] \in Int /\ q <= cur[i] - cur[i - 1] /\ cur[i] - cur[i - 1] <= Q
  <2>1. i \in 0..n /\ i - 1 \in 0..n
    OBVIOUS
  <2>2. cur[i] \in 0..len /\ cur[i - 1] \in 0..len
    BY <1>4, <2>1 DEF Shares
  <2>3. QED
    BY <1>4, <2>2 DEF Shares
<1>6. \A i, j \in 1..n : cur[i] - cur[i - 1] <= cur[j] - cur[j - 1] + 1
  BY <1>3, <1>5
<1>7. ASSUME c > 0, len >= c * mask PROVE c <= q /\ Q < 2 * c
  <2>1. n = len \div c
    BY <1>7
  <2>2. n * c <= len /\ len < n * c + c
    BY <1>7, <2>1, Quotients
  <2>3. q * n <= len /\ len < q * n + n
    BY <1>1, Quotients
  <2>4. c <= q
    <3>1. SUFFICES ASSUME q + 1 <= c PROVE FALSE
      BY <1>3
    <3>2. n * (q + 1) <= n * c /\ n * (q + 1) = q * n + n
      BY <1>3, <3>1
    <3>3. n * c \in Int /\ q * n \in Int
      BY <1>3
    <3>4. QED
      BY <2>2, <2>3, <3>2, <3>3
  <2>5. Q < 2 * c
    <3>1. SUFFICES ASSUME 2 * c <= Q PROVE FALSE
      BY <1>3
    <3>2. (2 * c - 1) * n <= (Q - 1) * n
      BY <1>3, <3>1
    <3>3. (2 * c - 1) * n = n * c + (c - 1) * n
      OBVIOUS
    <3>4. (c - 1) * n >= c - 1
      BY <1>7
    <3>5. n * c \in Nat /\ (c - 1) * n \in Nat /\ (Q - 1) * n \in Int
      BY <1>3, <1>7
    <3>6. n * c + (c - 1) <= (Q - 1) * n
      BY <3>2, <3>3, <3>4, <3>5
    <3>7. (Q - 1) * n < n * c + c
      BY <1>3, <2>2, <3>5
    <3>8. QED
      BY <1>3, <2>2, <3>5, <3>6, <3>7
  <2>6. QED
    BY <2>4, <2>5
<1>8. QED
  BY <1>3, <1>5, <1>6, <1>7 DEF Suits

(* row is the schedule of n rows that is made of r, and what it is worth.  *)
LineOf(row, n, r, mask, c) == n = get_sched_size(mask, c, <<r>>) /\ row = Line(r, n)

GoodLine(row, n, r, mask, c) ==
  /\ n \in Nat /\ Divides(row, r, n) /\ Len(row) = n /\ mask <= n
  /\ \A i, j \in 1..n : Length(row[i][1]) <= Length(row[j][1]) + 1
  /\ c > 0 /\ total_size(<<r>>) >= c * mask =>
       \A i \in 1..n : Length(row[i][1]) >= c /\ Length(row[i][1]) < 2 * c

LEMMA LineSuits ==
  ASSUME NEW r \in Ranges, NEW mask \in Nat, mask > 0, NEW c \in Nat, NEW n, NEW row,
         LineOf(row, n, r, mask, c)
  PROVE  GoodLine(row, n, r, mask, c)
<1>0. n = get_sched_size(mask, c, <<r>>) /\ row = Line(r, n)
  BY DEF LineOf
<1>1. PICK len : len = Length(r)
  OBVIOUS
<1>2. len \in Nat /\ total_size(<<r>>) = len
  BY <1>1, LengthIs, TotalOfOne
<1>3. n \in Nat /\ mask <= n /\ n > 0 /\ (c > 0 /\ len >= c * mask => n = len \div c)
  <2>1. n \in Nat /\ mask <= n /\ (c > 0 /\ Length(r) >= c * mask => n = Length(r) \div c)
    BY <1>0, SchedSizeIs
  <2>2. QED
    BY <1>1, <2>1
<1>4. PICK cur : Spread(cur, row, r, n) /\ Evenly(cur, len, n)
  <2>1. CASE len <= n
    BY <1>0, <1>1, <1>3, <2>1, ShortLine
  <2>2. CASE n < len
    BY <1>0, <1>1, <1>3, <2>2, LongLine
  <2>3. QED
    BY <1>2, <1>3, <2>1, <2>2
<1>5. Suits(cur, len, n, mask, c)
  <2>1. CASE len <= n
    BY <1>2, <1>3, <1>4, <2>1, ShortSuits
  <2>2. CASE n < len
    BY <1>2, <1>3, <1>4, <2>2, LongSuits
  <2>3. QED
    BY <1>2, <1>3, <2>1, <2>2
<1>6. \A i \in 1..n : Length(row[i][1]) = cur[i] - cur[i - 1]
  BY <1>3, <1>4, SpreadTotals
<1>7. Divides(row, r, n) /\ Len(row) = n
  BY <1>3, <1>4, SpreadDivides DEF Spread
<1>8. QED
  BY <1>2, <1>3, <1>5, <1>6, <1>7 DEF Suits, GoodLine

-----------------------------------------------------------------------------
(* What a thread made last is nothing, or the rows of one range.           *)
LineMade(m) ==
  \/ m = NotMade
  \/ \E r \in Ranges, mask \in 1..NumThreads, c \in Nat :
       m = [space |-> <<r>>, mask |-> mask,
            sched |-> Line(r, get_sched_size(mask, c, <<r>>)), chunksize |-> c]

LinesMade == DOMAIN made = Threads /\ \A t \in Threads : LineMade(made[t])

(* Every loop is in one dimension.                                         *)
OneDimension == \A space \in Spaces \cup InnerSpaces : \E r \in Ranges : space = <<r>>

LEMMA LinesMadeStep ==
  ASSUME OneDimension, TypeOK, LinesMade, [Next]_vars
  PROVE  LinesMade'
<1>1. ASSUME UNCHANGED made PROVE LinesMade'
  BY <1>1 DEF LinesMade
<1>2. ASSUME NEW t \in Threads, Enter(t) PROVE LinesMade'
  <2>1. PICK mask \in 1..NumThreads, space \in Spaces \cup InnerSpaces :
          LET n == get_sched_size(mask, parallel_chunksize[t], space) IN
          \E sched \in create_schedule(space, n) :
            made' = [made EXCEPT ![t] = [space |-> space, mask |-> mask, sched |-> sched,
                                         chunksize |-> parallel_chunksize[t]]]
    BY <1>2 DEF Enter
  <2>2. PICK r \in Ranges : space = <<r>>
    BY DEF OneDimension
  <2>3. PICK n : n = get_sched_size(mask, parallel_chunksize[t], <<r>>)
    OBVIOUS
  <2>4. create_schedule(<<r>>, n) = {Line(r, n)}
    <3>1. Len(<<r>>) = 1 /\ <<r>>[1] = r
      OBVIOUS
    <3>2. QED
      BY <3>1 DEF create_schedule
  <2>5. made' = [made EXCEPT ![t] = [space |-> <<r>>, mask |-> mask, sched |-> Line(r, n),
                                     chunksize |-> parallel_chunksize[t]]]
    BY <2>1, <2>2, <2>3, <2>4
  <2>6. parallel_chunksize[t] \in Nat
    BY DEF TypeOK
  <2>7. LineMade([space |-> <<r>>, mask |-> mask, sched |-> Line(r, n),
                  chunksize |-> parallel_chunksize[t]])
    BY <2>3, <2>6, Zenon DEF LineMade
  <2>8. QED
    BY <2>5, <2>7 DEF LinesMade
<1>3. ASSUME NEW t \in Threads, Leave(t) PROVE LinesMade'
  <2>1. made' = [made EXCEPT ![t] = NotMade]
    BY <1>3 DEF Leave
  <2>2. LineMade(NotMade)
    BY DEF LineMade
  <2>3. QED
    BY <2>1, <2>2 DEF LinesMade
<1>4. ASSUME NEW t \in Threads, ~ Enter(t), ~ Leave(t),
             TakeRow(t) \/ FinishRow(t) \/ Set(t) \/ With(t) \/ EndWith(t)
               \/ PyCall(t) \/ PySave(t) \/ PySet(t) \/ PyExit(t)
      PROVE  UNCHANGED made
  BY <1>4 DEF TakeRow, FinishRow, Set, With, EndWith, PyCall, PySave, PySet, PyExit
<1>5. QED
  BY <1>1, <1>2, <1>3, <1>4 DEF Next, vars

(* ScheduleRight of one schedule.                                          *)
Once(space, row) ==
  LET busy == {i \in DOMAIN row : total_size(row[i]) > 0}
  IN /\ \A i \in DOMAIN row : Len(row[i]) = Len(row[1])
     /\ \A i \in busy :
          /\ Len(row[i]) = Len(space)
          /\ \A j \in DOMAIN space : /\ row[i][j].start >= space[j].start
                                     /\ row[i][j].end <= space[j].end
     /\ \A h, i \in busy : h = i \/ \E j \in DOMAIN space :
          row[h][j].end < row[i][j].start \/ row[i][j].end < row[h][j].start

LEMMA DividesOnce ==
  ASSUME NEW r \in Ranges, NEW n \in Nat, n > 0, NEW row, Divides(row, r, n)
  PROVE  Once(<<r>>, row)
<1>1. DOMAIN <<r>> = {1} /\ <<r>>[1] = r /\ Len(<<r>>) = 1 /\ 1 \in 1..n
  OBVIOUS
<1>2. DOMAIN row = 1..n /\ \A i \in 1..n : Len(row[i]) = 1
  BY DEF Divides
<1>3. \A i \in DOMAIN row : Len(row[i]) = Len(row[1])
  BY <1>1, <1>2
<1>4. \A i \in 1..n : total_size(row[i]) > 0 =>
        row[i][1].start >= r.start /\ row[i][1].end <= r.end
  BY DEF Divides
<1>5. \A h, i \in 1..n : total_size(row[h]) > 0 /\ total_size(row[i]) > 0 /\ h # i =>
        row[h][1].end < row[i][1].start \/ row[i][1].end < row[h][1].start
  BY DEF Divides
<1>6. QED
  BY <1>1, <1>2, <1>3, <1>4, <1>5 DEF Once

(* What a thread made last is nothing, or a good schedule of one range.     *)
Lined(m, row, n, r, mask, c) ==
  /\ m.space = <<r>> /\ m.sched = row /\ m.mask = mask /\ m.chunksize = c
  /\ GoodLine(row, n, r, mask, c)

LEMMA LastLine ==
  ASSUME LinesMade, NEW t \in Threads, made[t] # NotMade
  PROVE  \E row, n : \E r \in Ranges, mask \in Nat, c \in Nat :
           mask > 0 /\ Lined(made[t], row, n, r, mask, c)
<1>1. PICK r \in Ranges, mask \in 1..NumThreads, c \in Nat :
        made[t] = [space |-> <<r>>, mask |-> mask,
                   sched |-> Line(r, get_sched_size(mask, c, <<r>>)), chunksize |-> c]
  BY DEF LinesMade, LineMade
<1>2. PICK n : n = get_sched_size(mask, c, <<r>>)
  OBVIOUS
<1>3. PICK row : row = Line(r, n)
  OBVIOUS
<1>4. mask \in Nat /\ mask > 0
  BY ChunkAssumption
<1>5. LineOf(row, n, r, mask, c)
  BY <1>2, <1>3, Zenon DEF LineOf
<1>6. GoodLine(row, n, r, mask, c)
  BY <1>4, <1>5, LineSuits, Zenon
<1>7. made[t].space = <<r>> /\ made[t].sched = row /\ made[t].mask = mask
      /\ made[t].chunksize = c
  BY <1>1, <1>2, <1>3
<1>8. Lined(made[t], row, n, r, mask, c)
  BY <1>6, <1>7, Zenon DEF Lined
<1>9. QED
  BY <1>4, <1>8, Zenon

LEMMA LineRight ==
  ASSUME LinesMade
  PROVE  ScheduleRight
<1>1. ASSUME NEW t \in Threads
      PROVE  /\ Once(made[t].space, made[t].sched)
             /\ made[t] # NotMade => RowSum(made[t].sched) = total_size(made[t].space)
  <2>1. CASE made[t] = NotMade
    <3>1. made[t].space = <<>> /\ made[t].sched = <<>>
      BY <2>1 DEF NotMade
    <3>2. Once(<<>>, <<>>)
      BY DEF Once
    <3>3. QED
      BY <2>1, <3>1, <3>2
  <2>2. CASE made[t] # NotMade
    <3>1. PICK row, n : \E r \in Ranges, mask \in Nat, c \in Nat :
                          mask > 0 /\ Lined(made[t], row, n, r, mask, c)
      BY <2>2, LastLine
    <3>2. PICK r \in Ranges, mask \in Nat, c \in Nat :
                 mask > 0 /\ Lined(made[t], row, n, r, mask, c)
      BY <3>1
    <3>3. made[t].space = <<r>> /\ made[t].sched = row /\ GoodLine(row, n, r, mask, c)
      BY <3>2 DEF Lined
    <3>4. n \in Nat /\ n > 0 /\ Divides(row, r, n)
      BY <3>2, <3>3 DEF GoodLine
    <3>5. Once(<<r>>, row)
      BY <3>4, DividesOnce
    <3>6. RowSum(row) = total_size(<<r>>)
      BY <3>4 DEF Divides
    <3>7. QED
      BY <3>3, <3>5, <3>6
  <2>3. QED
    BY <2>1, <2>2
<1>2. EachIterationOnce
  BY <1>1 DEF EachIterationOnce, Once, RowSum
<1>3. ASSUME NEW t \in Threads
      PROVE  LET m == made[t]
                 size(i) == Length(m.sched[i][1])
                 rows == DOMAIN m.sched
             IN /\ Len(m.sched) >= m.mask
                /\ Len(m.space) = 1 =>
                     /\ \A i, j \in rows : size(i) <= size(j) + 1
                     /\ m.chunksize > 0 /\ total_size(m.space) >= m.chunksize * m.mask =>
                          \A i \in rows : size(i) >= m.chunksize /\ size(i) < 2 * m.chunksize
  <2>1. CASE made[t] = NotMade
    BY <2>1 DEF NotMade
  <2>2. CASE made[t] # NotMade
    <3>1. PICK row, n : \E r \in Ranges, mask \in Nat, c \in Nat :
                          mask > 0 /\ Lined(made[t], row, n, r, mask, c)
      BY <2>2, LastLine
    <3>2. PICK r \in Ranges, mask \in Nat, c \in Nat :
                 mask > 0 /\ Lined(made[t], row, n, r, mask, c)
      BY <3>1
    <3>3. /\ made[t].space = <<r>> /\ made[t].sched = row /\ made[t].mask = mask
          /\ made[t].chunksize = c /\ GoodLine(row, n, r, mask, c)
      BY <3>2 DEF Lined
    <3>4. /\ n \in Nat /\ Len(row) = n /\ mask <= n /\ DOMAIN row = 1..n
          /\ \A i, j \in 1..n : Length(row[i][1]) <= Length(row[j][1]) + 1
          /\ c > 0 /\ total_size(<<r>>) >= c * mask =>
               \A i \in 1..n : Length(row[i][1]) >= c /\ Length(row[i][1]) < 2 * c
      BY <3>3 DEF GoodLine, Divides
    <3>5. QED
      BY <3>2, <3>3, <3>4
  <2>3. QED
    BY <2>1, <2>2
<1>4. ChunksAsRequested
  BY <1>3 DEF ChunksAsRequested
<1>5. QED
  BY <1>2, <1>4 DEF ScheduleRight

(* Every schedule of a loop in one dimension, of any length, empty or      *)
(* reversed, for any mask and any chunk size: create_schedule() and        *)
(* get_sched_size() of gufunc_scheduler.cpp give each iteration to exactly *)
(* one row, leave out no thread, and make rows that differ by at most one  *)
(* iteration and are of the chunk size that was asked for, or more, but    *)
(* less than twice as long.                                                *)
THEOREM LinesAlwaysRight ==
  ASSUME OneDimension
  PROVE  Spec => []ScheduleRight
<1>1. Init => LinesMade
  BY DEF Init, LinesMade, LineMade
<1>2. TypeOK /\ LinesMade /\ [Next]_vars => LinesMade'
  BY LinesMadeStep
<1>3. LinesMade => ScheduleRight
  BY LineRight
<1>4. QED
  BY <1>1, <1>2, <1>3, TypeCorrect, PTL DEF Spec
=============================================================================
