-------------------------- MODULE DispatcherProofs --------------------------
(***************************************************************************)
(* Theorems about Dispatcher for any number of threads, functions,         *)
(* signatures and calls, as long as recompile() overlaps no other call.    *)
(***************************************************************************)
EXTENDS Dispatcher, FiniteSetTheorems, TLAPS

USE DispatcherAssumption

-----------------------------------------------------------------------------
(* The inductive invariant.                                                *)

(* The activations of a thread, counted from the bottom of its stack.      *)
Depth(t) == Len(stack[t])
F(t, d) == stack[t][Depth(t) + 1 - d]

Pcs ==
  {"run", "compiled", "lock", "check", "type", "typed", "lower", "insert", "own", "leave",
   "reset", "each"}
Activation ==
  [op : {"call", "compile", "recompile"}, pc : Pcs, f : Funcs, s : Sigs \cup {{}},
   todo : SUBSET (Funcs \cup Sigs), g : Nat, obj : BOOLEAN, counted : BOOLEAN,
   flag : BOOLEAN, res : SUBSET Result]
Stacks == stack \in [Threads -> Seq(Activation)]

Types ==
  /\ Stacks
  /\ overloads \in [Funcs -> SUBSET Result] /\ table \in [Funcs -> Seq(Result)]
  /\ fallbackdef \in [Funcs -> SUBSET Result] /\ canCompile \in [Funcs -> BOOLEAN]
  /\ defns \subseteq Result /\ failed \in [Funcs -> SUBSET Sigs]
  /\ disk \in [Funcs -> SUBSET (Sigs \X Nat)]
  /\ answer \in [Threads -> [kind : Answers, res : SUBSET Result]]
  /\ glob \in Nat /\ made \in Nat
  /\ wanted \in [Funcs -> BOOLEAN] /\ renewed \in [Funcs -> Nat]

(* Only a compilation is started by another activation, which waits for it *)
(* at the place where it made the call.                                    *)
ShapeOf(a) ==
  /\ a.op = "call" => a.pc \in {"run", "compiled"} /\ a.s \in Sigs
  /\ a.op = "compile" =>
       /\ a.pc \in Pcs \ {"run", "compiled", "reset", "each"}
       /\ a.s \in Sigs /\ a.todo \subseteq Callees[a.f]
  /\ a.op = "recompile" => a.pc \in {"reset", "each"} /\ a.todo \subseteq Sigs

Waiting(a) == a.pc \in {"compiled", "typed", "each"}
Shape ==
  \A t \in Threads : \A d \in 1 .. Depth(t) :
    /\ ShapeOf(F(t, d))
    /\ d > 1 => F(t, d).op = "compile"
    /\ d < Depth(t) => Waiting(F(t, d))
    /\ \A e \in 1 .. Depth(t) : F(t, d).op = "call" /\ e = d + 1 =>
         F(t, e).f = F(t, d).f /\ F(t, e).s = F(t, d).s

(* Callees come before callers.                                            *)
Rank ==
  CHOOSE rank \in [Funcs -> 0 .. Cardinality(Funcs)] :
    \A f \in Funcs : \A g \in Callees[f] : rank[g] < rank[f]
Ranked ==
  \A t \in Threads : \A d, e \in 1 .. Depth(t) :
    d < e /\ F(t, d).op = "compile" => Rank[F(t, e).f] < Rank[F(t, d).f]

(* A compilation beyond acquire() holds the lock, once.                    *)
Active(a) == a.op = "compile" /\ a.pc # "lock"
Held(t) == {d \in 1 .. Depth(t) : Active(F(t, d))}
Locked ==
  /\ lock \in [owner : SUBSET Threads, depth : Nat]
  /\ \A t \in Threads : Held(t) # {} => lock.owner = {t}
  /\ \A t \in lock.owner : lock.depth = Cardinality(Held(t)) /\ Held(t) # {}
  /\ lock.owner = {} => lock.depth = 0

(* All activations there are.                                              *)
Acts == UNION {{F(t, d) : d \in 1 .. Depth(t)} : t \in Threads}

Counts(a, f) == a.op = "compile" /\ a.counted /\ a.f = f
Counters ==
  /\ counter \in [Funcs -> Nat]
  /\ \A f \in Funcs : counter[f] = IF \E a \in Acts : Counts(a, f) THEN 1 ELSE 0
  /\ \A a \in Acts : a.op = "compile" /\ a.pc \in {"lock", "check"} => ~ a.counted

(* What compile() makes is for its own function and signature, and until   *)
(* it is filed there is no other overload for them.                        *)
Working(a) ==
  a.op = "compile" /\ a.pc \in {"type", "typed", "lower", "insert", "own"}
Made(a) == a.op = "compile" /\ a.pc \in {"insert", "own"}
WorkOK(a) ==
  /\ Working(a) => a.counted /\ At(a.f, a.s) = {}
  /\ Made(a) => \E r \in Result : a.res = {r} /\ r.f = a.f /\ r.s = a.s
Works == \A a \in Acts : WorkOK(a)

Resets(a, f) == a.op = "recompile" /\ a.pc = "reset" /\ a.f = f
Resetting(f) == \E a \in Acts : Resets(a, f)
Owns(a, f, r) == a.op = "compile" /\ a.pc = "own" /\ a.f = f /\ r \in a.res
Owning(f, r) == \E a \in Acts : Owns(a, f, r)
Pending(r) == \E a \in Acts : Made(a) /\ r \in a.res

(* The C++ table has the overloads and the one that is about to be filed.  *)
Tables ==
  \A f \in Funcs :
    /\ Resetting(f) => table[f] = <<>>
    /\ ~ Resetting(f) => \A r \in Result :
         (\E i \in DOMAIN table[f] : table[f][i] = r) <=> (r \in overloads[f] \/ Owning(f, r))
    /\ \A i, j \in DOMAIN table[f] : table[f][i].s = table[f][j].s => i = j
    /\ \A r \in overloads[f] : r.f = f
    /\ \A r \in fallbackdef[f] : r.f = f /\ r.obj

(* The target knows the overloads and the ones that are about to be filed. *)
Defns ==
  \A r \in Result :
    r \in defns <=>
      ~ r.obj /\ ((r \in overloads[r.f] /\ ~ Resetting(r.f)) \/ Pending(r))

(* What type inference found in a callee stays there.                      *)
UsedOK(a) ==
  a.op = "compile" /\ ~ a.obj =>
    /\ a.pc = "type" => \A c \in Callees[a.f] \ a.todo : Usable(c, a.s) # {}
    /\ a.pc = "lower" => \A c \in Callees[a.f] : Usable(c, a.s) # {}
Uses == \A a \in Acts : UsedOK(a)

(* No error of the dispatcher's own reaches a caller.  Two overloads can   *)
(* fit a call only if its types convert for two signatures.                *)
Unambiguous == \A s, p, q : <<s, p>> \in Fits /\ <<s, q>> \in Fits => p = q
InternalErrors == {k \in {"keyerror", "ambiguous"} : k = "ambiguous" => Unambiguous}
USE DEF InternalErrors

(* An answer is for the activation that gets it.                           *)
AnswerFor(a, r) == r.f = a.f /\ r.s = a.s
Takes(a) == (a.op = "compile" /\ a.pc = "leave") \/ (a.op = "call" /\ a.pc = "compiled")
Answered ==
  \A t \in Threads :
    /\ answer[t].kind \notin InternalErrors
    /\ stack[t] # <<>> /\ answer[t].kind = "ok" /\ Takes(F(t, Depth(t))) =>
         \A r \in answer[t].res : AnswerFor(F(t, Depth(t)), r)

RunOK(a) ==
  a.op = "call" /\ a.pc = "run" =>
    \A r \in a.res :
      r.f = a.f /\ (r.s # a.s => ~ a.flag /\ (<<a.s, r.s>> \in Fits \/ r.obj))
Runs == \A a \in Acts : RunOK(a)

(* A thread that recompiles is alone, and remembers the flag.              *)
Lonely ==
  \A t \in Threads : \A d \in 1 .. Depth(t) : F(t, d).op = "recompile" =>
    \A u \in Threads : u # t => stack[u] = <<>>
Recompiles(a, f) == a.op = "recompile" /\ a.f = f
Flags ==
  /\ \A a \in Acts : a.op = "recompile" => a.flag = wanted[a.f]
  /\ \A f \in Funcs : (\A a \in Acts : ~ Recompiles(a, f)) => canCompile[f] = wanted[f]

(* Nothing that function f has or is getting read the global before it was *)
(* bound for the g-th time.                                                *)
NewerOf(a, f, g) ==
  a.op = "compile" /\ a.f = f =>
    /\ a.pc \in {"type", "typed", "lower"} => a.g >= g
    /\ a.pc \in {"insert", "own"} => \A r \in a.res : r.g >= g
Newer(f, g) ==
  /\ \A r \in overloads[f] : r.g >= g
  /\ \A d \in disk[f] : d[2] >= g
  /\ \A a \in Acts : NewerOf(a, f, g)
Renews ==
  /\ \A f \in Funcs : \A g \in Nat : g = renewed[f] => g <= glob /\ Newer(f, g)
  /\ \A a \in Acts : a.op = "recompile" =>
       a.g <= glob /\ (a.pc = "each" => Newer(a.f, a.g))

Stack == Types /\ Shape /\ Ranked
Sync == Locked /\ Counters /\ Lonely /\ Flags
Code == Works /\ Tables /\ Defns /\ Uses /\ Answered /\ Runs /\ Renews
Inv == Stack /\ Sync /\ Code

-----------------------------------------------------------------------------
(* What the steps of a thread do to the stacks.                            *)

LEMMA PushSeq ==
  ASSUME NEW S, NEW s \in Seq(S), NEW f \in S
  PROVE  /\ <<f>> \o s \in Seq(S) /\ Len(<<f>> \o s) = Len(s) + 1
         /\ (<<f>> \o s)[1] = f
         /\ \A k \in 1 .. Len(s) : (<<f>> \o s)[k + 1] = s[k]
OBVIOUS

LEMMA TailSeq ==
  ASSUME NEW S, NEW s \in Seq(S), s # <<>>
  PROVE  /\ Tail(s) \in Seq(S) /\ Len(Tail(s)) = Len(s) - 1 /\ Len(s) \in Nat \ {0}
         /\ Head(s) = s[1] /\ Head(s) \in S
         /\ \A k \in 1 .. Len(s) - 1 : Tail(s)[k] = s[k + 1]
OBVIOUS

(* Thread t's stack has n activations now, those below the old top are the *)
(* old ones and no other stack has changed.                                *)
Moved(t, n) ==
  /\ Stacks' /\ n \in Nat
  /\ \A u \in Threads : u # t => stack'[u] = stack[u]
  /\ Depth(t)' = n
  /\ \A d \in 1 .. n : d < Depth(t) => F(t, d)' = F(t, d)

LEMMA DepthType ==
  ASSUME Stacks, NEW t \in Threads
  PROVE  /\ Depth(t) \in Nat /\ (stack[t] = <<>> <=> Depth(t) = 0)
         /\ \A d \in 1 .. Depth(t) : F(t, d) \in Activation
         /\ stack[t] # <<>> => Top(t) = F(t, Depth(t)) /\ Top(t) \in Activation
<1>1. stack[t] \in Seq(Activation)
  BY DEF Stacks
<1>2. Depth(t) \in Nat /\ (stack[t] = <<>> <=> Depth(t) = 0)
  BY <1>1 DEF Depth
<1>3. \A d \in 1 .. Depth(t) : Depth(t) + 1 - d \in 1 .. Len(stack[t])
  BY <1>2 DEF Depth
<1>4. \A k \in 1 .. Len(stack[t]) : stack[t][k] \in Activation
  BY <1>1
<1>5. stack[t] # <<>> => Top(t) = stack[t][1] /\ 1 \in 1 .. Len(stack[t])
  BY <1>1, TailSeq DEF Top
<1>6. QED
  BY <1>2, <1>3, <1>4, <1>5 DEF F

LEMMA PopMoves ==
  ASSUME Stacks, NEW t \in Threads, stack[t] # <<>>, Pop(t), NEW n, n = Depth(t)
  PROVE  n \in Nat \ {0} /\ Moved(t, n - 1)
<1>1. stack[t] \in Seq(Activation) /\ Depth(t) \in Nat \ {0} /\ Depth(t) = Len(stack[t])
  BY DepthType DEF Stacks, Depth
<1>2. stack'[t] = Tail(stack[t]) /\ \A u \in Threads : u # t => stack'[u] = stack[u]
  BY DEF Pop, Stacks
<1>3. /\ stack'[t] \in Seq(Activation) /\ Len(stack'[t]) = Len(stack[t]) - 1
      /\ \A k \in 1 .. Len(stack[t]) - 1 : stack'[t][k] = stack[t][k + 1]
  BY <1>1, <1>2, TailSeq
<1>4. Stacks'
  BY <1>3 DEF Stacks, Pop
<1>5. ASSUME NEW d \in 1 .. Depth(t) - 1 PROVE F(t, d)' = F(t, d)
  <2>1. Depth(t) - d \in 1 .. Len(stack[t]) - 1 /\ (Depth(t) - d) + 1 = Depth(t) + 1 - d
    BY <1>1, <1>5
  <2>2. Len(stack'[t]) + 1 - d = Depth(t) - d
    BY <1>1, <1>3, <1>5
  <2>3. QED
    BY <1>1, <1>3, <2>1, <2>2 DEF F, Depth
<1>6. Depth(t)' = n - 1
  BY <1>1, <1>3 DEF Depth
<1>7. QED
  BY <1>1, <1>2, <1>4, <1>5, <1>6 DEF Moved

(* r is the stack of t but for the activation on top, which r may lack or  *)
(* have in another state.                                                  *)
Under(t, r, m) ==
  /\ r \in Seq(Activation) /\ m = Len(r) /\ m <= Depth(t) /\ Depth(t) <= m + 1
  /\ \A d \in 1 .. m : d < Depth(t) => r[m + 1 - d] = F(t, d)

Topped(t, r, m, c) ==
  Moved(t, m + 1) /\ F(t, m + 1)' = c /\ \A d \in 1 .. m : F(t, d)' = r[m + 1 - d]

(* Activations b, and above it c, take the place of those above r.         *)
LEMMA StackTop ==
  ASSUME Stacks, NEW t \in Threads, NEW m \in Nat, NEW r, Under(t, r, m),
         NEW c \in Activation,
         stack' = [stack EXCEPT ![t] = <<c>> \o r]
  PROVE  Topped(t, r, m, c)
<1>0. /\ r \in Seq(Activation) /\ m = Len(r) /\ m <= Depth(t) /\ Depth(t) <= m + 1
      /\ \A d \in 1 .. m : d < Depth(t) => r[m + 1 - d] = F(t, d)
  BY DEF Under
<1>1. stack'[t] = <<c>> \o r /\ \A u \in Threads : u # t => stack'[u] = stack[u]
  BY DEF Stacks
<1>2. /\ stack'[t] \in Seq(Activation) /\ Len(stack'[t]) = m + 1 /\ stack'[t][1] = c
      /\ \A k \in 1 .. m : stack'[t][k + 1] = r[k]
  <2>1. /\ <<c>> \o r \in Seq(Activation) /\ Len(<<c>> \o r) = Len(r) + 1
        /\ (<<c>> \o r)[1] = c
        /\ \A k \in 1 .. Len(r) : (<<c>> \o r)[k + 1] = r[k]
    BY <1>0, PushSeq
  <2>2. QED
    BY <1>0, <1>1, <2>1
<1>3. Stacks'
  <2>1. DOMAIN stack' = Threads /\ stack' = [u \in Threads |-> stack'[u]]
    BY DEF Stacks
  <2>2. \A u \in Threads : stack'[u] \in Seq(Activation)
    BY <1>1, <1>2 DEF Stacks
  <2>3. QED
    BY <2>1, <2>2 DEF Stacks
<1>4. Depth(t)' = m + 1
  BY <1>2 DEF Depth
<1>5. \A d \in 1 .. m : F(t, d)' = r[m + 1 - d]
  <2> SUFFICES ASSUME NEW d \in 1 .. m PROVE F(t, d)' = r[m + 1 - d]
    OBVIOUS
  <2>1. m + 1 - d \in 1 .. m /\ (m + 1) + 1 - d = (m + 1 - d) + 1
    OBVIOUS
  <2>2. stack'[t][(m + 1) + 1 - d] = r[m + 1 - d]
    BY <1>2, <2>1
  <2>3. F(t, d)' = stack'[t][(m + 1) + 1 - d]
    BY <1>4 DEF F
  <2>4. QED
    BY <2>2, <2>3
<1>6. F(t, m + 1)' = c
  <2>1. (m + 1) + 1 - (m + 1) = 1
    OBVIOUS
  <2>2. F(t, m + 1)' = stack'[t][(m + 1) + 1 - (m + 1)]
    BY <1>4 DEF F
  <2>3. QED
    BY <1>2, <2>1, <2>2
<1>7. Depth(t) \in Nat
  BY DepthType
<1>8. \A d \in 1 .. m + 1 : d < Depth(t) => F(t, d)' = F(t, d)
  <2>1. \A d \in 1 .. m + 1 : d < Depth(t) => d \in 1 .. m
    BY <1>0, <1>7
  <2>2. QED
    BY <1>0, <1>5, <2>1
<1>9. QED
  BY <1>0, <1>1, <1>3, <1>4, <1>5, <1>6, <1>7, <1>8 DEF Moved, Topped

LEMMA GotoMoves ==
  ASSUME Stacks, NEW t \in Threads, stack[t] # <<>>, NEW b \in Activation, Goto(t, b),
         NEW n, n = Depth(t)
  PROVE  n \in Nat \ {0} /\ Moved(t, n) /\ F(t, n)' = b
<1> DEFINE r == Tail(stack[t])
<1>1. stack[t] \in Seq(Activation) /\ n \in Nat \ {0} /\ n = Len(stack[t])
  BY DepthType DEF Stacks, Depth
<1>2. /\ r \in Seq(Activation) /\ Len(r) = n - 1
      /\ \A k \in 1 .. n - 1 : r[k] = stack[t][k + 1]
  BY <1>1, TailSeq
<1>3. stack' = [stack EXCEPT ![t] = <<b>> \o r]
  BY DEF Goto
<1>4. \A d \in 1 .. n - 1 : r[n - d] = F(t, d)
  <2> SUFFICES ASSUME NEW d \in 1 .. n - 1 PROVE r[n - d] = F(t, d)
    OBVIOUS
  <2>1. n - d \in 1 .. n - 1 /\ (n - d) + 1 = Len(stack[t]) + 1 - d
    BY <1>1
  <2>2. QED
    BY <1>2, <2>1 DEF F, Depth
<1> HIDE DEF r
<1>5. \A d \in 1 .. n - 1 : r[(n - 1) + 1 - d] = F(t, d)
  <2>1. \A d \in 1 .. n - 1 : (n - 1) + 1 - d = n - d
    BY <1>1
  <2>2. QED
    BY <1>4, <2>1
<1>6. n - 1 \in Nat /\ n - 1 <= Depth(t) /\ (n - 1) + 1 = n /\ Depth(t) <= n
  BY <1>1
<1>7. PICK m \in Nat : m = n - 1
  BY <1>6
<1>8. Moved(t, m + 1) /\ F(t, m + 1)' = b
  <2>1. m = Len(r) /\ m <= Depth(t) /\ Depth(t) <= m + 1
    BY <1>2, <1>6, <1>7
  <2>2. \A d \in 1 .. m : d < Depth(t) => r[m + 1 - d] = F(t, d)
    BY <1>5, <1>7
  <2>3. r \in Seq(Activation)
    BY <1>2
  <2>4. Under(t, r, m)
    BY <2>1, <2>2, <2>3 DEF Under
  <2>5. Topped(t, r, m, b)
    BY <1>3, <1>7, <2>4, StackTop
  <2>6. QED
    BY <1>7, <2>5 DEF Topped
<1>9. QED
  BY <1>1, <1>6, <1>7, <1>8

LEMMA EnterMoves ==
  ASSUME Stacks, NEW t \in Threads, stack[t] # <<>>, NEW b \in Activation,
         NEW c \in Activation, Enter(t, b, c), NEW n, n = Depth(t)
  PROVE  n \in Nat \ {0} /\ Moved(t, n + 1) /\ F(t, n)' = b /\ F(t, n + 1)' = c
<1> DEFINE q == Tail(stack[t])
<1> DEFINE r == <<b>> \o q
<1>1. stack[t] \in Seq(Activation) /\ n \in Nat \ {0} /\ n = Len(stack[t])
  BY DepthType DEF Stacks, Depth
<1>2. /\ q \in Seq(Activation) /\ Len(q) = n - 1
      /\ \A k \in 1 .. n - 1 : q[k] = stack[t][k + 1]
  BY <1>1, TailSeq
<1>3. stack' = [stack EXCEPT ![t] = <<c>> \o r]
  <2>1. <<c, b>> \o q = <<c>> \o (<<b>> \o q)
    BY <1>2
  <2>2. QED
    BY <2>1 DEF Enter
<1> HIDE DEF q
<1>4. /\ r \in Seq(Activation) /\ Len(r) = Len(q) + 1 /\ r[1] = b
      /\ \A k \in 1 .. Len(q) : r[k + 1] = q[k]
  BY <1>2, PushSeq
<1> HIDE DEF r
<1>5. Len(r) = n /\ r[n + 1 - n] = b
  BY <1>1, <1>2, <1>4
<1>6. \A d \in 1 .. n : d < n => r[n + 1 - d] = F(t, d)
  <2> SUFFICES ASSUME NEW d \in 1 .. n, d < n PROVE r[n + 1 - d] = F(t, d)
    OBVIOUS
  <2>1. /\ n - d \in 1 .. n - 1 /\ (n - d) + 1 = Len(stack[t]) + 1 - d
        /\ (n - d) + 1 = n + 1 - d
    BY <1>1
  <2>2. r[(n - d) + 1] = q[n - d] /\ q[n - d] = stack[t][(n - d) + 1]
    BY <1>2, <1>4, <2>1
  <2>3. QED
    BY <2>1, <2>2 DEF F, Depth
<1>7. n <= Depth(t) /\ Depth(t) <= n + 1 /\ n \in Nat /\ n \in 1 .. n
  BY <1>1
<1>8. /\ Moved(t, n + 1) /\ F(t, n + 1)' = c
      /\ \A d \in 1 .. n : F(t, d)' = r[n + 1 - d]
  <2>1. Under(t, r, n)
    BY <1>4, <1>5, <1>6, <1>7 DEF Under
  <2>2. PICK m \in Nat : m = n
    BY <1>7
  <2>3. Under(t, r, m)
    BY <2>1, <2>2
  <2>4. Topped(t, r, m, c)
    BY <1>3, <2>3, StackTop
  <2>5. QED
    BY <2>2, <2>4 DEF Topped
<1>9. QED
  BY <1>1, <1>5, <1>7, <1>8

LEMMA StartMoves ==
  ASSUME Stacks, NEW t \in Threads, stack[t] = <<>>, NEW a \in Activation,
         stack' = [stack EXCEPT ![t] = <<a>>]
  PROVE  Depth(t) = 0 /\ Moved(t, 1) /\ F(t, 1)' = a
<1>1. Depth(t) = 0
  BY DepthType
<1>2. stack'[t] = <<a>> /\ \A u \in Threads : u # t => stack'[u] = stack[u]
  BY DEF Stacks
<1>3. stack'[t] \in Seq(Activation) /\ Len(stack'[t]) = 1
  BY <1>2
<1>4. Stacks'
  <2>1. DOMAIN stack' = Threads /\ stack' = [u \in Threads |-> stack'[u]]
    BY DEF Stacks
  <2>2. \A u \in Threads : stack'[u] \in Seq(Activation)
    BY <1>2, <1>3 DEF Stacks
  <2>3. QED
    BY <2>1, <2>2 DEF Stacks
<1>5. QED
  BY <1>1, <1>2, <1>3, <1>4 DEF F, Depth, Moved

LEMMA StartTwoMoves ==
  ASSUME Stacks, NEW t \in Threads, stack[t] = <<>>, NEW a \in Activation,
         NEW c \in Activation, stack' = [stack EXCEPT ![t] = <<c, a>>]
  PROVE  Depth(t) = 0 /\ Moved(t, 2) /\ F(t, 1)' = a /\ F(t, 2)' = c
<1>1. Depth(t) = 0
  BY DepthType
<1>2. stack'[t] = <<c, a>> /\ \A u \in Threads : u # t => stack'[u] = stack[u]
  BY DEF Stacks
<1>3. stack'[t] \in Seq(Activation) /\ Len(stack'[t]) = 2
  BY <1>2
<1>4. Stacks'
  <2>1. DOMAIN stack' = Threads /\ stack' = [u \in Threads |-> stack'[u]]
    BY DEF Stacks
  <2>2. \A u \in Threads : stack'[u] \in Seq(Activation)
    BY <1>2, <1>3 DEF Stacks
  <2>3. QED
    BY <2>1, <2>2 DEF Stacks
<1>5. QED
  BY <1>1, <1>2, <1>3, <1>4 DEF F, Depth, Moved

(* The activation at the top goes on.                                      *)
Turn(t, n, a, b) ==
  /\ n \in Nat \ {0} /\ n = Depth(t) /\ a = F(t, n) /\ a \in Activation
  /\ Moved(t, n) /\ F(t, n)' = b /\ b \in Activation
  /\ b.op = a.op /\ b.f = a.f /\ b.s = a.s

(* It calls compile().                                                     *)
Called(c) == c \in Activation /\ c.op = "compile" /\ c.pc = "lock" /\ ~ c.counted
Enters(t, n, a, b, c) ==
  /\ n \in Nat \ {0} /\ n = Depth(t) /\ a = F(t, n) /\ a \in Activation
  /\ Moved(t, n + 1) /\ F(t, n)' = b /\ F(t, n + 1)' = c
  /\ b \in Activation /\ Waiting(b) /\ b.op = a.op /\ b.f = a.f /\ b.s = a.s
  /\ Called(c)

(* It ends.                                                                *)
Pops(t, n, a) ==
  /\ n \in Nat \ {0} /\ n = Depth(t) /\ a = F(t, n) /\ a \in Activation
  /\ Moved(t, n - 1)

(* The thread starts an activation, or a call that has to compile.         *)
Starts(t, a) == Depth(t) = 0 /\ Moved(t, 1) /\ F(t, 1)' = a /\ a \in Activation
StartsCall(t, a, c) ==
  /\ Depth(t) = 0 /\ Moved(t, 2) /\ F(t, 1)' = a /\ F(t, 2)' = c
  /\ a \in Activation /\ a.op = "call" /\ a.pc = "compiled"
  /\ Called(c) /\ c.f = a.f /\ c.s = a.s

LEMMA OtherThread ==
  ASSUME NEW u, stack'[u] = stack[u]
  PROVE  Depth(u)' = Depth(u) /\ \A d : F(u, d)' = F(u, d)
BY DEF Depth, F

(* An activation after a step of thread t is an old one, or it is at the   *)
(* top of t's stack.                                                       *)
LEMMA Bystander ==
  ASSUME Stacks, NEW t \in Threads, NEW n, Moved(t, n),
         NEW u \in Threads, NEW d \in 1 .. Depth(u)'
  PROVE  \/ u = t /\ d \in Nat /\ d >= Depth(t) /\ d <= n
         \/ d \in 1 .. Depth(u) /\ F(u, d)' = F(u, d)
<1>1. CASE u # t
  <2>1. stack'[u] = stack[u]
    BY <1>1 DEF Moved
  <2>2. QED
    BY <2>1, OtherThread
<1>2. CASE u = t
  <2>1. Depth(t)' = n /\ n \in Nat /\ Depth(t) \in Nat
    BY DepthType DEF Moved
  <2>2. d \in 1 .. n
    BY <1>2, <2>1
  <2>3. CASE d < Depth(t)
    <3>1. F(t, d)' = F(t, d)
      BY <2>2, <2>3 DEF Moved
    <3>2. d \in 1 .. Depth(t)
      BY <2>1, <2>2, <2>3
    <3>3. QED
      BY <1>2, <3>1, <3>2
  <2>4. CASE ~ (d < Depth(t))
    BY <1>2, <2>1, <2>2, <2>4
  <2>5. QED
    BY <2>3, <2>4
<1>3. QED
  BY <1>1, <1>2

(* The same for the thread itself.                                         *)
LEMMA Below ==
  ASSUME Stacks, NEW t \in Threads, NEW n, Moved(t, n), NEW d \in 1 .. n, d < Depth(t)
  PROVE  d \in 1 .. Depth(t) /\ F(t, d)' = F(t, d)
<1>1. Depth(t) \in Nat /\ n \in Nat
  BY DepthType DEF Moved
<1>2. F(t, d)' = F(t, d)
  BY DEF Moved
<1>3. QED
  BY <1>1, <1>2

(* What Shape says of one activation and the one above it.                 *)
Fitting(a, c) == a.op = "call" => c.f = a.f /\ c.s = a.s
ShapeAt(t, d) ==
  /\ ShapeOf(F(t, d))
  /\ d > 1 => F(t, d).op = "compile"
  /\ d < Depth(t) => Waiting(F(t, d))
  /\ \A e \in 1 .. Depth(t) : e = d + 1 => Fitting(F(t, d), F(t, e))

LEMMA ShapeIs == Shape <=> \A t \in Threads : \A d \in 1 .. Depth(t) : ShapeAt(t, d)
BY DEF Shape, ShapeAt, Fitting

LEMMA ShapeOther ==
  ASSUME Shape, NEW u \in Threads, stack'[u] = stack[u]
  PROVE  \A d \in 1 .. Depth(u)' : ShapeAt(u, d)'
<1>1. \A d \in 1 .. Depth(u) : ShapeAt(u, d)
  BY ShapeIs
<1>2. QED
  BY <1>1, OtherThread DEF ShapeAt, ShapeOf, Waiting, Fitting

LEMMA RankedOther ==
  ASSUME Ranked, NEW u \in Threads, stack'[u] = stack[u]
  PROVE  \A d, e \in 1 .. Depth(u)' :
           d < e /\ F(u, d)'.op = "compile" => Rank[F(u, e)'.f] < Rank[F(u, d)'.f]
BY OtherThread DEF Ranked

LEMMA TurnShape ==
  ASSUME Stacks, Shape, Ranked, NEW t \in Threads, NEW n, NEW a, NEW b,
         Turn(t, n, a, b), ShapeOf(b)
  PROVE  Shape' /\ Ranked'
<1>1. /\ n \in Nat \ {0} /\ Depth(t) = n /\ Depth(t)' = n /\ F(t, n) = a /\ F(t, n)' = b
      /\ b.op = a.op /\ b.f = a.f /\ b.s = a.s
      /\ \A d \in 1 .. n : d < n => F(t, d)' = F(t, d)
  BY DEF Turn, Moved
<1>2. \A u \in Threads : u # t => stack'[u] = stack[u]
  BY DEF Turn, Moved
<1>3. ASSUME NEW d \in 1 .. n PROVE ShapeAt(t, d)'
  <2>1. ShapeAt(t, d)
    BY <1>1, ShapeIs
  <2>2. ShapeOf(F(t, d)') /\ (d > 1 => F(t, d)'.op = "compile")
    BY <1>1, <2>1 DEF ShapeAt
  <2>3. d < n => Waiting(F(t, d)')
    BY <1>1, <2>1 DEF ShapeAt
  <2>4. ASSUME NEW e \in 1 .. n, e = d + 1 PROVE Fitting(F(t, d)', F(t, e)')
    <3>1. Fitting(F(t, d), F(t, e)) /\ d < n
      BY <1>1, <2>1, <2>4 DEF ShapeAt
    <3>2. QED
      BY <1>1, <2>4, <3>1 DEF Fitting
  <2>5. QED
    BY <1>1, <2>2, <2>3, <2>4 DEF ShapeAt, ShapeOf, Waiting, Fitting
<1>4. ASSUME NEW d \in 1 .. n, NEW e \in 1 .. n, d < e, F(t, d)'.op = "compile"
      PROVE  Rank[F(t, e)'.f] < Rank[F(t, d)'.f]
  <2>1. F(t, d).op = "compile" /\ F(t, d)'.f = F(t, d).f /\ F(t, e)'.f = F(t, e).f
    BY <1>1, <1>4
  <2>2. QED
    BY <1>1, <1>4, <2>1 DEF Ranked
<1>5. Shape'
  <2>1. ASSUME NEW u \in Threads, NEW d \in 1 .. Depth(u)' PROVE ShapeAt(u, d)'
    BY <1>1, <1>2, <1>3, <2>1, ShapeOther
  <2>2. QED
    BY <2>1 DEF Shape, ShapeAt, Fitting
<1>6. Ranked'
  <2>1. ASSUME NEW u \in Threads, NEW d \in 1 .. Depth(u)', NEW e \in 1 .. Depth(u)',
               d < e, F(u, d)'.op = "compile"
        PROVE  Rank[F(u, e)'.f] < Rank[F(u, d)'.f]
    BY <1>1, <1>2, <1>4, <2>1, RankedOther
  <2>2. QED
    BY <2>1 DEF Ranked
<1>7. QED
  BY <1>5, <1>6

LEMMA PopShape ==
  ASSUME Stacks, Shape, Ranked, NEW t \in Threads, NEW n, NEW a, Pops(t, n, a)
  PROVE  Shape' /\ Ranked'
<1>1. /\ n \in Nat \ {0} /\ Depth(t) = n /\ Depth(t)' = n - 1
      /\ \A d \in 1 .. n - 1 : d < n => F(t, d)' = F(t, d)
  BY DEF Pops, Moved
<1>2. \A u \in Threads : u # t => stack'[u] = stack[u]
  BY DEF Pops, Moved
<1>3. \A d \in 1 .. n - 1 : F(t, d)' = F(t, d) /\ d \in 1 .. n /\ d < n
  BY <1>1
<1>4. ASSUME NEW d \in 1 .. n - 1 PROVE ShapeAt(t, d)'
  <2>1. ShapeAt(t, d)
    BY <1>1, <1>3, ShapeIs
  <2>2. QED
    BY <1>1, <1>3, <2>1 DEF ShapeAt, ShapeOf, Waiting, Fitting
<1>5. ASSUME NEW d \in 1 .. n - 1, NEW e \in 1 .. n - 1, d < e, F(t, d)'.op = "compile"
      PROVE  Rank[F(t, e)'.f] < Rank[F(t, d)'.f]
  BY <1>1, <1>3, <1>5 DEF Ranked
<1>6. Shape'
  <2>1. ASSUME NEW u \in Threads, NEW d \in 1 .. Depth(u)' PROVE ShapeAt(u, d)'
    BY <1>1, <1>2, <1>4, <2>1, ShapeOther
  <2>2. QED
    BY <2>1 DEF Shape, ShapeAt, Fitting
<1>7. Ranked'
  <2>1. ASSUME NEW u \in Threads, NEW d \in 1 .. Depth(u)', NEW e \in 1 .. Depth(u)',
               d < e, F(u, d)'.op = "compile"
        PROVE  Rank[F(u, e)'.f] < Rank[F(u, d)'.f]
    BY <1>1, <1>2, <1>5, <2>1, RankedOther
  <2>2. QED
    BY <2>1 DEF Ranked
<1>8. QED
  BY <1>6, <1>7

LEMMA StartShape ==
  ASSUME Stacks, Shape, Ranked, NEW t \in Threads, NEW a, Starts(t, a), ShapeOf(a)
  PROVE  Shape' /\ Ranked'
<1>1. Depth(t)' = 1 /\ F(t, 1)' = a /\ \A u \in Threads : u # t => stack'[u] = stack[u]
  BY DEF Starts, Moved
<1>2. ASSUME NEW d \in 1 .. Depth(t)' PROVE ShapeAt(t, d)'
  <2>1. d = 1 /\ Depth(t)' = 1
    BY <1>1
  <2>2. QED
    BY <1>1, <2>1 DEF ShapeAt, ShapeOf
<1>3. Shape'
  <2>1. ASSUME NEW u \in Threads, NEW d \in 1 .. Depth(u)' PROVE ShapeAt(u, d)'
    BY <1>1, <1>2, <2>1, ShapeOther
  <2>2. QED
    BY <2>1 DEF Shape, ShapeAt, Fitting
<1>4. Ranked'
  <2>1. ASSUME NEW u \in Threads, NEW d \in 1 .. Depth(u)', NEW e \in 1 .. Depth(u)',
               d < e, F(u, d)'.op = "compile"
        PROVE  Rank[F(u, e)'.f] < Rank[F(u, d)'.f]
    BY <1>1, <2>1, RankedOther
  <2>2. QED
    BY <2>1 DEF Ranked
<1>5. QED
  BY <1>3, <1>4

LEMMA StartCallShape ==
  ASSUME Stacks, Shape, Ranked, NEW t \in Threads, NEW a, NEW c, StartsCall(t, a, c),
         ShapeOf(a), ShapeOf(c)
  PROVE  Shape' /\ Ranked'
<1>1. /\ Depth(t)' = 2 /\ F(t, 1)' = a /\ F(t, 2)' = c
      /\ \A u \in Threads : u # t => stack'[u] = stack[u]
      /\ a.op = "call" /\ Waiting(a) /\ c.op = "compile" /\ Fitting(a, c)
  BY DEF StartsCall, Called, Waiting, Fitting, Moved
<1>2. ASSUME NEW d \in 1 .. Depth(t)' PROVE ShapeAt(t, d)'
  <2>1. CASE d = 1
    <3>1. \A e \in 1 .. Depth(t)' : e = d + 1 => F(t, e)' = c
      BY <1>1, <2>1
    <3>2. QED
      BY <1>1, <2>1, <3>1 DEF ShapeAt, ShapeOf, Waiting, Fitting
  <2>2. CASE d = 2
    BY <1>1, <2>2 DEF ShapeAt, ShapeOf
  <2>3. QED
    BY <1>1, <2>1, <2>2
<1>3. Shape'
  <2>1. ASSUME NEW u \in Threads, NEW d \in 1 .. Depth(u)' PROVE ShapeAt(u, d)'
    BY <1>1, <1>2, <2>1, ShapeOther
  <2>2. QED
    BY <2>1 DEF Shape, ShapeAt, Fitting
<1>4. Ranked'
  <2>1. ASSUME NEW u \in Threads, NEW d \in 1 .. Depth(u)', NEW e \in 1 .. Depth(u)',
               d < e, F(u, d)'.op = "compile"
        PROVE  Rank[F(u, e)'.f] < Rank[F(u, d)'.f]
    <3>1. CASE u = t
      BY <1>1, <2>1, <3>1
    <3>2. CASE u # t
      BY <1>1, <2>1, <3>2, RankedOther
    <3>3. QED
      BY <3>1, <3>2
  <2>2. QED
    BY <2>1 DEF Ranked
<1>5. QED
  BY <1>3, <1>4

LEMMA RankType ==
  /\ \A f \in Funcs : Rank[f] \in Nat
  /\ \A f \in Funcs : \A g \in Callees[f] : g \in Funcs /\ Rank[g] < Rank[f]
<1>1. \E rank \in [Funcs -> 0 .. Cardinality(Funcs)] :
        \A f \in Funcs : \A g \in Callees[f] : rank[g] < rank[f]
  BY DEF Acyclic
<1>2. /\ Rank \in [Funcs -> 0 .. Cardinality(Funcs)]
      /\ \A f \in Funcs : \A g \in Callees[f] : Rank[g] < Rank[f]
  BY <1>1 DEF Rank
<1>3. Cardinality(Funcs) \in Nat
  BY FS_CardinalityType
<1>4. \A k \in 0 .. Cardinality(Funcs) : k \in Nat
  BY <1>3
<1>5. QED
  BY <1>2, <1>4

LEMMA EnterShape ==
  ASSUME Stacks, Shape, Ranked, NEW t \in Threads, NEW n, NEW a, NEW b, NEW c,
         Enters(t, n, a, b, c), ShapeOf(b), ShapeOf(c),
         a.op # "call", a.op = "compile" => c.f \in Callees[a.f]
  PROVE  Shape' /\ Ranked'
<1>1. /\ n \in Nat \ {0} /\ Depth(t) = n /\ Depth(t)' = n + 1 /\ F(t, n) = a
      /\ F(t, n)' = b /\ F(t, n + 1)' = c
      /\ b.op = a.op /\ b.f = a.f /\ b.s = a.s /\ Waiting(b)
      /\ c.op = "compile"
      /\ \A d \in 1 .. n + 1 : d < n => F(t, d)' = F(t, d)
  BY DEF Enters, Moved, Called
<1>2. \A u \in Threads : u # t => stack'[u] = stack[u]
  BY DEF Enters, Moved
<1>3. ASSUME NEW d \in 1 .. n + 1 PROVE ShapeAt(t, d)'
  <2>1. CASE d = n + 1
    <3>1. ~ (d < n + 1) /\ \A e \in 1 .. n + 1 : e # d + 1
      BY <1>1, <2>1
    <3>2. QED
      BY <1>1, <2>1, <3>1 DEF ShapeAt, ShapeOf
  <2>2. CASE d # n + 1
    <3>1. d \in 1 .. n
      BY <1>1, <2>2
    <3>2. ShapeAt(t, d)
      BY <1>1, <3>1, ShapeIs
    <3>3. ShapeOf(F(t, d)') /\ (d > 1 => F(t, d)'.op = "compile")
      <4>1. CASE d = n
        BY <1>1, <3>2, <4>1 DEF ShapeAt
      <4>2. CASE d < n
        BY <1>1, <3>2, <4>2 DEF ShapeAt
      <4>3. QED
        BY <1>1, <3>1, <4>1, <4>2
    <3>4. Waiting(F(t, d)')
      <4>1. CASE d = n
        BY <1>1, <4>1
      <4>2. CASE d < n
        BY <1>1, <3>2, <4>2 DEF ShapeAt
      <4>3. QED
        BY <1>1, <3>1, <4>1, <4>2
    <3>5. ASSUME NEW e \in 1 .. n + 1, e = d + 1 PROVE Fitting(F(t, d)', F(t, e)')
      <4>1. CASE d = n
        BY <1>1, <4>1 DEF Fitting
      <4>2. CASE d < n
        <5>1. F(t, d)' = F(t, d) /\ e \in 1 .. n
          BY <1>1, <3>5, <4>2
        <5>2. F(t, e)'.f = F(t, e).f /\ F(t, e)'.s = F(t, e).s
          <6>1. CASE e = n
            BY <1>1, <6>1
          <6>2. CASE e < n
            BY <1>1, <6>2
          <6>3. QED
            BY <1>1, <5>1, <6>1, <6>2
        <5>3. Fitting(F(t, d), F(t, e))
          BY <1>1, <3>2, <3>5, <5>1 DEF ShapeAt
        <5>4. QED
          BY <5>1, <5>2, <5>3 DEF Fitting
      <4>3. QED
        BY <1>1, <3>1, <4>1, <4>2
    <3>6. QED
      BY <1>1, <3>3, <3>4, <3>5 DEF ShapeAt, ShapeOf, Waiting, Fitting
  <2>3. QED
    BY <2>1, <2>2
<1>4. ASSUME NEW d \in 1 .. n + 1, NEW e \in 1 .. n + 1, d < e, F(t, d)'.op = "compile"
      PROVE  Rank[F(t, e)'.f] < Rank[F(t, d)'.f]
  <2>1. d \in 1 .. n /\ F(t, d).op = "compile" /\ F(t, d)'.f = F(t, d).f
    BY <1>1, <1>4
  <2>2. CASE e \in 1 .. n
    <3>1. F(t, e)'.f = F(t, e).f
      BY <1>1, <2>2
    <3>2. QED
      BY <1>1, <1>4, <2>1, <2>2, <3>1 DEF Ranked
  <2>3. CASE e = n + 1
    <3>1. n \in 1 .. n /\ F(t, n) \in Activation /\ F(t, d) \in Activation
      BY <1>1, <2>1, DepthType
    <3>2. a.op = "compile" /\ (d = n \/ d < n)
      BY <1>1, <2>1, ShapeIs DEF ShapeAt
    <3>3. Rank[c.f] < Rank[a.f] /\ c.f \in Funcs /\ a.f \in Funcs /\ F(t, d).f \in Funcs
      BY <1>1, <3>1, <3>2, RankType DEF Activation
    <3>4. d < n => Rank[a.f] < Rank[F(t, d).f]
      BY <1>1, <2>1, <3>1 DEF Ranked
    <3>5. Rank[c.f] \in Nat /\ Rank[a.f] \in Nat /\ Rank[F(t, d).f] \in Nat
      BY <3>3, RankType
    <3>6. Rank[c.f] < Rank[F(t, d).f]
      BY <1>1, <3>2, <3>3, <3>4, <3>5
    <3>7. QED
      BY <1>1, <2>1, <2>3, <3>6
  <2>4. QED
    BY <1>1, <2>2, <2>3
<1>5. Shape'
  <2>1. ASSUME NEW u \in Threads, NEW d \in 1 .. Depth(u)' PROVE ShapeAt(u, d)'
    BY <1>1, <1>2, <1>3, <2>1, ShapeOther
  <2>2. QED
    BY <2>1 DEF Shape, ShapeAt, Fitting
<1>6. Ranked'
  <2>1. ASSUME NEW u \in Threads, NEW d \in 1 .. Depth(u)', NEW e \in 1 .. Depth(u)',
               d < e, F(u, d)'.op = "compile"
        PROVE  Rank[F(u, e)'.f] < Rank[F(u, d)'.f]
    BY <1>1, <1>2, <1>4, <2>1, RankedOther
  <2>2. QED
    BY <2>1 DEF Ranked
<1>7. QED
  BY <1>5, <1>6

-----------------------------------------------------------------------------
(* The activations a step of thread t leaves alone.                        *)
Others(t) ==
  {F(t, d) : d \in 1 .. Depth(t) - 1}
    \cup UNION {{F(u, d) : d \in 1 .. Depth(u)} : u \in Threads \ {t}}

(* Thread t's top, if it has one, is replaced.                             *)
Moves(t, old, new) == Acts = Others(t) \cup old /\ Acts' = Others(t) \cup new

LEMMA InActs ==
  ASSUME NEW a
  PROVE  a \in Acts <=> \E t \in Threads : \E d \in 1 .. Depth(t) : a = F(t, d)
BY DEF Acts

LEMMA InOthers ==
  ASSUME NEW a, NEW t
  PROVE  a \in Others(t) <=>
           \/ \E u \in Threads \ {t} : \E d \in 1 .. Depth(u) : a = F(u, d)
           \/ \E d \in 1 .. Depth(t) - 1 : a = F(t, d)
BY DEF Others

LEMMA ActsType == ASSUME Stacks PROVE Acts \subseteq Activation
BY InActs, DepthType

LEMMA ActsWith ==
  ASSUME Stacks, NEW t \in Threads
  PROVE  Acts = Others(t) \cup (IF Depth(t) = 0 THEN {} ELSE {F(t, Depth(t))})
<1>1. Depth(t) \in Nat
  BY DepthType
<1>2. ASSUME NEW a \in Acts
      PROVE  a \in Others(t) \/ (Depth(t) # 0 /\ a = F(t, Depth(t)))
  <2>1. PICK u, d : u \in Threads /\ d \in 1 .. Depth(u) /\ a = F(u, d)
    BY InActs
  <2>2. u = t => d \in 1 .. Depth(t) - 1 \/ d = Depth(t)
    BY <1>1, <2>1
  <2>3. QED
    BY <1>1, <2>1, <2>2, InOthers
<1>3. ASSUME NEW a \in Others(t) PROVE a \in Acts
  <2>1. \A d \in 1 .. Depth(t) - 1 : d \in 1 .. Depth(t)
    BY <1>1
  <2>2. QED
    BY <2>1, InOthers, InActs
<1>4. Depth(t) # 0 => F(t, Depth(t)) \in Acts
  <2>1. Depth(t) # 0 => Depth(t) \in 1 .. Depth(t)
    BY <1>1
  <2>2. QED
    BY <2>1, InActs
<1>5. QED
  BY <1>2, <1>3, <1>4

LEMMA MovedActs ==
  ASSUME Stacks, NEW t \in Threads, NEW n, Moved(t, n), n >= Depth(t) - 1
  PROVE  Acts' = Others(t) \cup {F(t, d)' : d \in {e \in 1 .. n : e >= Depth(t)}}
<1>1. n \in Nat /\ Depth(t)' = n /\ Depth(t) \in Nat
  BY DepthType DEF Moved
<1>2. ASSUME NEW a \in Acts'
      PROVE  a \in Others(t) \/ \E d \in 1 .. n : d >= Depth(t) /\ a = F(t, d)'
  <2>1. PICK u, d : u \in Threads /\ d \in 1 .. Depth(u)' /\ a = F(u, d)'
    BY DEF Acts
  <2>2. CASE u # t
    <3>1. Depth(u)' = Depth(u) /\ F(u, d)' = F(u, d)
      BY <2>1, <2>2, OtherThread DEF Moved
    <3>2. QED
      BY <2>1, <2>2, <3>1, InOthers
  <2>3. CASE u = t /\ d < Depth(t)
    <3>1. d \in 1 .. n /\ d \in 1 .. Depth(t) - 1
      BY <1>1, <2>1, <2>3
    <3>2. F(t, d)' = F(t, d)
      BY <2>3, <3>1, Below
    <3>3. QED
      BY <2>1, <2>3, <3>1, <3>2, InOthers
  <2>4. CASE u = t /\ ~ (d < Depth(t))
    BY <1>1, <2>1, <2>4
  <2>5. QED
    BY <2>2, <2>3, <2>4
<1>3. ASSUME NEW a \in Others(t) PROVE a \in Acts'
  <2>1. CASE \E u \in Threads \ {t} : \E d \in 1 .. Depth(u) : a = F(u, d)
    <3>1. PICK u, d : u \in Threads \ {t} /\ d \in 1 .. Depth(u) /\ a = F(u, d)
      BY <2>1
    <3>2. Depth(u)' = Depth(u) /\ F(u, d)' = F(u, d)
      BY <3>1, OtherThread DEF Moved
    <3>3. QED
      BY <3>1, <3>2 DEF Acts
  <2>2. CASE \E d \in 1 .. Depth(t) - 1 : a = F(t, d)
    <3>1. PICK d \in 1 .. Depth(t) - 1 : a = F(t, d)
      BY <2>2
    <3>2. d \in 1 .. n /\ d < Depth(t)
      BY <1>1
    <3>3. F(t, d)' = F(t, d)
      BY <3>2, Below
    <3>4. QED
      BY <1>1, <3>1, <3>2, <3>3 DEF Acts
  <2>3. QED
    BY <2>1, <2>2, InOthers
<1>4. ASSUME NEW d \in 1 .. n PROVE F(t, d)' \in Acts'
  BY <1>1 DEF Acts
<1>5. QED
  BY <1>2, <1>3, <1>4

LEMMA TurnMoves ==
  ASSUME Stacks, NEW t \in Threads, NEW n, NEW a, NEW b, Turn(t, n, a, b)
  PROVE  Moves(t, {a}, {b})
<1>1. n \in Nat \ {0} /\ Depth(t) = n /\ F(t, n) = a /\ F(t, n)' = b /\ Moved(t, n)
  BY DEF Turn
<1>2. {e \in 1 .. n : e >= Depth(t)} = {n} /\ n >= Depth(t) - 1
  BY <1>1
<1>3. Acts' = Others(t) \cup {b}
  BY <1>1, <1>2, MovedActs
<1>4. QED
  BY <1>1, <1>3, ActsWith DEF Moves

LEMMA EntersMoves ==
  ASSUME Stacks, NEW t \in Threads, NEW n, NEW a, NEW b, NEW c, Enters(t, n, a, b, c)
  PROVE  Moves(t, {a}, {b, c})
<1>1. /\ n \in Nat \ {0} /\ Depth(t) = n /\ F(t, n) = a /\ F(t, n)' = b
      /\ F(t, n + 1)' = c /\ Moved(t, n + 1)
  BY DEF Enters
<1>2. {e \in 1 .. n + 1 : e >= Depth(t)} = {n, n + 1} /\ n + 1 >= Depth(t) - 1
  BY <1>1
<1>3. Acts' = Others(t) \cup {b, c}
  BY <1>1, <1>2, MovedActs
<1>4. QED
  BY <1>1, <1>3, ActsWith DEF Moves

LEMMA PopsMoves ==
  ASSUME Stacks, NEW t \in Threads, NEW n, NEW a, Pops(t, n, a)
  PROVE  Moves(t, {a}, {})
<1>1. n \in Nat \ {0} /\ Depth(t) = n /\ F(t, n) = a /\ Moved(t, n - 1)
  BY DEF Pops
<1>2. {e \in 1 .. n - 1 : e >= Depth(t)} = {} /\ n - 1 >= Depth(t) - 1
  BY <1>1
<1>3. PICK m : m = n - 1
  OBVIOUS
<1>4. Acts' = Others(t) \cup {F(t, d)' : d \in {e \in 1 .. m : e >= Depth(t)}}
  BY <1>1, <1>2, <1>3, MovedActs
<1>5. Acts' = Others(t)
  BY <1>2, <1>3, <1>4
<1>6. QED
  BY <1>1, <1>5, ActsWith DEF Moves

LEMMA StartsMoves ==
  ASSUME Stacks, NEW t \in Threads, NEW a, Starts(t, a)
  PROVE  Moves(t, {}, {a})
<1>1. Depth(t) = 0 /\ F(t, 1)' = a /\ Moved(t, 1)
  BY DEF Starts
<1>2. {e \in 1 .. 1 : e >= Depth(t)} = {1} /\ 1 >= Depth(t) - 1
  BY <1>1
<1>3. Acts' = Others(t) \cup {a}
  BY <1>1, <1>2, MovedActs
<1>4. QED
  BY <1>1, <1>3, ActsWith DEF Moves

LEMMA StartsCallMoves ==
  ASSUME Stacks, NEW t \in Threads, NEW a, NEW c, StartsCall(t, a, c)
  PROVE  Moves(t, {}, {a, c})
<1>1. Depth(t) = 0 /\ F(t, 1)' = a /\ F(t, 2)' = c /\ Moved(t, 2)
  BY DEF StartsCall
<1>2. {e \in 1 .. 2 : e >= Depth(t)} = {1, 2} /\ 2 >= Depth(t) - 1
  BY <1>1
<1>3. Acts' = Others(t) \cup {a, c}
  BY <1>1, <1>2, MovedActs
<1>4. QED
  BY <1>1, <1>3, ActsWith DEF Moves

-----------------------------------------------------------------------------
(* Who can be at work at the same time.                                    *)

LEMMA TopActive ==
  ASSUME Stacks, NEW t \in Threads, NEW n, n = Depth(t), n # 0, Active(F(t, n))
  PROVE  n \in Held(t)
<1>1. n \in 1 .. Depth(t)
  BY DepthType
<1>2. QED
  BY <1>1 DEF Held

(* No two activations compile the same function.                           *)
LEMMA OneCompiles ==
  ASSUME Stacks, Shape, Ranked, Locked, NEW t \in Threads, NEW n, n = Depth(t), n # 0,
         NEW a, a = F(t, n), Active(a)
  PROVE  \A x \in Others(t) : Active(x) => x.f # a.f
<1>1. lock.owner = {t} /\ n \in Nat /\ n \in 1 .. n /\ a \in Activation
  BY TopActive, DepthType DEF Locked
<1>2. ASSUME NEW u \in Threads \ {t}, NEW d \in 1 .. Depth(u), Active(F(u, d)) PROVE FALSE
  <2>1. d \in Held(u)
    BY <1>2 DEF Held
  <2>2. lock.owner = {u}
    BY <2>1 DEF Locked
  <2>3. QED
    BY <1>1, <2>2
<1>3. ASSUME NEW d \in 1 .. Depth(t) - 1, Active(F(t, d)) PROVE F(t, d).f # a.f
  <2>1. d \in 1 .. Depth(t) /\ d < n
    BY <1>1
  <2>2. F(t, d).op = "compile" /\ F(t, d) \in Activation
    BY <1>3, <2>1, DepthType DEF Active
  <2>3. Rank[a.f] < Rank[F(t, d).f]
    BY <1>1, <2>1, <2>2 DEF Ranked
  <2>4. Rank[a.f] \in Nat
    BY <1>1, RankType DEF Activation
  <2>5. QED
    BY <2>3, <2>4
<1>4. QED
  BY <1>2, <1>3, InOthers

(* A thread with a recompilation at the top of its stack is the only one.  *)
LEMMA RecompileAlone ==
  ASSUME Stacks, Shape, Lonely, NEW t \in Threads, NEW n, n = Depth(t), n # 0,
         NEW a, a = F(t, n), a.op = "recompile"
  PROVE  n = 1 /\ Others(t) = {}
<1>1. n \in Nat /\ n \in 1 .. Depth(t)
  BY DepthType
<1>2. n = 1
  <2>1. n > 1 => a.op = "compile"
    BY <1>1 DEF Shape
  <2>2. QED
    BY <1>1, <2>1
<1>3. \A u \in Threads \ {t} : Depth(u) = 0
  BY <1>1, DepthType DEF Lonely
<1>4. ASSUME NEW x \in Others(t) PROVE FALSE
  <2>1. \A u \in Threads \ {t} : \A d \in 1 .. Depth(u) : FALSE
    BY <1>3
  <2>2. \A d \in 1 .. Depth(t) - 1 : FALSE
    BY <1>2
  <2>3. QED
    BY <2>1, <2>2, InOthers
<1>5. QED
  BY <1>2, <1>4

(* No other activation is about to reset the overloads.                    *)
LEMMA NobodyResets ==
  ASSUME Stacks, Shape, Lonely, NEW t \in Threads, NEW n, n = Depth(t), n # 0
  PROVE  \A x \in Others(t) : x.op = "recompile" => x.pc = "each"
<1>1. n \in Nat /\ stack[t] # <<>>
  BY DepthType
<1>2. ASSUME NEW u \in Threads \ {t}, NEW d \in 1 .. Depth(u), F(u, d).op = "recompile"
      PROVE  FALSE
  BY <1>1, <1>2 DEF Lonely
<1>3. ASSUME NEW d \in 1 .. Depth(t) - 1, F(t, d).op = "recompile" PROVE F(t, d).pc = "each"
  <2>1. d \in 1 .. Depth(t) /\ d < Depth(t)
    BY <1>1
  <2>2. ShapeOf(F(t, d)) /\ Waiting(F(t, d))
    BY <2>1 DEF Shape
  <2>3. QED
    BY <1>3, <2>2 DEF ShapeOf, Waiting
<1>4. QED
  BY <1>2, <1>3, InOthers

-----------------------------------------------------------------------------
(* The lock.                                                               *)

LEMMA HeldOther ==
  ASSUME NEW u, stack'[u] = stack[u]
  PROVE  Held(u)' = Held(u)
BY OtherThread DEF Held

LEMMA HeldStep ==
  ASSUME Locked, NEW t \in Threads, NEW n, Moved(t, n), Held(t)' = Held(t),
         UNCHANGED lock
  PROVE  Locked'
<1>1. \A u \in Threads : Held(u)' = Held(u)
  BY HeldOther DEF Moved
<1>2. QED
  BY <1>1 DEF Locked

LEMMA TurnHeld ==
  ASSUME Stacks, NEW t \in Threads, NEW n, NEW a, NEW b, Turn(t, n, a, b)
  PROVE  Held(t)' = (Held(t) \ {n}) \cup (IF Active(b) THEN {n} ELSE {})
<1>1. /\ n \in Nat \ {0} /\ Depth(t) = n /\ Depth(t)' = n /\ F(t, n)' = b
      /\ \A d \in 1 .. n : d < n => F(t, d)' = F(t, d)
  BY DEF Turn, Moved
<1>2. ASSUME NEW d \in 1 .. n
      PROVE  d \in Held(t)' <=> d \in (Held(t) \ {n}) \cup (IF Active(b) THEN {n} ELSE {})
  <2>1. d \in Held(t)' <=> Active(F(t, d)')
    BY <1>1 DEF Held, Active
  <2>2. d \in Held(t) <=> Active(F(t, d))
    BY <1>1 DEF Held
  <2>3. QED
    BY <1>1, <2>1, <2>2
<1>3. Held(t)' \subseteq 1 .. n /\ Held(t) \subseteq 1 .. n /\ n \in 1 .. n
  BY <1>1 DEF Held
<1>4. QED
  BY <1>2, <1>3

LEMMA TurnLocked ==
  ASSUME Stacks, Locked, NEW t \in Threads, NEW n, NEW a, NEW b, Turn(t, n, a, b),
         Active(a) <=> Active(b), UNCHANGED lock
  PROVE  Locked'
<1>1. n \in Held(t) <=> Active(a)
  BY TopActive DEF Turn, Held
<1>2. Held(t)' = Held(t)
  BY <1>1, TurnHeld
<1>3. QED
  BY <1>2, HeldStep DEF Turn

LEMMA EntersLocked ==
  ASSUME Stacks, Locked, NEW t \in Threads, NEW n, NEW a, NEW b, NEW c,
         Enters(t, n, a, b, c), Active(a) <=> Active(b), UNCHANGED lock
  PROVE  Locked'
<1>1. /\ n \in Nat \ {0} /\ Depth(t) = n /\ Depth(t)' = n + 1 /\ F(t, n) = a
      /\ F(t, n)' = b /\ F(t, n + 1)' = c /\ ~ Active(c) /\ Moved(t, n + 1)
      /\ \A d \in 1 .. n + 1 : d < n => F(t, d)' = F(t, d)
  BY DEF Enters, Moved, Called, Active
<1>2. ASSUME NEW d \in 1 .. n + 1 PROVE d \in Held(t)' <=> d \in Held(t)
  <2>1. d \in Held(t)' <=> Active(F(t, d)')
    BY <1>1 DEF Held, Active
  <2>2. d \in Held(t) <=> d \in 1 .. n /\ Active(F(t, d))
    BY <1>1 DEF Held
  <2>3. CASE d = n + 1
    BY <1>1, <2>1, <2>2, <2>3
  <2>4. CASE d = n
    BY <1>1, <2>1, <2>2, <2>4
  <2>5. CASE d < n
    BY <1>1, <2>1, <2>2, <2>5
  <2>6. QED
    BY <1>1, <2>3, <2>4, <2>5
<1>3. Held(t)' \subseteq 1 .. n + 1 /\ Held(t) \subseteq 1 .. n + 1
  BY <1>1 DEF Held
<1>4. Held(t)' = Held(t)
  BY <1>2, <1>3
<1>5. QED
  BY <1>1, <1>4, HeldStep

LEMMA PopsHeld ==
  ASSUME Stacks, NEW t \in Threads, NEW n, NEW a, Pops(t, n, a)
  PROVE  Held(t)' = Held(t) \ {n}
<1>1. /\ n \in Nat \ {0} /\ Depth(t) = n /\ Depth(t)' = n - 1
      /\ \A d \in 1 .. n - 1 : d < n => F(t, d)' = F(t, d)
  BY DEF Pops, Moved
<1>2. ASSUME NEW d \in 1 .. n PROVE d \in Held(t)' <=> d \in Held(t) \ {n}
  <2>1. d \in Held(t)' <=> d \in 1 .. n - 1 /\ Active(F(t, d)')
    BY <1>1 DEF Held, Active
  <2>2. d \in Held(t) <=> Active(F(t, d))
    BY <1>1 DEF Held
  <2>3. d \in 1 .. n - 1 <=> d # n
    BY <1>1
  <2>4. QED
    BY <1>1, <2>1, <2>2, <2>3
<1>3. Held(t)' \subseteq 1 .. n /\ Held(t) \subseteq 1 .. n
  <2>1. \A d \in 1 .. n - 1 : d \in 1 .. n
    BY <1>1
  <2>2. QED
    BY <1>1, <2>1 DEF Held
<1>4. QED
  BY <1>2, <1>3

LEMMA PopsLocked ==
  ASSUME Stacks, Locked, NEW t \in Threads, NEW n, NEW a, Pops(t, n, a), ~ Active(a),
         UNCHANGED lock
  PROVE  Locked'
<1>1. n \notin Held(t)
  BY DEF Pops, Held
<1>2. QED
  BY <1>1, PopsHeld, HeldStep DEF Pops

LEMMA StartsLocked ==
  ASSUME Stacks, Locked, NEW t \in Threads, NEW a, Starts(t, a), ~ Active(a),
         UNCHANGED lock
  PROVE  Locked'
<1>1. Depth(t) = 0 /\ Depth(t)' = 1 /\ F(t, 1)' = a
  BY DEF Starts, Moved
<1>2. Held(t) = {} /\ Held(t)' = {}
  BY <1>1 DEF Held, Active
<1>3. QED
  BY <1>2, HeldStep DEF Starts

LEMMA StartsCallLocked ==
  ASSUME Stacks, Locked, NEW t \in Threads, NEW a, NEW c, StartsCall(t, a, c),
         UNCHANGED lock
  PROVE  Locked'
<1>1. Depth(t) = 0 /\ Depth(t)' = 2 /\ F(t, 1)' = a /\ F(t, 2)' = c
  BY DEF StartsCall, Moved
<1>2. ~ Active(a) /\ ~ Active(c)
  BY DEF StartsCall, Called, Active
<1>3. \A d \in 1 .. 2 : d = 1 \/ d = 2
  OBVIOUS
<1>4. Held(t) = {} /\ Held(t)' = {}
  BY <1>1, <1>2, <1>3 DEF Held, Active
<1>5. QED
  BY <1>4, HeldStep DEF StartsCall

LEMMA HeldFinite ==
  ASSUME Stacks, NEW t \in Threads
  PROVE  IsFiniteSet(Held(t)) /\ Cardinality(Held(t)) \in Nat
<1>1. IsFiniteSet(1 .. Depth(t))
  BY DepthType, FS_Interval
<1>2. Held(t) \subseteq 1 .. Depth(t)
  BY DEF Held
<1>3. QED
  BY <1>1, <1>2, FS_Subset, FS_CardinalityType

LEMMA AcquireLocked ==
  ASSUME Stacks, Locked, NEW t \in Threads, NEW n, NEW a, NEW b, Turn(t, n, a, b),
         ~ Active(a), Active(b), lock.owner \subseteq {t},
         lock' = [owner |-> {t}, depth |-> lock.depth + 1]
  PROVE  Locked'
<1>1. n \notin Held(t) /\ Held(t)' = Held(t) \cup {n}
  BY TurnHeld DEF Turn, Held
<1>2. /\ lock.depth = Cardinality(Held(t))
      /\ IsFiniteSet(Held(t))
  <2>1. CASE lock.owner = {}
    <3>1. Held(t) = {} /\ lock.depth = 0
      BY <2>1 DEF Locked
    <3>2. QED
      BY <3>1, FS_EmptySet
  <2>2. CASE lock.owner = {t}
    BY <2>2, HeldFinite DEF Locked
  <2>3. QED
    BY <2>1, <2>2
<1>3. Cardinality(Held(t)') = lock.depth + 1
  <2>1. Cardinality(Held(t) \cup {n}) = Cardinality(Held(t)) + 1
    BY <1>1, <1>2, FS_AddElement
  <2>2. QED
    BY <1>1, <1>2, <2>1
<1>4. \A u \in Threads : u # t => Held(u)' = Held(u) /\ Held(u) = {}
  <2>1. ASSUME NEW u \in Threads, u # t PROVE Held(u)' = Held(u) /\ Held(u) = {}
    <3>1. Held(u)' = Held(u)
      BY <2>1, HeldOther DEF Turn, Moved
    <3>2. lock.owner # {u}
      BY <2>1
    <3>3. QED
      BY <3>1, <3>2 DEF Locked
  <2>2. QED
    BY <2>1
<1>5. lock'.owner = {t} /\ lock'.depth = lock.depth + 1 /\ lock.depth \in Nat
  BY DEF Locked
<1>6. lock' \in [owner : SUBSET Threads, depth : Nat]
  BY <1>5
<1>7. QED
  BY <1>1, <1>3, <1>4, <1>5, <1>6 DEF Locked

LEMMA LeaveLocked ==
  ASSUME Stacks, Locked, NEW t \in Threads, NEW n, NEW a, Pops(t, n, a), Active(a),
         lock' = Release(t)
  PROVE  Locked'
<1>1. n \in Held(t) /\ Held(t)' = Held(t) \ {n}
  BY PopsHeld, TopActive DEF Pops
<1>2. /\ lock.owner = {t} /\ lock.depth = Cardinality(Held(t))
      /\ IsFiniteSet(Held(t)) /\ lock.depth \in Nat
  BY <1>1, HeldFinite DEF Locked
<1>3. Cardinality(Held(t)') = lock.depth - 1 /\ IsFiniteSet(Held(t)')
  BY <1>1, <1>2, FS_RemoveElement
<1>4. Held(t)' = {} <=> lock.depth = 1
  <2>1. Cardinality(Held(t)') = 0 <=> Held(t)' = {}
    BY <1>3, FS_EmptySet
  <2>2. QED
    BY <1>2, <1>3, <2>1
<1>5. \A u \in Threads : u # t => Held(u)' = Held(u) /\ Held(u) = {}
  <2>1. ASSUME NEW u \in Threads, u # t PROVE Held(u)' = Held(u) /\ Held(u) = {}
    <3>1. Held(u)' = Held(u)
      BY <2>1, HeldOther DEF Pops, Moved
    <3>2. lock.owner # {u}
      BY <1>2, <2>1
    <3>3. QED
      BY <3>1, <3>2 DEF Locked
  <2>2. QED
    BY <2>1
<1>6. /\ lock'.owner = (IF lock.depth = 1 THEN {} ELSE {t}) /\ lock'.depth = lock.depth - 1
      /\ lock' = [owner |-> lock'.owner, depth |-> lock'.depth]
  BY <1>2 DEF Release
<1>7. lock.depth - 1 \in Nat
  <2>1. lock.depth # 0
    BY <1>1, <1>2, FS_EmptySet
  <2>2. QED
    BY <1>2, <2>1
<1>8. lock' \in [owner : SUBSET Threads, depth : Nat]
  BY <1>6, <1>7
<1>9. \A u \in Threads : Held(u)' # {} => lock'.owner = {u}
  BY <1>4, <1>5, <1>6
<1>10. \A u \in lock'.owner : lock'.depth = Cardinality(Held(u)') /\ Held(u)' # {}
  BY <1>3, <1>4, <1>6
<1>11. lock'.owner = {} => lock'.depth = 0
  BY <1>2, <1>6
<1>12. QED
  BY <1>8, <1>9, <1>10, <1>11 DEF Locked

-----------------------------------------------------------------------------
(* What each part of the invariant asks of the activations a step replaces. *)

LEMMA WorksStep ==
  ASSUME Works, NEW t, NEW old, NEW new, Moves(t, old, new), UNCHANGED overloads,
         \A x \in new : WorkOK(x)
  PROVE  Works'
BY DEF Works, WorkOK, Working, Made, At, Moves

LEMMA RunsStep ==
  ASSUME Runs, NEW t, NEW old, NEW new, Moves(t, old, new), \A x \in new : RunOK(x)
  PROVE  Runs'
BY DEF Runs, Moves

LEMMA UsesStep ==
  ASSUME Uses, NEW t, NEW old, NEW new, Moves(t, old, new), UNCHANGED overloads,
         \A x \in new : UsedOK(x)
  PROVE  Uses'
<1>1. \A f, s : Usable(f, s)' = Usable(f, s)
  BY DEF Usable, NoPython
<1>2. \A x : UsedOK(x)' <=> UsedOK(x)
  BY <1>1 DEF UsedOK
<1>3. QED
  BY <1>2 DEF Uses, Moves

LEMMA CountersStep ==
  ASSUME Counters, NEW t, NEW old, NEW new, Moves(t, old, new), UNCHANGED counter,
         \A f \in Funcs : (\E x \in new : Counts(x, f)) <=> (\E x \in old : Counts(x, f)),
         \A x \in new : x.op = "compile" /\ x.pc \in {"lock", "check"} => ~ x.counted
  PROVE  Counters'
<1>1. \A f \in Funcs : (\E x \in Acts' : Counts(x, f)) <=> (\E x \in Acts : Counts(x, f))
  BY DEF Moves
<1>2. \A x \in Acts' : x.op = "compile" /\ x.pc \in {"lock", "check"} => ~ x.counted
  BY DEF Counters, Moves
<1>3. \A f \in Funcs : counter'[f] = IF \E a \in Acts' : Counts(a, f) THEN 1 ELSE 0
  BY <1>1 DEF Counters
<1>4. QED
  BY <1>2, <1>3 DEF Counters, Counts

(* Neither resets the overloads nor is about to file one.                  *)
Idle(x) == ~ (x.op = "recompile" /\ x.pc = "reset") /\ ~ (x.op = "compile" /\ x.pc = "own")

LEMMA TablesStep ==
  ASSUME Tables, NEW t, NEW old, NEW new, Moves(t, old, new),
         UNCHANGED <<overloads, table, fallbackdef>>, \A x \in old \cup new : Idle(x)
  PROVE  Tables'
<1>1. \A f : Resetting(f)' <=> Resetting(f)
  BY DEF Resetting, Resets, Moves, Idle
<1>2. \A f, r : Owning(f, r)' <=> Owning(f, r)
  BY DEF Owning, Owns, Moves, Idle
<1>3. QED
  BY <1>1, <1>2 DEF Tables

LEMMA DefnsStep ==
  ASSUME Defns, NEW t, NEW old, NEW new, Moves(t, old, new), UNCHANGED <<overloads, defns>>,
         \A x \in old \cup new : ~ (x.op = "recompile" /\ x.pc = "reset"),
         \A r \in Result : (\E x \in new : Made(x) /\ r \in x.res)
                             <=> (\E x \in old : Made(x) /\ r \in x.res)
  PROVE  Defns'
<1>1. \A f : Resetting(f)' <=> Resetting(f)
  BY DEF Resetting, Resets, Moves
<1>2. \A r \in Result : (\E x \in Acts' : Made(x) /\ r \in x.res)
                          <=> (\E x \in Acts : Made(x) /\ r \in x.res)
  BY DEF Moves
<1>3. \A r \in Result : Pending(r)' <=> Pending(r)
  BY <1>2 DEF Pending, Made
<1>4. QED
  BY <1>1, <1>3 DEF Defns

LEMMA FlagsStep ==
  ASSUME Flags, NEW t, NEW old, NEW new, Moves(t, old, new), UNCHANGED <<canCompile, wanted>>,
         \A x \in new : x.op = "recompile" =>
           \E y \in old : y.op = "recompile" /\ y.f = x.f /\ y.flag = x.flag,
         \A y \in old : y.op = "recompile" =>
           \E x \in new : x.op = "recompile" /\ y.f = x.f
  PROVE  Flags'
<1>1. \A x \in Acts' : x.op = "recompile" => x.flag = wanted'[x.f]
  <2>1. ASSUME NEW x \in Acts', x.op = "recompile"
        PROVE  \E y \in Acts : y.op = "recompile" /\ y.f = x.f /\ y.flag = x.flag
    BY <2>1 DEF Moves
  <2>2. QED
    BY <2>1 DEF Flags
<1>2. ASSUME NEW f \in Funcs, \A x \in Acts' : ~ Recompiles(x, f)
      PROVE  canCompile'[f] = wanted'[f]
  <2>1. \A y \in Acts : ~ Recompiles(y, f)
    BY <1>2 DEF Moves, Recompiles
  <2>2. QED
    BY <2>1 DEF Flags
<1>3. QED
  BY <1>1, <1>2 DEF Flags, Recompiles

LEMMA NewerStep ==
  ASSUME NEW t, NEW old, NEW new, Moves(t, old, new), UNCHANGED <<overloads, disk>>,
         NEW f, NEW g, Newer(f, g), \A x \in new : NewerOf(x, f, g)
  PROVE  Newer(f, g)'
BY DEF Newer, NewerOf, Moves

LEMMA RenewsStep ==
  ASSUME Renews, NEW t, NEW old, NEW new, Moves(t, old, new), Stacks,
         renewed \in [Funcs -> Nat],
         UNCHANGED <<overloads, disk, renewed, glob>>,
         \A f \in Funcs, g \in Nat :
           Newer(f, g) /\ g <= glob => \A x \in new : NewerOf(x, f, g),
         \A x \in new : x.op = "recompile" =>
           \E y \in old : y.op = "recompile" /\ y.f = x.f /\ y.g = x.g /\ y.pc = x.pc
  PROVE  Renews'
<1>1. \A f \in Funcs, g \in Nat : Newer(f, g) /\ g <= glob => Newer(f, g)'
  BY NewerStep
<1>2. ASSUME NEW f \in Funcs, NEW g \in Nat, g = renewed'[f]
      PROVE  g <= glob' /\ Newer(f, g)'
  <2>1. g = renewed[f]
    BY <1>2
  <2>2. g <= glob /\ Newer(f, g)
    BY <2>1 DEF Renews
  <2>3. QED
    BY <1>1, <2>2
<1>3. ASSUME NEW x \in Acts', x.op = "recompile"
      PROVE  x.g <= glob' /\ (x.pc = "each" => Newer(x.f, x.g)')
  <2>1. PICK y \in Acts : y.op = "recompile" /\ y.f = x.f /\ y.g = x.g /\ y.pc = x.pc
    BY <1>3 DEF Moves
  <2>2. y.f \in Funcs /\ y.g \in Nat
    BY ActsType DEF Activation
  <2>3. y.g <= glob /\ (y.pc = "each" => Newer(y.f, y.g))
    BY <2>1 DEF Renews
  <2>4. QED
    BY <1>1, <2>1, <2>2, <2>3
<1>4. QED
  BY <1>2, <1>3 DEF Renews

LEMMA AnsweredStep ==
  ASSUME Stacks, Answered, NEW t \in Threads, NEW n, Moved(t, n),
         \A u \in Threads : u # t => answer'[u] = answer[u],
         answer'[t].kind \notin InternalErrors,
         n # 0 /\ answer'[t].kind = "ok" /\ Takes(F(t, n)') =>
           \A r \in answer'[t].res : AnswerFor(F(t, n)', r)
  PROVE  Answered'
<1>1. Depth(t)' = n /\ (stack'[t] = <<>> <=> n = 0)
  <2>1. Depth(t)' = n /\ stack'[t] \in Seq(Activation)
    BY DEF Moved, Stacks
  <2>2. Len(stack'[t]) = 0 <=> stack'[t] = <<>>
    BY <2>1
  <2>3. QED
    BY <2>1, <2>2 DEF Depth
<1>2. ASSUME NEW u \in Threads, u # t
      PROVE  /\ answer'[u].kind \notin InternalErrors
             /\ stack'[u] # <<>> /\ answer'[u].kind = "ok" /\ Takes(F(u, Depth(u))') =>
                  \A r \in answer'[u].res : AnswerFor(F(u, Depth(u))', r)
  <2>1. stack'[u] = stack[u] /\ answer'[u] = answer[u]
    BY <1>2 DEF Moved
  <2>2. F(u, Depth(u))' = F(u, Depth(u))
    BY <2>1 DEF F, Depth
  <2>3. QED
    BY <2>1, <2>2 DEF Answered
<1>3. F(t, Depth(t))' = F(t, n)'
  BY <1>1 DEF F
<1>4. QED
  BY <1>1, <1>2, <1>3 DEF Answered, Takes, AnswerFor

LEMMA LonelyStep ==
  ASSUME Stacks, Lonely, NEW t \in Threads, NEW n, Moved(t, n), stack[t] # <<>>,
         \A d \in 1 .. n : d >= Depth(t) /\ F(t, d)'.op = "recompile" =>
           F(t, Depth(t)).op = "recompile"
  PROVE  Lonely'
<1>1. Depth(t) \in Nat /\ Depth(t) \in 1 .. Depth(t)
  BY DepthType
<1>2. ASSUME NEW u \in Threads, u # t, NEW d \in 1 .. Depth(u)', F(u, d)'.op = "recompile"
      PROVE  FALSE
  <2>1. Depth(u)' = Depth(u) /\ F(u, d)' = F(u, d)
    BY <1>2, OtherThread DEF Moved
  <2>2. QED
    BY <1>2, <2>1 DEF Lonely
<1>3. ASSUME NEW d \in 1 .. Depth(t)', F(t, d)'.op = "recompile"
      PROVE  \E e \in 1 .. Depth(t) : F(t, e).op = "recompile"
  <2>1. Depth(t)' = n /\ n \in Nat
    BY DEF Moved
  <2>2. CASE d >= Depth(t)
    BY <1>1, <1>3, <2>1, <2>2
  <2>3. CASE d < Depth(t)
    BY <1>3, <2>1, <2>3, Below
  <2>4. QED
    BY <1>1, <2>1, <2>2, <2>3
<1>4. (\E e \in 1 .. Depth(t) : F(t, e).op = "recompile") =>
        \A u \in Threads : u # t => stack'[u] = <<>>
  BY DEF Lonely, Moved
<1>5. QED
  BY <1>2, <1>3, <1>4 DEF Lonely

-----------------------------------------------------------------------------
(* Steps that leave the overloads, the tables and the flags alone.         *)

LEMMA TopFacts ==
  ASSUME Inv, NEW t \in Threads, stack[t] # <<>>, NEW n, n = Depth(t), NEW a, a = Top(t)
  PROVE  /\ Stacks /\ n \in Nat \ {0} /\ n \in 1 .. n /\ a = F(t, n) /\ a \in Activation
         /\ a \in Acts /\ ShapeOf(a) /\ WorkOK(a) /\ UsedOK(a) /\ RunOK(a)
<1>1. Stacks
  BY DEF Inv, Stack, Types
<1>2. n \in Nat \ {0} /\ a = F(t, n) /\ a \in Activation
  BY <1>1, DepthType
<1>3. n \in 1 .. n
  BY <1>2
<1>4. a \in Acts
  BY <1>2, <1>3, InActs
<1>5. ShapeOf(a)
  BY <1>2, <1>3, ShapeIs DEF ShapeAt, Inv, Stack
<1>6. WorkOK(a) /\ UsedOK(a) /\ RunOK(a)
  BY <1>4 DEF Inv, Code, Works, Uses, Runs
<1>7. QED
  BY <1>1, <1>2, <1>3, <1>4, <1>5, <1>6

LEMMA GotoTurn ==
  ASSUME Inv, NEW t \in Threads, stack[t] # <<>>, NEW n, n = Depth(t), NEW a, a = Top(t),
         NEW b \in Activation, b.op = a.op, b.f = a.f, b.s = a.s, Goto(t, b)
  PROVE  Turn(t, n, a, b)
BY TopFacts, GotoMoves DEF Turn

LEMMA PopPops ==
  ASSUME Inv, NEW t \in Threads, stack[t] # <<>>, NEW n, n = Depth(t), NEW a, a = Top(t),
         Pop(t)
  PROVE  Pops(t, n, a)
BY TopFacts, PopMoves DEF Pops

LEMMA EnterEnters ==
  ASSUME Inv, NEW t \in Threads, stack[t] # <<>>, NEW n, n = Depth(t), NEW a, a = Top(t),
         NEW b \in Activation, Waiting(b), b.op = a.op, b.f = a.f, b.s = a.s,
         NEW c, Called(c), Enter(t, b, c)
  PROVE  Enters(t, n, a, b, c)
BY TopFacts, EnterMoves DEF Enters, Called

Plain ==
  UNCHANGED <<overloads, table, fallbackdef, canCompile, defns, disk, glob, renewed, wanted>>
Sound(x) == WorkOK(x) /\ UsedOK(x) /\ RunOK(x) /\ Idle(x)
NewerOK(x) == \A f \in Funcs, g \in Nat : Newer(f, g) /\ g <= glob => NewerOf(x, f, g)
SameMade(old, new) ==
  \A r \in Result : (\E x \in new : Made(x) /\ r \in x.res)
                      <=> (\E x \in old : Made(x) /\ r \in x.res)
SameRecompile(old, new) ==
  /\ \A x \in new : x.op = "recompile" =>
       \E y \in old : y.op = "recompile" /\ y.f = x.f /\ y.flag = x.flag /\ y.g = x.g
                      /\ y.pc = x.pc
  /\ \A y \in old : y.op = "recompile" => \E x \in new : x.op = "recompile" /\ y.f = x.f
Heard(t, n) ==
  /\ \A u \in Threads : u # t => answer'[u] = answer[u]
  /\ answer'[t].kind \notin InternalErrors
  /\ n # 0 /\ answer'[t].kind = "ok" /\ Takes(F(t, n)') =>
       \A r \in answer'[t].res : AnswerFor(F(t, n)', r)

LEMMA PlainStep ==
  ASSUME Inv, NEW t \in Threads, NEW n, Moved(t, n), NEW old, NEW new, Moves(t, old, new),
         Plain, \A x \in new : Sound(x) /\ NewerOK(x), \A x \in old : Idle(x),
         SameMade(old, new), SameRecompile(old, new), Heard(t, n)
  PROVE  Code' /\ Flags'
<1> USE DEF Inv, Stack, Sync, Code, Plain
<1>1. Works'
  BY WorksStep DEF Sound
<1>2. Runs'
  BY RunsStep DEF Sound
<1>3. Uses'
  BY UsesStep DEF Sound
<1>4. Tables'
  BY TablesStep DEF Sound
<1>5. Defns'
  <2>1. \A x \in old \cup new : ~ (x.op = "recompile" /\ x.pc = "reset")
    BY DEF Sound, Idle
  <2>2. QED
    BY <2>1, DefnsStep DEF SameMade
<1>6. Flags'
  <2>1. \A x \in new : x.op = "recompile" =>
           \E y \in old : y.op = "recompile" /\ y.f = x.f /\ y.flag = x.flag
    BY DEF SameRecompile
  <2>2. QED
    BY <2>1, FlagsStep DEF SameRecompile
<1>7. Renews'
  <2>1. \A f \in Funcs, g \in Nat :
          Newer(f, g) /\ g <= glob => \A x \in new : NewerOf(x, f, g)
    BY DEF NewerOK
  <2>2. \A x \in new : x.op = "recompile" =>
          \E y \in old : y.op = "recompile" /\ y.f = x.f /\ y.g = x.g /\ y.pc = x.pc
    BY DEF SameRecompile
  <2>3. Stacks /\ renewed \in [Funcs -> Nat]
    BY DEF Types
  <2>4. QED
    BY <2>1, <2>2, <2>3, RenewsStep
<1>8. Answered'
  BY AnsweredStep DEF Types, Heard
<1>9. QED
  BY <1>1, <1>2, <1>3, <1>4, <1>5, <1>6, <1>7, <1>8

(* A turn of a compilation.                                                *)
LEMMA TurnStep ==
  ASSUME Inv, NEW t \in Threads, NEW n, NEW a, NEW b, Turn(t, n, a, b), a.op = "compile",
         Plain, Types', Locked', Counters', ShapeOf(b), Sound(b), NewerOK(b), Idle(a),
         SameMade({a}, {b}),
         \A u \in Threads : u # t => answer'[u] = answer[u],
         answer'[t].kind \notin InternalErrors,
         answer'[t].kind = "ok" /\ Takes(b) => \A r \in answer'[t].res : AnswerFor(b, r)
  PROVE  Inv'
<1>1. /\ n \in Nat \ {0} /\ n = Depth(t) /\ a = F(t, n) /\ Moved(t, n) /\ F(t, n)' = b
      /\ b.op = "compile" /\ Stacks /\ Shape /\ Ranked /\ Lonely
  BY DEF Turn, Inv, Stack, Sync, Types
<1>2. Shape' /\ Ranked'
  BY <1>1, TurnShape
<1>3. Lonely'
  <2>1. \A d \in 1 .. n : d >= Depth(t) => d = n
    BY <1>1
  <2>2. stack[t] # <<>>
    BY <1>1, DepthType
  <2>3. QED
    BY <1>1, <2>1, <2>2, LonelyStep
<1>4. Moves(t, {a}, {b})
  BY <1>1, TurnMoves
<1>5. Heard(t, n)
  BY <1>1 DEF Heard
<1>6. SameRecompile({a}, {b})
  BY <1>1 DEF SameRecompile
<1>7. Code' /\ Flags'
  BY <1>1, <1>4, <1>5, <1>6, PlainStep
<1>8. QED
  BY <1>2, <1>3, <1>7 DEF Inv, Stack, Sync

LEMMA TurnCounters ==
  ASSUME Inv, NEW t \in Threads, NEW n, NEW a, NEW b, Turn(t, n, a, b), UNCHANGED counter,
         b.counted <=> a.counted, b.pc \in {"lock", "check"} => a.pc \in {"lock", "check"}
  PROVE  Counters'
<1>1. Moves(t, {a}, {b}) /\ b.op = a.op /\ b.f = a.f /\ a \in Acts /\ Counters
  <2>1. Stacks /\ Counters
    BY DEF Inv, Stack, Types, Sync
  <2>2. Moves(t, {a}, {b})
    BY <2>1, TurnMoves
  <2>3. QED
    BY <2>1, <2>2 DEF Turn, Moves
<1>2. a.op = "compile" /\ a.pc \in {"lock", "check"} => ~ a.counted
  BY <1>1 DEF Counters
<1>3. \A f \in Funcs : Counts(b, f) <=> Counts(a, f)
  BY <1>1 DEF Counts
<1>4. QED
  BY <1>1, <1>2, <1>3, CountersStep

(* Once it counts itself, a compilation is the only one that does.         *)
LEMMA CountedCounters ==
  ASSUME Inv, NEW t \in Threads, NEW n, NEW a, NEW b, Turn(t, n, a, b),
         a.op = "compile", a.pc = "check", b.counted, b.pc \notin {"lock", "check"},
         counter' = [counter EXCEPT ![a.f] = @ + 1]
  PROVE  Counters'
<1>1. /\ Moves(t, {a}, {b}) /\ b.op = "compile" /\ b.f = a.f /\ a \in Acts /\ Counters
      /\ n = Depth(t) /\ n # 0 /\ a = F(t, n) /\ Stacks /\ Shape /\ Ranked /\ Locked
  <2>1. Stacks /\ Counters /\ Shape /\ Ranked /\ Locked
    BY DEF Inv, Stack, Types, Sync
  <2>2. Moves(t, {a}, {b})
    BY <2>1, TurnMoves
  <2>3. QED
    BY <2>1, <2>2 DEF Turn, Moves
<1>2. \A x \in Acts : x.op = "compile" /\ x.pc \in {"lock", "check"} => ~ x.counted
  BY <1>1 DEF Counters
<1>3. ASSUME NEW x \in Others(t) PROVE ~ Counts(x, a.f)
  <2>1. Active(a)
    BY DEF Active
  <2>2. Active(x) => x.f # a.f
    BY <1>1, <2>1, OneCompiles
  <2>3. x \in Acts
    BY <1>1 DEF Moves
  <2>4. QED
    BY <1>2, <2>2, <2>3 DEF Active, Counts
<1>4. ~ \E x \in Acts : Counts(x, a.f)
  BY <1>1, <1>2, <1>3 DEF Moves, Counts
<1>5. a.f \in Funcs
  BY DEF Turn, Activation
<1>6. counter[a.f] = 0 /\ counter \in [Funcs -> Nat]
  BY <1>1, <1>4, <1>5 DEF Counters
<1>7. counter'[a.f] = 1 /\ counter' \in [Funcs -> Nat]
      /\ \A f \in Funcs : f # a.f => counter'[f] = counter[f]
  BY <1>5, <1>6
<1>8. Counts(b, a.f) /\ b \in Acts'
  BY <1>1 DEF Counts, Moves
<1>9. ASSUME NEW f \in Funcs, f # a.f
      PROVE  (\E x \in Acts' : Counts(x, f)) <=> (\E x \in Acts : Counts(x, f))
  BY <1>1, <1>9 DEF Counts, Moves
<1>10. \A x \in Acts' : x.op = "compile" /\ x.pc \in {"lock", "check"} => ~ x.counted
  BY <1>1, <1>2 DEF Moves
<1>11. ASSUME NEW f \in Funcs
       PROVE  counter'[f] = IF \E x \in Acts' : Counts(x, f) THEN 1 ELSE 0
  <2>1. CASE f = a.f
    BY <1>7, <1>8, <2>1
  <2>2. CASE f # a.f
    BY <1>1, <1>7, <1>9, <2>2 DEF Counters
  <2>3. QED
    BY <2>1, <2>2
<1>12. QED
  BY <1>7, <1>10, <1>11 DEF Counters, Counts

LEMMA LeaveCounters ==
  ASSUME Inv, NEW t \in Threads, NEW n, NEW a, Pops(t, n, a),
         a.op = "compile", a.pc = "leave",
         counter' = [counter EXCEPT ![a.f] = @ - (IF a.counted THEN 1 ELSE 0)]
  PROVE  Counters'
<1>1. /\ Moves(t, {a}, {}) /\ a \in Acts /\ Counters
      /\ n = Depth(t) /\ n # 0 /\ a = F(t, n) /\ Stacks /\ Shape /\ Ranked /\ Locked
  <2>1. Stacks /\ Counters /\ Shape /\ Ranked /\ Locked
    BY DEF Inv, Stack, Types, Sync
  <2>2. Moves(t, {a}, {})
    BY <2>1, PopsMoves
  <2>3. QED
    BY <2>1, <2>2 DEF Pops, Moves
<1>2. \A x \in Acts : x.op = "compile" /\ x.pc \in {"lock", "check"} => ~ x.counted
  BY <1>1 DEF Counters
<1>3. ASSUME NEW x \in Others(t) PROVE ~ Counts(x, a.f)
  <2>1. Active(a)
    BY DEF Active
  <2>2. Active(x) => x.f # a.f
    BY <1>1, <2>1, OneCompiles
  <2>3. x \in Acts
    BY <1>1 DEF Moves
  <2>4. QED
    BY <1>2, <2>2, <2>3 DEF Active, Counts
<1>4. a.f \in Funcs /\ a.counted \in BOOLEAN /\ counter \in [Funcs -> Nat]
  BY <1>1 DEF Pops, Activation, Counters
<1>5. ~ \E x \in Acts' : Counts(x, a.f)
  BY <1>1, <1>3 DEF Moves
<1>6. counter[a.f] = IF a.counted THEN 1 ELSE 0
  <2>1. (\E x \in Acts : Counts(x, a.f)) <=> a.counted
    BY <1>1, <1>3 DEF Moves, Counts
  <2>2. QED
    BY <1>1, <1>4, <2>1 DEF Counters
<1>7. counter'[a.f] = 0 /\ \A f \in Funcs : f # a.f => counter'[f] = counter[f]
  BY <1>4, <1>6
<1>8. counter' \in [Funcs -> Nat]
  BY <1>4, <1>6
<1>9. ASSUME NEW f \in Funcs, f # a.f
      PROVE  (\E x \in Acts' : Counts(x, f)) <=> (\E x \in Acts : Counts(x, f))
  BY <1>1, <1>9 DEF Counts, Moves
<1>10. \A x \in Acts' : x.op = "compile" /\ x.pc \in {"lock", "check"} => ~ x.counted
  BY <1>1, <1>2 DEF Moves
<1>11. ASSUME NEW f \in Funcs
       PROVE  counter'[f] = IF \E x \in Acts' : Counts(x, f) THEN 1 ELSE 0
  <2>1. CASE f = a.f
    BY <1>5, <1>7, <2>1
  <2>2. CASE f # a.f
    BY <1>1, <1>7, <1>9, <2>2 DEF Counters
  <2>3. QED
    BY <2>1, <2>2
<1>12. QED
  BY <1>8, <1>10, <1>11 DEF Counters, Counts

-----------------------------------------------------------------------------
(* The lock is taken and given back.                                       *)

LEMMA AcquireInv ==
  ASSUME Inv, NEW t \in Threads, Acquire(t) PROVE Inv'
<1>1. stack[t] # <<>> /\ Types /\ Locked
  BY DEF Acquire, In, Inv, Stack, Sync
<1>2. PICK n, a : n = Depth(t) /\ a = Top(t)
  OBVIOUS
<1> DEFINE b == [a EXCEPT !.pc = "check"]
<1>3. /\ a \in Activation /\ a.op = "compile" /\ a.pc = "lock" /\ ShapeOf(a)
      /\ a \in Acts
  BY <1>1, <1>2, TopFacts DEF Acquire, In
<1>4. /\ b \in Activation /\ b.op = a.op /\ b.pc = "check" /\ b.f = a.f /\ b.s = a.s
      /\ b.todo = a.todo /\ b.counted = a.counted
  BY <1>3 DEF Activation, Pcs
<1> HIDE DEF b
<1>5. Turn(t, n, a, b)
  BY <1>1, <1>2, <1>4, GotoTurn DEF Acquire, b
<1>6. Locked'
  BY <1>1, <1>3, <1>4, <1>5, AcquireLocked DEF Active, Acquire, Types
<1>7. Counters'
  BY <1>3, <1>4, <1>5, TurnCounters DEF Acquire
<1>8. Types'
  <2>1. Stacks'
    BY <1>5 DEF Turn, Moved
  <2>2. QED
    BY <1>1, <2>1 DEF Types, Acquire, objs, env
<1>9. ShapeOf(b) /\ Sound(b) /\ NewerOK(b) /\ Idle(a)
  BY <1>3, <1>4 DEF ShapeOf, Pcs, Sound, WorkOK, UsedOK, RunOK, Idle, NewerOK, NewerOf,
    Working, Made
<1>10. SameMade({a}, {b})
  BY <1>3, <1>4 DEF SameMade, Made
<1>11. Plain /\ answer' = answer /\ answer[t].kind \notin InternalErrors /\ ~ Takes(b)
  BY <1>3, <1>4 DEF Plain, Acquire, objs, env, Takes, Inv, Code, Answered
<1>12. QED
  BY <1>3, <1>5, <1>6, <1>7, <1>8, <1>9, <1>10, <1>11, TurnStep

LEMMA PopStep ==
  ASSUME Inv, NEW t \in Threads, NEW n, NEW a, Pops(t, n, a), a.op # "recompile",
         Idle(a), ~ Made(a), Plain, Types', Locked', Counters', UNCHANGED answer,
         n > 1 => ~ (answer[t].kind = "ok" /\ Takes(F(t, n - 1))) \/
           \A r \in answer[t].res : AnswerFor(F(t, n - 1), r)
  PROVE  Inv'
<1>1. /\ n \in Nat \ {0} /\ n = Depth(t) /\ a = F(t, n) /\ Moved(t, n - 1)
      /\ Stacks /\ Shape /\ Ranked /\ Lonely
  BY DEF Pops, Inv, Stack, Sync, Types
<1>2. Shape' /\ Ranked'
  BY <1>1, PopShape
<1>3. Lonely'
  <2>1. \A d \in 1 .. n - 1 : ~ (d >= Depth(t))
    BY <1>1
  <2>2. stack[t] # <<>>
    BY <1>1, DepthType
  <2>3. PICK m : m = n - 1
    OBVIOUS
  <2>4. Moved(t, m) /\ \A d \in 1 .. m : ~ (d >= Depth(t))
    BY <1>1, <2>1, <2>3
  <2>5. QED
    BY <1>1, <2>2, <2>4, LonelyStep
<1>4. Moves(t, {a}, {})
  BY <1>1, PopsMoves
<1>5. n > 1 => F(t, n - 1)' = F(t, n - 1)
  <2>1. n > 1 => n - 1 \in 1 .. n - 1 /\ n - 1 < Depth(t)
    BY <1>1
  <2>2. QED
    BY <1>1, <2>1 DEF Moved
<1>6. PICK m : m = n - 1
  OBVIOUS
<1>7. Moved(t, m) /\ Heard(t, m)
  <2>1. answer[t].kind \notin InternalErrors
    BY DEF Inv, Code, Answered
  <2>2. m # 0 => n > 1 /\ F(t, m)' = F(t, n - 1)'
    BY <1>1, <1>6
  <2>3. QED
    BY <1>1, <1>5, <1>6, <2>1, <2>2 DEF Heard, Takes, AnswerFor
<1>8. SameMade({a}, {}) /\ SameRecompile({a}, {})
  BY DEF SameMade, SameRecompile
<1>9. Code' /\ Flags'
  BY <1>4, <1>7, <1>8, PlainStep
<1>10. QED
  BY <1>2, <1>3, <1>9 DEF Inv, Stack, Sync

LEMMA LeaveInv ==
  ASSUME Inv, NEW t \in Threads, Leave(t) PROVE Inv'
<1>1. stack[t] # <<>> /\ Types /\ Locked /\ Shape /\ Answered
  BY DEF Leave, In, Inv, Stack, Sync, Code
<1>2. PICK n, a : n = Depth(t) /\ a = Top(t)
  OBVIOUS
<1>3. /\ a \in Activation /\ a.op = "compile" /\ a.pc = "leave" /\ a \in Acts /\ Stacks
      /\ n \in Nat \ {0} /\ a = F(t, n)
  BY <1>1, <1>2, TopFacts DEF Leave, In
<1>4. Pops(t, n, a)
  BY <1>1, <1>2, PopPops DEF Leave
<1>5. Locked'
  BY <1>1, <1>3, <1>4, LeaveLocked DEF Active, Leave
<1>6. Counters'
  BY <1>2, <1>3, <1>4, LeaveCounters DEF Leave
<1>7. Types'
  <2>1. Stacks'
    BY <1>4 DEF Pops, Moved
  <2>2. QED
    BY <1>1, <2>1 DEF Types, Leave, objs, env
<1>8. Idle(a) /\ ~ Made(a)
  BY <1>3 DEF Idle, Made
<1>9. ASSUME n > 1, answer[t].kind = "ok", Takes(F(t, n - 1))
      PROVE  \A r \in answer[t].res : AnswerFor(F(t, n - 1), r)
  <2>1. n - 1 \in 1 .. Depth(t) /\ n - 1 < Depth(t) /\ n = (n - 1) + 1 /\ n \in 1 .. Depth(t)
    BY <1>2, <1>3, <1>9
  <2>2. ShapeAt(t, n - 1)
    BY <1>1, <2>1, ShapeIs
  <2>3. Waiting(F(t, n - 1)) /\ Fitting(F(t, n - 1), a)
    BY <1>3, <2>1, <2>2 DEF ShapeAt
  <2>4. F(t, n - 1).op = "call"
    BY <1>9, <2>3 DEF Waiting, Takes
  <2>5. F(t, n - 1).f = a.f /\ F(t, n - 1).s = a.s
    BY <2>3, <2>4 DEF Fitting
  <2>6. Takes(a) /\ F(t, Depth(t)) = a
    BY <1>2, <1>3 DEF Takes
  <2>7. \A r \in answer[t].res : AnswerFor(a, r)
    BY <1>1, <1>9, <2>6 DEF Answered
  <2>8. QED
    BY <2>5, <2>7 DEF AnswerFor
<1>10. Plain /\ UNCHANGED answer
  BY DEF Plain, Leave, objs, env
<1>11. QED
  BY <1>3, <1>4, <1>5, <1>6, <1>7, <1>8, <1>9, <1>10, PopStep

-----------------------------------------------------------------------------
(* Compilation until there is an entry point.                              *)

(* A turn that makes entry point r, which the target knows from then on.   *)
LEMMA MakeStep ==
  ASSUME Inv, NEW t \in Threads, NEW n, NEW a, NEW b, Turn(t, n, a, b), a.op = "compile",
         ~ Made(a), NEW r \in Result, b.pc = "insert", b.res = {r}, r.f = a.f, r.s = a.s,
         b.counted, At(a.f, a.s) = {}, ShapeOf(b), NewerOK(b), Idle(a),
         Types', Locked', Counters',
         UNCHANGED <<overloads, table, fallbackdef, canCompile, disk, glob, renewed, wanted,
                     answer>>,
         defns' = defns \cup (IF r.obj THEN {} ELSE {r})
  PROVE  Inv'
<1>1. /\ n \in Nat \ {0} /\ n = Depth(t) /\ a = F(t, n) /\ Moved(t, n) /\ F(t, n)' = b
      /\ b.op = "compile" /\ b.f = a.f /\ b.s = a.s /\ Stacks /\ Shape /\ Ranked /\ Lonely
  BY DEF Turn, Inv, Stack, Sync, Types
<1>2. Shape' /\ Ranked'
  BY <1>1, TurnShape
<1>3. Lonely'
  <2>1. \A d \in 1 .. n : d >= Depth(t) => d = n
    BY <1>1
  <2>2. stack[t] # <<>>
    BY <1>1, DepthType
  <2>3. QED
    BY <1>1, <2>1, <2>2, LonelyStep
<1>4. Moves(t, {a}, {b})
  BY <1>1, TurnMoves
<1>5. WorkOK(b) /\ UsedOK(b) /\ RunOK(b) /\ Idle(b)
  BY <1>1 DEF WorkOK, UsedOK, RunOK, Idle, Made
<1> USE DEF Inv, Stack, Sync, Code
<1>6. Works' /\ Runs' /\ Uses'
  BY <1>4, <1>5, WorksStep, RunsStep, UsesStep
<1>7. Tables'
  BY <1>4, <1>5, TablesStep
<1>8. Flags'
  <2>1. \A x \in {b} : x.op # "recompile"
    BY <1>1
  <2>2. \A x \in {a} : x.op # "recompile"
    OBVIOUS
  <2>3. QED
    BY <1>4, <2>1, <2>2, FlagsStep
<1>9. Renews'
  <2>1. \A f \in Funcs, g \in Nat :
          Newer(f, g) /\ g <= glob => \A x \in {b} : NewerOf(x, f, g)
    BY DEF NewerOK
  <2>2. \A x \in {b} : x.op # "recompile"
    BY <1>1
  <2>3. renewed \in [Funcs -> Nat]
    BY DEF Types
  <2>4. QED
    BY <1>1, <1>4, <2>1, <2>2, <2>3, RenewsStep
<1>10. Answered'
  <2>1. ~ Takes(b)
    BY <1>1 DEF Takes
  <2>2. answer[t].kind \notin InternalErrors
    BY DEF Answered
  <2>3. QED
    BY <1>1, <2>1, <2>2, AnsweredStep
<1>11. Defns'
  <2>1. \A f : Resetting(f)' <=> Resetting(f)
    BY <1>1, <1>4, <1>5 DEF Resetting, Resets, Moves
  <2>2. ASSUME NEW q \in Result PROVE Pending(q)' <=> (Pending(q) \/ q = r)
    <3>1. Made(b) /\ ~ Made(a)
      BY <1>1 DEF Made
    <3>2. (\E x \in Acts' : Made(x) /\ q \in x.res)
            <=> ((\E x \in Acts : Made(x) /\ q \in x.res) \/ q = r)
      BY <1>4, <3>1 DEF Moves
    <3>3. QED
      BY <3>2 DEF Pending, Made
  <2>3. ASSUME NEW q \in Result
        PROVE  q \in defns' <=>
                 ~ q.obj /\ ((q \in overloads'[q.f] /\ ~ Resetting(q.f)') \/ Pending(q)')
    <3>1. q \in defns <=>
            ~ q.obj /\ ((q \in overloads[q.f] /\ ~ Resetting(q.f)) \/ Pending(q))
      BY DEF Defns
    <3>2. CASE q = r
      BY <2>2, <3>1, <3>2
    <3>3. CASE q # r
      BY <2>1, <2>2, <3>1, <3>3
    <3>4. QED
      BY <3>2, <3>3
  <2>4. QED
    BY <2>3 DEF Defns, Resetting, Pending, Resets
<1>12. QED
  BY <1>2, <1>3, <1>6, <1>7, <1>8, <1>9, <1>10, <1>11

(* What the fields of an activation and the types of an answer are.        *)
LEMMA FrameType ==
  ASSUME NEW a, a \in Activation
  PROVE  /\ a.f \in Funcs /\ a.s \in Sigs \cup {{}} /\ a.todo \subseteq Funcs \cup Sigs
         /\ a.g \in Nat /\ a.obj \in BOOLEAN /\ a.counted \in BOOLEAN
         /\ a.flag \in BOOLEAN /\ a.res \subseteq Result
BY DEF Activation

LEMMA AnswerType ==
  ASSUME answer \in [Threads -> [kind : Answers, res : SUBSET Result]],
         NEW t \in Threads, NEW v \in [kind : Answers, res : SUBSET Result], Answer(t, v)
  PROVE  /\ answer' \in [Threads -> [kind : Answers, res : SUBSET Result]]
         /\ answer'[t] = v /\ \A u \in Threads : u # t => answer'[u] = answer[u]
BY DEF Answer

LEMMA RaisedType ==
  ASSUME NEW k \in Answers
  PROVE  /\ Raised(k) \in [kind : Answers, res : SUBSET Result]
         /\ Raised(k).kind = k
BY DEF Raised

LEMMA ReturnedType ==
  ASSUME NEW r \in Result
  PROVE  /\ Returned(r) \in [kind : Answers, res : SUBSET Result]
         /\ Returned(r).kind = "ok" /\ Returned(r).res = {r}
BY DEF Returned, Answers

LEMMA NothingType ==
  Nothing \in [kind : Answers, res : SUBSET Result] /\ Nothing.kind = "none"
BY DEF Nothing, Answers

LEMMA CheckInv ==
  ASSUME Inv, NEW t \in Threads, Check(t) PROVE Inv'
<1>1. stack[t] # <<>> /\ Types /\ Locked /\ Answered
  BY DEF Check, In, Inv, Stack, Sync, Code
<1>2. PICK n, a : n = Depth(t) /\ a = Top(t)
  OBVIOUS
<1>3. /\ a \in Activation /\ a.op = "compile" /\ a.pc = "check" /\ a \in Acts /\ Stacks
      /\ n \in Nat \ {0} /\ a = F(t, n) /\ ShapeOf(a) /\ Idle(a) /\ ~ Made(a)
  BY <1>1, <1>2, TopFacts DEF Check, In, Idle, Made
<1>4. /\ a.f \in Funcs /\ a.s \in Sigs /\ a.todo \subseteq Callees[a.f]
  BY <1>3, FrameType DEF ShapeOf
<1>5. PICK on : on = [a EXCEPT !.counted = TRUE]
  OBVIOUS
<1>6. /\ on \in Activation /\ on.op = "compile" /\ on.pc = "check" /\ on.f = a.f
      /\ on.s = a.s /\ on.todo = a.todo /\ on.counted
  BY <1>3, <1>5 DEF Activation
<1>7. ASSUME NEW b, Turn(t, n, a, b), b.pc \notin {"lock", "check"}, b.op = "compile",
             \/ UNCHANGED counter /\ (b.counted <=> a.counted)
             \/ counter' = [counter EXCEPT ![a.f] = @ + 1] /\ b.counted
      PROVE  Locked' /\ Counters' /\ Stacks'
  <2>1. Locked'
    BY <1>1, <1>3, <1>7, TurnLocked DEF Active, Check
  <2>2. Counters'
    BY <1>3, <1>7, TurnCounters, CountedCounters
  <2>3. QED
    BY <1>7, <2>1, <2>2 DEF Turn, Moved
<1>8. ASSUME NEW b, Turn(t, n, a, b), b.op = "compile", b.pc = "leave", ShapeOf(b),
             UNCHANGED <<defns, made>>, Locked', Counters', Stacks',
             NEW v \in [kind : Answers, res : SUBSET Result], Answer(t, v),
             v.kind \notin InternalErrors,
             v.kind = "ok" => \A r \in v.res : AnswerFor(b, r)
      PROVE  Inv'
  <2>1. Types' /\ answer'[t] = v /\ \A u \in Threads : u # t => answer'[u] = answer[u]
    BY <1>1, <1>8, AnswerType DEF Types, Check
  <2>2. Plain
    BY <1>8 DEF Plain, Check
  <2>3. Sound(b) /\ NewerOK(b) /\ SameMade({a}, {b})
    BY <1>3, <1>8 DEF Sound, WorkOK, UsedOK, RunOK, Idle, NewerOK, NewerOf, SameMade, Made,
      Working
  <2>4. QED
    BY <1>3, <1>8, <2>1, <2>2, <2>3, TurnStep
<1>9. CASE ~ canCompile[a.f] /\ a.f \notin Lifted
  <2>1. PICK b : b = [a EXCEPT !.pc = "leave"]
    OBVIOUS
  <2>2. /\ b \in Activation /\ b.op = "compile" /\ b.pc = "leave" /\ b.f = a.f /\ b.s = a.s
        /\ b.todo = a.todo /\ b.counted = a.counted
    BY <1>3, <2>1 DEF Activation, Pcs
  <2>3. /\ Goto(t, b) /\ Answer(t, Raised("disabled")) /\ UNCHANGED <<counter, defns, made>>
    BY <1>2, <1>9, <2>1 DEF Check
  <2>4. Turn(t, n, a, b)
    BY <1>1, <1>2, <1>3, <2>2, <2>3, GotoTurn
  <2>5. ShapeOf(b)
    BY <1>3, <1>4, <2>2 DEF ShapeOf, Pcs
  <2>6. Locked' /\ Counters' /\ Stacks'
    BY <1>7, <2>2, <2>3, <2>4
  <2>7. "disabled" \in Answers
    BY DEF Answers
  <2>8. QED
    BY <1>8, <2>2, <2>3, <2>4, <2>5, <2>6, <2>7, RaisedType
<1>10. CASE ~ (~ canCompile[a.f] /\ a.f \notin Lifted)
  <2> DEFINE saved == {d \in disk[a.f] : d[1] = a.s}
  <2>1. /\ counter' = [counter EXCEPT ![a.f] = @ + 1]
        /\ \/ /\ At(a.f, a.s) # {}
              /\ \E r \in At(a.f, a.s) : Answer(t, Returned(r))
              /\ Goto(t, [on EXCEPT !.pc = "leave"]) /\ UNCHANGED <<defns, made>>
           \/ /\ At(a.f, a.s) = {} /\ saved # {}
              /\ made' = made + 1
              /\ \E d \in saved :
                   LET r == [id |-> made + 1, f |-> a.f, s |-> a.s, g |-> d[2],
                             obj |-> a.f \in ObjMode]
                   IN /\ defns' = defns \cup (IF r.obj THEN {} ELSE {r})
                      /\ Goto(t, [on EXCEPT !.pc = "insert", !.res = {r}])
              /\ UNCHANGED answer
           \/ /\ At(a.f, a.s) = {} /\ saved = {} /\ a.s \in failed[a.f]
              /\ Goto(t, [on EXCEPT !.pc = "leave"]) /\ Answer(t, Raised("typing"))
              /\ UNCHANGED <<defns, made>>
           \/ /\ At(a.f, a.s) = {} /\ saved = {} /\ a.s \notin failed[a.f]
              /\ Goto(t, [on EXCEPT !.pc = "type", !.todo = Callees[a.f], !.g = glob,
                                    !.obj = a.f \in ObjMode])
              /\ UNCHANGED <<answer, defns, made>>
    BY <1>2, <1>5, <1>10 DEF Check, Existing
  <2> HIDE DEF saved
  <2>2. CASE Goto(t, [on EXCEPT !.pc = "leave"]) /\ UNCHANGED <<defns, made>>
             /\ (\/ \E r \in At(a.f, a.s) : Answer(t, Returned(r))
                 \/ Answer(t, Raised("typing")))
    <3>1. PICK b : b = [on EXCEPT !.pc = "leave"]
      OBVIOUS
    <3>2. /\ b \in Activation /\ b.op = "compile" /\ b.pc = "leave" /\ b.f = a.f
          /\ b.s = a.s /\ b.todo = a.todo /\ b.counted
      BY <1>6, <3>1 DEF Activation, Pcs
    <3>3. Goto(t, b)
      BY <2>2, <3>1
    <3>4. Turn(t, n, a, b)
      BY <1>1, <1>2, <1>3, <3>2, <3>3, GotoTurn
    <3>5. ShapeOf(b)
      BY <1>3, <1>4, <3>2 DEF ShapeOf, Pcs
    <3>6. Locked' /\ Counters' /\ Stacks'
      BY <1>7, <2>1, <3>2, <3>4
    <3>7. CASE \E r \in At(a.f, a.s) : Answer(t, Returned(r))
      <4>1. PICK r \in At(a.f, a.s) : Answer(t, Returned(r))
        BY <3>7
      <4>2. r \in overloads[a.f] /\ r.s = a.s /\ r \in Result
        BY <1>1, <1>4 DEF At, Types
      <4>3. AnswerFor(b, r)
        BY <1>4, <3>2, <4>2 DEF AnswerFor, Inv, Code, Tables
      <4>4. /\ Returned(r) \in [kind : Answers, res : SUBSET Result]
            /\ Returned(r).kind = "ok" /\ Returned(r).res = {r}
        BY <4>2, ReturnedType
      <4>5. PICK v : v = Returned(r)
        OBVIOUS
      <4>6. /\ v \in [kind : Answers, res : SUBSET Result] /\ Answer(t, v)
            /\ v.kind \notin InternalErrors /\ \A q \in v.res : AnswerFor(b, q)
        BY <4>1, <4>3, <4>4, <4>5
      <4>7. QED
        BY <1>8, <2>2, <3>2, <3>4, <3>5, <3>6, <4>6
    <3>8. CASE Answer(t, Raised("typing"))
      <4>1. "typing" \in Answers
        BY DEF Answers
      <4>2. QED
        BY <1>8, <2>2, <3>2, <3>4, <3>5, <3>6, <3>8, <4>1, RaisedType
    <3>9. QED
      BY <2>2, <3>7, <3>8
  <2>3. CASE /\ At(a.f, a.s) = {} /\ made' = made + 1
             /\ \E d \in saved :
                  LET r == [id |-> made + 1, f |-> a.f, s |-> a.s, g |-> d[2],
                            obj |-> a.f \in ObjMode]
                  IN /\ defns' = defns \cup (IF r.obj THEN {} ELSE {r})
                     /\ Goto(t, [on EXCEPT !.pc = "insert", !.res = {r}])
             /\ UNCHANGED answer
    <3>1. PICK d \in saved :
            LET r == [id |-> made + 1, f |-> a.f, s |-> a.s, g |-> d[2],
                      obj |-> a.f \in ObjMode]
            IN /\ defns' = defns \cup (IF r.obj THEN {} ELSE {r})
               /\ Goto(t, [on EXCEPT !.pc = "insert", !.res = {r}])
      BY <2>3
    <3>2. PICK r : r = [id |-> made + 1, f |-> a.f, s |-> a.s, g |-> d[2],
                        obj |-> a.f \in ObjMode]
      OBVIOUS
    <3>3. PICK b : b = [on EXCEPT !.pc = "insert", !.res = {r}]
      OBVIOUS
    <3>4. defns' = defns \cup (IF r.obj THEN {} ELSE {r}) /\ Goto(t, b)
      BY <3>1, <3>2, <3>3
    <3>5. d \in disk[a.f] /\ d[2] \in Nat
      BY <1>1, <1>4 DEF saved, Types
    <3>6. r \in Result /\ r.f = a.f /\ r.s = a.s /\ r.g = d[2] /\ made + 1 \in Nat
      BY <1>1, <1>4, <3>2, <3>5 DEF Result, Types
    <3>7. /\ b \in Activation /\ b.op = "compile" /\ b.pc = "insert" /\ b.f = a.f
          /\ b.s = a.s /\ b.todo = a.todo /\ b.counted /\ b.res = {r}
      BY <1>6, <3>3, <3>6 DEF Activation, Pcs
    <3>8. Turn(t, n, a, b)
      BY <1>1, <1>2, <1>3, <3>4, <3>7, GotoTurn
    <3>9. ShapeOf(b)
      BY <1>3, <1>4, <3>7 DEF ShapeOf, Pcs
    <3>10. Locked' /\ Counters' /\ Stacks'
      BY <1>7, <2>1, <3>7, <3>8
    <3>11. NewerOK(b)
      BY <3>5, <3>6, <3>7 DEF NewerOK, NewerOf, Newer
    <3>12. Types'
      <4>1. defns' \subseteq Result
        BY <1>1, <3>4, <3>6 DEF Types
      <4>2. QED
        BY <1>1, <2>3, <3>6, <3>10, <4>1 DEF Types, Check
    <3>13. UNCHANGED <<overloads, table, fallbackdef, canCompile, disk, glob, renewed, wanted,
                       answer>>
      BY <2>3 DEF Check
    <3>14. QED
      BY <1>3, <2>3, <3>4, <3>6, <3>7, <3>8, <3>9, <3>10, <3>11, <3>12, <3>13, MakeStep
  <2>4. CASE /\ At(a.f, a.s) = {}
             /\ Goto(t, [on EXCEPT !.pc = "type", !.todo = Callees[a.f], !.g = glob,
                                   !.obj = a.f \in ObjMode])
             /\ UNCHANGED <<answer, defns, made>>
    <3>1. PICK b : b = [on EXCEPT !.pc = "type", !.todo = Callees[a.f], !.g = glob,
                                  !.obj = a.f \in ObjMode]
      OBVIOUS
    <3>2. Callees[a.f] \subseteq Funcs /\ glob \in Nat
      BY <1>1, <1>4 DEF Types
    <3>3. /\ b \in Activation /\ b.op = "compile" /\ b.pc = "type" /\ b.f = a.f
          /\ b.s = a.s /\ b.todo = Callees[a.f] /\ b.counted /\ b.g = glob
      <4>1. PICK td, v : td = Callees[a.f] /\ v = (a.f \in ObjMode)
        OBVIOUS
      <4>2. td \in SUBSET (Funcs \cup Sigs) /\ v \in BOOLEAN
        BY <3>2, <4>1
      <4>3. PICK c : c = [on EXCEPT !.pc = "type", !.todo = td, !.g = glob]
        OBVIOUS
      <4>4. /\ c \in Activation /\ c.op = "compile" /\ c.pc = "type" /\ c.f = a.f
            /\ c.s = a.s /\ c.todo = td /\ c.counted /\ c.g = glob
        BY <1>6, <3>2, <4>2, <4>3 DEF Activation, Pcs
      <4>5. b = [c EXCEPT !.obj = v]
        BY <3>1, <4>1, <4>3
      <4>6. QED
        BY <4>1, <4>2, <4>4, <4>5 DEF Activation
    <3>4. Turn(t, n, a, b)
      BY <1>1, <1>2, <1>3, <2>4, <3>1, <3>3, GotoTurn
    <3>5. ShapeOf(b)
      BY <1>3, <1>4, <3>3 DEF ShapeOf, Pcs
    <3>6. Locked' /\ Counters' /\ Stacks'
      BY <1>7, <2>1, <3>3, <3>4
    <3>7. NewerOK(b)
      BY <3>2, <3>3 DEF NewerOK, NewerOf
    <3>8. Sound(b) /\ SameMade({a}, {b}) /\ ~ Takes(b)
      BY <1>3, <2>4, <3>3 DEF Sound, WorkOK, UsedOK, RunOK, Idle, SameMade, Made, Takes
    <3>9. Types' /\ Plain
      BY <1>1, <2>4, <3>6 DEF Types, Check, Plain
    <3>10. answer[t].kind \notin InternalErrors
      BY <1>1 DEF Answered
    <3>11. QED
      BY <1>3, <2>4, <3>4, <3>5, <3>6, <3>7, <3>8, <3>9, <3>10, TurnStep
  <2>5. QED
    BY <2>1, <2>2, <2>3, <2>4
<1>11. QED
  BY <1>9, <1>10

(* A compilation goes on, without an entry point yet.                      *)
LEMMA CompileTurn ==
  ASSUME Inv, NEW t \in Threads, NEW n, NEW a, NEW b, Turn(t, n, a, b),
         a.op = "compile", a.pc \in {"type", "typed", "lower"},
         b.pc \in {"type", "typed", "lower", "leave"}, b.todo \subseteq a.todo,
         b.counted <=> a.counted, b.g = a.g, UsedOK(b),
         UNCHANGED <<overloads, table, fallbackdef, canCompile, defns, disk, lock, counter,
                     glob, made, wanted, renewed>>,
         failed' \in [Funcs -> SUBSET Sigs],
         answer' \in [Threads -> [kind : Answers, res : SUBSET Result]],
         \A u \in Threads : u # t => answer'[u] = answer[u],
         answer'[t].kind \notin InternalErrors,
         b.pc = "leave" => answer'[t].kind # "ok"
  PROVE  Inv'
<1>1. /\ b.op = "compile" /\ b.f = a.f /\ b.s = a.s /\ Stacks' /\ Types /\ Locked /\ Stacks
      /\ n \in Nat \ {0} /\ n = Depth(t) /\ a = F(t, n)
  BY DEF Turn, Inv, Stack, Sync, Types, Moved
<1>2. stack[t] # <<>> /\ a = Top(t)
  BY <1>1, DepthType
<1>3. a \in Acts /\ ShapeOf(a) /\ WorkOK(a)
  BY <1>1, <1>2, TopFacts
<1>4. ShapeOf(b)
  BY <1>1, <1>3 DEF ShapeOf, Pcs
<1>5. Locked'
  BY <1>1, TurnLocked DEF Active
<1>6. Counters'
  BY TurnCounters
<1>7. Types'
  BY <1>1 DEF Types
<1>8. WorkOK(b)
  BY <1>1, <1>3 DEF WorkOK, Working, Made
<1>9. NewerOK(b)
  <2>1. \A f \in Funcs, g \in Nat : Newer(f, g) => NewerOf(a, f, g)
    BY <1>3 DEF Newer
  <2>2. QED
    BY <1>1, <2>1 DEF NewerOK, NewerOf
<1>10. Sound(b) /\ Idle(a) /\ SameMade({a}, {b})
  BY <1>1, <1>8 DEF Sound, RunOK, Idle, SameMade, Made
<1>11. Plain
  BY DEF Plain
<1>12. answer'[t].kind = "ok" /\ Takes(b) => \A r \in answer'[t].res : AnswerFor(b, r)
  BY <1>1 DEF Takes
<1>13. QED
  BY <1>4, <1>5, <1>6, <1>7, <1>9, <1>10, <1>11, <1>12, TurnStep

LEMMA FailsInv ==
  ASSUME Inv, NEW t \in Threads, stack[t] # <<>>, Top(t).op = "compile",
         Top(t).pc \in {"type", "typed"}, TypeFails(t),
         UNCHANGED <<overloads, table, fallbackdef, canCompile, defns, disk, lock, counter,
                     env>>
  PROVE  Inv'
<1>1. PICK n, a : n = Depth(t) /\ a = Top(t)
  OBVIOUS
<1>2. /\ a \in Activation /\ a.op = "compile" /\ a.pc \in {"type", "typed"} /\ Types
      /\ a.f \in Funcs /\ a.s \in Sigs
  BY <1>1, TopFacts, FrameType DEF ShapeOf, Inv, Stack
<1>3. CASE a.f \in Lifted
  <2>1. PICK b : b = [a EXCEPT !.pc = "lower", !.obj = TRUE]
    OBVIOUS
  <2>2. /\ b \in Activation /\ b.op = "compile" /\ b.pc = "lower" /\ b.f = a.f
        /\ b.s = a.s /\ b.todo = a.todo /\ b.counted = a.counted /\ b.g = a.g /\ b.obj
    BY <1>2, <2>1 DEF Activation, Pcs
  <2>3. Goto(t, b) /\ Answer(t, Nothing) /\ UNCHANGED failed
    BY <1>1, <1>3, <2>1 DEF TypeFails
  <2>4. Turn(t, n, a, b)
    BY <1>1, <1>2, <2>2, <2>3, GotoTurn
  <2>5. UsedOK(b)
    BY <2>2 DEF UsedOK
  <2>6. /\ answer' \in [Threads -> [kind : Answers, res : SUBSET Result]]
        /\ answer'[t].kind = "none" /\ \A u \in Threads : u # t => answer'[u] = answer[u]
    BY <1>2, <2>3, AnswerType, NothingType DEF Types
  <2>7. failed' \in [Funcs -> SUBSET Sigs]
    BY <1>2, <2>3 DEF Types
  <2>8. UNCHANGED <<glob, made, wanted, renewed>>
    BY DEF env
  <2>9. QED
    BY <1>2, <2>2, <2>4, <2>5, <2>6, <2>7, <2>8, CompileTurn
<1>4. CASE a.f \notin Lifted
  <2>1. PICK b : b = [a EXCEPT !.pc = "leave"]
    OBVIOUS
  <2>2. /\ b \in Activation /\ b.op = "compile" /\ b.pc = "leave" /\ b.f = a.f
        /\ b.s = a.s /\ b.todo = a.todo /\ b.counted = a.counted /\ b.g = a.g
    BY <1>2, <2>1 DEF Activation, Pcs
  <2>3. /\ Goto(t, b) /\ Answer(t, Raised("typing"))
        /\ failed' = [failed EXCEPT ![a.f] = @ \cup {a.s}]
    BY <1>1, <1>4, <2>1 DEF TypeFails
  <2>4. Turn(t, n, a, b)
    BY <1>1, <1>2, <2>2, <2>3, GotoTurn
  <2>5. UsedOK(b)
    BY <2>2 DEF UsedOK
  <2>6. /\ answer' \in [Threads -> [kind : Answers, res : SUBSET Result]]
        /\ answer'[t].kind = "typing" /\ \A u \in Threads : u # t => answer'[u] = answer[u]
    <3>1. "typing" \in Answers
      BY DEF Answers
    <3>2. QED
      BY <1>2, <2>3, <3>1, AnswerType, RaisedType DEF Types
  <2>7. failed' \in [Funcs -> SUBSET Sigs]
    BY <1>2, <2>3 DEF Types
  <2>8. UNCHANGED <<glob, made, wanted, renewed>>
    BY DEF env
  <2>9. QED
    BY <1>2, <2>2, <2>4, <2>5, <2>6, <2>7, <2>8, CompileTurn
<1>5. QED
  BY <1>3, <1>4

(* A compilation, or recompile(), calls compile().                         *)
LEMMA EnterStep ==
  ASSUME Inv, NEW t \in Threads, NEW n, NEW a, NEW b, NEW c, Enters(t, n, a, b, c),
         a.op # "call", ShapeOf(b), ShapeOf(c), a.op = "compile" => c.f \in Callees[a.f],
         Plain, Types', UNCHANGED <<lock, counter>>, Active(a) <=> Active(b),
         b.counted <=> a.counted, Sound(b), NewerOK(b), Idle(a), ~ Made(a), ~ Made(b),
         a.op = "recompile" => b.flag = a.flag /\ b.g = a.g /\ b.pc = a.pc,
         \A u \in Threads : u # t => answer'[u] = answer[u],
         answer'[t].kind \notin InternalErrors
  PROVE  Inv'
<1>1. /\ n \in Nat \ {0} /\ n = Depth(t) /\ a = F(t, n) /\ Moved(t, n + 1)
      /\ F(t, n)' = b /\ F(t, n + 1)' = c /\ b.op = a.op /\ b.f = a.f /\ Waiting(b)
      /\ c.op = "compile" /\ c.pc = "lock" /\ ~ c.counted
      /\ Stacks /\ Shape /\ Ranked /\ Lonely /\ Locked /\ Counters
  BY DEF Enters, Called, Inv, Stack, Sync, Types
<1>2. Shape' /\ Ranked'
  BY <1>1, EnterShape
<1>3. Locked'
  BY <1>1, EntersLocked
<1>4. Moves(t, {a}, {b, c})
  BY <1>1, EntersMoves
<1>5. Counters'
  <2>1. \A f \in Funcs :
          (\E x \in {b, c} : Counts(x, f)) <=> (\E x \in {a} : Counts(x, f))
    BY <1>1 DEF Counts
  <2>2. \A x \in {b, c} : x.op = "compile" /\ x.pc \in {"lock", "check"} => ~ x.counted
    BY <1>1 DEF Waiting
  <2>3. QED
    BY <1>1, <1>4, <2>1, <2>2, CountersStep
<1>6. Lonely'
  <2>1. ASSUME NEW d \in 1 .. n + 1, d >= Depth(t), F(t, d)'.op = "recompile"
        PROVE  F(t, Depth(t)).op = "recompile"
    <3>1. d = n \/ d = n + 1
      BY <1>1, <2>1
    <3>2. QED
      BY <1>1, <2>1, <3>1
  <2>2. stack[t] # <<>>
    BY <1>1, DepthType
  <2>3. QED
    BY <1>1, <2>1, <2>2, LonelyStep
<1>7. Heard(t, n + 1)
  BY <1>1 DEF Heard, Takes
<1>8. SameMade({a}, {b, c})
  BY <1>1 DEF SameMade, Made
<1>9. SameRecompile({a}, {b, c})
  BY <1>1 DEF SameRecompile
<1>10. Sound(c) /\ NewerOK(c)
  BY <1>1 DEF Sound, WorkOK, UsedOK, RunOK, Idle, NewerOK, NewerOf, Working, Made
<1>11. Code' /\ Flags'
  BY <1>1, <1>4, <1>7, <1>8, <1>9, <1>10, PlainStep
<1>12. QED
  BY <1>2, <1>3, <1>5, <1>6, <1>11 DEF Inv, Stack, Sync

LEMMA CalledFrame ==
  ASSUME NEW f \in Funcs, NEW s \in Sigs
  PROVE  LET c == Frame("compile", "lock", f, s)
         IN  Called(c) /\ c.f = f /\ c.s = s /\ ShapeOf(c)
BY DEF Frame, Called, Activation, Pcs, ShapeOf

LEMMA TypeInv ==
  ASSUME Inv, NEW t \in Threads, Type(t) PROVE Inv'
<1>1. stack[t] # <<>> /\ Types /\ Answered
  BY DEF Type, In, Inv, Stack, Code
<1>2. PICK n, a : n = Depth(t) /\ a = Top(t)
  OBVIOUS
<1>3. /\ a \in Activation /\ a.op = "compile" /\ a.pc = "type" /\ ShapeOf(a) /\ WorkOK(a)
      /\ UsedOK(a) /\ a \in Acts
  BY <1>1, <1>2, TopFacts DEF Type, In
<1>4. a.f \in Funcs /\ a.s \in Sigs /\ a.todo \subseteq Callees[a.f] /\ Callees[a.f] \subseteq Funcs
  BY <1>3, FrameType DEF ShapeOf
<1>5. /\ UNCHANGED <<overloads, table, fallbackdef, canCompile, defns, disk, lock, counter>>
      /\ UNCHANGED <<glob, made, wanted, renewed>> /\ UNCHANGED env
  BY DEF Type, env
<1>6. CASE TypeFails(t)
  BY <1>1, <1>2, <1>3, <1>5, <1>6, FailsInv
<1>7. CASE /\ a.obj \/ a.todo = {}
           /\ Goto(t, [a EXCEPT !.pc = "lower"]) /\ UNCHANGED <<answer, failed>>
  <2>1. PICK b : b = [a EXCEPT !.pc = "lower"]
    OBVIOUS
  <2>2. /\ b \in Activation /\ b.op = "compile" /\ b.pc = "lower" /\ b.f = a.f
        /\ b.s = a.s /\ b.todo = a.todo /\ b.counted = a.counted /\ b.g = a.g /\ b.obj = a.obj
    BY <1>3, <2>1 DEF Activation, Pcs
  <2>3. Turn(t, n, a, b)
    BY <1>1, <1>2, <1>3, <1>7, <2>1, <2>2, GotoTurn
  <2>4. UsedOK(b)
    BY <1>3, <1>7, <2>2 DEF UsedOK
  <2>5. failed' \in [Funcs -> SUBSET Sigs] /\ answer' = answer
        /\ answer \in [Threads -> [kind : Answers, res : SUBSET Result]]
        /\ answer[t].kind \notin InternalErrors
    BY <1>1, <1>7 DEF Types, Answered
  <2>6. QED
    BY <1>3, <1>5, <2>2, <2>3, <2>4, <2>5, CompileTurn
<1>8. CASE /\ \E c \in a.todo :
                IF canCompile[c]
                  THEN Enter(t, [a EXCEPT !.pc = "typed", !.todo = @ \ {c}],
                             Frame("compile", "lock", c, a.s))
                  ELSE Goto(t, [a EXCEPT !.pc = "typed", !.todo = @ \ {c}])
           /\ Answer(t, Nothing) /\ UNCHANGED failed
  <2>1. PICK c \in a.todo :
          IF canCompile[c]
            THEN Enter(t, [a EXCEPT !.pc = "typed", !.todo = @ \ {c}],
                       Frame("compile", "lock", c, a.s))
            ELSE Goto(t, [a EXCEPT !.pc = "typed", !.todo = @ \ {c}])
    BY <1>8
  <2>2. PICK b : b = [a EXCEPT !.pc = "typed", !.todo = @ \ {c}]
    OBVIOUS
  <2>3. /\ b \in Activation /\ b.op = "compile" /\ b.pc = "typed" /\ b.f = a.f
        /\ b.s = a.s /\ b.todo = a.todo \ {c} /\ b.counted = a.counted /\ b.g = a.g
        /\ b.obj = a.obj
    <3>1. PICK td : td = a.todo \ {c}
      OBVIOUS
    <3>2. td \in SUBSET (Funcs \cup Sigs)
      BY <1>4, <3>1
    <3>3. b = [a EXCEPT !.pc = "typed", !.todo = td]
      BY <1>3, <2>2, <3>1 DEF Activation
    <3>4. QED
      BY <1>3, <3>1, <3>2, <3>3 DEF Activation, Pcs
  <2>4. /\ answer' \in [Threads -> [kind : Answers, res : SUBSET Result]]
        /\ answer'[t].kind = "none" /\ \A u \in Threads : u # t => answer'[u] = answer[u]
    BY <1>1, <1>8, AnswerType, NothingType DEF Types
  <2>5. failed' \in [Funcs -> SUBSET Sigs]
    BY <1>1, <1>8 DEF Types
  <2>6. UsedOK(b)
    BY <2>3 DEF UsedOK
  <2>7. CASE ~ canCompile[c]
    <3>1. Goto(t, b)
      BY <2>1, <2>2, <2>7
    <3>2. Turn(t, n, a, b)
      BY <1>1, <1>2, <1>3, <2>3, <3>1, GotoTurn
    <3>3. b.todo \subseteq a.todo
      BY <2>3
    <3>4. QED
      BY <1>3, <1>5, <2>3, <2>4, <2>5, <2>6, <3>2, <3>3, CompileTurn
  <2>8. CASE canCompile[c]
    <3>1. PICK e : e = Frame("compile", "lock", c, a.s)
      OBVIOUS
    <3>2. Enter(t, b, e)
      BY <2>1, <2>2, <2>8, <3>1
    <3>3. Called(e) /\ e.f = c /\ ShapeOf(e) /\ c \in Callees[a.f]
      BY <1>4, <3>1, CalledFrame
    <3>4. Enters(t, n, a, b, e)
      BY <1>1, <1>2, <1>3, <2>3, <3>2, <3>3, EnterEnters DEF Waiting
    <3>5. ShapeOf(b)
      BY <1>3, <1>4, <2>3 DEF ShapeOf, Pcs
    <3>6. Types'
      <4>1. Stacks'
        BY <3>4 DEF Enters, Moved
      <4>2. QED
        BY <1>1, <1>5, <2>4, <2>5, <4>1 DEF Types
    <3>7. NewerOK(b)
      <4>1. \A f \in Funcs, g \in Nat : Newer(f, g) => NewerOf(a, f, g)
        BY <1>3 DEF Newer
      <4>2. QED
        BY <1>3, <2>3, <4>1 DEF NewerOK, NewerOf
    <3>8. Sound(b)
      BY <1>3, <2>3, <2>6 DEF Sound, WorkOK, Working, Made, RunOK, Idle
    <3>9. Idle(a) /\ ~ Made(a) /\ ~ Made(b) /\ Active(a) /\ Active(b)
      BY <1>3, <2>3 DEF Idle, Made, Active
    <3>10. Plain /\ UNCHANGED <<lock, counter>>
      BY <1>5 DEF Plain
    <3>11. QED
      BY <1>3, <2>3, <2>4, <3>3, <3>4, <3>5, <3>6, <3>7, <3>8, <3>9, <3>10, EnterStep
  <2>9. QED
    BY <2>7, <2>8
<1>9. QED
  BY <1>2, <1>6, <1>7, <1>8 DEF Type

LEMMA TypedInv ==
  ASSUME Inv, NEW t \in Threads, Typed(t) PROVE Inv'
<1>1. stack[t] # <<>> /\ Types /\ Answered
  BY DEF Typed, In, Inv, Stack, Code
<1>2. PICK n, a : n = Depth(t) /\ a = Top(t)
  OBVIOUS
<1>3. /\ a \in Activation /\ a.op = "compile" /\ a.pc = "typed" /\ ShapeOf(a) /\ WorkOK(a)
  BY <1>1, <1>2, TopFacts DEF Typed, In
<1>4. /\ UNCHANGED <<overloads, table, fallbackdef, canCompile, defns, disk, lock, counter>>
      /\ UNCHANGED <<glob, made, wanted, renewed>> /\ UNCHANGED env
  BY DEF Typed, env
<1>5. CASE TypeFails(t)
  BY <1>1, <1>2, <1>3, <1>4, <1>5, FailsInv
<1>6. ASSUME NEW pc \in {"type", "leave"}, Goto(t, [a EXCEPT !.pc = pc]),
             UNCHANGED <<answer, failed>>,
             pc = "type" => \A c \in Callees[a.f] \ a.todo : Usable(c, a.s) # {},
             pc = "leave" => answer[t].kind # "ok"
      PROVE  Inv'
  <2>1. PICK b : b = [a EXCEPT !.pc = pc]
    OBVIOUS
  <2>2. /\ b \in Activation /\ b.op = "compile" /\ b.pc = pc /\ b.f = a.f
        /\ b.s = a.s /\ b.todo = a.todo /\ b.counted = a.counted /\ b.g = a.g /\ b.obj = a.obj
    BY <1>3, <2>1 DEF Activation, Pcs
  <2>3. Turn(t, n, a, b)
    BY <1>1, <1>2, <1>3, <1>6, <2>1, <2>2, GotoTurn
  <2>4. UsedOK(b)
    BY <1>6, <2>2 DEF UsedOK
  <2>5. failed' \in [Funcs -> SUBSET Sigs] /\ answer' = answer
        /\ answer \in [Threads -> [kind : Answers, res : SUBSET Result]]
        /\ answer[t].kind \notin InternalErrors
    BY <1>1, <1>6 DEF Types, Answered
  <2>6. QED
    BY <1>3, <1>4, <1>6, <2>2, <2>3, <2>4, <2>5, CompileTurn
<1>7. CASE /\ \A c \in Callees[a.f] \ a.todo : Usable(c, a.s) # {}
           /\ Goto(t, [a EXCEPT !.pc = "type"])
           /\ UNCHANGED <<answer, failed>>
  BY <1>6, <1>7
<1>8. CASE /\ answer[t].kind \notin {"none", "ok", "typing"}
           /\ Goto(t, [a EXCEPT !.pc = "leave"]) /\ UNCHANGED <<answer, failed>>
  BY <1>6, <1>8
<1>9. QED
  BY <1>2, <1>5, <1>7, <1>8 DEF Typed

LEMMA LowerInv ==
  ASSUME Inv, NEW t \in Threads, Lower(t) PROVE Inv'
<1>1. stack[t] # <<>> /\ Types /\ Tables /\ Defns /\ Locked
  BY DEF Lower, In, Inv, Stack, Code, Sync
<1>2. PICK n, a : n = Depth(t) /\ a = Top(t)
  OBVIOUS
<1>3. /\ a \in Activation /\ a.op = "compile" /\ a.pc = "lower" /\ ShapeOf(a) /\ WorkOK(a)
      /\ UsedOK(a) /\ a \in Acts /\ n \in Nat \ {0} /\ a = F(t, n)
  BY <1>1, <1>2, TopFacts DEF Lower, In
<1>4. a.f \in Funcs /\ a.s \in Sigs /\ a.todo \subseteq Callees[a.f] /\ Callees[a.f] \subseteq Funcs
      /\ a.g \in Nat /\ a.obj \in BOOLEAN
  BY <1>3, FrameType DEF ShapeOf
(* Every callee is found again.                                            *)
<1>5. a.obj \/ \A c \in Callees[a.f] : Usable(c, a.s) \cap defns # {}
  <2>1. SUFFICES ASSUME ~ a.obj, NEW c \in Callees[a.f] PROVE Usable(c, a.s) \cap defns # {}
    OBVIOUS
  <2>2. PICK r : r \in Usable(c, a.s)
    BY <1>3, <2>1 DEF UsedOK
  <2>3. r \in overloads[c] /\ ~ r.obj /\ c \in Funcs
    BY <1>4, <2>2 DEF Usable, NoPython
  <2>4. r.f = c /\ r \in Result
    BY <1>1, <2>3 DEF Tables, Types
  <2>5. ~ Resetting(c)
    <3>1. \A x \in Others(t) : x.op = "recompile" => x.pc = "each"
      BY <1>2, <1>3, NobodyResets DEF Inv, Stack, Sync, Types
    <3>2. \A x \in Acts : x \in Others(t) \/ x = a
      BY <1>2, <1>3, ActsWith DEF Inv, Stack, Types
    <3>3. QED
      BY <1>3, <3>1, <3>2 DEF Resetting, Resets
  <2>6. r \in defns
    BY <1>1, <2>3, <2>4, <2>5 DEF Defns
  <2>7. QED
    BY <2>2, <2>6
<1>6. PICK r : r = [id |-> made + 1, f |-> a.f, s |-> a.s, g |-> a.g, obj |-> a.obj]
  OBVIOUS
<1>7. r \in Result /\ r.f = a.f /\ r.s = a.s /\ r.g = a.g /\ r.obj = a.obj
      /\ made + 1 \in Nat
  BY <1>1, <1>4, <1>6 DEF Result, Types
<1>8. PICK b : b = [a EXCEPT !.pc = "insert", !.res = {r}]
  OBVIOUS
<1>9. /\ made' = made + 1 /\ defns' = defns \cup (IF r.obj THEN {} ELSE {r})
      /\ Goto(t, b) /\ UNCHANGED answer
  BY <1>2, <1>5, <1>6, <1>7, <1>8 DEF Lower
<1>10. /\ b \in Activation /\ b.op = "compile" /\ b.pc = "insert" /\ b.f = a.f
       /\ b.s = a.s /\ b.todo = a.todo /\ b.counted = a.counted /\ b.res = {r}
  BY <1>3, <1>7, <1>8 DEF Activation, Pcs
<1>11. Turn(t, n, a, b)
  BY <1>1, <1>2, <1>3, <1>9, <1>10, GotoTurn
<1>12. ShapeOf(b)
  BY <1>3, <1>4, <1>10 DEF ShapeOf, Pcs
<1>13. Locked'
  BY <1>1, <1>3, <1>10, <1>11, TurnLocked DEF Active, Lower, Types
<1>14. Counters'
  BY <1>10, <1>11, TurnCounters DEF Lower
<1>15. Types'
  <2>1. Stacks'
    BY <1>11 DEF Turn, Moved
  <2>2. defns' \subseteq Result
    BY <1>1, <1>7, <1>9 DEF Types
  <2>3. QED
    BY <1>1, <1>7, <1>9, <2>1, <2>2 DEF Types, Lower
<1>16. NewerOK(b)
  <2>1. \A f \in Funcs, g \in Nat : Newer(f, g) => NewerOf(a, f, g)
    BY <1>3 DEF Newer
  <2>2. QED
    BY <1>3, <1>7, <1>10, <2>1 DEF NewerOK, NewerOf
<1>17. b.counted /\ At(a.f, a.s) = {} /\ Idle(a) /\ ~ Made(a)
  BY <1>3, <1>10 DEF WorkOK, Working, Idle, Made
<1>18. UNCHANGED <<overloads, table, fallbackdef, canCompile, disk, glob, renewed, wanted,
                   answer>>
  BY <1>9 DEF Lower
<1>19. QED
  BY <1>3, <1>7, <1>9, <1>10, <1>11, <1>12, <1>13, <1>14, <1>15, <1>16, <1>17, <1>18,
    MakeStep

-----------------------------------------------------------------------------
(* add_overload.                                                           *)

LEMMA TurnParts ==
  ASSUME Inv, NEW t \in Threads, NEW n, NEW a, NEW b, Turn(t, n, a, b), a.op = "compile",
         ShapeOf(b), Active(a), Active(b), b.counted <=> a.counted, b.pc \notin {"lock", "check"},
         UNCHANGED <<lock, counter, canCompile, wanted>>
  PROVE  /\ Shape' /\ Ranked' /\ Locked' /\ Counters' /\ Lonely' /\ Flags' /\ Runs'
         /\ Moves(t, {a}, {b}) /\ Stacks'
<1>1. /\ n \in Nat \ {0} /\ n = Depth(t) /\ a = F(t, n) /\ Moved(t, n) /\ F(t, n)' = b
      /\ b.op = "compile" /\ b.f = a.f /\ b.s = a.s
      /\ Stacks /\ Shape /\ Ranked /\ Lonely /\ Locked /\ Flags /\ Runs
  BY DEF Turn, Inv, Stack, Sync, Types, Code
<1>2. Shape' /\ Ranked'
  BY <1>1, TurnShape
<1>3. Lonely'
  <2>1. \A d \in 1 .. n : d >= Depth(t) => d = n
    BY <1>1
  <2>2. stack[t] # <<>>
    BY <1>1, DepthType
  <2>3. QED
    BY <1>1, <2>1, <2>2, LonelyStep
<1>4. Moves(t, {a}, {b}) /\ Stacks'
  BY <1>1, TurnMoves DEF Moved
<1>5. Locked'
  BY <1>1, TurnLocked
<1>6. Counters'
  BY TurnCounters
<1>7. Flags'
  <2>1. \A x \in {b} : x.op # "recompile"
    BY <1>1
  <2>2. \A x \in {a} : x.op # "recompile"
    OBVIOUS
  <2>3. QED
    BY <1>1, <1>4, <2>1, <2>2, FlagsStep
<1>8. Runs'
  BY <1>1, <1>4, RunsStep DEF RunOK
<1>9. QED
  BY <1>2, <1>3, <1>4, <1>5, <1>6, <1>7, <1>8

LEMMA RenewsKept ==
  ASSUME Renews, Stacks, renewed \in [Funcs -> Nat], UNCHANGED <<renewed, glob>>,
         \A f \in Funcs, g \in Nat : Newer(f, g) /\ g <= glob => Newer(f, g)',
         \A x \in Acts' : x.op = "recompile" =>
           \E y \in Acts : y.op = "recompile" /\ y.f = x.f /\ y.g = x.g /\ y.pc = x.pc
  PROVE  Renews'
<1>1. ASSUME NEW f \in Funcs, NEW g \in Nat, g = renewed'[f]
      PROVE  g <= glob' /\ Newer(f, g)'
  <2>1. g = renewed[f]
    BY <1>1
  <2>2. g <= glob /\ Newer(f, g)
    BY <2>1 DEF Renews
  <2>3. QED
    BY <2>2
<1>2. ASSUME NEW x \in Acts', x.op = "recompile"
      PROVE  x.g <= glob' /\ (x.pc = "each" => Newer(x.f, x.g)')
  <2>1. PICK y \in Acts : y.op = "recompile" /\ y.f = x.f /\ y.g = x.g /\ y.pc = x.pc
    BY <1>2
  <2>2. y.f \in Funcs /\ y.g \in Nat
    BY ActsType DEF Activation
  <2>3. y.g <= glob /\ (y.pc = "each" => Newer(y.f, y.g))
    BY <2>1 DEF Renews
  <2>4. QED
    BY <2>1, <2>2, <2>3
<1>3. QED
  BY <1>1, <1>2 DEF Renews

(* A compilation that has an entry point is alone with its function.       *)
LEMMA AloneWith ==
  ASSUME Inv, NEW t \in Threads, stack[t] # <<>>, NEW a, a = Top(t), a.op = "compile",
         a.pc # "lock"
  PROVE  /\ Acts = Others(t) \cup {a}
         /\ \A x \in Others(t) : Active(x) => x.f # a.f
         /\ \A f : ~ Resetting(f)
<1>1. PICK n : n = Depth(t)
  OBVIOUS
<1>2. /\ n \in Nat \ {0} /\ a = F(t, n) /\ Active(a)
      /\ Stacks /\ Shape /\ Ranked /\ Locked /\ Lonely
  BY <1>1, TopFacts DEF Inv, Stack, Sync, Active
<1>3. Acts = Others(t) \cup {a}
  BY <1>1, <1>2, ActsWith
<1>4. \A x \in Others(t) : Active(x) => x.f # a.f
  BY <1>1, <1>2, OneCompiles
<1>5. \A x \in Others(t) : x.op = "recompile" => x.pc = "each"
  BY <1>1, <1>2, NobodyResets
<1>6. QED
  BY <1>3, <1>4, <1>5 DEF Resetting, Resets

LEMMA AppendSeq ==
  ASSUME NEW S, NEW s \in Seq(S), NEW e \in S
  PROVE  /\ Append(s, e) \in Seq(S) /\ DOMAIN s = 1 .. Len(s) /\ Len(s) \in Nat
         /\ DOMAIN Append(s, e) = 1 .. Len(s) + 1
         /\ \A i \in 1 .. Len(s) : Append(s, e)[i] = s[i]
         /\ Append(s, e)[Len(s) + 1] = e
OBVIOUS

LEMMA InsertInv ==
  ASSUME Inv, NEW t \in Threads, Insert(t) PROVE Inv'
<1>1. stack[t] # <<>> /\ Types /\ Tables /\ Defns /\ Answered /\ Renews /\ Works /\ Uses
  BY DEF Insert, In, Inv, Stack, Code, Sync
<1>2. PICK n, a : n = Depth(t) /\ a = Top(t)
  OBVIOUS
<1>3. /\ a \in Activation /\ a.op = "compile" /\ a.pc = "insert" /\ ShapeOf(a) /\ WorkOK(a)
      /\ a \in Acts /\ n \in Nat \ {0} /\ a = F(t, n) /\ Stacks /\ Active(a)
  BY <1>1, <1>2, TopFacts DEF Insert, In, Active
<1>4. a.f \in Funcs /\ a.s \in Sigs
  BY <1>3, FrameType DEF ShapeOf
<1>5. PICK r \in Result : a.res = {r} /\ r.f = a.f /\ r.s = a.s
  BY <1>3 DEF WorkOK, Made
<1>6. a.counted /\ At(a.f, a.s) = {}
  BY <1>3 DEF WorkOK, Working
<1>7. PICK b : b = [a EXCEPT !.pc = "own"]
  OBVIOUS
<1>8. /\ b \in Activation /\ b.op = "compile" /\ b.pc = "own" /\ b.f = a.f
      /\ b.s = a.s /\ b.todo = a.todo /\ b.counted = a.counted /\ b.res = {r} /\ Active(b)
  BY <1>3, <1>5, <1>7 DEF Activation, Pcs, Active
<1>9. /\ Goto(t, b) /\ table' = [table EXCEPT ![a.f] = Append(@, r)]
      /\ fallbackdef' = [fallbackdef EXCEPT ![a.f] = IF r.obj /\ @ = {} THEN {r} ELSE @]
      /\ UNCHANGED <<overloads, canCompile, defns, failed, disk, lock, counter, answer>>
      /\ UNCHANGED <<glob, made, wanted, renewed>>
  BY <1>2, <1>5, <1>7 DEF Insert, env
<1>10. Turn(t, n, a, b)
  BY <1>1, <1>2, <1>3, <1>8, <1>9, GotoTurn
<1>11. ShapeOf(b)
  BY <1>3, <1>4, <1>8 DEF ShapeOf, Pcs
<1>12. /\ Shape' /\ Ranked' /\ Locked' /\ Counters' /\ Lonely' /\ Flags' /\ Runs'
       /\ Moves(t, {a}, {b}) /\ Stacks'
  BY <1>3, <1>8, <1>9, <1>10, <1>11, TurnParts
<1>13. Types'
  <2>1. table' \in [Funcs -> Seq(Result)]
    <3>1. table[a.f] \in Seq(Result) /\ Append(table[a.f], r) \in Seq(Result)
      BY <1>1, <1>4, AppendSeq DEF Types
    <3>2. QED
      BY <1>1, <1>9, <3>1 DEF Types
  <2>2. fallbackdef' \in [Funcs -> SUBSET Result]
    BY <1>1, <1>9 DEF Types
  <2>3. QED
    BY <1>1, <1>9, <1>12, <2>1, <2>2 DEF Types
<1>14. Works' /\ Uses'
  <2>1. WorkOK(b)
    BY <1>3, <1>5, <1>6, <1>8 DEF WorkOK, Working, Made
  <2>2. UsedOK(b)
    BY <1>8 DEF UsedOK
  <2>3. QED
    BY <1>1, <1>9, <1>12, <2>1, <2>2, WorksStep, UsesStep
<1>15. Defns'
  <2>1. SameMade({a}, {b})
    BY <1>3, <1>5, <1>8 DEF SameMade, Made
  <2>2. \A x \in {a} \cup {b} : ~ (x.op = "recompile" /\ x.pc = "reset")
    BY <1>3, <1>8
  <2>3. QED
    BY <1>1, <1>9, <1>12, <2>1, <2>2, DefnsStep DEF SameMade
<1>16. Answered'
  <2>1. /\ ~ Takes(b) /\ answer[t].kind \notin InternalErrors
        /\ Moved(t, n) /\ F(t, n)' = b
    BY <1>1, <1>8, <1>10 DEF Takes, Answered, Turn
  <2>2. QED
    BY <1>1, <1>3, <1>9, <2>1, AnsweredStep
<1>17. Renews'
  <2>1. \A f, g : NewerOf(a, f, g) => NewerOf(b, f, g)
    BY <1>3, <1>5, <1>8 DEF NewerOf
  <2>2. \A f \in Funcs, g \in Nat :
          Newer(f, g) /\ g <= glob => \A x \in {b} : NewerOf(x, f, g)
    BY <1>3, <2>1 DEF Newer
  <2>3. \A x \in {b} : x.op # "recompile"
    BY <1>8
  <2>4. renewed \in [Funcs -> Nat]
    BY <1>1 DEF Types
  <2>5. QED
    BY <1>1, <1>3, <1>9, <1>12, <2>2, <2>3, <2>4, RenewsStep
<1>18. Tables'
  <2>1. /\ Acts = Others(t) \cup {a} /\ Acts' = Others(t) \cup {b}
        /\ \A x \in Others(t) : Active(x) => x.f # a.f
        /\ \A f : ~ Resetting(f)
    <3>1. a.pc # "lock"
      BY <1>3
    <3>2. QED
      BY <1>1, <1>2, <1>3, <1>12, <3>1, AloneWith DEF Moves
  <2>2. \A f : ~ Resetting(f)'
    BY <1>8, <2>1 DEF Resetting, Resets
  <2>3. \A q : ~ Owning(a.f, q) /\ (Owning(a.f, q)' <=> q = r)
    BY <1>3, <1>8, <2>1 DEF Owning, Owns, Active
  <2>4. \A f, q : f # a.f => (Owning(f, q)' <=> Owning(f, q))
    BY <1>3, <1>8, <2>1 DEF Owning, Owns
  <2>5. \A f \in Funcs : f # a.f => table'[f] = table[f] /\ fallbackdef'[f] = fallbackdef[f]
    BY <1>1, <1>9 DEF Types
  <2>6. PICK s : s = table[a.f]
    OBVIOUS
  <2>7. /\ s \in Seq(Result) /\ table'[a.f] = Append(s, r)
        /\ \A q \in Result : (\E i \in DOMAIN s : s[i] = q) <=> q \in overloads[a.f]
        /\ \A i, j \in DOMAIN s : s[i].s = s[j].s => i = j
    <3>1. s \in Seq(Result) /\ table'[a.f] = Append(s, r)
      BY <1>1, <1>4, <1>9, <2>6 DEF Types
    <3>2. QED
      BY <1>1, <1>4, <2>1, <2>3, <2>6, <3>1 DEF Tables
  <2>8. PICK k, s2 : k = Len(s) /\ s2 = Append(s, r)
    OBVIOUS
  <2>9. /\ k \in Nat /\ DOMAIN s = 1 .. k /\ DOMAIN s2 = 1 .. k + 1 /\ s2[k + 1] = r
        /\ \A i \in 1 .. k : s2[i] = s[i] /\ s[i] \in Result
    <3>1. \A i \in 1 .. Len(s) : s[i] \in Result
      BY <2>7
    <3>2. QED
      BY <2>7, <2>8, <3>1, AppendSeq
  <2>10. \A i \in 1 .. k + 1 : i \in 1 .. k \/ i = k + 1
    BY <2>9
  <2>11. ASSUME NEW q \in Result
         PROVE  (\E i \in DOMAIN s2 : s2[i] = q) <=> (q \in overloads[a.f] \/ q = r)
    <3>1. \A i \in 1 .. k : i \in 1 .. k + 1
      BY <2>9
    <3>2. k + 1 \in 1 .. k + 1
      BY <2>9
    <3>3. QED
      BY <2>7, <2>9, <2>10, <3>1, <3>2
  <2>12. \A i \in 1 .. k : s[i].s # r.s
    BY <1>5, <1>6, <2>7, <2>9 DEF At
  <2>13. \A i, j \in DOMAIN s2 : s2[i].s = s2[j].s => i = j
    BY <2>7, <2>9, <2>10, <2>12
  <2>14. \A q \in fallbackdef'[a.f] : q.f = a.f /\ q.obj
    BY <1>1, <1>4, <1>5, <1>9 DEF Tables, Types
  <2>15. ASSUME NEW f \in Funcs
         PROVE  /\ ~ Resetting(f)'
                /\ \A q \in Result :
                     (\E i \in DOMAIN table'[f] : table'[f][i] = q)
                       <=> (q \in overloads'[f] \/ Owning(f, q)')
                /\ \A i, j \in DOMAIN table'[f] : table'[f][i].s = table'[f][j].s => i = j
                /\ \A q \in overloads'[f] : q.f = f
                /\ \A q \in fallbackdef'[f] : q.f = f /\ q.obj
    <3>1. \A q \in overloads'[f] : q.f = f
      BY <1>1, <1>9 DEF Tables
    <3>2. CASE f = a.f
      <4>1. table'[f] = s2
        BY <2>7, <2>8, <3>2
      <4>2. \A q \in Result : (\E i \in DOMAIN s2 : s2[i] = q)
                                <=> (q \in overloads'[f] \/ Owning(f, q)')
        BY <1>9, <2>3, <2>11, <3>2
      <4>3. QED
        BY <2>2, <2>13, <2>14, <3>1, <3>2, <4>1, <4>2
    <3>3. CASE f # a.f
      <4>1. \A q : Owning(f, q)' <=> Owning(f, q)
        BY <2>4, <3>3
      <4>2. table'[f] = table[f] /\ fallbackdef'[f] = fallbackdef[f] /\ overloads' = overloads
        BY <1>9, <2>5, <3>3
      <4>3. /\ \A q \in Result : (\E i \in DOMAIN table[f] : table[f][i] = q)
                                   <=> (q \in overloads[f] \/ Owning(f, q))
            /\ \A i, j \in DOMAIN table[f] : table[f][i].s = table[f][j].s => i = j
            /\ \A q \in fallbackdef[f] : q.f = f /\ q.obj
        BY <1>1, <2>1 DEF Tables
      <4>4. QED
        BY <2>2, <3>1, <4>1, <4>2, <4>3
    <3>4. QED
      BY <3>2, <3>3
  <2>16. QED
    BY <2>15 DEF Tables
<1>19. QED
  BY <1>12, <1>13, <1>14, <1>15, <1>16, <1>17, <1>18 DEF Inv, Stack, Sync, Code

(* What type inference could use stays usable when overloads are added.    *)
LEMMA UsableGrows ==
  ASSUME NEW c, NEW s, overloads[c] \subseteq overloads'[c], Usable(c, s) # {}
  PROVE  Usable(c, s)' # {}
<1>1. NoPython(c) \subseteq NoPython(c)'
  BY DEF NoPython
<1>2. CASE \E r \in NoPython(c)' : r.s = s
  <2>1. Usable(c, s)' = {r \in NoPython(c)' : r.s = s}
    BY <1>2 DEF Usable, NoPython
  <2>2. QED
    BY <1>2, <2>1
<1>3. CASE ~ \E r \in NoPython(c)' : r.s = s
  <2>1. Usable(c, s) = {r \in NoPython(c) : <<s, r.s>> \in Fits}
    BY <1>1, <1>3 DEF Usable
  <2>2. Usable(c, s)' = {r \in NoPython(c)' : <<s, r.s>> \in Fits}
    BY <1>3 DEF Usable, NoPython
  <2>3. QED
    BY <1>1, <2>1, <2>2
<1>4. QED
  BY <1>2, <1>3

LEMMA OwnInv ==
  ASSUME Inv, NEW t \in Threads, Own(t) PROVE Inv'
<1>1. stack[t] # <<>> /\ Types /\ Tables /\ Defns /\ Answered /\ Renews /\ Works /\ Uses
  BY DEF Own, In, Inv, Stack, Code, Sync
<1>2. PICK n, a : n = Depth(t) /\ a = Top(t)
  OBVIOUS
<1>3. /\ a \in Activation /\ a.op = "compile" /\ a.pc = "own" /\ ShapeOf(a) /\ WorkOK(a)
      /\ a \in Acts /\ n \in Nat \ {0} /\ a = F(t, n) /\ Stacks /\ Active(a)
  BY <1>1, <1>2, TopFacts DEF Own, In, Active
<1>4. a.f \in Funcs /\ a.s \in Sigs
  BY <1>3, FrameType DEF ShapeOf
<1>5. PICK r \in Result : a.res = {r} /\ r.f = a.f /\ r.s = a.s
  BY <1>3 DEF WorkOK, Made
<1>6. a.counted /\ At(a.f, a.s) = {}
  BY <1>3 DEF WorkOK, Working
<1>7. PICK b : b = [a EXCEPT !.pc = "leave"]
  OBVIOUS
<1>8. /\ b \in Activation /\ b.op = "compile" /\ b.pc = "leave" /\ b.f = a.f
      /\ b.s = a.s /\ b.todo = a.todo /\ b.counted = a.counted /\ Active(b)
  BY <1>3, <1>5, <1>7 DEF Activation, Pcs, Active
<1>9. /\ Goto(t, b) /\ Answer(t, Returned(r))
      /\ overloads' = [overloads EXCEPT ![a.f] = (@ \ At(a.f, a.s)) \cup {r}]
      /\ disk' = [disk EXCEPT ![a.f] =
           IF a.f \in Cached \ Lifted THEN @ \cup {<<a.s, r.g>>} ELSE @]
      /\ UNCHANGED <<table, fallbackdef, canCompile, defns, failed, lock, counter>>
      /\ UNCHANGED <<glob, made, wanted, renewed>>
  BY <1>2, <1>5, <1>7 DEF Own, env
<1>10. /\ overloads'[a.f] = overloads[a.f] \cup {r}
       /\ \A f \in Funcs : f # a.f => overloads'[f] = overloads[f]
       /\ \A f \in Funcs : overloads[f] \subseteq overloads'[f]
  BY <1>1, <1>4, <1>6, <1>9 DEF Types
<1>11. Turn(t, n, a, b)
  BY <1>1, <1>2, <1>3, <1>8, <1>9, GotoTurn
<1>12. ShapeOf(b)
  BY <1>3, <1>4, <1>8 DEF ShapeOf, Pcs
<1>13. /\ Shape' /\ Ranked' /\ Locked' /\ Counters' /\ Lonely' /\ Flags' /\ Runs'
       /\ Moves(t, {a}, {b}) /\ Stacks'
  BY <1>3, <1>8, <1>9, <1>11, <1>12, TurnParts
<1>14. /\ answer' \in [Threads -> [kind : Answers, res : SUBSET Result]]
       /\ answer'[t].kind = "ok" /\ answer'[t].res = {r}
       /\ \A u \in Threads : u # t => answer'[u] = answer[u]
  BY <1>1, <1>5, <1>9, AnswerType, ReturnedType DEF Types
<1>15. Types'
  <2>1. overloads' \in [Funcs -> SUBSET Result]
    BY <1>1, <1>9 DEF Types
  <2>2. disk' \in [Funcs -> SUBSET (Sigs \X Nat)]
    <3>1. <<a.s, r.g>> \in Sigs \X Nat
      BY <1>4 DEF Result
    <3>2. PICK d : d = <<a.s, r.g>>
      OBVIOUS
    <3>3. PICK D : D = Sigs \X Nat
      OBVIOUS
    <3>4. disk \in [Funcs -> SUBSET D] /\ d \in D
          /\ disk' = [disk EXCEPT ![a.f] = IF a.f \in Cached \ Lifted THEN @ \cup {d} ELSE @]
      BY <1>1, <1>9, <3>1, <3>2, <3>3 DEF Types
    <3>5. disk' \in [Funcs -> SUBSET D]
      BY <3>4
    <3>6. QED
      BY <3>3, <3>5
  <2>3. QED
    BY <1>1, <1>9, <1>13, <1>14, <2>1, <2>2 DEF Types
<1>16. /\ Acts = Others(t) \cup {a} /\ Acts' = Others(t) \cup {b}
       /\ \A x \in Others(t) : Active(x) => x.f # a.f
       /\ \A f : ~ Resetting(f)
  <2>1. a.pc # "lock"
    BY <1>3
  <2>2. QED
    BY <1>1, <1>2, <1>3, <1>13, <2>1, AloneWith DEF Moves
<1>17. \A f : ~ Resetting(f)'
  BY <1>8, <1>16 DEF Resetting, Resets
<1>18. Works'
  <2>1. ASSUME NEW x \in Others(t) PROVE WorkOK(x)'
    <3>1. x \in Acts /\ x \in Activation
      BY <1>3, <1>16, ActsType
    <3>2. WorkOK(x) /\ x.f \in Funcs
      BY <1>1, <3>1 DEF Works, Activation
    <3>3. Working(x) => Active(x)
      BY DEF Working, Active
    <3>4. Working(x) => At(x.f, x.s)' = At(x.f, x.s)
      BY <1>10, <1>16, <3>2, <3>3 DEF At
    <3>5. QED
      BY <3>2, <3>4 DEF WorkOK, Working, Made
  <2>2. WorkOK(b)'
    BY <1>8 DEF WorkOK, Working, Made
  <2>3. QED
    BY <1>16, <2>1, <2>2 DEF Works
<1>19. Uses'
  <2>1. ASSUME NEW x \in Others(t) PROVE UsedOK(x)'
    <3>1. x \in Acts /\ x \in Activation
      BY <1>3, <1>16, ActsType
    <3>2. UsedOK(x) /\ x.f \in Funcs
      BY <1>1, <3>1 DEF Uses, Activation
    <3>3. Callees[x.f] \subseteq Funcs
      BY <3>2
    <3>4. \A c \in Callees[x.f] : Usable(c, x.s) # {} => Usable(c, x.s)' # {}
      BY <1>10, <3>3, UsableGrows
    <3>5. QED
      BY <3>2, <3>4 DEF UsedOK
  <2>2. UsedOK(b)'
    BY <1>8 DEF UsedOK
  <2>3. QED
    BY <1>16, <2>1, <2>2 DEF Uses
<1>20. Defns'
  <2>1. ASSUME NEW q \in Result
        PROVE  q \in defns' <=>
                 ~ q.obj /\ ((q \in overloads'[q.f] /\ ~ Resetting(q.f)') \/ Pending(q)')
    <3>1. q \in defns <=> ~ q.obj /\ (q \in overloads[q.f] \/ Pending(q))
      BY <1>1, <1>16 DEF Defns
    <3>2. Pending(q) <=> (Pending(q)' \/ q = r)
      <4>1. Made(a) /\ ~ Made(b)
        BY <1>3, <1>8 DEF Made
      <4>2. (\E x \in Acts : Made(x) /\ q \in x.res)
              <=> ((\E x \in Acts' : Made(x) /\ q \in x.res) \/ q = r)
        BY <1>5, <1>16, <4>1
      <4>3. QED
        BY <4>2 DEF Pending, Made
    <3>3. q.f \in Funcs
      BY DEF Result
    <3>4. q \in overloads'[q.f] <=> (q \in overloads[q.f] \/ q = r)
      BY <1>5, <1>10, <3>3
    <3>5. QED
      BY <1>9, <1>17, <3>1, <3>2, <3>4
  <2>2. QED
    BY <2>1 DEF Defns, Resetting, Pending, Resets
<1>21. Answered'
  <2>1. AnswerFor(b, r) /\ Moved(t, n) /\ F(t, n)' = b
    BY <1>5, <1>8, <1>11 DEF AnswerFor, Turn
  <2>2. answer'[t].kind \notin InternalErrors
    BY <1>14
  <2>3. QED
    BY <1>1, <1>3, <1>14, <2>1, <2>2, AnsweredStep
<1>22. Renews'
  <2>1. ASSUME NEW f \in Funcs, NEW g \in Nat, Newer(f, g) PROVE Newer(f, g)'
    <3>1. /\ \A q \in overloads[f] : q.g >= g
          /\ \A d \in disk[f] : d[2] >= g
          /\ \A x \in Acts : NewerOf(x, f, g)
      BY <2>1 DEF Newer
    <3>2. f = a.f => r.g >= g
      BY <1>3, <1>5, <3>1 DEF NewerOf
    <3>3. \A q \in overloads'[f] : q.g >= g
      BY <1>10, <3>1, <3>2
    <3>4. \A d \in disk'[f] : d[2] >= g
      <4>1. <<a.s, r.g>>[2] = r.g
        OBVIOUS
      <4>2. PICK e : e = <<a.s, r.g>>
        OBVIOUS
      <4>3. disk' = [disk EXCEPT ![a.f] = IF a.f \in Cached \ Lifted THEN @ \cup {e} ELSE @]
        BY <1>9, <4>2
      <4>4. \A d \in disk'[f] : d \in disk[f] \/ (d = e /\ f = a.f)
        BY <1>1, <4>3 DEF Types
      <4>5. QED
        BY <3>1, <3>2, <4>1, <4>2, <4>4
    <3>5. \A x \in Acts' : NewerOf(x, f, g)
      BY <1>8, <1>16, <3>1 DEF NewerOf
    <3>6. QED
      BY <3>3, <3>4, <3>5 DEF Newer, NewerOf
  <2>2. \A x \in Acts' : x.op = "recompile" =>
          \E y \in Acts : y.op = "recompile" /\ y.f = x.f /\ y.g = x.g /\ y.pc = x.pc
    BY <1>8, <1>16
  <2>3. renewed \in [Funcs -> Nat]
    BY <1>1 DEF Types
  <2>4. QED
    BY <1>1, <1>3, <1>9, <2>1, <2>2, <2>3, RenewsKept
<1>23. Tables'
  <2>1. \A q : (Owning(a.f, q) <=> q = r) /\ ~ Owning(a.f, q)'
    BY <1>3, <1>5, <1>8, <1>16 DEF Owning, Owns, Active
  <2>2. \A f, q : f # a.f => (Owning(f, q)' <=> Owning(f, q))
    BY <1>3, <1>8, <1>16 DEF Owning, Owns
  <2>3. ASSUME NEW f \in Funcs
        PROVE  /\ ~ Resetting(f)'
               /\ \A q \in Result :
                    (\E i \in DOMAIN table'[f] : table'[f][i] = q)
                      <=> (q \in overloads'[f] \/ Owning(f, q)')
               /\ \A i, j \in DOMAIN table'[f] : table'[f][i].s = table'[f][j].s => i = j
               /\ \A q \in overloads'[f] : q.f = f
               /\ \A q \in fallbackdef'[f] : q.f = f /\ q.obj
    <3>1. /\ \A q \in Result :
               (\E i \in DOMAIN table[f] : table[f][i] = q)
                 <=> (q \in overloads[f] \/ Owning(f, q))
          /\ \A i, j \in DOMAIN table[f] : table[f][i].s = table[f][j].s => i = j
          /\ \A q \in overloads[f] : q.f = f
          /\ \A q \in fallbackdef[f] : q.f = f /\ q.obj
      BY <1>1, <1>16 DEF Tables
    <3>2. \A q \in overloads'[f] : q.f = f
      BY <1>5, <1>10, <3>1
    <3>3. ASSUME NEW q \in Result
          PROVE  (q \in overloads'[f] \/ Owning(f, q)') <=> (q \in overloads[f] \/ Owning(f, q))
      <4>1. CASE f = a.f
        BY <1>10, <2>1, <4>1
      <4>2. CASE f # a.f
        BY <1>10, <2>2, <4>2
      <4>3. QED
        BY <4>1, <4>2
    <3>4. table' = table /\ fallbackdef' = fallbackdef
      BY <1>9
    <3>5. QED
      BY <1>17, <3>1, <3>2, <3>3, <3>4
  <2>4. QED
    BY <2>3 DEF Tables
<1>24. QED
  BY <1>13, <1>15, <1>18, <1>19, <1>20, <1>21, <1>22, <1>23 DEF Inv, Stack, Sync, Code

-----------------------------------------------------------------------------
(* Calls.                                                                  *)

LEMMA FinishInv ==
  ASSUME Inv, NEW t \in Threads, stack[t] # <<>>, Top(t).op = "call", Pop(t),
         UNCHANGED <<objs, lock, counter, answer, env>>
  PROVE  Inv'
<1>1. PICK n, a : n = Depth(t) /\ a = Top(t)
  OBVIOUS
<1>2. /\ a \in Activation /\ a.op = "call" /\ a \in Acts /\ n \in Nat \ {0} /\ a = F(t, n)
      /\ n \in 1 .. n /\ Types /\ Stacks /\ Locked /\ Counters /\ Shape
  BY <1>1, TopFacts DEF Inv, Stack, Sync, Types
<1>3. n = 1
  <2>1. n > 1 => a.op = "compile"
    BY <1>1, <1>2 DEF Shape
  <2>2. QED
    BY <1>2, <2>1
<1>4. Pops(t, n, a)
  BY <1>1, PopPops
<1>5. Locked'
  BY <1>2, <1>4, PopsLocked DEF Active
<1>6. Counters'
  <2>1. Moves(t, {a}, {})
    BY <1>2, <1>4, PopsMoves
  <2>2. \A f \in Funcs : (\E x \in {} : Counts(x, f)) <=> (\E x \in {a} : Counts(x, f))
    BY <1>2 DEF Counts
  <2>3. \A x \in {} : x.op = "compile" /\ x.pc \in {"lock", "check"} => ~ x.counted
    OBVIOUS
  <2>4. QED
    BY <1>2, <2>1, <2>2, <2>3, CountersStep
<1>7. Types'
  <2>1. Stacks'
    BY <1>4 DEF Pops, Moved
  <2>2. QED
    BY <1>2, <2>1 DEF Types, objs, env
<1>8. Idle(a) /\ ~ Made(a) /\ Plain /\ UNCHANGED answer
  BY <1>2 DEF Idle, Made, Plain, objs, env
<1>9. ~ (n > 1)
  BY <1>3
<1>10. QED
  BY <1>2, <1>4, <1>5, <1>6, <1>7, <1>8, <1>9, PopStep

LEMMA InvokeInv ==
  ASSUME Inv, NEW t \in Threads, Invoke(t) PROVE Inv'
<1>1. stack[t] # <<>> /\ Top(t).op = "call" /\ Top(t).pc = "compiled"
      /\ UNCHANGED <<objs, lock, counter, env>>
  BY DEF Invoke, In
<1>2. CASE answer[t].kind # "ok"
  <2>1. Pop(t) /\ UNCHANGED answer
    BY <1>2 DEF Invoke
  <2>2. QED
    BY <1>1, <2>1, FinishInv
<1>3. CASE answer[t].kind = "ok"
  <2>1. PICK n, a : n = Depth(t) /\ a = Top(t)
    OBVIOUS
  <2>2. /\ a \in Activation /\ a.op = "call" /\ a.pc = "compiled" /\ a \in Acts
        /\ n \in Nat \ {0} /\ a = F(t, n) /\ ShapeOf(a)
        /\ Types /\ Stacks /\ Locked /\ Counters /\ Shape /\ Ranked /\ Lonely /\ Answered
    BY <1>1, <2>1, TopFacts DEF Inv, Stack, Sync, Types, Code
  <2>3. PICK b : b = [a EXCEPT !.pc = "run", !.res = answer[t].res, !.flag = TRUE]
    OBVIOUS
  <2>4. answer[t].res \in SUBSET Result
    BY <2>2 DEF Types
  <2>5. /\ b \in Activation /\ b.op = "call" /\ b.pc = "run" /\ b.f = a.f /\ b.s = a.s
        /\ b.res = answer[t].res /\ b.counted = a.counted
    BY <2>2, <2>3, <2>4 DEF Activation, Pcs
  <2>6. Goto(t, b) /\ Answer(t, Nothing)
    BY <1>3, <2>1, <2>3 DEF Invoke
  <2>7. Turn(t, n, a, b)
    BY <1>1, <2>1, <2>2, <2>5, <2>6, GotoTurn
  <2>8. ShapeOf(b)
    BY <2>2, <2>5 DEF ShapeOf
  <2>9. Shape' /\ Ranked'
    BY <2>2, <2>7, <2>8, TurnShape
  <2>10. Locked' /\ Counters'
    BY <1>1, <2>2, <2>5, <2>7, TurnLocked, TurnCounters DEF Active
  <2>11. Moved(t, n) /\ Moves(t, {a}, {b}) /\ F(t, n)' = b
    BY <2>2, <2>7, TurnMoves DEF Turn
  <2>12. Lonely'
    <3>1. \A d \in 1 .. n : d >= Depth(t) => d = n
      BY <2>1, <2>2
    <3>2. QED
      BY <1>1, <2>2, <2>5, <2>11, <3>1, LonelyStep
  <2>13. /\ answer' \in [Threads -> [kind : Answers, res : SUBSET Result]]
         /\ answer'[t].kind = "none" /\ \A u \in Threads : u # t => answer'[u] = answer[u]
    BY <2>2, <2>6, AnswerType, NothingType DEF Types
  <2>14. Types'
    <3>1. Stacks'
      BY <2>11 DEF Moved
    <3>2. QED
      BY <1>1, <2>2, <2>13, <3>1 DEF Types, objs, env
  <2>15. RunOK(b)
    <3>1. \A r \in answer[t].res : AnswerFor(a, r)
      BY <1>1, <1>3, <2>1, <2>2 DEF Answered, Takes
    <3>2. QED
      BY <2>5, <3>1 DEF RunOK, AnswerFor
  <2>16. Sound(b) /\ NewerOK(b) /\ Idle(a)
    BY <2>2, <2>5, <2>15 DEF Sound, WorkOK, UsedOK, Idle, NewerOK, NewerOf, Working, Made
  <2>17. SameMade({a}, {b}) /\ SameRecompile({a}, {b})
    BY <2>2, <2>5 DEF SameMade, SameRecompile, Made
  <2>18. Heard(t, n) /\ Plain
    BY <1>1, <2>13 DEF Heard, Plain, objs, env
  <2>19. Code' /\ Flags'
    BY <2>11, <2>16, <2>17, <2>18, PlainStep
  <2>20. QED
    BY <2>9, <2>10, <2>12, <2>14, <2>19 DEF Inv, Stack, Sync
<1>4. QED
  BY <1>2, <1>3

-----------------------------------------------------------------------------
(* A thread starts.                                                        *)

LEMMA NoneRecompiles ==
  ASSUME Stacks, NEW t \in Threads, MayStart(t), ~ Overlap
  PROVE  Depth(t) = 0 /\ \A x \in Acts : x.op # "recompile"
<1>1. ASSUME NEW u \in Threads, NEW d \in 1 .. Depth(u), F(u, d).op = "recompile" PROVE FALSE
  <2>1. Depth(u) + 1 - d \in DOMAIN stack[u]
    <3>1. stack[u] \in Seq(Activation) /\ Depth(u) \in Nat /\ Depth(u) = Len(stack[u])
      BY DepthType DEF Stacks, Depth
    <3>2. DOMAIN stack[u] = 1 .. Depth(u)
      BY <3>1
    <3>3. QED
      BY <3>1, <3>2
  <2>2. Recompiling(u)
    BY <1>1, <2>1 DEF Recompiling, F
  <2>3. QED
    BY <2>2 DEF MayStart
<1>2. QED
  BY <1>1, InActs, DepthType DEF MayStart

(* ... a call or a compilation.                                            *)
LEMMA StartStep ==
  ASSUME Inv, NEW t \in Threads, NEW n, Moved(t, n), NEW new, Moves(t, {}, new), Plain,
         \A x \in Acts : x.op # "recompile", \A x \in new : x.op # "recompile",
         \A x \in new : Sound(x) /\ NewerOK(x) /\ ~ Made(x) /\ \A f \in Funcs : ~ Counts(x, f),
         \A x \in new : x.op = "compile" => ~ x.counted,
         UNCHANGED counter, Types', Shape', Ranked', Locked', Heard(t, n)
  PROVE  Inv'
<1>1. Lonely'
  <2>1. \A x \in Acts' : x.op # "recompile"
    BY DEF Moves
  <2>2. \A u \in Threads : \A d \in 1 .. Depth(u)' : F(u, d)' \in Acts'
    BY DEF Acts
  <2>3. QED
    BY <2>1, <2>2 DEF Lonely
<1>2. Counters'
  <2>1. Counters
    BY DEF Inv, Sync
  <2>2. \A f \in Funcs : (\E x \in new : Counts(x, f)) <=> (\E x \in {} : Counts(x, f))
    OBVIOUS
  <2>3. QED
    BY <2>1, <2>2, CountersStep
<1>3. SameMade({}, new) /\ SameRecompile({}, new)
  BY DEF SameMade, SameRecompile
<1>4. Code' /\ Flags'
  BY <1>3, PlainStep
<1>5. QED
  BY <1>1, <1>2, <1>4 DEF Inv, Stack, Sync

LEMMA StartOne ==
  ASSUME Inv, NEW t \in Threads, MayStart(t), ~ Overlap, NEW a \in Activation,
         stack' = [stack EXCEPT ![t] = <<a>>], ShapeOf(a), RunOK(a),
         \/ a.op = "call" /\ a.pc = "run"
         \/ Called(a),
         NEW v \in [kind : Answers, res : SUBSET Result], v.kind = "none", Answer(t, v),
         UNCHANGED <<overloads, table, fallbackdef, canCompile, defns, failed, disk, lock,
                     counter, glob, made, wanted, renewed>>
  PROVE  Inv'
<1>1. Types /\ Stacks /\ Shape /\ Ranked /\ Locked /\ Counters
  BY DEF Inv, Stack, Sync, Types
<1>2. Depth(t) = 0 /\ \A x \in Acts : x.op # "recompile"
  BY <1>1, NoneRecompiles
<1>3. Starts(t, a)
  BY <1>1, StartMoves DEF MayStart, Starts
<1>4. Moves(t, {}, {a}) /\ Moved(t, 1) /\ F(t, 1)' = a
  BY <1>1, <1>3, StartsMoves DEF Starts
<1>5. Shape' /\ Ranked' /\ Locked'
  BY <1>1, <1>3, StartShape, StartsLocked DEF Active, Called
<1>6. /\ answer' \in [Threads -> [kind : Answers, res : SUBSET Result]]
      /\ answer'[t].kind = "none" /\ \A u \in Threads : u # t => answer'[u] = answer[u]
  BY <1>1, AnswerType DEF Types
<1>7. Types'
  <2>1. Stacks'
    BY <1>4 DEF Moved
  <2>2. QED
    BY <1>1, <1>6, <2>1 DEF Types
<1>8. /\ Sound(a) /\ NewerOK(a) /\ ~ Made(a) /\ \A f \in Funcs : ~ Counts(a, f)
      /\ a.op = "compile" => ~ a.counted
      /\ a.op # "recompile"
  BY DEF Sound, WorkOK, UsedOK, Idle, NewerOK, NewerOf, Working, Made, Counts, Called
<1>9. Heard(t, 1) /\ Plain
  BY <1>6 DEF Heard, Plain
<1>10. QED
  BY <1>2, <1>4, <1>5, <1>7, <1>8, <1>9, StartStep

LEMMA StartTwo ==
  ASSUME Inv, NEW t \in Threads, MayStart(t), ~ Overlap, NEW a \in Activation,
         NEW c \in Activation, stack' = [stack EXCEPT ![t] = <<c, a>>],
         ShapeOf(a), ShapeOf(c), a.op = "call", a.pc = "compiled", Called(c),
         c.f = a.f, c.s = a.s,
         NEW v \in [kind : Answers, res : SUBSET Result], v.kind = "none", Answer(t, v),
         UNCHANGED <<overloads, table, fallbackdef, canCompile, defns, failed, disk, lock,
                     counter, glob, made, wanted, renewed>>
  PROVE  Inv'
<1>1. Types /\ Stacks /\ Shape /\ Ranked /\ Locked /\ Counters
  BY DEF Inv, Stack, Sync, Types
<1>2. Depth(t) = 0 /\ \A x \in Acts : x.op # "recompile"
  BY <1>1, NoneRecompiles
<1>3. StartsCall(t, a, c)
  BY <1>1, StartTwoMoves DEF MayStart, StartsCall
<1>4. Moves(t, {}, {a, c}) /\ Moved(t, 2) /\ F(t, 2)' = c
  BY <1>1, <1>3, StartsCallMoves DEF StartsCall
<1>5. Shape' /\ Ranked' /\ Locked'
  BY <1>1, <1>3, StartCallShape, StartsCallLocked
<1>6. /\ answer' \in [Threads -> [kind : Answers, res : SUBSET Result]]
      /\ answer'[t].kind = "none" /\ \A u \in Threads : u # t => answer'[u] = answer[u]
  BY <1>1, AnswerType DEF Types
<1>7. Types'
  <2>1. Stacks'
    BY <1>4 DEF Moved
  <2>2. QED
    BY <1>1, <1>6, <2>1 DEF Types
<1>8. \A x \in {a, c} :
        /\ Sound(x) /\ NewerOK(x) /\ ~ Made(x) /\ \A f \in Funcs : ~ Counts(x, f)
        /\ x.op = "compile" => ~ x.counted
        /\ x.op # "recompile"
  BY DEF Sound, WorkOK, UsedOK, RunOK, Idle, NewerOK, NewerOf, Working, Made, Counts, Called
<1>9. Heard(t, 2) /\ Plain
  BY <1>6 DEF Heard, Plain
<1>10. QED
  BY <1>2, <1>4, <1>5, <1>7, <1>8, <1>9, StartStep

(* A step that touches no stack.                                           *)
LEMMA StillStep ==
  ASSUME Inv, UNCHANGED <<stack, overloads, table, fallbackdef, defns, failed, disk, lock,
                          counter, renewed>>,
         glob' \in Nat, glob <= glob', made' \in Nat, canCompile' \in [Funcs -> BOOLEAN],
         wanted' \in [Funcs -> BOOLEAN],
         answer' \in [Threads -> [kind : Answers, res : SUBSET Result]],
         Flags', Answered'
  PROVE  Inv'
<1>1. \A u : Depth(u)' = Depth(u) /\ \A d : F(u, d)' = F(u, d)
  BY DEF Depth, F
<1>2. Acts' = Acts
  BY <1>1 DEF Acts
<1>3. Types'
  BY DEF Types, Stacks, Inv, Stack
<1>4. Shape' /\ Ranked' /\ Lonely'
  BY <1>1 DEF Shape, ShapeOf, Waiting, Ranked, Lonely, Inv, Stack, Sync
<1>5. Locked'
  <2>1. \A u : Held(u)' = Held(u)
    BY HeldOther
  <2>2. QED
    BY <2>1 DEF Locked, Inv, Sync
<1>6. Counters'
  BY <1>2 DEF Counters, Counts, Inv, Sync
<1>7. Works' /\ Runs' /\ Uses'
  <2>1. \A x : WorkOK(x)' <=> WorkOK(x)
    BY DEF WorkOK, Working, Made, At
  <2>2. \A x : UsedOK(x)' <=> UsedOK(x)
    BY DEF UsedOK, Usable, NoPython
  <2>3. QED
    BY <1>2, <2>1, <2>2 DEF Works, Runs, Uses, RunOK, Inv, Code
<1>8. Tables' /\ Defns'
  <2>1. \A f : Resetting(f)' <=> Resetting(f)
    BY <1>2 DEF Resetting, Resets
  <2>2. \A f, r : Owning(f, r)' <=> Owning(f, r)
    BY <1>2 DEF Owning, Owns
  <2>3. \A r : Pending(r)' <=> Pending(r)
    BY <1>2 DEF Pending, Made
  <2>4. QED
    BY <2>1, <2>2, <2>3 DEF Tables, Defns, Inv, Code
<1>9. Renews'
  <2>1. \A f, g : Newer(f, g)' <=> Newer(f, g)
    BY <1>2 DEF Newer, NewerOf
  <2>2. Renews /\ Types /\ Stacks
    BY DEF Inv, Code, Stack, Types
  <2>3. ASSUME NEW f \in Funcs, NEW g \in Nat, g = renewed'[f]
        PROVE  g <= glob' /\ Newer(f, g)'
    <3>1. g <= glob /\ Newer(f, g) /\ glob \in Nat
      BY <2>2, <2>3 DEF Renews, Types
    <3>2. QED
      BY <2>1, <3>1
  <2>4. ASSUME NEW x \in Acts', x.op = "recompile"
        PROVE  x.g <= glob' /\ (x.pc = "each" => Newer(x.f, x.g)')
    <3>1. x \in Acts /\ x.g \in Nat /\ glob \in Nat
      BY <1>2, <2>2, ActsType DEF Activation, Types
    <3>2. x.g <= glob /\ (x.pc = "each" => Newer(x.f, x.g))
      BY <2>2, <2>4, <3>1 DEF Renews
    <3>3. QED
      BY <2>1, <3>1, <3>2
  <2>5. QED
    BY <2>3, <2>4 DEF Renews
<1>10. QED
  BY <1>3, <1>4, <1>5, <1>6, <1>7, <1>8, <1>9 DEF Inv, Stack, Sync, Code

(* The entries of the C++ table are for its function.                      *)
LEMMA EntryOK ==
  ASSUME Inv, NEW f \in Funcs, NEW i \in DOMAIN table[f]
  PROVE  table[f][i] \in Result /\ table[f][i].f = f
<1>1. Types /\ Tables /\ Works
  BY DEF Inv, Stack, Code
<1>2. table[f][i] \in Result
  BY <1>1 DEF Types
<1>3. ~ Resetting(f)
  <2>1. table[f] = <<>> => DOMAIN table[f] = {}
    OBVIOUS
  <2>2. QED
    BY <1>1, <2>1 DEF Tables
<1>4. table[f][i] \in overloads[f] \/ Owning(f, table[f][i])
  BY <1>1, <1>2, <1>3 DEF Tables
<1>5. \A r : Owning(f, r) => r.f = f
  BY <1>1 DEF Owning, Owns, Works, WorkOK, Made
<1>6. QED
  BY <1>1, <1>2, <1>4, <1>5 DEF Tables

LEMMA CallInv ==
  ASSUME Inv, ~ Overlap, NEW t \in Threads, NEW f \in Funcs, NEW s \in Sigs, Call(t, f, s)
  PROVE  Inv'
<1>1. /\ MayStart(t) /\ Types /\ Stacks /\ Answered /\ Tables
      /\ UNCHANGED <<objs, lock, counter, glob, made, wanted, renewed>>
      /\ UNCHANGED <<overloads, table, fallbackdef, canCompile, defns, failed, disk>>
  BY DEF Call, Inv, Stack, Types, Code, objs
<1>2. PICK m : m = Resolve(f, s)
  OBVIOUS
<1>3. PICK v : v = Nothing
  OBVIOUS
<1>4. v \in [kind : Answers, res : SUBSET Result] /\ v.kind = "none"
  BY <1>3, NothingType
<1>5. canCompile[f] \in BOOLEAN /\ m \subseteq DOMAIN table[f]
  BY <1>1, <1>2 DEF Types, Resolve, Exact, Near
(* A result that may be run.                                               *)
<1>6. ASSUME NEW r \in Result, r.f = f,
             r.s # s => ~ canCompile[f] /\ (<<s, r.s>> \in Fits \/ r.obj),
             stack' = [stack EXCEPT ![t] =
               <<[Frame("call", "run", f, s) EXCEPT !.res = {r}, !.flag = canCompile[f]]>>],
             Answer(t, Nothing)
      PROVE  Inv'
  <2>1. PICK a : a = [Frame("call", "run", f, s) EXCEPT !.res = {r}, !.flag = canCompile[f]]
    OBVIOUS
  <2>2. /\ a \in Activation /\ a.op = "call" /\ a.pc = "run" /\ a.f = f /\ a.s = s
        /\ a.res = {r} /\ a.flag = canCompile[f]
    BY <1>5, <2>1 DEF Frame, Activation, Pcs
  <2>3. ShapeOf(a) /\ RunOK(a)
    BY <1>6, <2>2 DEF ShapeOf, RunOK
  <2>4. QED
    BY <1>1, <1>3, <1>4, <1>6, <2>1, <2>2, <2>3, StartOne
<1>7. CASE /\ \E i \in m : stack' = [stack EXCEPT ![t] =
                <<[Frame("call", "run", f, s) EXCEPT !.res = {table[f][i]},
                                                      !.flag = canCompile[f]]>>]
           /\ Answer(t, Nothing)
  <2>1. PICK i \in m : stack' = [stack EXCEPT ![t] =
                <<[Frame("call", "run", f, s) EXCEPT !.res = {table[f][i]},
                                                      !.flag = canCompile[f]]>>]
    BY <1>7
  <2>2. PICK r : r = table[f][i]
    OBVIOUS
  <2>3. r \in Result /\ r.f = f
    BY <1>5, <2>2, EntryOK
  <2>4. r.s # s => ~ canCompile[f] /\ <<s, r.s>> \in Fits
    BY <1>2, <2>1, <2>2 DEF Resolve, Exact, Near
  <2>5. QED
    BY <1>6, <1>7, <2>1, <2>2, <2>3, <2>4
<1>8. CASE /\ stack' = [stack EXCEPT ![t] =
                <<Frame("compile", "lock", f, s), Frame("call", "compiled", f, s)>>]
           /\ Answer(t, Nothing)
  <2>1. PICK a, c : a = Frame("call", "compiled", f, s) /\ c = Frame("compile", "lock", f, s)
    OBVIOUS
  <2>2. a \in Activation /\ a.op = "call" /\ a.pc = "compiled" /\ a.f = f /\ a.s = s
    BY <2>1 DEF Frame, Activation, Pcs
  <2>3. Called(c) /\ c.f = f /\ c.s = s /\ ShapeOf(c) /\ c \in Activation
    BY <2>1, CalledFrame DEF Called
  <2>4. ShapeOf(a)
    BY <2>2 DEF ShapeOf
  <2>5. QED
    BY <1>1, <1>3, <1>4, <1>8, <2>1, <2>2, <2>3, <2>4, StartTwo
<1>9. CASE /\ ~ canCompile[f]
           /\ \E r \in fallbackdef[f] : stack' = [stack EXCEPT ![t] =
                <<[Frame("call", "run", f, s) EXCEPT !.res = {r}, !.flag = canCompile[f]]>>]
           /\ Answer(t, Nothing)
  <2>1. PICK r \in fallbackdef[f] : stack' = [stack EXCEPT ![t] =
                <<[Frame("call", "run", f, s) EXCEPT !.res = {r}, !.flag = canCompile[f]]>>]
    BY <1>9
  <2>2. r \in Result /\ r.f = f /\ r.obj
    BY <1>1 DEF Types, Tables
  <2>3. QED
    BY <1>6, <1>9, <2>1, <2>2
<1>10. ASSUME NEW k \in Answers \ ({"ok"} \cup InternalErrors), Answer(t, Raised(k)),
              UNCHANGED stack
       PROVE  Inv'
  <2>1. PICK w : w = Raised(k)
    OBVIOUS
  <2>2. /\ w \in [kind : Answers, res : SUBSET Result] /\ w.kind = k
    BY <2>1, RaisedType
  <2>3. /\ answer' \in [Threads -> [kind : Answers, res : SUBSET Result]]
        /\ answer'[t].kind = k /\ \A u \in Threads : u # t => answer'[u] = answer[u]
    BY <1>1, <1>10, <2>1, <2>2, AnswerType DEF Types
  <2>4. Answered'
    <3>1. \A u \in Threads : F(u, Depth(u))' = F(u, Depth(u))
      BY <1>10 DEF F, Depth
    <3>2. ASSUME NEW u \in Threads
          PROVE  /\ answer'[u].kind \notin InternalErrors
                 /\ stack'[u] # <<>> /\ answer'[u].kind = "ok" /\ Takes(F(u, Depth(u))') =>
                      \A r \in answer'[u].res : AnswerFor(F(u, Depth(u))', r)
      <4>1. CASE u = t
        BY <2>3, <4>1
      <4>2. CASE u # t
        BY <1>1, <1>10, <2>3, <3>1, <4>2 DEF Answered
      <4>3. QED
        BY <4>1, <4>2
    <3>3. QED
      BY <3>2 DEF Answered, Takes, AnswerFor
  <2>5. Flags'
    <3>1. Acts' = Acts
      BY <1>10 DEF Acts, F, Depth
    <3>2. QED
      BY <1>1, <3>1 DEF Flags, Recompiles, Inv, Sync
  <2>6. glob' \in Nat /\ glob <= glob' /\ made' \in Nat
        /\ canCompile' \in [Funcs -> BOOLEAN] /\ wanted' \in [Funcs -> BOOLEAN]
    BY <1>1 DEF Types
  <2>7. QED
    BY <1>1, <1>10, <2>3, <2>4, <2>5, <2>6, StillStep
<1>11. CASE Answer(t, Raised("nomatch")) /\ UNCHANGED stack
  <2>1. "nomatch" \in Answers \ ({"ok"} \cup InternalErrors)
    BY DEF Answers
  <2>2. QED
    BY <1>10, <1>11, <2>1
<1>12. CASE /\ Cardinality(m) > 1 /\ ~ canCompile[f]
            /\ Answer(t, Raised("ambiguous")) /\ UNCHANGED stack
  <2>1. CASE Unambiguous
    <3>1. \A i, j \in DOMAIN table[f] : table[f][i].s = table[f][j].s => i = j
      BY <1>1 DEF Tables
    <3>2. \A i, j \in m : table[f][i].s = table[f][j].s
      BY <1>2, <2>1 DEF Resolve, Exact, Near, Unambiguous
    <3>3. \A i, j \in m : i = j
      BY <1>5, <3>1, <3>2
    <3>4. m = {} \/ \E i : m = {i}
      BY <3>3
    <3>5. Cardinality(m) = 0 \/ Cardinality(m) = 1
      BY <3>4, FS_EmptySet, FS_Singleton
    <3>6. QED
      BY <1>12, <3>5
  <2>2. CASE ~ Unambiguous
    <3>1. "ambiguous" \in Answers \ ({"ok"} \cup InternalErrors)
      BY <2>2 DEF Answers
    <3>2. QED
      BY <1>10, <1>12, <3>1
  <2>3. QED
    BY <2>1, <2>2
<1>13. QED
  BY <1>2, <1>7, <1>8, <1>9, <1>11, <1>12 DEF Call

LEMMA CompileInv ==
  ASSUME Inv, ~ Overlap, NEW t \in Threads, NEW f \in Funcs, NEW s \in Sigs, Compile(t, f, s)
  PROVE  Inv'
<1>1. PICK c, v : c = Frame("compile", "lock", f, s) /\ v = Nothing
  OBVIOUS
<1>2. Called(c) /\ ShapeOf(c) /\ c \in Activation /\ RunOK(c)
  BY <1>1, CalledFrame DEF Called, RunOK
<1>3. v \in [kind : Answers, res : SUBSET Result] /\ v.kind = "none"
  BY <1>1, NothingType
<1>4. /\ MayStart(t) /\ stack' = [stack EXCEPT ![t] = <<c>>] /\ Answer(t, v)
      /\ UNCHANGED <<overloads, table, fallbackdef, canCompile, defns, failed, disk, lock,
                     counter, glob, made, wanted, renewed>>
  BY <1>1 DEF Compile, objs
<1>5. QED
  BY <1>2, <1>3, <1>4, StartOne

LEMMA DisableCompileInv ==
  ASSUME Inv, ~ Overlap, NEW t \in Threads, NEW f \in Funcs, NEW val \in BOOLEAN,
         DisableCompile(t, f, val)
  PROVE  Inv'
<1>1. /\ Types /\ Stacks /\ Flags /\ Answered /\ MayStart(t)
      /\ canCompile' = [canCompile EXCEPT ![f] = val]
      /\ wanted' = [wanted EXCEPT ![f] = val]
      /\ UNCHANGED <<overloads, table, fallbackdef, defns, failed, disk, lock, counter,
                     stack, answer, glob, made, renewed>>
  BY DEF DisableCompile, Inv, Stack, Sync, Code, Types
<1>2. canCompile' \in [Funcs -> BOOLEAN] /\ wanted' \in [Funcs -> BOOLEAN]
      /\ glob' \in Nat /\ made' \in Nat /\ glob <= glob'
      /\ answer' \in [Threads -> [kind : Answers, res : SUBSET Result]]
  BY <1>1 DEF Types
<1>3. \A x \in Acts : x.op # "recompile"
  BY <1>1, NoneRecompiles
<1>4. Acts' = Acts
  BY <1>1 DEF Acts, F, Depth
<1>5. \A g \in Funcs : canCompile'[g] = wanted'[g]
  <2>1. \A g \in Funcs : canCompile[g] = wanted[g]
    BY <1>1, <1>3 DEF Flags, Recompiles
  <2>2. QED
    BY <1>1, <2>1 DEF Types
<1>6. Flags'
  BY <1>3, <1>4, <1>5 DEF Flags
<1>7. Answered'
  BY <1>1 DEF Answered, Takes, AnswerFor, F, Depth
<1>8. QED
  BY <1>1, <1>2, <1>6, <1>7, StillStep

LEMMA RebindInv == ASSUME Inv, Rebind PROVE Inv'
<1>1. /\ Types /\ Flags /\ Answered /\ glob' = glob + 1
      /\ UNCHANGED <<overloads, table, fallbackdef, canCompile, defns, failed, disk, lock,
                     counter, stack, answer, made, wanted, renewed>>
  BY DEF Rebind, Inv, Stack, Sync, Code, objs
<1>2. canCompile' \in [Funcs -> BOOLEAN] /\ wanted' \in [Funcs -> BOOLEAN]
      /\ glob' \in Nat /\ made' \in Nat /\ glob <= glob'
      /\ answer' \in [Threads -> [kind : Answers, res : SUBSET Result]]
  BY <1>1 DEF Types
<1>3. Acts' = Acts
  BY <1>1 DEF Acts, F, Depth
<1>4. Flags'
  BY <1>1, <1>3 DEF Flags, Recompiles
<1>5. Answered'
  BY <1>1 DEF Answered, Takes, AnswerFor, F, Depth
<1>6. QED
  BY <1>1, <1>2, <1>4, <1>5, StillStep

LEMMA StutterInv == ASSUME Inv, UNCHANGED vars PROVE Inv'
<1>1. /\ Types /\ Flags /\ Answered
      /\ UNCHANGED <<overloads, table, fallbackdef, canCompile, defns, failed, disk, lock,
                     counter, stack, answer, glob, made, wanted, renewed>>
  BY DEF vars, env, Inv, Stack, Sync, Code, objs
<1>2. canCompile' \in [Funcs -> BOOLEAN] /\ wanted' \in [Funcs -> BOOLEAN]
      /\ glob' \in Nat /\ made' \in Nat /\ glob <= glob'
      /\ answer' \in [Threads -> [kind : Answers, res : SUBSET Result]]
  BY <1>1 DEF Types
<1>3. Acts' = Acts
  BY <1>1 DEF Acts, F, Depth
<1>4. Flags'
  BY <1>1, <1>3 DEF Flags, Recompiles
<1>5. Answered'
  BY <1>1 DEF Answered, Takes, AnswerFor, F, Depth
<1>6. QED
  BY <1>1, <1>2, <1>4, <1>5, StillStep

-----------------------------------------------------------------------------
(* recompile().                                                            *)

LEMMA RecompileInv ==
  ASSUME Inv, ~ Overlap, NEW t \in Threads, NEW f \in Funcs, Recompile(t, f)
  PROVE  Inv'
<1>1. /\ Types /\ Stacks /\ Shape /\ Ranked /\ Locked /\ Counters /\ Flags /\ Tables /\ Defns
      /\ Answered /\ Renews /\ MayStart(t)
      /\ UNCHANGED <<overloads, fallbackdef, canCompile, failed, disk, lock, counter,
                     glob, made, wanted, renewed>>
      /\ defns' = defns \ overloads[f] /\ table' = [table EXCEPT ![f] = <<>>]
  BY DEF Recompile, Disposed, Inv, Stack, Sync, Code, Types
<1>2. \A u \in Threads : stack[u] = <<>> /\ Depth(u) = 0
  BY <1>1, DepthType DEF Recompile, MayStart
<1>3. Acts = {} /\ Others(t) = {}
  <2>1. Acts = {}
    BY <1>2, InActs
  <2>2. QED
    BY <1>1, <2>1, ActsWith
<1>4. PICK a : a = [Frame("recompile", "reset", f, {}) EXCEPT
                      !.todo = {r.s : r \in overloads[f]}, !.flag = canCompile[f], !.g = glob]
  OBVIOUS
<1>5. /\ a \in Activation /\ a.op = "recompile" /\ a.pc = "reset" /\ a.f = f
      /\ a.todo \subseteq Sigs /\ a.flag = canCompile[f] /\ a.g = glob
  <2>1. PICK td : td = {r.s : r \in overloads[f]}
    OBVIOUS
  <2>2. td \subseteq Sigs /\ td \in SUBSET (Funcs \cup Sigs)
    BY <1>1, <2>1 DEF Types, Result
  <2>3. canCompile[f] \in BOOLEAN /\ glob \in Nat
    BY <1>1 DEF Types
  <2>4. a = [Frame("recompile", "reset", f, {}) EXCEPT
               !.todo = td, !.flag = canCompile[f], !.g = glob]
    BY <1>4, <2>1
  <2>5. QED
    BY <2>2, <2>3, <2>4 DEF Frame, Activation, Pcs
<1>6. stack' = [stack EXCEPT ![t] = <<a>>] /\ Answer(t, Nothing)
  BY <1>4 DEF Recompile
<1>7. Starts(t, a)
  BY <1>1, <1>2, <1>5, <1>6, StartMoves DEF Starts
<1>8. Moves(t, {}, {a}) /\ Moved(t, 1) /\ F(t, 1)' = a
  BY <1>1, <1>7, StartsMoves DEF Starts
<1>9. Acts' = {a}
  BY <1>3, <1>8 DEF Moves
<1>10. ShapeOf(a)
  BY <1>5 DEF ShapeOf
<1>11. Shape' /\ Ranked' /\ Locked'
  BY <1>1, <1>5, <1>7, <1>10, StartShape, StartsLocked DEF Active
<1>12. Counters'
  <2>1. \A g \in Funcs : (\E x \in {a} : Counts(x, g)) <=> (\E x \in {} : Counts(x, g))
    BY <1>5 DEF Counts
  <2>2. \A x \in {a} : x.op = "compile" /\ x.pc \in {"lock", "check"} => ~ x.counted
    BY <1>5
  <2>3. QED
    BY <1>1, <1>8, <2>1, <2>2, CountersStep
<1>13. Lonely'
  <2>1. \A u \in Threads : u # t => stack'[u] = <<>>
    BY <1>2, <1>8 DEF Moved
  <2>2. \A u \in Threads : u # t => Depth(u)' = 0
    BY <2>1 DEF Depth
  <2>3. QED
    BY <2>1, <2>2 DEF Lonely
<1>14. Flags'
  <2>1. \A g \in Funcs : canCompile[g] = wanted[g]
    BY <1>1, <1>3 DEF Flags
  <2>2. QED
    BY <1>1, <1>5, <1>9, <2>1 DEF Flags
<1>15. /\ answer' \in [Threads -> [kind : Answers, res : SUBSET Result]]
       /\ answer'[t].kind = "none" /\ \A u \in Threads : u # t => answer'[u] = answer[u]
  BY <1>1, <1>6, AnswerType, NothingType DEF Types
<1>16. Types'
  <2>1. Stacks' /\ defns' \subseteq Result
    BY <1>1, <1>8 DEF Moved, Types
  <2>2. table' \in [Funcs -> Seq(Result)]
    <3>1. <<>> \in Seq(Result)
      OBVIOUS
    <3>2. QED
      BY <1>1, <3>1 DEF Types
  <2>3. QED
    BY <1>1, <1>15, <2>1, <2>2 DEF Types
<1>17. Works' /\ Uses' /\ Runs'
  BY <1>5, <1>9 DEF Works, Uses, Runs, WorkOK, UsedOK, RunOK, Working, Made
<1>18. /\ \A g : Resetting(g)' <=> g = f
       /\ \A g : ~ Resetting(g)
       /\ \A g, r : ~ Owning(g, r)' /\ ~ Owning(g, r)
       /\ \A r : ~ Pending(r)' /\ ~ Pending(r)
  BY <1>3, <1>5, <1>9 DEF Resetting, Resets, Owning, Owns, Pending, Made
<1>19. Tables'
  <2>1. ASSUME NEW g \in Funcs
        PROVE  /\ Resetting(g)' => table'[g] = <<>>
               /\ ~ Resetting(g)' => \A r \in Result :
                    (\E i \in DOMAIN table'[g] : table'[g][i] = r)
                      <=> (r \in overloads'[g] \/ Owning(g, r)')
               /\ \A i, j \in DOMAIN table'[g] : table'[g][i].s = table'[g][j].s => i = j
               /\ \A r \in overloads'[g] : r.f = g
               /\ \A r \in fallbackdef'[g] : r.f = g /\ r.obj
    <3>1. /\ \A r \in Result :
               (\E i \in DOMAIN table[g] : table[g][i] = r) <=> r \in overloads[g]
          /\ \A i, j \in DOMAIN table[g] : table[g][i].s = table[g][j].s => i = j
          /\ \A r \in overloads'[g] : r.f = g
          /\ \A r \in fallbackdef'[g] : r.f = g /\ r.obj
      BY <1>1, <1>18 DEF Tables
    <3>2. CASE g = f
      <4>1. table'[g] = <<>> /\ DOMAIN table'[g] = {}
        BY <1>1, <3>2 DEF Types
      <4>2. QED
        BY <1>18, <3>1, <3>2, <4>1
    <3>3. CASE g # f
      <4>1. table'[g] = table[g] /\ overloads'[g] = overloads[g]
        BY <1>1, <3>3 DEF Types
      <4>2. QED
        BY <1>18, <3>1, <3>3, <4>1
    <3>4. QED
      BY <3>2, <3>3
  <2>2. QED
    BY <2>1 DEF Tables
<1>20. Defns'
  <2>1. ASSUME NEW q \in Result
        PROVE  q \in defns' <=>
                 ~ q.obj /\ ((q \in overloads'[q.f] /\ ~ Resetting(q.f)') \/ Pending(q)')
    <3>1. q \in defns <=> ~ q.obj /\ q \in overloads[q.f]
      BY <1>1, <1>18 DEF Defns
    <3>2. q \in overloads[f] => q.f = f
      BY <1>1 DEF Tables
    <3>3. QED
      BY <1>1, <1>18, <3>1, <3>2
  <2>2. QED
    BY <2>1 DEF Defns, Resetting, Pending, Resets
<1>21. Answered'
  <2>1. ~ Takes(a)
    BY <1>5 DEF Takes
  <2>2. QED
    BY <1>1, <1>8, <1>15, <2>1, AnsweredStep
<1>22. Renews'
  <2>1. ASSUME NEW g \in Funcs, NEW k \in Nat, k = renewed'[g]
        PROVE  k <= glob' /\ Newer(g, k)'
    <3>1. k <= glob /\ Newer(g, k)
      BY <1>1, <2>1 DEF Renews
    <3>2. \A x \in Acts' : NewerOf(x, g, k)
      BY <1>5, <1>9 DEF NewerOf
    <3>3. QED
      BY <1>1, <3>1, <3>2 DEF Newer, NewerOf
  <2>2. \A x \in Acts' : x.g <= glob' /\ x.pc # "each"
    BY <1>1, <1>5, <1>9 DEF Types
  <2>3. QED
    BY <2>1, <2>2 DEF Renews
<1>23. QED
  BY <1>11, <1>12, <1>13, <1>14, <1>16, <1>17, <1>19, <1>20, <1>21, <1>22
    DEF Inv, Stack, Sync, Code

(* A thread in recompile() is the only one that does anything.             *)
LEMMA OnlyRecompile ==
  ASSUME Inv, NEW t \in Threads, stack[t] # <<>>, NEW a, a = Top(t), a.op = "recompile",
         NEW n, n = Depth(t)
  PROVE  /\ n = 1 /\ Others(t) = {} /\ Acts = {a}
         /\ \A u \in Threads : u # t => stack[u] = <<>>
<1>1. n \in Nat \ {0} /\ n \in 1 .. n /\ a = F(t, n) /\ Stacks /\ Shape /\ Lonely
  BY TopFacts DEF Inv, Stack, Sync
<1>2. n = 1 /\ Others(t) = {}
  BY <1>1, RecompileAlone
<1>3. Acts = {a}
  BY <1>1, <1>2, ActsWith
<1>4. \A u \in Threads : u # t => stack[u] = <<>>
  BY <1>1 DEF Lonely
<1>5. QED
  BY <1>2, <1>3, <1>4

LEMMA ResetInv ==
  ASSUME Inv, NEW t \in Threads, Reset(t) PROVE Inv'
<1>1. stack[t] # <<>> /\ Types /\ Stacks /\ Shape /\ Ranked /\ Locked /\ Counters /\ Lonely
      /\ Flags /\ Tables /\ Defns /\ Answered /\ Renews
  BY DEF Reset, In, Inv, Stack, Sync, Code, Types
<1>2. PICK n, a : n = Depth(t) /\ a = Top(t)
  OBVIOUS
<1>3. /\ a \in Activation /\ a.op = "recompile" /\ a.pc = "reset" /\ ShapeOf(a) /\ a \in Acts
      /\ n \in Nat \ {0} /\ a = F(t, n)
  BY <1>1, <1>2, TopFacts DEF Reset, In
<1>4. a.f \in Funcs /\ a.g \in Nat
  BY <1>3, FrameType
<1>5. Others(t) = {} /\ Acts = {a}
  BY <1>1, <1>2, <1>3, OnlyRecompile
<1>6. PICK b : b = [a EXCEPT !.pc = "each"]
  OBVIOUS
<1>7. /\ b \in Activation /\ b.op = "recompile" /\ b.pc = "each" /\ b.f = a.f /\ b.s = a.s
      /\ b.todo = a.todo /\ b.counted = a.counted /\ b.flag = a.flag /\ b.g = a.g
  BY <1>3, <1>6 DEF Activation, Pcs
<1>8. /\ Goto(t, b)
      /\ overloads' = [overloads EXCEPT ![a.f] = {}] /\ disk' = [disk EXCEPT ![a.f] = {}]
      /\ canCompile' = [canCompile EXCEPT ![a.f] = TRUE]
      /\ UNCHANGED <<table, fallbackdef, defns, failed, lock, counter, answer>>
      /\ UNCHANGED <<glob, made, wanted, renewed>>
  BY <1>2, <1>6 DEF Reset, Kept, Saved, env
<1>9. Turn(t, n, a, b)
  BY <1>1, <1>2, <1>3, <1>7, <1>8, GotoTurn
<1>10. ShapeOf(b)
  BY <1>3, <1>7 DEF ShapeOf
<1>11. Shape' /\ Ranked'
  BY <1>1, <1>9, <1>10, TurnShape
<1>12. Locked' /\ Counters'
  BY <1>1, <1>3, <1>7, <1>8, <1>9, TurnLocked, TurnCounters DEF Active
<1>13. Moved(t, n) /\ Moves(t, {a}, {b}) /\ F(t, n)' = b
  BY <1>1, <1>9, TurnMoves DEF Turn
<1>14. Acts' = {b}
  BY <1>5, <1>13 DEF Moves
<1>15. Lonely'
  BY <1>1, <1>2, <1>3, <1>13, LonelyStep
<1>16. overloads' \in [Funcs -> SUBSET Result] /\ disk' \in [Funcs -> SUBSET (Sigs \X Nat)]
       /\ canCompile' \in [Funcs -> BOOLEAN]
       /\ overloads'[a.f] = {} /\ disk'[a.f] = {}
       /\ \A f \in Funcs : f # a.f =>
            overloads'[f] = overloads[f] /\ disk'[f] = disk[f] /\ canCompile'[f] = canCompile[f]
  <2>1. PICK D : D = Sigs \X Nat
    OBVIOUS
  <2>2. disk \in [Funcs -> SUBSET D]
    BY <1>1, <2>1 DEF Types
  <2>3. disk' \in [Funcs -> SUBSET D]
    BY <1>8, <2>2
  <2>4. /\ overloads \in [Funcs -> SUBSET Result] /\ canCompile \in [Funcs -> BOOLEAN]
    BY <1>1 DEF Types
  <2>5. QED
    BY <1>4, <1>8, <2>1, <2>2, <2>3, <2>4
<1>17. Types'
  <2>1. Stacks'
    BY <1>13 DEF Moved
  <2>2. QED
    BY <1>1, <1>8, <1>16, <2>1 DEF Types
<1>18. Flags'
  <2>1. \A f \in Funcs : f # a.f => canCompile'[f] = wanted[f]
    BY <1>1, <1>5, <1>16 DEF Flags, Recompiles
  <2>2. b.flag = wanted[b.f]
    BY <1>1, <1>3, <1>7 DEF Flags
  <2>3. QED
    BY <1>7, <1>8, <1>14, <2>1, <2>2 DEF Flags, Recompiles
<1>19. Works' /\ Uses' /\ Runs'
  BY <1>7, <1>14 DEF Works, Uses, Runs, WorkOK, UsedOK, RunOK, Working, Made
<1>20. /\ \A f : ~ Resetting(f)'
       /\ \A f : Resetting(f) <=> f = a.f
       /\ \A f, r : ~ Owning(f, r)' /\ ~ Owning(f, r)
       /\ \A r : ~ Pending(r)' /\ ~ Pending(r)
  BY <1>3, <1>5, <1>7, <1>14 DEF Resetting, Resets, Owning, Owns, Pending, Made
<1>21. Tables'
  <2>1. ASSUME NEW f \in Funcs
        PROVE  /\ ~ Resetting(f)'
               /\ \A r \in Result :
                    (\E i \in DOMAIN table'[f] : table'[f][i] = r)
                      <=> (r \in overloads'[f] \/ Owning(f, r)')
               /\ \A i, j \in DOMAIN table'[f] : table'[f][i].s = table'[f][j].s => i = j
               /\ \A r \in overloads'[f] : r.f = f
               /\ \A r \in fallbackdef'[f] : r.f = f /\ r.obj
    <3>1. /\ \A i, j \in DOMAIN table[f] : table[f][i].s = table[f][j].s => i = j
          /\ \A r \in overloads[f] : r.f = f
          /\ \A r \in fallbackdef[f] : r.f = f /\ r.obj
          /\ table' = table /\ fallbackdef' = fallbackdef
      BY <1>1, <1>8 DEF Tables
    <3>2. CASE f = a.f
      <4>1. table[f] = <<>>
        BY <1>1, <1>20, <3>2 DEF Tables
      <4>2. DOMAIN table[f] = {}
        BY <4>1
      <4>3. QED
        BY <1>16, <1>20, <3>1, <3>2, <4>2
    <3>3. CASE f # a.f
      <4>1. \A r \in Result :
              (\E i \in DOMAIN table[f] : table[f][i] = r) <=> r \in overloads[f]
        BY <1>1, <1>20, <3>3 DEF Tables
      <4>2. QED
        BY <1>16, <1>20, <3>1, <3>3, <4>1
    <3>4. QED
      BY <3>2, <3>3
  <2>2. QED
    BY <2>1 DEF Tables
<1>22. Defns'
  <2>1. ASSUME NEW q \in Result
        PROVE  q \in defns' <=>
                 ~ q.obj /\ ((q \in overloads'[q.f] /\ ~ Resetting(q.f)') \/ Pending(q)')
    <3>1. q \in defns <=> ~ q.obj /\ q \in overloads[q.f] /\ q.f # a.f
      BY <1>1, <1>20 DEF Defns
    <3>2. q.f \in Funcs
      BY DEF Result
    <3>3. QED
      BY <1>8, <1>16, <1>20, <3>1, <3>2
  <2>2. QED
    BY <2>1 DEF Defns, Resetting, Pending, Resets
<1>23. Answered'
  <2>1. ~ Takes(b) /\ answer[t].kind \notin InternalErrors
    BY <1>1, <1>7 DEF Takes, Answered
  <2>2. QED
    BY <1>1, <1>3, <1>8, <1>13, <2>1, AnsweredStep
<1>24. Renews'
  <2>1. \A f \in Funcs : overloads'[f] \subseteq overloads[f] /\ disk'[f] \subseteq disk[f]
    BY <1>16
  <2>2. ASSUME NEW f \in Funcs, NEW g \in Nat, g = renewed'[f]
        PROVE  g <= glob' /\ Newer(f, g)'
    <3>1. g <= glob /\ Newer(f, g)
      BY <1>1, <1>8, <2>2 DEF Renews
    <3>2. \A x \in Acts' : NewerOf(x, f, g)
      BY <1>7, <1>14 DEF NewerOf
    <3>3. QED
      BY <1>8, <2>1, <3>1, <3>2 DEF Newer, NewerOf
  <2>3. Newer(a.f, a.g)'
    <3>1. \A x \in Acts' : NewerOf(x, a.f, a.g)
      BY <1>7, <1>14 DEF NewerOf
    <3>2. QED
      BY <1>16, <3>1 DEF Newer, NewerOf
  <2>4. a.g <= glob'
    BY <1>1, <1>3, <1>8 DEF Renews
  <2>5. PICK k, h : k = a.g /\ h = a.f
    OBVIOUS
  <2>6. k <= glob' /\ Newer(h, k)'
    BY <2>3, <2>4, <2>5
  <2>7. \A x \in Acts' : x.g = k /\ x.f = h
    BY <1>7, <1>14, <2>5
  <2>8. \A x \in Acts' : x.g <= glob' /\ Newer(x.f, x.g)'
    BY <2>6, <2>7
  <2>9. QED
    BY <2>2, <2>8 DEF Renews
<1>25. QED
  BY <1>11, <1>12, <1>15, <1>17, <1>18, <1>19, <1>21, <1>22, <1>23, <1>24
    DEF Inv, Stack, Sync, Code

LEMMA AgainInv ==
  ASSUME Inv, NEW t \in Threads, Again(t) PROVE Inv'
<1>1. stack[t] # <<>> /\ Types /\ Stacks /\ Answered
      /\ UNCHANGED <<objs, lock, counter, answer, env>>
  BY DEF Again, In, Inv, Stack, Code, Types
<1>2. PICK n, a : n = Depth(t) /\ a = Top(t)
  OBVIOUS
<1>3. /\ a \in Activation /\ a.op = "recompile" /\ a.pc = "each" /\ ShapeOf(a) /\ a \in Acts
  BY <1>1, <1>2, TopFacts DEF Again, In
<1>4. a.f \in Funcs /\ a.todo \subseteq Sigs
  BY <1>3, FrameType DEF ShapeOf
<1>5. PICK s \in a.todo :
        Enter(t, [a EXCEPT !.todo = @ \ {s}], Frame("compile", "lock", a.f, s))
  BY <1>2 DEF Again
<1>6. PICK b, c : b = [a EXCEPT !.todo = @ \ {s}] /\ c = Frame("compile", "lock", a.f, s)
  OBVIOUS
<1>7. /\ b \in Activation /\ b.op = "recompile" /\ b.pc = "each" /\ b.f = a.f /\ b.s = a.s
      /\ b.todo = a.todo \ {s} /\ b.counted = a.counted /\ b.flag = a.flag /\ b.g = a.g
  <2>1. PICK td : td = a.todo \ {s}
    OBVIOUS
  <2>2. td \in SUBSET (Funcs \cup Sigs)
    BY <1>4, <2>1
  <2>3. b = [a EXCEPT !.todo = td]
    BY <1>3, <1>6, <2>1 DEF Activation
  <2>4. QED
    BY <1>3, <2>1, <2>2, <2>3 DEF Activation
<1>8. Called(c) /\ ShapeOf(c) /\ ShapeOf(b)
  BY <1>4, <1>6, <1>7, CalledFrame DEF ShapeOf
<1>9. Enters(t, n, a, b, c)
  BY <1>1, <1>2, <1>3, <1>5, <1>6, <1>7, <1>8, EnterEnters DEF Waiting
<1>10. Types'
  <2>1. Stacks'
    BY <1>9 DEF Enters, Moved
  <2>2. QED
    BY <1>1, <2>1 DEF Types, objs, env
<1>11. Sound(b) /\ NewerOK(b) /\ Idle(a) /\ ~ Made(a) /\ ~ Made(b) /\ ~ Active(a) /\ ~ Active(b)
  BY <1>3, <1>7 DEF Sound, WorkOK, UsedOK, RunOK, Idle, NewerOK, NewerOf, Working, Made, Active
<1>12. Plain /\ UNCHANGED <<lock, counter>> /\ answer' = answer
       /\ answer[t].kind \notin InternalErrors
  BY <1>1 DEF Plain, objs, env, Answered
<1>13. QED
  BY <1>3, <1>7, <1>8, <1>9, <1>10, <1>11, <1>12, EnterStep

LEMMA RestoreInv ==
  ASSUME Inv, NEW t \in Threads, Restore(t) PROVE Inv'
<1>1. stack[t] # <<>> /\ Types /\ Stacks /\ Shape /\ Ranked /\ Locked /\ Counters /\ Lonely
      /\ Flags /\ Tables /\ Defns /\ Answered /\ Renews
  BY DEF Restore, In, Inv, Stack, Sync, Code, Types
<1>2. PICK n, a : n = Depth(t) /\ a = Top(t)
  OBVIOUS
<1>3. /\ a \in Activation /\ a.op = "recompile" /\ a.pc = "each" /\ ShapeOf(a) /\ a \in Acts
      /\ n \in Nat \ {0} /\ a = F(t, n)
  BY <1>1, <1>2, TopFacts DEF Restore, In
<1>4. a.f \in Funcs /\ a.g \in Nat /\ a.flag \in BOOLEAN
  BY <1>3, FrameType
<1>5. n = 1 /\ Others(t) = {} /\ Acts = {a} /\ \A u \in Threads : u # t => stack[u] = <<>>
  BY <1>1, <1>2, <1>3, OnlyRecompile
<1>6. PICK good : good = (answer[t].kind \in {"none", "ok"})
  OBVIOUS
<1>7. /\ Pop(t) /\ canCompile' = [canCompile EXCEPT ![a.f] = a.flag]
      /\ renewed' = [renewed EXCEPT ![a.f] = IF good THEN a.g ELSE @]
      /\ UNCHANGED <<overloads, table, fallbackdef, defns, failed, disk, lock, counter, answer,
                     glob, made, wanted>>
  BY <1>2, <1>6 DEF Restore, Restored
<1>8. Pops(t, n, a)
  BY <1>1, <1>2, PopPops, <1>7
<1>9. Shape' /\ Ranked' /\ Locked'
  BY <1>1, <1>3, <1>7, <1>8, PopShape, PopsLocked DEF Active
<1>10. Moves(t, {a}, {}) /\ Moved(t, n - 1) /\ Acts' = {}
  BY <1>1, <1>5, <1>8, PopsMoves DEF Moves, Pops
<1>11. Counters'
  BY <1>1, <1>3, <1>5, <1>7, <1>10 DEF Counters, Counts
<1>12. Lonely' /\ Works' /\ Runs' /\ Uses'
  <2>1. \A u \in Threads : \A d \in 1 .. Depth(u)' : F(u, d)' \in Acts'
    BY DEF Acts
  <2>2. QED
    BY <1>10, <2>1 DEF Lonely, Works, Runs, Uses
<1>13. Types'
  <2>1. Stacks'
    BY <1>10 DEF Moved
  <2>2. canCompile' \in [Funcs -> BOOLEAN] /\ renewed' \in [Funcs -> Nat]
    BY <1>1, <1>4, <1>7 DEF Types
  <2>3. QED
    BY <1>1, <1>7, <2>1, <2>2 DEF Types
<1>14. Flags'
  <2>1. a.flag = wanted[a.f]
    BY <1>1, <1>3 DEF Flags
  <2>2. \A f \in Funcs : f # a.f => canCompile[f] = wanted[f]
    BY <1>1, <1>5 DEF Flags, Recompiles
  <2>3. \A f \in Funcs : canCompile'[f] = wanted'[f]
    BY <1>1, <1>7, <2>1, <2>2 DEF Types
  <2>4. QED
    BY <1>10, <2>3 DEF Flags
<1>15. Tables' /\ Defns'
  <2>1. /\ \A f : ~ Resetting(f)' /\ ~ Resetting(f)
        /\ \A f, r : ~ Owning(f, r)' /\ ~ Owning(f, r)
        /\ \A r : ~ Pending(r)' /\ ~ Pending(r)
    BY <1>3, <1>5, <1>10 DEF Resetting, Resets, Owning, Owns, Pending, Made
  <2>2. Tables'
    BY <1>1, <1>7, <2>1 DEF Tables
  <2>3. Defns'
    BY <1>1, <1>7, <2>1 DEF Defns
  <2>4. QED
    BY <2>2, <2>3
<1>16. Answered'
  <2>1. PICK m : m = n - 1
    OBVIOUS
  <2>2. Moved(t, m) /\ m = 0 /\ answer' = answer /\ answer[t].kind \notin InternalErrors
    BY <1>1, <1>5, <1>7, <1>10, <2>1 DEF Answered
  <2>3. QED
    BY <1>1, <2>2, AnsweredStep
<1>17. Renews'
  <2>1. ASSUME NEW f \in Funcs, NEW g \in Nat, Newer(f, g) PROVE Newer(f, g)'
    BY <1>7, <1>10, <2>1 DEF Newer
  <2>2. ASSUME NEW f \in Funcs, NEW g \in Nat, g = renewed'[f]
        PROVE  g <= glob' /\ Newer(f, g)'
    <3>1. CASE f = a.f /\ good
      <4>1. g = a.g
        BY <1>1, <1>7, <2>2, <3>1 DEF Types
      <4>2. a.g <= glob /\ Newer(f, g)
        BY <1>1, <1>3, <3>1, <4>1 DEF Renews
      <4>3. QED
        BY <1>7, <2>1, <4>1, <4>2
    <3>2. CASE ~ (f = a.f /\ good)
      <4>1. g = renewed[f]
        BY <1>1, <1>7, <2>2, <3>2 DEF Types
      <4>2. g <= glob /\ Newer(f, g)
        BY <1>1, <4>1 DEF Renews
      <4>3. QED
        BY <1>7, <2>1, <4>2
    <3>3. QED
      BY <3>1, <3>2
  <2>3. QED
    BY <1>10, <2>2 DEF Renews
<1>18. QED
  BY <1>9, <1>11, <1>12, <1>13, <1>14, <1>15, <1>16, <1>17 DEF Inv, Stack, Sync, Code

-----------------------------------------------------------------------------
(* The invariant.                                                          *)

LEMMA InitInv == Init => Inv
<1> SUFFICES ASSUME Init PROVE Inv
  OBVIOUS
<1>1. \A t \in Threads : stack[t] = <<>> /\ Depth(t) = 0 /\ Held(t) = {}
  BY DEF Init, Depth, Held
<1>2. Acts = {}
  BY <1>1, InActs
<1>3. Types
  <2>1. <<>> \in Seq(Activation) /\ <<>> \in Seq(Result)
    OBVIOUS
  <2>2. stack \in [Threads -> Seq(Activation)] /\ table \in [Funcs -> Seq(Result)]
    BY <2>1 DEF Init
  <2>3. disk \in [Funcs -> SUBSET (Sigs \X Nat)]
    BY DEF Init
  <2>4. answer \in [Threads -> [kind : Answers, res : SUBSET Result]]
    BY NothingType DEF Init
  <2>5. QED
    BY <2>2, <2>3, <2>4 DEF Types, Stacks, Init
<1>4. Shape /\ Ranked /\ Lonely
  BY <1>1 DEF Shape, Ranked, Lonely
<1>5. Locked
  BY <1>1 DEF Locked, Init
<1>6. Counters /\ Flags
  BY <1>2 DEF Counters, Flags, Init
<1>7. Works /\ Uses /\ Runs
  BY <1>2 DEF Works, Uses, Runs
<1>8. Tables /\ Defns
  <2>1. \A f \in Funcs : table[f] = <<>> /\ DOMAIN table[f] = {} /\ overloads[f] = {}
                         /\ fallbackdef[f] = {}
    BY DEF Init
  <2>2. \A f, r : ~ Resetting(f) /\ ~ Owning(f, r) /\ ~ Pending(r)
    BY <1>2 DEF Resetting, Owning, Pending
  <2>3. \A r \in Result : r.f \in Funcs /\ r \notin defns
    BY DEF Result, Init
  <2>4. QED
    BY <2>1, <2>2, <2>3 DEF Tables, Defns
<1>9. Answered
  BY <1>1, NothingType DEF Answered, Init
<1>10. Renews
  BY <1>2 DEF Renews, Newer, Init
<1>11. QED
  BY <1>3, <1>4, <1>5, <1>6, <1>7, <1>8, <1>9, <1>10 DEF Inv, Stack, Sync, Code

LEMMA InvStep ==
  ASSUME ~ Overlap, Inv, [Next]_vars PROVE Inv'
<1>1. CASE UNCHANGED vars
  BY <1>1, StutterInv
<1>2. CASE Rebind
  BY <1>2, RebindInv
<1>3. ASSUME NEW t \in Threads, Start(t) PROVE Inv'
  BY <1>3, CallInv, CompileInv, DisableCompileInv, RecompileInv DEF Start
<1>4. ASSUME NEW t \in Threads, Acquire(t) PROVE Inv'
  BY <1>4, AcquireInv
<1>5. ASSUME NEW t \in Threads, Continue(t) PROVE Inv'
  <2>1. CASE Invoke(t)
    BY <2>1, InvokeInv
  <2>2. CASE Finish(t)
    BY <2>2, FinishInv DEF Finish, In
  <2>3. CASE Leave(t)
    BY <2>3, LeaveInv
  <2>4. CASE Check(t)
    BY <2>4, CheckInv
  <2>5. CASE Type(t)
    BY <2>5, TypeInv
  <2>6. CASE Typed(t)
    BY <2>6, TypedInv
  <2>7. CASE Lower(t)
    BY <2>7, LowerInv
  <2>8. CASE Insert(t)
    BY <2>8, InsertInv
  <2>9. CASE Own(t)
    BY <2>9, OwnInv
  <2>10. CASE Reset(t)
    BY <2>10, ResetInv
  <2>11. CASE Again(t)
    BY <2>11, AgainInv
  <2>12. CASE Restore(t)
    BY <2>12, RestoreInv
  <2>13. QED
    BY <1>5, <2>1, <2>2, <2>3, <2>4, <2>5, <2>6, <2>7, <2>8, <2>9, <2>10, <2>11, <2>12
      DEF Continue
<1>6. QED
  BY <1>1, <1>2, <1>3, <1>4, <1>5 DEF Next

(* The shapes, the lock, the counters, the tables, the flags and the values *)
(* of the global agree with the activations at every step, as long as      *)
(* recompile() overlaps no other call.                                     *)
THEOREM InvAlways == ASSUME ~ Overlap PROVE Spec => []Inv
<1>1. Init => Inv
  BY InitInv
<1>2. Inv /\ [Next]_vars => Inv'
  BY InvStep
<1>3. QED
  BY <1>1, <1>2, PTL DEF Spec

-----------------------------------------------------------------------------
(* What a dispatcher promises.                                             *)

(* The activations of a stack, innermost first and outermost first.        *)
LEMMA BothWays ==
  ASSUME Stacks, NEW t \in Threads
  PROVE  /\ DOMAIN stack[t] = 1 .. Depth(t)
         /\ \A i \in 1 .. Depth(t) : Depth(t) + 1 - i \in 1 .. Depth(t)
                                     /\ stack[t][i] = F(t, Depth(t) + 1 - i)
<1>1. stack[t] \in Seq(Activation) /\ Depth(t) \in Nat /\ Depth(t) = Len(stack[t])
  BY DepthType DEF Stacks, Depth
<1>2. DOMAIN stack[t] = 1 .. Depth(t)
  BY <1>1
<1>3. ASSUME NEW i \in 1 .. Depth(t)
      PROVE  Depth(t) + 1 - i \in 1 .. Depth(t) /\ Depth(t) + 1 - (Depth(t) + 1 - i) = i
  BY <1>1
<1>4. QED
  BY <1>2, <1>3 DEF F

LEMMA InStack ==
  ASSUME Stacks, NEW t \in Threads, NEW i \in DOMAIN stack[t]
  PROVE  stack[t][i] \in Acts
BY BothWays, InActs

LEMMA HeldCount ==
  ASSUME Stacks, NEW t \in Threads
  PROVE  Cardinality({i \in DOMAIN stack[t] :
                        stack[t][i].op = "compile" /\ stack[t][i].pc # "lock"})
           = Cardinality(Held(t))
<1> DEFINE S == {i \in DOMAIN stack[t] :
                   stack[t][i].op = "compile" /\ stack[t][i].pc # "lock"}
           m == [i \in S |-> Depth(t) + 1 - i]
<1>1. Depth(t) \in Nat /\ DOMAIN stack[t] = 1 .. Depth(t)
  BY DepthType, BothWays
<1>2. \A i \in 1 .. Depth(t) : i \in S <=> Depth(t) + 1 - i \in Held(t)
  BY <1>1, BothWays DEF Held, Active
<1>3. S \subseteq 1 .. Depth(t) /\ Held(t) \subseteq 1 .. Depth(t)
  BY <1>1 DEF Held
<1> HIDE DEF S
<1>4. m \in [S -> Held(t)]
  BY <1>2, <1>3
<1>5. \A i, j \in S : m[i] = m[j] => i = j
  <2>1. \A i, j \in 1 .. Depth(t) : Depth(t) + 1 - i = Depth(t) + 1 - j => i = j
    BY <1>1
  <2>2. QED
    BY <1>3, <2>1
<1>6. ASSUME NEW d \in Held(t) PROVE \E i \in S : m[i] = d
  <2>1. d \in 1 .. Depth(t)
    BY <1>3
  <2>2. Depth(t) + 1 - d \in 1 .. Depth(t) /\ Depth(t) + 1 - (Depth(t) + 1 - d) = d
    BY <1>1, <2>1
  <2>3. Depth(t) + 1 - d \in S
    BY <1>2, <2>2
  <2>4. QED
    BY <2>2, <2>3
<1> HIDE DEF m
<1>7. ExistsBijection(S, Held(t))
  BY <1>4, <1>5, <1>6 DEF ExistsBijection, Bijection, Injection, Surjection, IsInjective
<1>8. IsFiniteSet(S)
  <2>1. IsFiniteSet(1 .. Depth(t))
    BY <1>1, FS_Interval
  <2>2. QED
    BY <1>3, <2>1, FS_Subset
<1>9. Cardinality(Held(t)) = Cardinality(S)
  BY <1>7, <1>8, FS_Bijection
<1>10. QED
  BY <1>9 DEF S

LEMMA QuietActs ==
  ASSUME Inv, Quiet
  PROVE  Acts = {} /\ \A t \in Threads : Held(t) = {}
<1>1. Stacks
  BY DEF Inv, Stack, Types
<1>2. \A t \in Threads : Depth(t) = 0
  BY <1>1, DepthType DEF Quiet
<1>3. QED
  BY <1>2, InActs DEF Held

LEMMA InvTypeOK == Inv => TypeOK
<1> SUFFICES ASSUME Inv PROVE TypeOK
  OBVIOUS
<1>1. Types /\ Stacks /\ Locked /\ Counters
  BY DEF Inv, Stack, Sync, Types
<1>2. /\ overloads \in [Funcs -> SUBSET Result] /\ canCompile \in [Funcs -> BOOLEAN]
      /\ defns \subseteq Result /\ failed \in [Funcs -> SUBSET Sigs]
      /\ \A t \in Threads : answer[t].kind \in Answers
  BY <1>1 DEF Types
<1>3. ASSUME NEW t \in Threads, \E f \in Funcs : Compiling(t, f) # {} PROVE lock.owner = {t}
  <2>1. PICK i \in DOMAIN stack[t] : stack[t][i].op = "compile" /\ stack[t][i].pc # "lock"
    BY <1>3 DEF Compiling
  <2>2. Depth(t) + 1 - i \in Held(t)
    BY <1>1, <2>1, BothWays DEF Held, Active
  <2>3. QED
    BY <1>1, <2>2 DEF Locked
<1>4. ASSUME NEW t \in lock.owner
      PROVE  lock.depth = Cardinality({i \in DOMAIN stack[t] :
                            stack[t][i].op = "compile" /\ stack[t][i].pc # "lock"})
  <2>1. t \in Threads
    BY <1>1 DEF Locked
  <2>2. lock.depth = Cardinality(Held(t))
    BY <1>1 DEF Locked
  <2>3. QED
    BY <1>1, <2>1, <2>2, HeldCount
<1>5. ASSUME Quiet PROVE lock.depth = 0 /\ \A f \in Funcs : counter[f] = 0
  <2>1. Acts = {} /\ \A t \in Threads : Held(t) = {}
    BY <1>5, QuietActs
  <2>2. lock.owner = {} /\ lock.depth = 0
    BY <1>1, <2>1 DEF Locked
  <2>3. QED
    BY <1>1, <2>1, <2>2 DEF Counters
<1>6. QED
  BY <1>2, <1>3, <1>4, <1>5 DEF TypeOK

LEMMA InvTableAgrees == Inv => TableAgrees
<1> SUFFICES ASSUME Inv, Quiet, NEW f \in Funcs
             PROVE  /\ {table[f][i] : i \in DOMAIN table[f]} = overloads[f]
                    /\ Cardinality({table[f][i].s : i \in DOMAIN table[f]}) = Len(table[f])
  BY DEF TableAgrees
<1>1. Acts = {} /\ Types /\ Tables
  BY QuietActs DEF Inv, Stack, Code
<1>2. /\ \A r \in Result : (\E i \in DOMAIN table[f] : table[f][i] = r) <=> r \in overloads[f]
      /\ \A i, j \in DOMAIN table[f] : table[f][i].s = table[f][j].s => i = j
  BY <1>1 DEF Tables, Resetting, Owning
<1>3. PICK q : q = table[f]
  OBVIOUS
<1>4. /\ q \in Seq(Result) /\ Len(q) \in Nat /\ DOMAIN q = 1 .. Len(q)
      /\ \A i \in DOMAIN q : q[i] \in Result
      /\ \A i, j \in DOMAIN q : q[i].s = q[j].s => i = j
  BY <1>1, <1>2, <1>3 DEF Types
<1>5. overloads[f] \subseteq Result
  BY <1>1 DEF Types
<1>6. {q[i] : i \in DOMAIN q} = overloads[f]
  BY <1>2, <1>3, <1>4, <1>5
<1> DEFINE S == {q[i].s : i \in DOMAIN q}
           m == [i \in 1 .. Len(q) |-> q[i].s]
<1>7. m \in [1 .. Len(q) -> S]
  BY <1>4
<1>8. \A i, j \in 1 .. Len(q) : m[i] = m[j] => i = j
  BY <1>4
<1>9. \A s \in S : \E i \in 1 .. Len(q) : m[i] = s
  BY <1>4
<1> HIDE DEF S, m
<1>10. ExistsBijection(1 .. Len(q), S)
  BY <1>7, <1>8, <1>9 DEF ExistsBijection, Bijection, Injection, Surjection, IsInjective
<1>11. Cardinality(S) = Len(q)
  BY <1>4, <1>10, FS_CountingElements
<1>12. QED
  BY <1>3, <1>6, <1>11 DEF S

LEMMA InvDefnsExact == Inv => DefnsExact
<1> SUFFICES ASSUME Inv, Quiet
             PROVE  defns = {r \in UNION {overloads[f] : f \in Funcs} : ~ r.obj}
  BY DEF DefnsExact
<1>1. Acts = {} /\ Types /\ Tables /\ Defns
  BY QuietActs DEF Inv, Stack, Code
<1>2. \A r \in Result : r \in defns <=> ~ r.obj /\ r \in overloads[r.f]
  BY <1>1 DEF Defns, Resetting, Pending
<1>3. \A f \in Funcs : \A r \in overloads[f] : r \in Result /\ r.f = f
  BY <1>1 DEF Types, Tables
<1>4. \A r \in Result : r.f \in Funcs
  BY DEF Result
<1>5. defns \subseteq Result
  BY <1>1 DEF Types
<1>6. QED
  BY <1>2, <1>3, <1>4, <1>5

(* The three places that know the overloads, the lock and the counters     *)
(* agree, whichever threads call and compile at the same time: when        *)
(* nothing runs the C++ table has every overload once, the target context  *)
(* knows the nopython ones, and the lock is free.                          *)
THEOREM StateAlwaysAgrees == ASSUME ~ Overlap PROVE Spec => []StateAgrees
<1>1. Inv => StateAgrees
  BY InvTypeOK, InvTableAgrees, InvDefnsExact DEF StateAgrees
<1>2. QED
  BY <1>1, InvAlways, PTL

(* A call gets code of its function for its types, or code the rules of    *)
(* conversion allow, and no error of the dispatcher's own, when no types   *)
(* convert for two signatures.                                             *)
THEOREM CallsAlwaysRight == ASSUME ~ Overlap, Unambiguous PROVE Spec => []CallsRight
<1>1. Inv => NoInternalError
  BY DEF Inv, Code, Answered, NoInternalError
<1>2. Inv => RunsRightCode
  <2> SUFFICES ASSUME Inv, NEW t \in Threads, NEW i \in DOMAIN stack[t],
                      stack[t][i].op = "call", stack[t][i].pc = "run",
                      NEW r \in stack[t][i].res
               PROVE  /\ r.f = stack[t][i].f
                      /\ r.s # stack[t][i].s =>
                           ~ stack[t][i].flag /\ (<<stack[t][i].s, r.s>> \in Fits \/ r.obj)
    BY DEF RunsRightCode
  <2>1. stack[t][i] \in Acts
    BY InStack DEF Inv, Stack, Types
  <2>2. QED
    BY <2>1 DEF Inv, Code, Runs, RunOK
<1>3. QED
  BY <1>1, <1>2, InvAlways, PTL DEF CallsRight

(* After recompile() no overload has a value of the global from before it, *)
(* and disable_compile() is in force as the program last set it, also when *)
(* a recompilation failed half way.                                        *)
THEOREM RecompileAlwaysExact == ASSUME ~ Overlap PROVE Spec => []RecompileExact
<1>1. Inv => RecompileRenews
  BY DEF Inv, Stack, Types, Code, Renews, Newer, RecompileRenews
<1>2. Inv => FlagKept
  <2> SUFFICES ASSUME Inv, NEW f \in Funcs,
                      \A t \in Threads : \A i \in DOMAIN stack[t] :
                        ~ (stack[t][i].op = "recompile" /\ stack[t][i].f = f)
               PROVE  canCompile[f] = wanted[f]
    BY DEF FlagKept
  <2>1. ASSUME NEW a \in Acts PROVE ~ Recompiles(a, f)
    <3>1. PICK t, d : t \in Threads /\ d \in 1 .. Depth(t) /\ a = F(t, d)
      BY InActs
    <3>2. Depth(t) + 1 - d \in DOMAIN stack[t]
      <4>1. Stacks
        BY DEF Inv, Stack, Types
      <4>2. QED
        BY <3>1, <4>1, BothWays
    <3>3. a = stack[t][Depth(t) + 1 - d]
      BY <3>1 DEF F
    <3>4. QED
      BY <3>1, <3>2, <3>3 DEF Recompiles
  <2>2. QED
    BY <2>1 DEF Inv, Sync, Flags
<1>3. QED
  BY <1>1, <1>2, InvAlways, PTL DEF RecompileExact

=============================================================================
