----------------------------- MODULE Dispatcher -----------------------------
(***************************************************************************)
(* The CPU dispatcher of numba/core/dispatcher.py with its C++ half,       *)
(* numba/_dispatcher.cpp: calling a jitted function with argument types    *)
(* finds a compiled overload in the C++ table, or compiles one under the   *)
(* global compiler lock, which a compilation enters again for every jitted *)
(* function it calls.  disable_compile(), recompile() and lifted loops are *)
(* operations of the same object.                                          *)
(*                                                                         *)
(* A thread runs a stack of activations.  The interpreter lock makes a     *)
(* stretch of Python or C++ code that calls nothing one step; every call   *)
(* that can let another thread in ends a step.                             *)
(***************************************************************************)
EXTENDS Naturals, Sequences, FiniteSets

CONSTANTS Threads,      \* the threads of the process
          Funcs,        \* the dispatchers
          Sigs,         \* the argument types
          Callees,      \* [Funcs -> SUBSET Funcs]: the jitted functions a body calls
          Fails,        \* <<f, s, g>>: typing f for s fails when the global is g
          Fits,         \* <<s, r>>: values of types s may be converted for r
          ObjMode,      \* the functions compiled in object mode (forceobj)
          Lifted,       \* the dispatchers of lifted loops
          Cached,       \* the functions with cache=True
          Overlap,      \* may recompile() overlap what other threads do?
          MaxOps,       \* bound: the calls one thread makes
          MaxGlob       \* bound: how often the program rebinds the global

\* No function calls itself, directly or through others: a recursive call is
\* resolved by following the call stack of type inference, which is not modelled.
Acyclic(calls) ==
  \E rank \in [Funcs -> 0 .. Cardinality(Funcs)] :
    \A f \in Funcs : \A g \in calls[f] : rank[g] < rank[f]

ASSUME DispatcherAssumption ==
  /\ Callees \in [Funcs -> SUBSET Funcs] /\ IsFiniteSet(Funcs) /\ Acyclic(Callees)
  /\ Overlap \in BOOLEAN
  /\ MaxOps \in Nat /\ MaxGlob \in Nat

VARIABLES
  overloads,   \* [Funcs -> set of compile results], at most one per signature
  table,       \* [Funcs -> Seq(compile result)]: the C++ table (borrowed pointers)
  fallbackdef, \* [Funcs -> set of at most one result]: the C++ object fallback
  canCompile,  \* [Funcs -> BOOLEAN]
  defns,       \* the entry points the target context can lower calls to
  failed,      \* [Funcs -> SUBSET Sigs]: _failed_cache
  disk,        \* [Funcs -> set of <<s, g>>]: the index on disk
  lock,        \* [owner, depth]: the reentrant compiler lock
  counter,     \* [Funcs -> Nat]: _compiling_counter
  stack,       \* [Threads -> Seq(activation)], innermost first
  answer,      \* [Threads -> what the last activation returned or raised]
  glob,        \* the value of the global variable the functions read
  made,        \* how many entry points were ever made
  ops,         \* [Threads -> Nat]: the calls made so far
  wanted,      \* [Funcs -> BOOLEAN]: what the program last asked disable_compile()
  renewed      \* [Funcs -> Nat]: the global when recompile() last started and succeeded

objs == <<overloads, table, fallbackdef, canCompile, defns, failed, disk>>
env  == <<glob, made, ops, wanted, renewed>>
vars == <<objs, lock, counter, stack, answer, env>>

----------------------------------------------------------------------------
(* Compile results and activations *)

Result == [id: Nat, f: Funcs, s: Sigs, g: Nat, obj: BOOLEAN]
Answers == {"none", "ok", "typing", "disabled", "keyerror", "ambiguous", "nomatch"}
Nothing == [kind |-> "none", res |-> {}]
Returned(r) == [kind |-> "ok", res |-> {r}]
Raised(k) == [kind |-> k, res |-> {}]

Frame(op, pc, f, s) ==
  [op |-> op, pc |-> pc, f |-> f, s |-> s, todo |-> {}, g |-> 0,
   obj |-> FALSE, counted |-> FALSE, flag |-> FALSE, res |-> {}]

Top(t) == Head(stack[t])
In(t, op, pc) == stack[t] # <<>> /\ Top(t).op = op /\ Top(t).pc = pc
Goto(t, fr) == stack' = [stack EXCEPT ![t] = <<fr>> \o Tail(@)]
Enter(t, fr, callee) == stack' = [stack EXCEPT ![t] = <<callee, fr>> \o Tail(@)]
Pop(t) == stack' = [stack EXCEPT ![t] = Tail(@)]
Answer(t, a) == answer' = [answer EXCEPT ![t] = a]

At(f, s) == {r \in overloads[f] : r.s = s}
NoPython(f) == {r \in overloads[f] : ~r.obj}
Exact(f, s) == {i \in DOMAIN table[f] : table[f][i].s = s}
Near(f, s) == {i \in DOMAIN table[f] : <<s, table[f][i].s>> \in Fits}

\* The overloads resolve() accepts: exact ones, conversions only when nothing
\* can be compiled.
Resolve(f, s) ==
  IF canCompile[f] \/ Exact(f, s) # {} THEN Exact(f, s) ELSE Near(f, s)

\* The overloads a caller's type inference takes: nopython ones, by conversion
\* when none is exact.
Usable(f, s) ==
  IF \E r \in NoPython(f) : r.s = s THEN {r \in NoPython(f) : r.s = s}
  ELSE {r \in NoPython(f) : <<s, r.s>> \in Fits}

Recompiling(t) == \E i \in DOMAIN stack[t] : stack[t][i].op = "recompile"
MayStart(t) ==
  /\ stack[t] = <<>> /\ ops[t] < MaxOps
  /\ Overlap \/ \A u \in Threads : ~Recompiling(u)

----------------------------------------------------------------------------
Init ==
  /\ overloads = [f \in Funcs |-> {}] /\ table = [f \in Funcs |-> <<>>]
  /\ fallbackdef = [f \in Funcs |-> {}]
  /\ canCompile = [f \in Funcs |-> TRUE]
  /\ defns = {} /\ failed = [f \in Funcs |-> {}] /\ disk = [f \in Funcs |-> {}]
  /\ lock = [owner |-> {}, depth |-> 0] /\ counter = [f \in Funcs |-> 0]
  /\ stack = [t \in Threads |-> <<>>] /\ answer = [t \in Threads |-> Nothing]
  /\ glob = 0 /\ made = 0 /\ ops = [t \in Threads |-> 0]
  /\ wanted = [f \in Funcs |-> TRUE] /\ renewed = [f \in Funcs |-> 0]

\* f(x) with x of types s: Dispatcher_call.
Call(t, f, s) ==
  LET m == Resolve(f, s)
      run(r) == [Frame("call", "run", f, s) EXCEPT !.res = {r}, !.flag = canCompile[f]]
  IN
  /\ MayStart(t)
  /\ ops' = [ops EXCEPT ![t] = @ + 1]
  /\ \/ /\ Cardinality(m) = 1
        /\ \E i \in m : stack' = [stack EXCEPT ![t] = <<run(table[f][i])>>]
        /\ Answer(t, Nothing)
     \/ /\ Cardinality(m) # 1 /\ canCompile[f]
        /\ stack' = [stack EXCEPT ![t] =
             <<Frame("compile", "lock", f, s), Frame("call", "compiled", f, s)>>]
        /\ Answer(t, Nothing)
     \/ /\ m = {} /\ ~canCompile[f]
        /\ IF fallbackdef[f] # {}
             THEN /\ \E r \in fallbackdef[f] : stack' = [stack EXCEPT ![t] = <<run(r)>>]
                  /\ Answer(t, Nothing)
             ELSE Answer(t, Raised("nomatch")) /\ UNCHANGED stack
     \/ /\ Cardinality(m) > 1 /\ ~canCompile[f]
        /\ Answer(t, Raised("ambiguous")) /\ UNCHANGED stack
  /\ UNCHANGED <<objs, lock, counter, glob, made, wanted, renewed>>

\* compile_and_invoke once _compile_for_args has answered.
Invoke(t) ==
  /\ In(t, "call", "compiled")
  /\ IF answer[t].kind = "ok"
       THEN /\ Goto(t, [Top(t) EXCEPT !.pc = "run", !.res = answer[t].res, !.flag = TRUE])
            /\ Answer(t, Nothing)
       ELSE Pop(t) /\ UNCHANGED answer
  /\ UNCHANGED <<objs, lock, counter, env>>

\* The compiled code returns.
Finish(t) ==
  /\ In(t, "call", "run")
  /\ Pop(t)
  /\ UNCHANGED <<objs, lock, counter, answer, env>>

\* f.compile(s) called by the program (the decorator's explicit signatures).
Compile(t, f, s) ==
  /\ MayStart(t) /\ f \notin Lifted
  /\ ops' = [ops EXCEPT ![t] = @ + 1]
  /\ stack' = [stack EXCEPT ![t] = <<Frame("compile", "lock", f, s)>>]
  /\ Answer(t, Nothing)
  /\ UNCHANGED <<objs, lock, counter, glob, made, wanted, renewed>>

Acquire(t) ==
  /\ In(t, "compile", "lock")
  /\ lock.owner \subseteq {t}
  /\ lock' = [owner |-> {t}, depth |-> lock.depth + 1]
  /\ Goto(t, [Top(t) EXCEPT !.pc = "check"])
  /\ UNCHANGED <<objs, counter, answer, env>>

\* Mutant of Release: an error leaves the lock held.
ReleaseNoFinally(t) ==
  IF answer[t].kind = "ok"
    THEN [owner |-> IF lock.depth = 1 THEN {} ELSE lock.owner, depth |-> lock.depth - 1]
    ELSE lock
\* The reentrant lock is given back however the compilation ended.
Release(t) ==
  [owner |-> IF lock.depth = 1 THEN {} ELSE lock.owner, depth |-> lock.depth - 1]

Leave(t) ==
  LET fr == Top(t) IN
  /\ In(t, "compile", "leave")
  /\ lock' = Release(t)
  /\ counter' = [counter EXCEPT ![fr.f] = @ - (IF fr.counted THEN 1 ELSE 0)]
  /\ Pop(t)
  /\ UNCHANGED <<objs, answer, env>>

\* Mutant of Existing: no second look once the lock is held.
ExistingUnseen(f, s) == {}
\* What compile() finds already there ("if another thread compiled it before we
\* got the lock").
Existing(f, s) == At(f, s)

\* The tests compile() makes once it has the lock.
Check(t) ==
  LET fr == Top(t)
      f == fr.f
      s == fr.s
      on == [fr EXCEPT !.counted = TRUE]
      saved == {d \in disk[f] : d[1] = s}
  IN
  /\ In(t, "compile", "check")
  /\ IF ~canCompile[f] /\ f \notin Lifted
       THEN /\ Goto(t, [fr EXCEPT !.pc = "leave"]) /\ Answer(t, Raised("disabled"))
            /\ UNCHANGED <<counter, defns, made>>
       ELSE
         /\ counter' = [counter EXCEPT ![f] = @ + 1]
         /\ \/ /\ Existing(f, s) # {}
               /\ \E r \in Existing(f, s) : Answer(t, Returned(r))
               /\ Goto(t, [on EXCEPT !.pc = "leave"]) /\ UNCHANGED <<defns, made>>
            \/ /\ Existing(f, s) = {} /\ saved # {}
               /\ made' = made + 1
               /\ \E d \in saved :
                    LET r == [id |-> made + 1, f |-> f, s |-> s, g |-> d[2],
                              obj |-> f \in ObjMode]
                    IN /\ defns' = defns \cup (IF r.obj THEN {} ELSE {r})
                       /\ Goto(t, [on EXCEPT !.pc = "insert", !.res = {r}])
               /\ UNCHANGED answer
            \/ /\ Existing(f, s) = {} /\ saved = {} /\ s \in failed[f]
               /\ Goto(t, [on EXCEPT !.pc = "leave"]) /\ Answer(t, Raised("typing"))
               /\ UNCHANGED <<defns, made>>
            \/ /\ Existing(f, s) = {} /\ saved = {} /\ s \notin failed[f]
               /\ Goto(t, [on EXCEPT !.pc = "type", !.todo = Callees[f], !.g = glob,
                                     !.obj = f \in ObjMode])
               /\ UNCHANGED <<answer, defns, made>>
  /\ UNCHANGED <<overloads, table, fallbackdef, canCompile, failed, disk, lock,
                 glob, ops, wanted, renewed>>

\* Typing fails: remembered, except in a lifted loop, which is compiled again
\* in object mode.
TypeFails(t) ==
  LET fr == Top(t) IN
  IF fr.f \in Lifted
    THEN /\ Goto(t, [fr EXCEPT !.pc = "lower", !.obj = TRUE])
         /\ Answer(t, Nothing) /\ UNCHANGED failed
    ELSE /\ Goto(t, [fr EXCEPT !.pc = "leave"])
         /\ failed' = [failed EXCEPT ![fr.f] = @ \cup {fr.s}]
         /\ Answer(t, Raised("typing"))

\* Type inference: a call of another dispatcher compiles it (get_call_template)
\* unless it cannot compile, and takes its nopython signatures.
Type(t) ==
  LET fr == Top(t) IN
  /\ In(t, "compile", "type")
  /\ \/ /\ ~fr.obj /\ <<fr.f, fr.s, fr.g>> \in Fails
        /\ TypeFails(t)
     \/ /\ fr.obj \/ (<<fr.f, fr.s, fr.g>> \notin Fails /\ fr.todo = {})
        /\ Goto(t, [fr EXCEPT !.pc = "lower"]) /\ UNCHANGED <<answer, failed>>
     \/ /\ ~fr.obj /\ <<fr.f, fr.s, fr.g>> \notin Fails
        /\ \E c \in fr.todo :
             IF canCompile[c]
               THEN Enter(t, [fr EXCEPT !.pc = "typed", !.todo = @ \ {c}],
                          Frame("compile", "lock", c, fr.s))
               ELSE Goto(t, [fr EXCEPT !.pc = "typed", !.todo = @ \ {c}])
        /\ Answer(t, Nothing) /\ UNCHANGED failed
  /\ UNCHANGED <<overloads, table, fallbackdef, canCompile, defns, disk, lock, counter, env>>

Typed(t) ==
  LET fr == Top(t)
      asked == Callees[fr.f] \ fr.todo
  IN
  /\ In(t, "compile", "typed")
  /\ \/ /\ answer[t].kind = "typing" \/ (answer[t].kind \in {"none", "ok"} /\
             \E c \in asked : Usable(c, fr.s) = {})
        /\ TypeFails(t)
     \/ /\ answer[t].kind \in {"none", "ok"}
        /\ \A c \in asked : Usable(c, fr.s) # {}
        /\ Goto(t, [fr EXCEPT !.pc = "type"])
        /\ UNCHANGED <<answer, failed>>
     \/ /\ answer[t].kind \notin {"none", "ok", "typing"}
        /\ Goto(t, [fr EXCEPT !.pc = "leave"]) /\ UNCHANGED <<answer, failed>>
  /\ UNCHANGED <<overloads, table, fallbackdef, canCompile, defns, disk, lock, counter, env>>

\* Lowering looks every callee up again and makes the entry point.
Lower(t) ==
  LET fr == Top(t)
      r == [id |-> made + 1, f |-> fr.f, s |-> fr.s, g |-> fr.g, obj |-> fr.obj]
      found == fr.obj \/ \A c \in Callees[fr.f] : Usable(c, fr.s) \cap defns # {}
  IN
  /\ In(t, "compile", "lower")
  /\ IF found
       THEN /\ made' = made + 1
            /\ defns' = defns \cup (IF fr.obj THEN {} ELSE {r})
            /\ Goto(t, [fr EXCEPT !.pc = "insert", !.res = {r}]) /\ UNCHANGED answer
       ELSE /\ Goto(t, [fr EXCEPT !.pc = "leave"]) /\ Answer(t, Raised("keyerror"))
            /\ UNCHANGED <<made, defns>>
  /\ UNCHANGED <<overloads, table, fallbackdef, canCompile, failed, disk, lock, counter,
                 glob, ops, wanted, renewed>>

\* add_overload: the C++ table borrows the entry point, then overloads own it.
Insert(t) ==
  LET fr == Top(t) IN
  /\ In(t, "compile", "insert")
  /\ \E r \in fr.res :
       /\ table' = [table EXCEPT ![fr.f] = Append(@, r)]
       /\ fallbackdef' = [fallbackdef EXCEPT ![fr.f] =
            IF r.obj /\ @ = {} THEN {r} ELSE @]
  /\ Goto(t, [fr EXCEPT !.pc = "own"])
  /\ UNCHANGED <<overloads, canCompile, defns, failed, disk, lock, counter, answer, env>>

Own(t) ==
  LET fr == Top(t) IN
  /\ In(t, "compile", "own")
  /\ \E r \in fr.res :
       /\ overloads' = [overloads EXCEPT ![fr.f] = (@ \ At(fr.f, fr.s)) \cup {r}]
       /\ disk' = [disk EXCEPT ![fr.f] =
            IF fr.f \in Cached \ Lifted THEN @ \cup {<<fr.s, r.g>>} ELSE @]
       /\ Answer(t, Returned(r))
  /\ Goto(t, [fr EXCEPT !.pc = "leave"])
  /\ UNCHANGED <<table, fallbackdef, canCompile, defns, failed, lock, counter, env>>

----------------------------------------------------------------------------
(* The other operations of a dispatcher *)

\* disable_compile(~val): refused while there is no signature.
DisableCompile(t, f, val) ==
  /\ MayStart(t) /\ (~val => overloads[f] # {}) /\ canCompile[f] # val
  /\ ops' = [ops EXCEPT ![t] = @ + 1]
  /\ canCompile' = [canCompile EXCEPT ![f] = val]
  /\ wanted' = [wanted EXCEPT ![f] = val]
  /\ UNCHANGED <<overloads, table, fallbackdef, defns, failed, disk, lock, counter,
                 stack, answer, glob, made, renewed>>

(* The parts of recompile() *)

\* The entry points the target context forgets.
Disposed(f) == overloads[f]
\* Mutant of Kept: only the C++ table is cleared.
KeptOverloads(f) == overloads[f]
\* The overloads that stay.
Kept(f) == {}
\* Mutant of Saved: the cache is not flushed.
StillSaved(f) == disk[f]
\* The results that stay in the cache.
Saved(f) == {}
\* The flag that is put back.
Restored(fr, good) == fr.flag

\* recompile(): the finalizer drops the entry points, then _reset_overloads
\* clears the C++ table ...
Recompile(t, f) ==
  /\ MayStart(t) /\ f \notin Lifted
  /\ Overlap \/ \A u \in Threads \ {t} : stack[u] = <<>>
  /\ ops' = [ops EXCEPT ![t] = @ + 1]
  /\ stack' = [stack EXCEPT ![t] = <<[Frame("recompile", "reset", f, {}) EXCEPT
                  !.todo = {r.s : r \in overloads[f]}, !.flag = canCompile[f], !.g = glob]>>]
  /\ defns' = defns \ Disposed(f)
  /\ table' = [table EXCEPT ![f] = <<>>]
  /\ Answer(t, Nothing)
  /\ UNCHANGED <<overloads, fallbackdef, canCompile, failed, disk, lock, counter,
                 glob, made, wanted, renewed>>

\* ... and the overloads, and the cache is flushed.
Reset(t) ==
  LET f == Top(t).f IN
  /\ In(t, "recompile", "reset")
  /\ overloads' = [overloads EXCEPT ![f] = Kept(f)]
  /\ disk' = [disk EXCEPT ![f] = Saved(f)]
  /\ canCompile' = [canCompile EXCEPT ![f] = TRUE]
  /\ Goto(t, [Top(t) EXCEPT !.pc = "each"])
  /\ UNCHANGED <<table, fallbackdef, defns, failed, lock, counter, answer, env>>

Again(t) ==
  LET fr == Top(t) IN
  /\ In(t, "recompile", "each")
  /\ answer[t].kind \in {"none", "ok"}
  /\ \E s \in fr.todo : Enter(t, [fr EXCEPT !.todo = @ \ {s}], Frame("compile", "lock", fr.f, s))
  /\ UNCHANGED <<objs, lock, counter, answer, env>>

\* The end, also when a signature failed: the flag is put back.
Restore(t) ==
  LET fr == Top(t)
      good == answer[t].kind \in {"none", "ok"}
  IN
  /\ In(t, "recompile", "each")
  /\ fr.todo = {} \/ ~good
  /\ canCompile' = [canCompile EXCEPT ![fr.f] = Restored(fr, good)]
  /\ renewed' = [renewed EXCEPT ![fr.f] = IF good THEN fr.g ELSE @]
  /\ Pop(t)
  /\ UNCHANGED <<overloads, table, fallbackdef, defns, failed, disk, lock, counter, answer,
                 glob, made, ops, wanted>>

\* The program rebinds the global the functions read.
Rebind ==
  /\ glob < MaxGlob
  /\ glob' = glob + 1
  /\ UNCHANGED <<objs, lock, counter, stack, answer, made, ops, wanted, renewed>>

----------------------------------------------------------------------------
Start(t) ==
  \E f \in Funcs :
    \/ \E s \in Sigs : Call(t, f, s) \/ Compile(t, f, s)
    \/ \E val \in BOOLEAN : DisableCompile(t, f, val)
    \/ Recompile(t, f)

Continue(t) ==
  \/ Invoke(t) \/ Finish(t) \/ Leave(t) \/ Check(t) \/ Type(t) \/ Typed(t)
  \/ Lower(t) \/ Insert(t) \/ Own(t) \/ Reset(t) \/ Again(t) \/ Restore(t)

Next == Rebind \/ \E t \in Threads : Start(t) \/ Acquire(t) \/ Continue(t)

\* A running thread goes on.  The lock is not fair, so a waiting thread is only
\* promised it when it becomes free again and again.
Fairness == \A t \in Threads : WF_vars(Continue(t)) /\ SF_vars(Acquire(t))

Spec == Init /\ [][Next]_vars /\ Fairness

----------------------------------------------------------------------------
(* Properties *)

Compiling(t, f) ==
  {i \in DOMAIN stack[t] : stack[t][i].op = "compile" /\ stack[t][i].f = f
                           /\ stack[t][i].pc # "lock"}
Quiet == \A t \in Threads : stack[t] = <<>>

\* The shapes of the state, and the lock and the counters agree with the
\* activations: the depth of the lock is the number of compilations its owner is
\* in, nobody else is in one, and is_compiling is true during a compilation only.
TypeOK ==
  /\ overloads \in [Funcs -> SUBSET Result] /\ canCompile \in [Funcs -> BOOLEAN]
  /\ defns \subseteq Result /\ failed \in [Funcs -> SUBSET Sigs]
  /\ \A t \in Threads : answer[t].kind \in Answers
  /\ \A t \in Threads : (\E f \in Funcs : Compiling(t, f) # {}) => lock.owner = {t}
  /\ \A t \in lock.owner :
       lock.depth = Cardinality({i \in DOMAIN stack[t] :
                       stack[t][i].op = "compile" /\ stack[t][i].pc # "lock"})
  /\ Quiet => lock.depth = 0 /\ \A f \in Funcs : counter[f] = 0

\* However many threads asked for the same types at once, whatever failed in
\* between: when nothing runs, the C++ table of a function has every overload
\* exactly once and nothing else (a second copy makes calls ambiguous, a missing
\* one makes every call go through the compiler).
TableAgrees ==
  Quiet => \A f \in Funcs :
    /\ {table[f][i] : i \in DOMAIN table[f]} = overloads[f]
    /\ Cardinality({table[f][i].s : i \in DOMAIN table[f]}) = Len(table[f])

\* When nothing runs, the target context knows exactly the nopython entry points
\* that some dispatcher still holds: recompile() forgets what it replaced, and
\* nothing another function must call is forgotten.
DefnsExact ==
  Quiet => defns = {r \in UNION {overloads[f] : f \in Funcs} : ~r.obj}

\* The three places that know the overloads and the lock agree with each other.
StateAgrees == TypeOK /\ TableAgrees /\ DefnsExact

\* A compilation that was typed against its callees finds them again when it is
\* lowered, and no call is refused for having two equal overloads.
NoInternalError == \A t \in Threads : answer[t].kind \notin {"keyerror", "ambiguous"}

\* A call runs code of its own function, for its own types whenever the function
\* may compile; code for other types runs only through a conversion that exists,
\* or as the object-mode fallback.
RunsRightCode ==
  \A t \in Threads : \A i \in DOMAIN stack[t] :
    LET fr == stack[t][i] IN
    fr.op = "call" /\ fr.pc = "run" =>
      \A r \in fr.res :
        /\ r.f = fr.f
        /\ r.s # fr.s => ~fr.flag /\ (<<fr.s, r.s>> \in Fits \/ r.obj)

\* What a call gets is the code it asked for, or an error of the program's own.
CallsRight == NoInternalError /\ RunsRightCode

\* Outside recompile(), a function may compile exactly when the program last
\* said so: a recompilation that fails half way does not leave it switched on.
FlagKept ==
  \A f \in Funcs :
    (\A t \in Threads : \A i \in DOMAIN stack[t] :
       ~(stack[t][i].op = "recompile" /\ stack[t][i].f = f)) => canCompile[f] = wanted[f]

\* After a recompilation no overload still has a value of the global from before
\* it, be it from a result that was kept, or from the cache on disk.
RecompileRenews ==
  \A f \in Funcs :
    (\A t \in Threads : ~Recompiling(t)) => \A r \in overloads[f] : r.g >= renewed[f]

\* recompile() leaves new code behind, and the flag as it was.
RecompileExact == RecompileRenews /\ FlagKept

\* Every call comes to an end: no failure leaves the compiler lock held, and
\* threads that compile functions calling each other do not wait in a ring.
CallsEnd == \A t \in Threads : stack[t] # <<>> ~> stack[t] = <<>>

\* The C++ half keeps no pointer to an entry point that the Python half no
\* longer owns.
BorrowedIsOwned ==
  \A f \in Funcs :
    (\A t \in Threads : stack[t] = <<>>) =>
      {table[f][i] : i \in DOMAIN table[f]} \cup fallbackdef[f] \subseteq overloads[f]
============================================================================
