-------------------------------- MODULE PyList --------------------------------
(***************************************************************************)
(* What a typed list promises: the operations of a Python list, on a       *)
(* sequence.  Slices follow the language: bounds are clipped, a plain      *)
(* slice is replaced by any number of items, an extended one by as many as *)
(* it has.  A list that was made immutable refuses every change.  A call   *)
(* that runs out of memory has done a first part of its work.              *)
(* TypedContainers shows that the typed list keeps it.                     *)
(***************************************************************************)
EXTENDS Integers, Sequences, SequencesExt
VARIABLES
  seq,      \* the items
  mutable,
  call,     \* the last call: the operation and its arguments
  result,   \* how it ended, and the items it returned
  loop      \* a `for` over the list: its position and the length it saw

vars == <<seq, mutable, call, result, loop>>
len == Len(seq)

Returns(xs) == result' = <<"OK", xs>> /\ seq' = seq
Becomes(xs) == result' = <<"OK", <<>>>> /\ seq' = xs
Raises(exc) == result' = <<exc, <<>>>> /\ seq' = seq

(* Indices, and the positions a slice selects, counted from 0.             *)
Index(i) == IF i < 0 THEN i + len ELSE i
Valid(i) == Index(i) \in 0..(len - 1)

Clip(i, low, high) == LET j == Index(i) IN IF j < low THEN low ELSE IF j > high THEN high ELSE j
Clipped(i, s) == IF s.step > 0 THEN Clip(i, 0, len) ELSE Clip(i, -1, len - 1)
Start(s) == Clipped(s.start, s)
Stop(s)  == Clipped(s.stop, s)

Selected(s) ==
  SelectSeq([k \in 1..len |-> Start(s) + (k - 1) * s.step],
            LAMBDA i : IF s.step > 0 THEN i < Stop(s) ELSE i > Stop(s))

Without(P) == LET kept == SelectSeq([k \in 1..len |-> k], LAMBDA k : k - 1 \notin P)
              IN [k \in DOMAIN kept |-> seq[kept[k]]]

(* The list with xs in the place of the plain slice s.                     *)
Spliced(s, xs) ==
  SubSeq(seq, 1, Start(s)) \o xs
    \o SubSeq(seq, 1 + (IF Stop(s) > Start(s) THEN Stop(s) ELSE Start(s)), len)

(* The list with the items at the positions at replaced one by one.        *)
Replaced(at, xs) ==
  [k \in 1..len |-> IF \E m \in DOMAIN at : at[m] = k - 1
                    THEN xs[CHOOSE m \in DOMAIN at : at[m] = k - 1] ELSE seq[k]]
-----------------------------------------------------------------------------
GetItem(i)  == IF Valid(i) THEN Returns(<<seq[Index(i) + 1]>>) ELSE Raises("IndexError")
GetSlice(s) == Returns([k \in DOMAIN Selected(s) |-> seq[Selected(s)[k] + 1]])

Insert(i, x) == LET at == Clip(i, 0, len)
                IN Becomes(SubSeq(seq, 1, at) \o <<x>> \o SubSeq(seq, at + 1, len))

SetItem(i, x) == IF Valid(i) THEN Becomes([seq EXCEPT ![Index(i) + 1] = x]) ELSE Raises("IndexError")

SetSlice(s, xs) ==
  IF s.step = 1 THEN Becomes(Spliced(s, xs))
  ELSE IF Len(xs) = Len(Selected(s)) THEN Becomes(Replaced(Selected(s), xs))
  ELSE Raises("ValueError")

DelSlice(s) == Becomes(Without(ToSet(Selected(s))))

Pop(i) == IF Valid(i) THEN result' = <<"OK", <<seq[Index(i) + 1]>>>> /\ seq' = Without({Index(i)})
          ELSE Raises("IndexError")

RemoveItem(x) == IF Contains(seq, x) THEN Becomes(RemoveFirst(seq, x)) ELSE Raises("ValueError")

Read(c) == \/ c.op = "getitem" /\ GetItem(c.i)
           \/ c.op = "getslice" /\ GetSlice(c.slice)

Change(c) ==
  \/ c.op = "append"   /\ Becomes(Append(seq, c.x))
  \/ c.op = "extend"   /\ Becomes(seq \o c.xs)
  \/ c.op = "insert"   /\ Insert(c.i, c.x)
  \/ c.op = "setitem"  /\ SetItem(c.i, c.x)
  \/ c.op = "setslice" /\ SetSlice(c.slice, c.xs)
  \/ c.op = "delslice" /\ DelSlice(c.slice)
  \/ c.op = "pop"      /\ Pop(c.i)
  \/ c.op = "remove"   /\ RemoveItem(c.x)
  \/ c.op = "clear"    /\ Becomes(<<>>)
  \/ c.op = "reverse"  /\ Becomes(Reverse(seq))

(* What was put in before the memory ran out stays.                        *)
OutOfMemory(c) ==
  /\ \/ c.op \in {"append", "insert"} /\ seq' = seq
     \/ c.op = "extend" /\ \E k \in 0..Len(c.xs) : seq' = seq \o SubSeq(c.xs, 1, k)
     \/ /\ c.op = "setslice" /\ c.slice.step = 1
        /\ \E k \in 0..Len(c.xs) : seq' = Spliced(c.slice, SubSeq(c.xs, 1, k))
  /\ result' = <<"MemoryError", <<>>>>

(* A call on an immutable list, unless it has nothing to do.              *)
Refuse(c) ==
  \/ c.op \in {"setitem", "pop"} /\ ~Valid(c.i) /\ Raises("IndexError")
  \/ c.op = "clear" /\ len = 0 /\ Becomes(<<>>)
  \/ c.op \in {"append", "extend", "insert", "setitem", "setslice", "delslice", "pop",
                "remove", "clear", "reverse"} /\ Raises("ValueError")
-----------------------------------------------------------------------------
Init == seq = <<>> /\ mutable = TRUE /\ call = [op |-> "new"] /\ result = <<"OK", <<>>>> /\ loop = <<>>

Operate(c) == /\ IF mutable THEN Read(c) \/ Change(c) \/ OutOfMemory(c)
                 ELSE Read(c) \/ Refuse(c)
              /\ UNCHANGED <<mutable, loop>>

SetMutable(c) == /\ c.op = "make" /\ mutable' = c.mutable /\ Returns(<<>>)
                 /\ UNCHANGED loop

For(c) == /\ c.op = "for" /\ loop' = <<0, len>> /\ Returns(<<>>)
          /\ UNCHANGED mutable

ForNext(c) ==
  /\ c.op = "next" /\ loop # <<>>
  /\ IF loop[2] # len THEN Raises("RuntimeError") /\ loop' = <<>>
     ELSE IF loop[1] = len THEN Raises("StopIteration") /\ loop' = <<>>
     ELSE Returns(<<seq[loop[1] + 1]>>) /\ loop' = <<loop[1] + 1, len>>
  /\ UNCHANGED mutable

(* The list is dropped and another is made.                                *)
New(c) == c.op = "new" /\ seq' = <<>> /\ mutable' /\ result' = <<"OK", <<>>>> /\ loop' = <<>>

Perform(c) == Operate(c) \/ SetMutable(c) \/ For(c) \/ ForNext(c) \/ New(c)

Spec == Init /\ [][Perform(call')]_vars
=============================================================================
