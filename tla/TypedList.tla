------------------------------ MODULE TypedList ------------------------------
(***************************************************************************)
(* numba.typed.List: the C functions of numba/cext/listobject.c and, over  *)
(* them, the operations that numba/typed/listobject.py compiles.  One list *)
(* and one `for` over it.  Positions are counted from 0 as in the code:    *)
(* the item at i is items[i + 1].                                          *)
(***************************************************************************)
EXTENDS Integers, Sequences, FiniteSets
CONSTANTS
  Elems,           \* what a list may hold
  Preallocations,  \* the sizes a list may be created with room for
  Bounds, Steps,   \* bounds and steps of the slices that are used
  MaxLen,          \* bound: the longest list
  DivergentCalls   \* also the calls in which the code departs from Python's lists?

Trash == "trash"   \* what is in a slot that was never written

ASSUME ListAssumption ==
  /\ Preallocations \subseteq Nat /\ MaxLen \in Nat /\ DivergentCalls \in BOOLEAN
  /\ Bounds \subseteq Int /\ Steps \subseteq Int \ {0} /\ Trash \notin Elems

VARIABLES
  list,     \* NB_List: items, allocated, is_mutable, and the references it owns
  call,     \* the last operation and its arguments
  result,   \* how it ended, and the items it returned
  loop      \* the `for`: its index and the size when it began, <<>> for none

listvars == <<list, call, result, loop>>
-----------------------------------------------------------------------------
(* The C functions.  l is the list during an operation: its status is that *)
(* of the last call, memory how many more reallocations that need memory   *)
(* will succeed.                                                           *)

Size(l) == Len(l.items)
At(l, i) == l.items[i + 1]

Status(l, s) == [l EXCEPT !.status = s]

OwnOneMore(l, x) == [l EXCEPT !.refs[x] = @ + 1]
OwnOneLess(l, x) == [l EXCEPT !.refs[x] = @ - 1]

Sized(items, newsize) ==
  [i \in 1..newsize |-> IF i <= Len(items) THEN items[i] ELSE Trash]

NewAllocated(newsize) ==
  IF newsize = 0 THEN 0 ELSE newsize + newsize \div 8 + (IF newsize < 9 THEN 3 ELSE 6)

(* numba_list_resize().  Making a block smaller is taken to succeed.       *)
Resize(l, newsize) ==
  IF ~l.is_mutable THEN Status(l, "LIST_ERR_IMMUTABLE")
  ELSE IF l.allocated >= newsize /\ newsize >= l.allocated \div 2
       THEN [l EXCEPT !.items = Sized(@, newsize), !.status = "LIST_OK"]
  ELSE LET grows == NewAllocated(newsize) > l.allocated IN
       IF grows /\ l.memory = 0 THEN Status(l, "LIST_ERR_NO_MEMORY")
       ELSE [l EXCEPT !.items = Sized(@, newsize), !.allocated = NewAllocated(newsize),
                      !.memory = IF grows THEN @ - 1 ELSE @, !.status = "LIST_OK"]

SetItemAt(l, i, x) ==
  IF ~l.is_mutable THEN Status(l, "LIST_ERR_IMMUTABLE")
  ELSE IF i \notin 0..(Size(l) - 1) THEN Status(l, "LIST_ERR_INDEX")
  ELSE OwnOneMore([OwnOneLess(l, At(l, i)) EXCEPT !.items[i + 1] = x, !.status = "LIST_OK"], x)

AppendItem(l, x) ==
  LET r == Resize(l, Size(l) + 1)
  IN IF r.status = "LIST_OK" THEN OwnOneMore([r EXCEPT !.items[Size(r)] = x], x) ELSE r

MemMove(items, dst, src, n) ==
  [i \in DOMAIN items |-> IF i - 1 \in dst..(dst + n - 1) THEN items[i + src - dst] ELSE items[i]]

(* Mutant of DelItemAt: the item's reference is kept.                      *)
DelItemLeaks(l, i) ==
  IF ~l.is_mutable THEN Status(l, "LIST_ERR_IMMUTABLE")
  ELSE Resize([l EXCEPT !.items = MemMove(@, i, i + 1, Size(l) - 1 - i)], Size(l) - 1)
DelItemAt(l, i) ==
  IF ~l.is_mutable THEN Status(l, "LIST_ERR_IMMUTABLE")
  ELSE IF i \notin 0..(Size(l) - 1) THEN Status(l, "LIST_ERR_INDEX")
  ELSE Resize([OwnOneLess(l, At(l, i)) EXCEPT !.items = MemMove(@, i, i + 1, Size(l) - 1 - i)],
              Size(l) - 1)

(* The length of range(r.start, r.stop, r.step).                           *)
RangeLen(r) ==
  IF r.step > 0 THEN IF r.start < r.stop THEN (r.stop - r.start - 1) \div r.step + 1 ELSE 0
  ELSE IF r.stop < r.start THEN (r.start - r.stop - 1) \div (-r.step) + 1 ELSE 0

Forwards(r, n) ==
  IF r.step > 0 THEN r
  ELSE [start |-> r.start + r.step * (n - 1), stop |-> r.start + 1, step |-> -r.step]

(* The items between two deleted ones move down by the number deleted.     *)
(* Mutant of Kept: the limit at the end of the list is off by one.         *)
KeptShort(l, r, cur) == IF cur + r.step >= Size(l) THEN Size(l) - cur - 2 ELSE r.step - 1
Kept(l, r, cur) == IF cur + r.step >= Size(l) THEN Size(l) - cur - 1 ELSE r.step - 1

CutPlain(l, r) ==
  LET cut[i \in r.start..r.stop] == IF i = r.start THEN l ELSE OwnOneLess(cut[i - 1], At(l, i - 1))
  IN [cut[r.stop] EXCEPT !.items = MemMove(@, r.start, r.stop, Size(l) - r.stop)]

CutExtended(l, r, n) ==
  LET cut[i \in 0..n] ==
        IF i = 0 THEN l
        ELSE LET cur == r.start + (i - 1) * r.step
             IN [OwnOneLess(cut[i - 1], At(cut[i - 1], cur)) EXCEPT
                   !.items = MemMove(@, cur - (i - 1), cur + 1, Kept(l, r, cur))]
      tail == r.start + n * r.step
  IN [cut[n] EXCEPT !.items = MemMove(@, tail - n, tail, Size(l) - tail)]

(* numba_list_delete_slice()                                               *)
DeleteSlice(l, r) ==
  LET n == RangeLen(r)
      f == Forwards(r, n)
  IN IF ~l.is_mutable THEN Status(l, "LIST_ERR_IMMUTABLE")
     ELSE IF n = 0 THEN Status(l, "LIST_OK")
     ELSE Resize(IF f.step = 1 THEN CutPlain(l, f) ELSE CutExtended(l, f, n), Size(l) - n)
-----------------------------------------------------------------------------
(* The compiled layer.  A status is raised as an exception, and a raised   *)
(* exception ends the operation.                                           *)

Raise(l) ==
  Status(l, CASE l.status = "LIST_OK" -> "OK"
              [] l.status = "LIST_ERR_IMMUTABLE" -> "ValueError"
              [] l.status = "LIST_ERR_NO_MEMORY" -> "MemoryError"
              [] OTHER -> "AssertionError")

(* Step(l, 1), ..., Step(l, n), one on the other, until one raises.        *)
Repeat(l, n, Step(_, _)) ==
  LET r[k \in 0..n] == IF k = 0 THEN l
                       ELSE IF r[k - 1].status # "OK" THEN r[k - 1] ELSE Step(r[k - 1], k)
  IN r[n]

FixIndex(l, i) == IF i < 0 THEN i + Size(l) ELSE i
InRange(l, i) == FixIndex(l, i) \in 0..(Size(l) - 1)

Larger(a, b) == IF a > b THEN a ELSE b
Lesser(a, b) == IF a < b THEN a ELSE b

(* handle_slice()                                                          *)
HandleSlice(l, s) ==
  LET n == Size(l) IN
  IF n = 0 THEN [start |-> 0, stop |-> 0, step |-> 1]
  ELSE IF s.step > 0
       THEN [start |-> IF s.start < 0 THEN Larger(n + s.start, 0) ELSE Lesser(n, s.start),
             stop  |-> IF s.stop < 0 THEN Larger(n + s.stop, 0) ELSE Lesser(n, s.stop),
             step  |-> s.step]
  ELSE [start |-> IF s.start < 0 THEN Larger(n + s.start, -1) ELSE Lesser(n - 1, s.start),
        stop  |-> IF s.stop < 0 THEN Larger(n + s.stop, -1) ELSE Lesser(n, s.stop),
        step  |-> s.step]

RangeAt(r, k) == r.start + (k - 1) * r.step

GetSlice(l, s) == LET r == HandleSlice(l, s)
                  IN [k \in 1..RangeLen(r) |-> At(l, RangeAt(r, k))]

PutItem(l, i, x) ==
  IF ~InRange(l, i) THEN Status(l, "IndexError") ELSE Raise(SetItemAt(l, FixIndex(l, i), x))

DropItem(l, i) ==
  IF ~InRange(l, i) THEN Status(l, "IndexError") ELSE Raise(DelItemAt(l, FixIndex(l, i)))

PutLast(l, x) == Raise(AppendItem(l, x))

(* insert(): grow by one, shift, put.                                      *)
InsertItem(l, i, x) ==
  IF i >= Size(l) \/ l.items = <<>> THEN PutLast(l, x)
  ELSE LET at == IF i < 0 THEN Larger(Size(l) + i, 0) ELSE i
           shift(m, k) == PutItem(m, Size(l) - k + 1, At(m, Size(l) - k))
           moved == Repeat(PutLast(l, At(l, 0)), Size(l) - at, shift)
       IN IF moved.status = "OK" THEN PutItem(moved, at, x) ELSE moved

(* del l[a:b].  The status of an immutable list is compared with that of a *)
(* changed one, so that nothing is raised.                                 *)
DropSlice(l, s) ==
  LET m == DeleteSlice(l, HandleSlice(l, s))
  IN Status(m, IF m.status = "LIST_ERR_MUTATED" THEN "ValueError" ELSE "OK")

(* l[a:b:c] = xs                                                           *)
PutSlice(l, s, xs) ==
  LET r == HandleSlice(l, s)
      n == RangeLen(r)
      replace(m, k) == PutItem(m, RangeAt(r, k), xs[k])
      insert(m, k) == InsertItem(m, r.stop + k - 1, xs[n + k])
      replaced == Repeat(l, Lesser(n, Len(xs)), replace)
  IN IF ~l.is_mutable THEN Status(l, "ValueError")
     ELSE IF r.step # 1 THEN IF n = Len(xs) THEN replaced ELSE Status(l, "ValueError")
     ELSE IF Len(xs) >= n THEN Repeat(replaced, Len(xs) - n, insert)
     ELSE DropSlice(replaced, [start |-> r.start + Len(xs), stop |-> r.stop, step |-> 1])

Extend(l, xs) ==
  LET add(m, k) == PutLast(m, xs[k])
  IN IF ~l.is_mutable THEN Status(l, "ValueError") ELSE Repeat(l, Len(xs), add)

RemoveItem(l, x) ==
  LET found == {i \in 0..(Size(l) - 1) : At(l, i) = x}
  IN IF found = {} THEN Status(l, "ValueError")
     ELSE DropItem(l, CHOOSE i \in found : \A j \in found : i <= j)

Clear(l) == LET drop(m, k) == DropItem(m, -1) IN Repeat(l, Size(l), drop)

ReverseItems(l) ==
  LET swap(m, k) == LET back == Size(l) - k
                        first == PutItem(m, k - 1, At(m, back))
                    IN PutItem(first, back, At(m, k - 1))
  IN IF ~l.is_mutable THEN Status(l, "ValueError") ELSE Repeat(l, Size(l) \div 2, swap)
-----------------------------------------------------------------------------
(* The operations as actions.                                              *)

Created(n) == [items |-> <<>>, allocated |-> n, is_mutable |-> TRUE,
               refs |-> [x \in Elems \cup {Trash} |-> 0]]

(* The list at the beginning of a call.                                    *)
Begin(memory) == [items |-> list.items, allocated |-> list.allocated, refs |-> list.refs,
                  is_mutable |-> list.is_mutable, memory |-> memory, status |-> "OK"]

End(l, c, xs) ==
  /\ Size(l) <= MaxLen
  /\ list' = [items |-> l.items, allocated |-> l.allocated, refs |-> l.refs,
              is_mutable |-> l.is_mutable]
  /\ call' = c
  /\ result' = <<l.status, IF l.status = "OK" THEN xs ELSE <<>>>>
  /\ UNCHANGED loop

(* An assignment whose bounds are crossed, or to an extended slice of an   *)
(* empty list, and the deletion of a slice of an immutable list.           *)
CrossedBounds(s, xs) ==
  LET r == HandleSlice(list, s)
  IN xs # <<>> /\ IF list.items = <<>> THEN s.step # 1 ELSE s.step = 1 /\ r.start > r.stop

Slices == [start : Bounds, stop : Bounds, step : Steps]
Sources == {<<>>} \cup {<<x>> : x \in Elems} \cup {<<x, y>> : x, y \in Elems}
Positions == (-Len(list.items) - 1)..Len(list.items)

ListGet == \E i \in Positions :
  End(IF InRange(list, i) THEN Begin(0) ELSE Status(Begin(0), "IndexError"),
      [op |-> "getitem", i |-> i], IF InRange(list, i) THEN <<At(list, FixIndex(list, i))>> ELSE <<>>)

ListGetSlice == \E s \in Slices :
  End(Begin(0), [op |-> "getslice", slice |-> s], GetSlice(list, s))

ListSet == \E i \in Positions, x \in Elems :
  End(PutItem(Begin(0), i, x), [op |-> "setitem", i |-> i, x |-> x], <<>>)

ListAppend == \E m \in {0, 1}, x \in Elems :
  End(PutLast(Begin(m), x), [op |-> "append", x |-> x], <<>>)

ListInsert == \E m \in {0, 1}, i \in Positions, x \in Elems :
  End(InsertItem(Begin(m), i, x), [op |-> "insert", i |-> i, x |-> x], <<>>)

ListExtend == \E m \in {0, 1}, xs \in Sources \cup {list.items} :
  End(Extend(Begin(m), xs), [op |-> "extend", xs |-> xs], <<>>)

ListSetSlice == \E s \in Slices, xs \in Sources \cup {list.items} :
  /\ DivergentCalls \/ ~CrossedBounds(s, xs)
  /\ \E m \in {0, 1} :
       End(PutSlice(Begin(m), s, xs), [op |-> "setslice", slice |-> s, xs |-> xs], <<>>)

ListDelSlice == \E s \in Slices :
  /\ DivergentCalls \/ list.is_mutable
  /\ End(DropSlice(Begin(0), s), [op |-> "delslice", slice |-> s], <<>>)

ListPop == \E i \in Positions :
  End(DropItem(Begin(0), i), [op |-> "pop", i |-> i],
      IF InRange(list, i) THEN <<At(list, FixIndex(list, i))>> ELSE <<>>)

ListRemove == \E x \in Elems : End(RemoveItem(Begin(0), x), [op |-> "remove", x |-> x], <<>>)

ListClear == End(Clear(Begin(0)), [op |-> "clear"], <<>>)

ListReverse == End(ReverseItems(Begin(0)), [op |-> "reverse"], <<>>)

ListMake == \E b \in BOOLEAN :
  End([Begin(0) EXCEPT !.is_mutable = b], [op |-> "make", mutable |-> b], <<>>)

(* The compiled for: getiter keeps the size, iternext compares it.         *)
ListFor == /\ loop' = <<0, Len(list.items)>>
           /\ call' = [op |-> "for"] /\ result' = <<"OK", <<>>>>
           /\ UNCHANGED list

ListForNext ==
  /\ loop # <<>>
  /\ call' = [op |-> "next"]
  /\ \/ /\ loop[2] # Len(list.items)
        /\ result' = <<"RuntimeError", <<>>>> /\ loop' = <<>>
     \/ /\ loop[2] = Len(list.items) /\ loop[1] >= Len(list.items)
        /\ result' = <<"StopIteration", <<>>>> /\ loop' = <<>>
     \/ /\ loop[2] = Len(list.items) /\ loop[1] < Len(list.items)
        /\ result' = <<"OK", <<At(list, loop[1])>>>> /\ loop' = [loop EXCEPT ![1] = @ + 1]
  /\ UNCHANGED list

(* numba_list_free(), and numba_list_new() for another list.               *)
ListNew == \E n \in Preallocations :
  /\ list' = Created(n)
  /\ call' = [op |-> "new"] /\ result' = <<"OK", <<>>>> /\ loop' = <<>>

ListInit == /\ \E n \in Preallocations : list = Created(n)
            /\ call = [op |-> "new"] /\ result = <<"OK", <<>>>> /\ loop = <<>>

ListNext ==
  \/ ListGet \/ ListGetSlice \/ ListSet \/ ListAppend \/ ListInsert \/ ListExtend
  \/ ListSetSlice \/ ListDelSlice \/ ListPop \/ ListRemove \/ ListClear \/ ListReverse
  \/ ListMake \/ ListFor \/ ListForNext \/ ListNew
-----------------------------------------------------------------------------
(* The list owns one reference to an item for each place that holds it,    *)
(* and no place is left unwritten or lies outside the block.               *)
ListSound ==
  /\ Len(list.items) <= list.allocated
  /\ \A x \in Elems \cup {Trash} :
       list.refs[x] = Cardinality({i \in DOMAIN list.items : list.items[i] = x})
  /\ list.refs[Trash] = 0
=============================================================================
