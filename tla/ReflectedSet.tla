---------------------------- MODULE ReflectedSet ----------------------------
(***************************************************************************)
(* The native set, numba/cpython/setobj.py: a hash table with linear, then *)
(* perturbed probing, deleted marks and resizing, and its reflection into  *)
(* the Python set it was made from (numba/core/boxing.py).                 *)
(*                                                                         *)
(* A call of compiled code gets a Python set as "a" and has a local set    *)
(* "b". A set belongs to one thread, so that an operation is one step. A   *)
(* lookup that never ends is a step that sets hung. Allocations succeed;   *)
(* what their failure does to a payload is part of NRT.                    *)
(***************************************************************************)
EXTENDS Integers, Sequences, FiniteSets
LOCAL INSTANCE SequencesExt

CONSTANTS Keys,           \* the items
          Hash,           \* [Keys -> 0 .. Word - 1]: what hash() returns, unsigned
          HashBits,       \* the width of a hash
          MINSIZE,        \* entries of the smallest table
          LINEAR_PROBES,  \* probes before the perturbed ones
          ShiftBits,      \* by how much a perturbed probe shifts the hash
          MaxDoublings    \* bound: how often a table doubles

Word == 2 ^ HashBits

ASSUME ReflectedSetAssumption ==
  /\ {MINSIZE, LINEAR_PROBES, MaxDoublings} \subseteq Nat
  /\ HashBits \in Nat /\ HashBits > 1 /\ ShiftBits \in 1 .. HashBits
  /\ Hash \in [Keys -> 0 .. Word - 1]
  /\ \E j \in 1 .. MINSIZE : MINSIZE = 2 ^ j

VARIABLES table,  \* [Names -> payload]
          refs,   \* [Keys -> Int]: the references the sets hold
          py,     \* the content of the Python set
          native, \* is compiled code running?
          hung,   \* is it in a lookup that never ends?
          did     \* the last operation and its answer
vars == <<table, refs, py, native, hung, did>>

Names == {"a", "b"}
Nothing == "nothing"

----------------------------------------------------------------------------
(* Hash values, entries and payloads *)

EMPTY == Word - 1
DELETED == Word - 2
FALLBACK == (0 - 43) % Word

IsHashUsed(h) == h < DELETED

\* The hash of an item never is one of the two marks.
HashValue(k) == IF IsHashUsed(Hash[k]) THEN Hash[k] ELSE FALLBACK

EmptyEntry == [hash |-> EMPTY, key |-> Nothing]

\* A new payload is filled with 0xff, the dirty flag too.
AllocatePayload(n) ==
  [mask |-> n - 1, entries |-> [i \in 0 .. n - 1 |-> EmptyEntry],
   used |-> 0, fill |-> 0, finger |-> 0, dirty |-> TRUE]

Used(p) == {i \in DOMAIN p.entries : IsHashUsed(p.entries[i].hash)}
Members(p) == {p.entries[i].key : i \in Used(p)}

\* The indices of the used entries, in the order in which loops visit them.
Iterate(p) ==
  LET IsUsed(i) == i \in Used(p)
  IN SelectSeq([n \in 1 .. p.mask + 1 |-> n - 1], IsUsed)

----------------------------------------------------------------------------
(* Lookup *)

Sizes == {MINSIZE * 2 ^ j : j \in 0 .. MaxDoublings}

\* The entries that a lookup of a hash considers in a table of some size: enough of
\* them to shift the whole hash out and to visit every entry after that.
Chains ==
  [size \in Sizes, h \in {HashValue(k) : k \in Keys} |->
     LET last == LINEAR_PROBES + HashBits + size
         probe[n \in 0 .. last] ==
           IF n = 0 THEN [index |-> h % size, perturb |-> h]
           ELSE LET before == probe[n - 1]
                    shifted == before.perturb \div 2 ^ ShiftBits
                IN IF n <= LINEAR_PROBES
                     THEN [index |-> (before.index + 1) % size, perturb |-> h]
                     ELSE [index |-> (5 * before.index + 1 + shifted) % size, perturb |-> shifted]
     IN [n \in 0 .. last |-> probe[n].index]]

\* Mutant of Stops: a deleted entry ends the chain as an empty one does.
StopsEarly(e, k, h) == (e.hash = h /\ e.key = k) \/ e.hash \in {EMPTY, DELETED}
Stops(e, k, h) == (e.hash = h /\ e.key = k) \/ e.hash = EMPTY

Least(S) == CHOOSE n \in S : \A m \in S : n <= m

\* Where the lookup ends, if it does, and the entry an insertion may use: the
\* first deleted one before that, or the empty one at the end.
Lookup(p, k, h) ==
  LET chain == Chains[p.mask + 1, h]
      Entry(n) == p.entries[chain[n]]
      ends == {n \in DOMAIN chain : Stops(Entry(n), k, h)}
      last == Least(ends)
      deleted == {n \in DOMAIN chain : n < last /\ Entry(n).hash = DELETED}
  IN IF ends = {} THEN [ends |-> FALSE]
     ELSE [ends |-> TRUE, found |-> Entry(last).hash = h, index |-> chain[last],
           free |-> chain[IF deleted = {} THEN last ELSE Least(deleted)]]

----------------------------------------------------------------------------
(* Changes of one set. A set being worked on is a record of its payload,   *)
(* the references, and whether all lookups so far ended.                   *)

Work(x) == [p |-> table[x], refs |-> refs, ends |-> TRUE]

Filled(e) == IF e.hash = EMPTY THEN 1 ELSE 0

AddEntry(w, i, k, h, n) ==
  [w EXCEPT !.p.entries[i] = [hash |-> h, key |-> k],
            !.p.used = @ + 1, !.p.fill = @ + Filled(w.p.entries[i]),
            !.p.dirty = TRUE, !.refs[k] = @ + n]

\* _add_key() without resizing; n is 1 if it takes a reference, else 0.
Insert(w, k, h, n) ==
  LET l == Lookup(w.p, k, h)
  IN IF ~l.ends THEN [w EXCEPT !.ends = FALSE]
     ELSE IF l.found THEN w ELSE AddEntry(w, l.free, k, h, n)

Moved == 0

Resize(w, n) ==
  LET Move(v, i) == Insert(v, w.p.entries[i].key, w.p.entries[i].hash, Moved)
  IN FoldLeft(Move, [w EXCEPT !.p = AllocatePayload(n)], Iterate(w.p))

ChooseAllocSize(n) == Least({s \in Sizes : s >= 2 * n})

Upsize(w, n) ==
  LET size == w.p.mask + 1
  IN IF 2 * n >= size
       THEN Resize(w, Least({s \in {size * 4 ^ j : j \in 1 .. MaxDoublings} : s > 2 * n}))
       ELSE w

MinEntries(n) == IF 2 * n >= MINSIZE THEN 2 * n ELSE MINSIZE

Downsize(w, n) ==
  LET size == w.p.mask + 1
  IN IF 4 * MinEntries(n) <= size /\ MINSIZE < size
       THEN Resize(w, Least({s \in {size \div 2 ^ j : j \in 0 .. MaxDoublings} : s >= MinEntries(n)}))
       ELSE w

AddKey(w, k, h) ==
  LET v == Insert(w, k, h, 1)
  IN IF v.p.used > w.p.used THEN [Upsize(v, v.p.used) EXCEPT !.p.dirty = TRUE] ELSE v

\* Mutant of Mark: the entry is emptied.
MarkEmpty(e) == EmptyEntry
Mark(e) == [hash |-> DELETED, key |-> Nothing]

\* Mutant of RemoveEntry: removals leave the set clean.
RemoveEntryClean(w, i, n) ==
  [w EXCEPT !.p.entries[i] = Mark(@), !.p.used = @ - 1, !.refs[w.p.entries[i].key] = @ - n]
\* n is 1 if the reference is given back here, 0 if the caller of pop() gets it.
RemoveEntry(w, i, n) ==
  [w EXCEPT !.p.entries[i] = Mark(@), !.p.used = @ - 1, !.p.dirty = TRUE,
            !.refs[w.p.entries[i].key] = @ - n]

\* _remove_key() without resizing.
RemoveKey(w, k, h) ==
  LET l == Lookup(w.p, k, h)
  IN IF ~l.ends THEN [w EXCEPT !.ends = FALSE]
     ELSE IF l.found THEN RemoveEntry(w, l.index, 1) ELSE w

\* The table resizes once at the end of a bulk removal.
Downsized(w) == IF w.ends THEN Downsize(w, w.p.used) ELSE w

\* The destructor gives every reference back.
Released(p) == [k \in Keys |-> refs[k] - Cardinality({i \in Used(p) : p.entries[i].key = k})]

----------------------------------------------------------------------------
(* Operations on one set *)

Report(op, on, arg, answer) == did' = [op |-> op, on |-> on, arg |-> arg, answer |-> answer]

\* The end of an operation: nobody sees the effect of one that never ends.
Finish(x, w, op, arg, answer) ==
  /\ native /\ ~hung
  /\ IF w.ends
       THEN /\ table' = [table EXCEPT ![x] = w.p]
            /\ refs' = w.refs
            /\ Report(op, x, arg, answer)
            /\ UNCHANGED hung
       ELSE hung' = TRUE /\ UNCHANGED <<table, refs, did>>
  /\ UNCHANGED <<py, native>>

Add(x, k) == Finish(x, AddKey(Work(x), k, HashValue(k)), "add", k, Nothing)

\* discard() and remove(), which raises KeyError if the answer is FALSE.
Discard(x, k) ==
  LET w == RemoveKey(Work(x), k, HashValue(k))
      found == w.p.used < table[x].used
  IN Finish(x, IF found THEN Downsize(w, w.p.used) ELSE w, "discard", k, found)

\* contains(), the operator in.
HasKey(x, k) ==
  LET l == Lookup(table[x], k, HashValue(k))
  IN Finish(x, [Work(x) EXCEPT !.ends = l.ends], "contains", k, l.ends /\ l.found)

\* The next used entry after the finger, around the table; the caller of pop()
\* drops the reference that it gets.
Pop(x) ==
  LET p == table[x]  size == p.mask + 1
      far == Least({d \in 1 .. size : (p.finger + d) % size \in Used(p)})
      i == (p.finger + far) % size
      k == p.entries[i].key
      v == RemoveEntry([Work(x) EXCEPT !.p.finger = i], i, 0)
      w == Downsize(v, v.p.used)
  IN /\ p.used > 0
     /\ Finish(x, [w EXCEPT !.refs[k] = @ - 1], "pop", Nothing, k)

Clear(x) ==
  Finish(x, [Work(x) EXCEPT !.p = AllocatePayload(MINSIZE), !.refs = Released(table[x])],
         "clear", Nothing, Nothing)

----------------------------------------------------------------------------
(* Operations on two sets *)

Intersect(x, y) ==
  LET p == table[x]
      Keep(w, i) ==
        LET l == Lookup(table[y], p.entries[i].key, p.entries[i].hash)
        IN IF ~l.ends THEN [w EXCEPT !.ends = FALSE]
           ELSE IF l.found THEN w ELSE RemoveEntry(w, i, 1)
  IN Finish(x, Downsized(FoldLeft(Keep, Work(x), Iterate(p))), "intersect", y, Nothing)

Difference(x, y) ==
  LET q == table[y]
      Take(w, i) == RemoveKey(w, q.entries[i].key, q.entries[i].hash)
  IN Finish(x, Downsized(FoldLeft(Take, Work(x), Iterate(q))), "difference", y, Nothing)

\* An element of both sets leaves this one, another one joins it.
Toggle(w, k, h) ==
  LET l == Lookup(w.p, k, h)
  IN IF ~l.ends THEN [w EXCEPT !.ends = FALSE]
     ELSE IF l.found THEN RemoveEntry(w, l.index, 1)
     ELSE LET v == AddEntry(w, l.free, k, h, 1) IN Upsize(v, v.p.used)

SymmetricDifference(x, y) ==
  LET q == table[y]
      Step(w, i) == IF w.ends THEN Toggle(w, q.entries[i].key, q.entries[i].hash) ELSE w
  IN Finish(x, Downsized(FoldLeft(Step, Work(x), Iterate(q))), "symmetric_difference", y, Nothing)

\* The table is sized for the case that no item is in it yet.
Update(x, y) ==
  LET grown == Upsize(Work(x), table[x].used + table[y].used)
      q == IF x = y THEN grown.p ELSE table[y]
      Join(w, i) == IF w.ends THEN AddKey(w, q.entries[i].key, HashValue(q.entries[i].key)) ELSE w
  IN Finish(x, Downsized(FoldLeft(Join, grown, Iterate(q))), "update", y, Nothing)

\* Looking the items of p up in q until one is found, or is not: "hit", "none"
\* or, when a lookup never ends, "hung".
Search(p, q, stop) ==
  LET items == Iterate(p)
      l == [n \in DOMAIN items |-> Lookup(q, p.entries[items[n]].key, p.entries[items[n]].hash)]
      halts == {n \in DOMAIN items : l[n].ends => l[n].found = stop}
  IN IF halts = {} THEN "none" ELSE IF l[Least(halts)].ends THEN "hit" ELSE "hung"

Answer(x, y, op, fits, search) ==
  Finish(x, [Work(x) EXCEPT !.ends = ~fits \/ search # "hung"], op, y, fits /\ search = "none")

\* issubset(), issuperset() with the sets swapped, <, <=, > and >=.
IsSubset(x, y, strict) ==
  LET n == table[x].used  m == table[y].used
  IN Answer(x, y, IF strict THEN "is_strict_subset" ELSE "issubset",
            IF strict THEN n < m ELSE n <= m, Search(table[x], table[y], FALSE))

Equals(x, y) ==
  Answer(x, y, "equals", table[x].used = table[y].used, Search(table[x], table[y], FALSE))

\* The smaller set is looked up in the larger one.
IsDisjoint(x, y) ==
  LET larger == table[x].used > table[y].used
  IN Answer(x, y, "isdisjoint", TRUE,
            IF larger THEN Search(table[y], table[x], TRUE) ELSE Search(table[x], table[y], TRUE))

\* A table without deleted entries is copied as it is, another one is filled again.
CopyOf(p) ==
  LET none == [k \in Keys |-> 0]
      Put(w, i) == Insert(w, p.entries[i].key, p.entries[i].hash, 1)
  IN IF p.used = p.fill
       THEN [p |-> [p EXCEPT !.finger = 0], ends |-> TRUE,
             refs |-> [k \in Keys |-> IF k \in Members(p) THEN 1 ELSE 0]]
       ELSE FoldLeft(Put, [p |-> AllocatePayload(ChooseAllocSize(p.used)), refs |-> none, ends |-> TRUE],
                     Iterate(p))

\* b = a.copy(), where the set that b was is destroyed.
Copy ==
  LET w == CopyOf(table["a"])  freed == Released(table["b"])
  IN /\ native /\ ~hung
     /\ table' = [table EXCEPT !["b"] = w.p]
     /\ refs' = [k \in Keys |-> freed[k] + w.refs[k]]
     /\ Report("copy", "a", "b", Nothing)
     /\ UNCHANGED <<py, native, hung>>

----------------------------------------------------------------------------
(* The calls of compiled code *)

\* The Python set has any content, in any order; b is an empty set.
Call ==
  /\ ~native
  /\ \E items \in SetToAllKPermutations(Keys) :
       LET Put(w, k) == Insert(w, k, HashValue(k), 1)
           empty == [p |-> AllocatePayload(ChooseAllocSize(Len(items))), refs |-> refs, ends |-> TRUE]
           w == FoldLeft(Put, empty, items)
       IN /\ table' = [a |-> [w.p EXCEPT !.dirty = FALSE], b |-> AllocatePayload(MINSIZE)]
          /\ refs' = w.refs
          /\ py' = {items[n] : n \in DOMAIN items}
  /\ native' = TRUE
  /\ Report("call", "a", Nothing, Nothing)
  /\ UNCHANGED hung

\* A set that is dirty is reflected, then both are destroyed.
Return ==
  /\ native /\ ~hung
  /\ py' = IF table["a"].dirty THEN Members(table["a"]) ELSE py
  /\ native' = FALSE
  /\ table' = [x \in Names |-> AllocatePayload(MINSIZE)]
  /\ refs' = [k \in Keys |-> Released(table["a"])[k] + Released(table["b"])[k] - refs[k]]
  /\ Report("return", "a", Nothing, Nothing)
  /\ UNCHANGED hung

Init ==
  /\ table = [x \in Names |-> AllocatePayload(MINSIZE)]
  /\ refs = [k \in Keys |-> 0]
  /\ py = {} /\ native = FALSE /\ hung = FALSE
  /\ did = [op |-> Nothing]

OfOne(x) == (\E k \in Keys : Add(x, k) \/ Discard(x, k) \/ HasKey(x, k)) \/ Pop(x) \/ Clear(x)

OfTwo(x, y) ==
  \/ Intersect(x, y) \/ Difference(x, y) \/ SymmetricDifference(x, y) \/ Update(x, y)
  \/ IsSubset(x, y, FALSE) \/ IsSubset(x, y, TRUE) \/ Equals(x, y) \/ IsDisjoint(x, y)

Next == Call \/ Return \/ Copy \/ \E x \in Names : OfOne(x) \/ \E y \in Names : OfTwo(x, y)

Spec == Init /\ [][Next]_vars

----------------------------------------------------------------------------
(* Properties *)

TypeOK ==
  /\ refs \in [Keys -> Nat] /\ py \subseteq Keys /\ {native, hung} \subseteq BOOLEAN
  /\ \A x \in Names :
       LET p == table[x] IN
         /\ p.mask + 1 \in Sizes /\ DOMAIN p.entries = 0 .. p.mask
         /\ p.used \in Nat /\ p.fill \in Nat /\ p.finger \in DOMAIN p.entries
         /\ \A i \in DOMAIN p.entries :
              LET e == p.entries[i] IN
                \/ e.key \in Keys /\ e.hash = HashValue(e.key)
                \/ e.key = Nothing /\ e.hash \in {EMPTY, DELETED}

\* The counts are those of the table: copy() trusts them to tell whether there are
\* deleted entries, pop() and the comparisons to tell how many items there are.
CountsExact ==
  \A x \in Names :
    LET p == table[x] IN
      /\ p.used = Cardinality(Used(p))
      /\ p.fill = Cardinality({i \in DOMAIN p.entries : p.entries[i].hash # EMPTY})

\* Every item is found, and at its own entry: no collision, deletion, resizing or
\* insertion into a deleted entry hides an item or puts it in twice.
LookupFinds ==
  \A x \in Names : \A i \in Used(table[x]) :
    LET e == table[x].entries[i]  l == Lookup(table[x], e.key, e.hash)
    IN l.ends /\ l.found /\ l.index = i

\* A table is at most half full, so that an insertion always has a free entry.
LoadBounded == \A x \in Names : 2 * table[x].used <= table[x].mask + 1

\* The sets hold exactly one reference of each of their items: none is lost or
\* taken twice when tables are resized, copied, emptied or destroyed.
RefsExact ==
  \A k \in Keys : refs[k] = Cardinality({x \in Names : k \in Members(table[x])})

\* The tables are in order between two operations.
TableSound == TypeOK /\ CountsExact /\ LookupFinds /\ LoadBounded /\ RefsExact

\* When compiled code returns, the Python set has the content of the native one.
Reflected == [][native /\ ~native' => py' = Members(table["a"])]_vars

\* Every operation has the effect and the answer that it has on sets.
Ideal == INSTANCE SetAlgebra WITH sets <- [x \in Names |-> Members(table[x])]
ImplementsSets == Ideal!Spec

\* "The insertion logic does not create an infinite lookup chain with deleted
\* entries."
NoInfiniteChain == ~hung
=============================================================================
