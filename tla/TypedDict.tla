------------------------------ MODULE TypedDict ------------------------------
(***************************************************************************)
(* The hash table behind numba.typed.Dict: numba/cext/dictobject.c, with   *)
(* the calls that numba/typed/dictobject.py compiles into setitem, pop,    *)
(* popitem and iteration.  One dictionary and one iterator; a keys object  *)
(* has the address malloc() gave it, which a later one may be given again. *)
(***************************************************************************)
EXTENDS Integers, Sequences, FiniteSets
CONSTANTS
  Keys, Vals,  \* what the dictionary maps, and to what
  Hash,        \* the hash of a key, a signed machine word other than -1
  Word,        \* machine words are taken modulo this
  D_MINSIZE,   \* the size of the smallest table
  MaxSize,     \* bound: the size of the largest table
  NewSizes,    \* the n_keys a dictionary may be created for
  Addrs,       \* where malloc() may put a keys object
  Fails        \* may malloc() and key comparisons fail?

EMPTY == -1    \* DKIX_EMPTY, in a slot and as the hash of an empty entry
DUMMY == -2    \* DKIX_DUMMY
HANG  == -9    \* not a value of the code: its loop would never end
Zero == "zero" \* a key or a value of zero bytes

(* What shifting a bit to the left makes.                                  *)
PowerOfTwo[j \in 0..30] == IF j = 0 THEN 1 ELSE 2 * PowerOfTwo[j - 1]

ASSUME ConstantsAssumption ==
  /\ IsFiniteSet(Keys) /\ Keys \cap Vals = {} /\ Zero \notin Keys \cup Vals
  /\ Hash \in [Keys -> Int] /\ \A k \in Keys : Hash[k] # EMPTY
  /\ \E j \in 1..30 : D_MINSIZE = PowerOfTwo[j]
  /\ \E j \in 0..30 : Word = PowerOfTwo[j]
  /\ MaxSize \in Nat /\ NewSizes \subseteq Nat /\ Fails \in BOOLEAN

VARIABLES
  used,        \* NB_Dict.used
  keys,        \* the keys object NB_Dict.keys points to
  refs,        \* references the table owns to each key and each value
  status,      \* what the last call returned
  it,          \* the iterator
  n_keys,      \* what the dictionary was created for
  inserted     \* how many keys were ever inserted, up to n_keys

vars == <<used, keys, refs, status, it, n_keys, inserted>>
-----------------------------------------------------------------------------
(* Sizes.                                                                  *)

USABLE_FRACTION(n) == (n * 2) \div 3
INV_USABLE_FRACTION(n) == n + (n \div 2) + 1

Sizes == {s \in D_MINSIZE..MaxSize : \E j \in 0..30 : s = PowerOfTwo[j]}
Smallest(S) == CHOOSE s \in S : \A t \in S : s <= t

ResizeTo(minsize) == Smallest({s \in Sizes : s >= minsize})
(* Mutant of SizeFor: the load limit is forgotten.                         *)
SizeForUnscaled(n) == Smallest({s \in Sizes : s >= n})
SizeFor(n) == IF n <= USABLE_FRACTION(D_MINSIZE) THEN D_MINSIZE
              ELSE Smallest({s \in Sizes : s > INV_USABLE_FRACTION(n) - 1})

(* MaxSize leaves room for every dictionary that is asked for.             *)
ASSUME RoomAssumption ==
  /\ \E s \in Sizes : s >= (Cardinality(Keys) - 1) * 3
  /\ \A n \in NewSizes : \E s \in Sizes : s > INV_USABLE_FRACTION(n) - 1
-----------------------------------------------------------------------------
(* The probe sequence: the slots a loop visits for a hash in a table of a  *)
(* size, until the perturbation is used up and every slot was visited.     *)

Unsigned(h) == h % Word
Shifts == Smallest({n \in 0..6 : PowerOfTwo[5 * n] >= Word})

Probe(h, size) ==
  LET p[n \in 0..(size + Shifts)] ==
        IF n = 0 THEN [i |-> Unsigned(h) % size, perturb |-> Unsigned(h)]
        ELSE LET q == p[n - 1]
                 perturb == q.perturb \div 32
             IN [i |-> (q.i * 5 + perturb + 1) % size, perturb |-> perturb]
  IN [n \in 0..(size + Shifts) |-> p[n].i]

Probes == [h \in {Hash[k] : k \in Keys} |-> [size \in Sizes |-> Probe(h, size)]]

(* The first slot of the sequence whose index is one of stops.             *)
FirstSlot(indices, h, stops) ==
  LET p == Probes[h][Cardinality(DOMAIN indices)]
      StopsAt(n) == indices[p[n]] \in stops
  IN IF \A n \in DOMAIN p : ~StopsAt(n) THEN HANG
     ELSE p[CHOOSE n \in DOMAIN p : StopsAt(n) /\ \A m \in 0..(n - 1) : ~StopsAt(m)]

SameHash(d, h) == {ix \in DOMAIN d.entries : d.entries[ix].hash = h}
SameKey(d, k) == {ix \in SameHash(d, Hash[k]) : d.entries[ix].key = k}

(* The index of the entry of k, EMPTY if there is none.                    *)
Lookup(k) ==
  LET slot == FirstSlot(keys.indices, Hash[k], SameKey(keys, k) \cup {EMPTY})
  IN IF slot = HANG THEN HANG ELSE keys.indices[slot]

(* On its way the lookup of k calls the comparison of the key type.        *)
Compares(k) ==
  LET slot == FirstSlot(keys.indices, Hash[k], SameHash(keys, Hash[k]) \cup {EMPTY})
  IN slot # HANG /\ keys.indices[slot] # EMPTY

(* The slot that holds index ix, for an entry whose hash is h.             *)
LookupIndex(h, ix) == FirstSlot(keys.indices, h, {ix, EMPTY})

FindEmptySlot(indices, h) == FirstSlot(indices, h, {EMPTY, DUMMY})
-----------------------------------------------------------------------------
(* A keys object.                                                          *)

Blank == [hash |-> EMPTY, key |-> Zero, val |-> Zero]

NewKeys(size, addr) ==
  [addr |-> addr, usable |-> USABLE_FRACTION(size), nentries |-> 0,
   indices |-> [i \in 0..(size - 1) |-> EMPTY],
   entries |-> [ix \in 0..(USABLE_FRACTION(size) - 1) |-> Blank]]

Entries(d) == [n \in 1..d.nentries |-> d.entries[n - 1]]

(* The entries that are not empty, in their order.                         *)
LiveIn(d) == {ix \in 0..(d.nentries - 1) : d.entries[ix].hash # EMPTY}
Live(d) ==
  LET live[n \in 0..d.nentries] ==
        IF n = 0 THEN <<>>
        ELSE IF d.entries[n - 1].hash = EMPTY THEN live[n - 1]
        ELSE Append(live[n - 1], d.entries[n - 1])
  IN live[d.nentries]

BuildIndices(d, n) ==
  LET build[m \in 0..n] ==
        IF m = 0 THEN d.indices
        ELSE LET b == build[m - 1]
                 slot == FirstSlot(b, d.entries[m - 1].hash, {EMPTY})
             IN [b EXCEPT ![slot] = m - 1]
  IN build[n]

(* The entries that move to a new table: the first `used` when none was    *)
(* deleted, the first `used` that are not empty otherwise.                 *)
Moved == SubSeq(IF keys.nentries = used THEN Entries(keys) ELSE Live(keys), 1, used)

Resized(minsize, addr) ==
  LET moved == Moved
      fresh == NewKeys(ResizeTo(minsize), addr)
      full  == [fresh EXCEPT !.entries = [ix \in DOMAIN @ |->
                  IF ix < used THEN moved[ix + 1] ELSE Blank]]
  IN [full EXCEPT !.indices = BuildIndices(full, used),
                  !.usable = @ - used, !.nentries = used]

(* References: one more, one less, and numba_dictkeys_free() of entries.   *)
Incref(r, x) == [r EXCEPT ![x] = @ + 1]
Decref(r, x) == [r EXCEPT ![x] = @ - 1]
ReleaseAll(r, es) ==
  [x \in DOMAIN r |->
     r[x] - Cardinality({n \in DOMAIN es : es[n].key = x})
          - Cardinality({n \in DOMAIN es : es[n].val = x})]

(* The entries left behind in the old table, released with it.             *)
Left == SubSeq(Live(keys), used + 1, Len(Live(keys)))
-----------------------------------------------------------------------------
(* numba_dict_insert(): d[k] = v.                                          *)

NoIter == [state |-> "none", clean |-> FALSE]

(* A key was added or removed: what the iterator promises ends.            *)
Moves(i) == CASE i.state = "running" -> [i EXCEPT !.clean = FALSE, !.seen = <<>>]
              [] i.state = "exhausted" -> NoIter
              [] OTHER -> i

Place(d, k, v) ==
  [d EXCEPT !.indices[FindEmptySlot(d.indices, Hash[k])] = d.nentries,
            !.entries[d.nentries] = [hash |-> Hash[k], key |-> k, val |-> v],
            !.usable = @ - 1, !.nentries = @ + 1]

(* Insert into d, which is the table or what it was resized to.            *)
InsertInto(d, r, k, v) ==
  /\ keys' = Place(d, k, v)
  /\ refs' = Incref(Incref(r, k), v)
  /\ used' = used + 1
  /\ inserted' = IF inserted = n_keys THEN inserted ELSE inserted + 1
  /\ it' = Moves(it)
  /\ status' = "OK"
  /\ UNCHANGED n_keys

(* ix is what the lookup of k returned, here and below.                    *)
Insert(k, v, ix) ==
  /\ ix = EMPTY /\ keys.usable > 0
  /\ InsertInto(keys, refs, k, v)

InsertResizing(k, v, ix) ==
  /\ ix = EMPTY /\ keys.usable <= 0
  /\ \E addr \in Addrs \ {keys.addr} :
       InsertInto(Resized(used * 3, addr), ReleaseAll(refs, Left), k, v)

Replace(v, ix) ==
  /\ ix >= 0
  /\ keys' = [keys EXCEPT !.entries[ix].val = v]
  /\ refs' = Incref(Decref(refs, keys.entries[ix].val), v)
  /\ status' = "OK_REPLACED"
  /\ UNCHANGED <<used, it, n_keys, inserted>>

(* The new table cannot be had: d->keys is the old one again.              *)
ResizeFails(ix) ==
  /\ Fails /\ ix = EMPTY /\ keys.usable <= 0
  /\ status' = "ERR_NO_MEMORY"
  /\ UNCHANGED <<used, keys, refs, it, n_keys, inserted>>

(* DKIX_ERROR from the lookup of an assignment or of a pop.                *)
CompareFails(k) ==
  /\ Fails /\ Compares(k)
  /\ status' = "ERR_CMP_FAILED"
  /\ UNCHANGED <<used, keys, refs, it, n_keys, inserted>>
-----------------------------------------------------------------------------
(* pop(k), del d[k]: numba_dict_lookup(), then numba_dict_delitem().       *)

(* Mutant of DelItem: the slot looks as if it had never been used.         *)
Erased(ix, h) == [keys EXCEPT !.indices[LookupIndex(h, ix)] = EMPTY, !.entries[ix] = Blank]
DelItem(ix, h) ==
  [keys EXCEPT !.indices[LookupIndex(h, ix)] = DUMMY, !.entries[ix] = Blank]

DecrefEntry(r, e) == Decref(Decref(r, e.key), e.val)

Delete(k, ix) ==
  /\ ix >= 0
  /\ keys' = DelItem(ix, Hash[k])
  /\ refs' = DecrefEntry(refs, keys.entries[ix])
  /\ used' = used - 1
  /\ it' = Moves(it)
  /\ status' = "OK"
  /\ UNCHANGED <<n_keys, inserted>>

DeleteMissing(ix) ==
  /\ ix = EMPTY
  /\ status' = "DKIX_EMPTY"
  /\ UNCHANGED <<used, keys, refs, it, n_keys, inserted>>

(* numba_dict_popitem(): the references of the entry go to the caller, the *)
(* entry keeps its hash, and its place in entries can be used again.       *)
(* Mutant of LastLive: the item inserted first.                            *)
FirstLive == Smallest(LiveIn(keys))
LastLive == CHOOSE ix \in LiveIn(keys) : \A jx \in LiveIn(keys) : jx <= ix

Popped(ix) ==
  [keys EXCEPT !.indices[LookupIndex(keys.entries[ix].hash, ix)] = DUMMY,
               !.entries[ix].key = Zero, !.entries[ix].val = Zero,
               !.nentries = ix]

PopItem ==
  /\ used # 0
  /\ keys' = Popped(LastLive)
  /\ refs' = DecrefEntry(refs, keys.entries[LastLive])
  /\ used' = used - 1
  /\ it' = Moves(it)
  /\ status' = "OK"
  /\ UNCHANGED <<n_keys, inserted>>

PopEmpty == /\ used = 0
            /\ status' = "ERR_DICT_EMPTY"
            /\ UNCHANGED <<used, keys, refs, it, n_keys, inserted>>
-----------------------------------------------------------------------------
(* Iteration.  seen and clean are for the properties: the keys handed out, *)
(* and whether no key was added or removed since the iterator was made.    *)

Iter == /\ it' = [state |-> "running", parent_keys |-> keys.addr, size |-> used,
                  pos |-> 0, seen |-> <<>>, clean |-> TRUE]
        /\ UNCHANGED <<used, keys, refs, status, n_keys, inserted>>

(* Mutant of Mutated: deleted entries are counted.                         *)
MutatedByEntries == it.parent_keys # keys.addr \/ it.size # keys.nentries
Mutated == it.parent_keys # keys.addr \/ it.size # used

Ahead == {ix \in LiveIn(keys) : ix >= it.pos}

IterNext ==
  /\ it.state = "running"
  /\ it' = IF Mutated THEN [state |-> "mutated", clean |-> it.clean]
           ELSE IF Ahead = {}
                THEN IF it.clean THEN [it EXCEPT !.state = "exhausted"] ELSE NoIter
           ELSE [it EXCEPT !.pos = Smallest(Ahead) + 1,
                  !.seen = IF it.clean THEN Append(@, keys.entries[Smallest(Ahead)].key) ELSE @]
  /\ UNCHANGED <<used, keys, refs, status, n_keys, inserted>>
-----------------------------------------------------------------------------
(* The dictionary is freed, and with it what it owns; another is created.  *)
Recreate(n) ==
  /\ refs' = ReleaseAll(refs, Live(keys))
  /\ \E addr \in Addrs : keys' = NewKeys(SizeFor(n), addr)
  /\ used' = 0 /\ n_keys' = n /\ inserted' = 0
  /\ it' = NoIter
  /\ status' = "NEW"

Init ==
  /\ n_keys \in NewSizes
  /\ \E addr \in Addrs : keys = NewKeys(SizeFor(n_keys), addr)
  /\ used = 0 /\ inserted = 0
  /\ refs = [x \in Keys \cup Vals |-> 0]
  /\ it = NoIter
  /\ status = "NEW"

Next ==
  \/ \E k \in Keys : \E ix \in {Lookup(k)} :
       \/ \E v \in Vals : Insert(k, v, ix) \/ InsertResizing(k, v, ix) \/ Replace(v, ix)
       \/ Delete(k, ix) \/ DeleteMissing(ix) \/ ResizeFails(ix)
       \/ CompareFails(k)
  \/ PopItem \/ PopEmpty
  \/ Iter \/ IterNext
  \/ \E n \in NewSizes : Recreate(n)

Spec == Init /\ [][Next]_vars
-----------------------------------------------------------------------------
Indexes == DOMAIN keys.entries
TypeOK ==
  /\ used \in 0..Cardinality(Keys) /\ n_keys \in NewSizes /\ inserted \in 0..n_keys
  /\ keys.addr \in Addrs /\ keys.nentries \in 0..Cardinality(Indexes)
  /\ keys.usable \in 0..Cardinality(Indexes)
  /\ \A i \in DOMAIN keys.indices : keys.indices[i] \in Indexes \cup {EMPTY, DUMMY}
  /\ \A x \in DOMAIN refs : refs[x] \in 0..Cardinality(Keys)
  /\ it.state \in {"none", "running", "mutated", "exhausted"}

LiveIndexes == LiveIn(keys)

(* Every lookup ends, at the one entry of the key or, if the table has     *)
(* none, at a slot never used; deletions, popitem() and resizing leave the *)
(* probe path of every other key intact, for deleting an entry by its      *)
(* index as well.                                                          *)
LookupFinds ==
  /\ \A k \in Keys :
       Lookup(k) = LET at == {ix \in LiveIndexes : keys.entries[ix].key = k}
                   IN IF at = {} THEN EMPTY ELSE Smallest(at)
  /\ \A ix \in LiveIndexes :
       LET slot == LookupIndex(keys.entries[ix].hash, ix)
       IN slot # HANG /\ keys.indices[slot] = ix

(* "There must be at least one Unused slot": the slots ever used and the   *)
(* insertions still allowed never exceed the load limit, nor do the        *)
(* entries, so that neither array can be overrun; and used is the number   *)
(* of entries that are not empty.                                          *)
LoadBounded ==
  LET limit == USABLE_FRACTION(Cardinality(DOMAIN keys.indices)) IN
  /\ Cardinality({i \in DOMAIN keys.indices : keys.indices[i] # EMPTY}) + keys.usable <= limit
  /\ keys.nentries + keys.usable <= limit
  /\ used = Cardinality(LiveIndexes)

(* The table owns one reference to the key and one to the value of each of *)
(* its items, through replacement, deletion, popitem(), resizing and when  *)
(* it is freed.                                                            *)
RefsExact ==
  \A x \in Keys \cup Vals :
    refs[x] = Cardinality({ix \in LiveIndexes : keys.entries[ix].key = x})
              + Cardinality({ix \in LiveIndexes : keys.entries[ix].val = x})

(* The table is in order between two operations.                           *)
TableSound == TypeOK /\ LookupFinds /\ LoadBounded /\ RefsExact

Items == LET live == Live(keys)
         IN [n \in 1..Len(live) |-> [key |-> live[n].key, val |-> live[n].val]]

(* While no key is added or removed, an iteration is never interrupted and *)
(* hands out all keys, each once, in insertion order, whatever values are  *)
(* assigned meanwhile.                                                     *)
IterFaithful ==
  it.clean =>
    /\ it.state # "mutated"
    /\ \A n \in DOMAIN it.seen : n <= Len(Items) /\ it.seen[n] = Items[n].key
    /\ it.state = "exhausted" => Len(it.seen) = Len(Items)

(* A dictionary created for n keys takes n insertions without resizing.    *)
SizedNeverResizes ==
  [][keys'.addr # keys.addr /\ inserted' # 0 => inserted >= n_keys]_vars
=============================================================================
