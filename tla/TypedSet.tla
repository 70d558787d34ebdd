------------------------------- MODULE TypedSet -------------------------------
(***************************************************************************)
(* The hash table behind numba.typed.Set: numba/cext/setobject.c, with the *)
(* calls that numba/typed/setobject.py compiles into add, discard, `in`    *)
(* and iteration.  setobject.c has the table of dictobject.c without the   *)
(* values: the state, the sizes, the probe sequences, resizing, the two    *)
(* lookups, creation and freeing are TypedDict's.                          *)
(***************************************************************************)
EXTENDS TypedDict

(* numba_set_add().  The compiled add() looks at no status but OK, so that *)
(* an item for which there is no memory (ResizeFails) is dropped silently. *)
AddInto(d, r, k) ==
  /\ keys' = Place(d, k, Zero)
  /\ refs' = Incref(r, k)
  /\ used' = used + 1
  /\ inserted' = IF inserted = n_keys THEN inserted ELSE inserted + 1
  /\ it' = Moves(it)
  /\ status' = "OK"
  /\ UNCHANGED n_keys

(* ix is what the lookup of k returned, here and below.                    *)
SetAdd(k, ix) ==
  /\ ix = EMPTY /\ keys.usable > 0
  /\ AddInto(keys, refs, k)

SetAddResizing(k, ix) ==
  /\ ix = EMPTY /\ keys.usable <= 0
  /\ \E addr \in Addrs \ {keys.addr} :
       AddInto(Resized(used * 3, addr), ReleaseAll(refs, Left), k)

SetAddPresent(ix) ==
  /\ ix >= 0
  /\ status' = "OK_REPLACED"
  /\ UNCHANGED <<used, keys, refs, it, n_keys, inserted>>

(* numba_set_discard(), whose result is OK whether there is an item or not. *)
(* Mutant of Discarded: the slot looks as if it had never been used.       *)
DiscardErased(ix, h) == Erased(ix, h)
Discarded(ix, h) == DelItem(ix, h)

SetDiscard(k, ix) ==
  /\ ix >= 0
  /\ keys' = Discarded(ix, Hash[k])
  /\ refs' = Decref(refs, k)
  /\ used' = used - 1
  /\ it' = Moves(it)
  /\ status' = "OK"
  /\ UNCHANGED <<n_keys, inserted>>

SetDiscardMissing(ix) ==
  /\ ix = EMPTY
  /\ status' = "OK"
  /\ UNCHANGED <<used, keys, refs, it, n_keys, inserted>>

SetContains(ix) ==
  /\ status' = IF ix # EMPTY /\ ix # DUMMY THEN "present" ELSE "absent"
  /\ UNCHANGED <<used, keys, refs, it, n_keys, inserted>>

(* A changed set ends the loop as if it were exhausted: the compiled       *)
(* iternext looks at no status but OK.                                     *)
SetIterNext ==
  /\ it.state = "running"
  /\ it' = IF ~Mutated /\ Ahead # {}
           THEN [it EXCEPT !.pos = Smallest(Ahead) + 1,
                   !.seen = IF it.clean THEN Append(@, keys.entries[Smallest(Ahead)].key) ELSE @]
           ELSE IF it.clean THEN [it EXCEPT !.state = "exhausted"] ELSE NoIter
  /\ UNCHANGED <<used, keys, refs, status, n_keys, inserted>>

SetNext ==
  \/ \E k \in Keys : \E ix \in {Lookup(k)} :
       \/ SetAdd(k, ix) \/ SetAddResizing(k, ix) \/ SetAddPresent(ix) \/ ResizeFails(ix)
       \/ SetDiscard(k, ix) \/ SetDiscardMissing(ix) \/ SetContains(ix)
  \/ Iter \/ SetIterNext
  \/ \E n \in NewSizes : Recreate(n)

(* The items, in the order of their entries.                               *)
SetItems == LET live == Live(keys) IN [n \in 1..Len(live) |-> live[n].key]
=============================================================================
