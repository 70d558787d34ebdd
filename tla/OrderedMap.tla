----------------------------- MODULE OrderedMap -----------------------------
(***************************************************************************)
(* What a typed dictionary promises to the compiled code that uses it:     *)
(* keys are distinct, items keep the order in which their keys were first  *)
(* inserted, assigning to a present key changes its value in place, and    *)
(* popitem() removes the item inserted last.  A call that fails leaves the *)
(* items alone.  TypedContainers shows that the typed dictionary keeps it. *)
(***************************************************************************)
EXTENDS Naturals, Sequences
CONSTANTS Keys, Vals
VARIABLES items,    \* the items, oldest first: records of a key and a value
          status    \* how the last call ended

vars == <<items, status>>

At(is, k) == {n \in DOMAIN is : is[n].key = k}

Init == items = <<>> /\ status = "NEW"

(* Each operation begins with the items is.                                *)
Add(is, k, v) == /\ At(is, k) = {}
                 /\ items' = Append(is, [key |-> k, val |-> v])

Assign(is, k, v) == \E n \in At(is, k) : items' = [is EXCEPT ![n].val = v]

Pop(is, k) == \E n \in At(is, k) : items' = SubSeq(is, 1, n - 1) \o SubSeq(is, n + 1, Len(is))

PopMissing(is, k) == At(is, k) = {} /\ items' = is

PopItem(is) == is # <<>> /\ items' = SubSeq(is, 1, Len(is) - 1)

PopEmpty(is) == is = <<>> /\ items' = is

(* The dictionary is dropped and a new one made; only this may lose items  *)
(* that no call named.                                                     *)
Reset == items' = <<>>

(* Memory runs out, or the comparison of two keys raises.                  *)
Refuse(is) == items' = is

Step(is) ==
  \/ /\ status' = "OK"
     /\ PopItem(is) \/ \E k \in Keys : Pop(is, k) \/ \E v \in Vals : Add(is, k, v)
  \/ status' = "OK_REPLACED" /\ \E k \in Keys, v \in Vals : Assign(is, k, v)
  \/ status' = "DKIX_EMPTY" /\ \E k \in Keys : PopMissing(is, k)
  \/ status' = "ERR_DICT_EMPTY" /\ PopEmpty(is)
  \/ status' \in {"ERR_NO_MEMORY", "ERR_CMP_FAILED"} /\ Refuse(is)
  \/ status' = "NEW" /\ Reset

Next == \E is \in {items} : Step(is)

Spec == Init /\ [][Next]_vars
=============================================================================
