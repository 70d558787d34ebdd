------------------------------ MODULE OrderedSet ------------------------------
(***************************************************************************)
(* What a typed set promises: items are distinct and keep the order of     *)
(* their insertion, add() and discard() do nothing when there is nothing   *)
(* to do, and a call that fails leaves the items alone.  TypedContainers   *)
(* shows that the typed set keeps it.                                      *)
(***************************************************************************)
EXTENDS Naturals, Sequences
CONSTANT Keys
VARIABLES items,    \* the items, oldest first
          status    \* how the last call ended

vars == <<items, status>>

At(k) == {n \in DOMAIN items : items[n] = k}
In(k) == At(k) # {}

Init == items = <<>> /\ status = "NEW"

Add(k) == IF In(k) THEN items' = items /\ status' = "OK_REPLACED"
          ELSE items' = Append(items, k) /\ status' = "OK"

Discard(k) ==
  /\ status' = "OK"
  /\ \/ \E n \in At(k) : items' = SubSeq(items, 1, n - 1) \o SubSeq(items, n + 1, Len(items))
     \/ ~In(k) /\ items' = items

Contains(k) == status' = (IF In(k) THEN "present" ELSE "absent") /\ UNCHANGED items

Refuse == status' = "ERR_NO_MEMORY" /\ UNCHANGED items

(* The set is dropped and a new one made.                                  *)
Reset == items' = <<>> /\ status' = "NEW"

Next == (\E k \in Keys : Add(k) \/ Discard(k) \/ Contains(k)) \/ Refuse \/ Reset

Spec == Init /\ [][Next]_vars
=============================================================================
