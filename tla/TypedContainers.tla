--------------------------- MODULE TypedContainers ---------------------------
(***************************************************************************)
(* The three typed containers of numba.typed, of which a behaviour has     *)
(* one: they share the way in which they are made (numba/typed) and        *)
(* nothing else.                                                           *)
(***************************************************************************)
EXTENDS TypedSet, TypedList

ASSUME SmallestAssumption == 0 \in NewSizes /\ 0 \in Preallocations

VARIABLE kind   \* the container of this behaviour; the others stay empty

Init3 == /\ Init /\ ListInit
         /\ \/ kind \in {"Dict", "Set"} /\ list = Created(0)
            \/ kind = "List" /\ n_keys = 0

Next3 == \/ kind = "Dict" /\ Next /\ UNCHANGED <<listvars, kind>>
         \/ kind = "Set" /\ SetNext /\ UNCHANGED <<listvars, kind>>
         \/ kind = "List" /\ ListNext /\ UNCHANGED <<vars, kind>>

ContainersSpec == Init3 /\ [][Next3]_<<vars, listvars, kind>>
-----------------------------------------------------------------------------
Map == INSTANCE OrderedMap WITH items  <- IF kind = "Dict" THEN Items ELSE <<>>,
                                status <- IF kind = "Dict" THEN status ELSE "NEW"
(* The typed dictionary behaves as an ordered map.                         *)
ImplementsMap == Map!Spec

Ordered == INSTANCE OrderedSet WITH items  <- IF kind = "Set" THEN SetItems ELSE <<>>,
                                    status <- IF kind = "Set" THEN status ELSE "NEW"
(* The typed set behaves as a set that remembers the order of insertion.   *)
ImplementsSet == Ordered!Spec

Py == INSTANCE PyList WITH seq <- list.items, mutable <- list.is_mutable
(* The typed list behaves as a Python list does, in what it returns and in *)
(* what it becomes, for slices of any bounds and steps and for lists that  *)
(* are assigned to slices of themselves.                                   *)
ImplementsList == Py!Spec
=============================================================================
