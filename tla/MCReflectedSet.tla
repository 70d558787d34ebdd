------------------------- MODULE MCReflectedSet -------------------------
(* Instances of ReflectedSet for TLC.                                      *)
EXTENDS ReflectedSet, TLC

\* Two items with the same home in both tables, and one whose hash is the
\* reserved value -1.
HashDef == ("zero" :> 0) @@ ("sixteen" :> 16) @@ ("minus" :> Word - 1)

\* Four items, each at home at another entry of the smallest table.
Neighbours == ("k0" :> 0) @@ ("k1" :> 1) @@ ("k2" :> 2) @@ ("k3" :> 3)

\* The last operation, and the Python set that a dirty native one will replace,
\* have no influence on what follows.
Essential == <<table, refs, IF table["a"].dirty THEN {} ELSE py, native, hung>>
=========================================================================
