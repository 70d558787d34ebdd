---------------------------- MODULE MCWorkQueue ----------------------------
(***************************************************************************)
(* WorkQueue with model values for the callers and a few region sizes.     *)
(***************************************************************************)
EXTENDS WorkQueue, TLC

CONSTANTS c1, c2

TwoCallers == {c1, c2}

(* One caller has a leftover for the last of three or two threads; the     *)
(* other has fewer items than threads.                                      *)
Sizes == (c1 :> {4}) @@ (c2 :> {1})

=============================================================================
