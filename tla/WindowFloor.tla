----------------------------- MODULE WindowFloor -----------------------------
(***************************************************************************)
(* What the permission layer relies on about a window: the lowest trust    *)
(* class in it (`ContextView::trust_floor`) only ever falls while the      *)
(* session lives, so that a block's class outlives the block.              *)
(***************************************************************************)
EXTENDS Integers

VARIABLE low

Init == low \in 0..2
Next == low' \in 0..low
Spec == Init /\ [][Next]_low
=============================================================================
