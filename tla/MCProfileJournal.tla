------------------------- MODULE MCProfileJournal -------------------------
(* Two processes that may each start again, three process ids, and two       *)
(* events of which one is a tier event from the wrong actor for the guard    *)
(* and one is the permission component's.                                    *)
EXTENDS ProfileJournal, TLC

MCEvents == {[tier |-> FALSE, permission |-> FALSE, body |-> 1],
             [tier |-> TRUE, permission |-> FALSE, body |-> 1],
             [tier |-> TRUE, permission |-> TRUE, body |-> 2]}

Symmetry == Permutations(Procs) \cup Permutations(Pids)
=============================================================================
