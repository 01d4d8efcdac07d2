--------------------------- MODULE MCHybridEngine ---------------------------
EXTENDS HybridEngine

(* A server of either model; one that refuses tools when asked; one with a   *)
(* small window.                                                             *)
MCStrangers == {[model |-> "m1", tools |-> "yes", ctx |-> TRUE],
                [model |-> "m2", tools |-> "declared", ctx |-> TRUE],
                [model |-> "m1", tools |-> "denied", ctx |-> TRUE],
                [model |-> "m2", tools |-> "yes", ctx |-> FALSE]}
=============================================================================
