---------------------------- MODULE MCSpawnTree -----------------------------
(* Small instance of SpawnTree: a manager or master with tools and one to be
   detached, a worker with a tool, one without, one on another model; a request with no task.
   At the lower levels and after the floor has latched the same requests are refused. *)
EXTENDS SpawnTree, TLC

CONSTANTS r1, r2, r3

Symmetry == Permutations({r2, r3})

Q(tools, kind, orphan, grant) ==
    [said |-> TRUE, tools |-> tools, kind |-> kind, orphan |-> orphan, grant |-> grant,
     role |-> "worker"]

(* 200000 tokens, 8 agents and depth 3 in the code *)
MCRootBudget == [tokens |-> 3, agents |-> 2, depth |-> 3]

MCRequests ==
    {Q({"run", "web"}, "manage", "terminate", 2), Q({"run"}, "manage", "detach", 0),
     Q({}, "work", "terminate", 0), Q({"web"}, "work", "terminate", 0),
     [Q({}, "work", "detach", 0) EXCEPT !.said = FALSE],
     [Q({"web"}, "work", "terminate", 0) EXCEPT !.role = "other"]}
=============================================================================
