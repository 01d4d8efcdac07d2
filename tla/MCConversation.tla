--------------------------- MODULE MCConversation ---------------------------
(***************************************************************************)
(* Three small instances in one run: two runs of a conversation whose       *)
(* window untrusted content may enter, the same two with a client steering  *)
(* both of them, and one turn's replies on their way to the screen.  The    *)
(* runs and the reply share no variable; the initial state chooses what     *)
(* moves.  The runs of a conversation are interchangeable.                  *)
(***************************************************************************)
EXTENDS DurableRun, Reply, TLC

VARIABLE part    \* "tainted", "steered" or "reply"

RunSymmetry == Permutations(Runs)

(* What rests has one of its initial states *)
ConversationInit ==
    /\ Init /\ ReplyInit
    /\ part \in {"tainted", "steered", "reply"}
    /\ part # "reply" => driver.name = "ollama" /\ driver.thinking

TaintedMoves == part = "tainted" /\ Next /\ tickets' = 0 /\ UNCHANGED <<replyVars, part>>

(* A client sends two steers, to one run or to two.  Nothing untrusted, no     *)
(* chain of calls, no failing call and no compaction: they do not touch the    *)
(* queues.  A crash empties every queue, and is left to the run of one.        *)
SteeredMoves ==
    /\ part = "steered" /\ Next
    /\ exposure' = "clean" /\ crashes' = 0
    /\ pc = "view" => window' = window
    /\ pc = "call" => auto' = 0 /\ status' # "failed"
    /\ pc = "act" => window' = Lower(window, Observed)
    /\ UNCHANGED <<replyVars, part>>

ReplyMoves == part = "reply" /\ ReplyNext /\ UNCHANGED <<vars, part>>

ConversationSpec ==
    /\ ConversationInit
    /\ [][TaintedMoves \/ SteeredMoves \/ ReplyMoves]_<<vars, replyVars, part>>

-----------------------------------------------------------------------------
(* The drivers as configured, and what a frame may carry *)

MCDrivers ==
    {[name |-> "ollama", thinking |-> TRUE, timings |-> FALSE],
     [name |-> "ollama", thinking |-> FALSE, timings |-> FALSE],
     [name |-> "llamacpp", thinking |-> TRUE, timings |-> TRUE],
     [name |-> "llamacpp", thinking |-> FALSE, timings |-> FALSE],
     [name |-> "openrouter", thinking |-> TRUE, timings |-> FALSE]}

Plain(c) == [r |-> FALSE, c |-> c, k |-> <<>>]
Call(i, n, a) == [r |-> FALSE, c |-> <<>>, k |-> <<[index |-> i, name |-> n, arg |-> a]>>]

MCFrames ==
    {Plain(c) : c \in {<<"x">>, <<"open">>, <<"close", "y">>, <<"x", "lt">>,
                       <<"lt", "open", "x">>, <<"lt", "close", "y">>, <<"fn">>, <<"ask">>}}
    \cup {[r |-> TRUE, c |-> c, k |-> <<>>] : c \in {<<>>, <<"x">>}}
    \cup {Call(0, "read", "a"), Call(0, None, "b"), Call(0, "remember", "a"),
          Call(1, "done", "a")}
=============================================================================
