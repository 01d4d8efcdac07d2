------------------------------ MODULE McpPipe -------------------------------
(***************************************************************************)
(* `McpClient` of marlowe-mcp: requests and answers of one installed server *)
(* over the pipes of its process.  Requests are numbered; the client writes *)
(* one, then reads lines until the one that carries its number, so answers  *)
(* to requests given up on stay in the pipe.  The deadline is looked at     *)
(* before each read; the read itself blocks until the server writes a line  *)
(* or closes its output.  The handshake (`initialize`, `tools/list`) is     *)
(* behind the initial state: a server that failed it is not in the fleet.   *)
(***************************************************************************)
EXTENDS Naturals, Sequences

CONSTANTS
    MaxRequests,   \* bound: requests after the handshake
    MaxNotes       \* bound: lines that answer nothing (notifications, logs, stray prints)

ASSUME McpAssumption == MaxRequests \in Nat /\ MaxNotes \in Nat

VARIABLE
    mcp            \* the client, the pipe and the server

(* A line: the request it answers (0: none) and what it says *)
Kinds == {"text", "tool error", "remote error", "note"}
Line  == [id : 0..MaxRequests + 2, kind : Kinds]

Pipe == [phase : {"rest", "top", "read"},
         id : 0..MaxRequests + 2,              \* next_id - 1, the request waited for
         late : BOOLEAN,                       \* deadline.passed()
         lines : Seq(Line),                    \* written by the server, not yet read
         owed : SUBSET (1..MaxRequests + 2),   \* requests the server has not answered
         alive : BOOLEAN,
         notes : 0..MaxNotes]

(* Two requests were made by the handshake *)
Connected == [phase |-> "rest", id |-> 2, late |-> FALSE, lines |-> <<>>, owed |-> {},
              alive |-> TRUE, notes |-> 0]

-----------------------------------------------------------------------------
(* The server *)

ServerAnswers ==
    /\ mcp.alive
    /\ \E i \in mcp.owed, k \in Kinds \ {"note"} :
         mcp' = [mcp EXCEPT !.lines = Append(@, [id |-> i, kind |-> k]), !.owed = @ \ {i}]

ServerNotes ==
    /\ mcp.alive /\ mcp.notes < MaxNotes
    /\ mcp' = [mcp EXCEPT !.lines = Append(@, [id |-> 0, kind |-> "note"]), !.notes = @ + 1]

ServerDies == /\ mcp.alive
              /\ mcp' = [mcp EXCEPT !.alive = FALSE]

TimePasses == /\ mcp.phase # "rest" /\ ~mcp.late
              /\ mcp' = [mcp EXCEPT !.late = TRUE]

Server == ServerAnswers \/ ServerNotes \/ ServerDies \/ TimePasses

-----------------------------------------------------------------------------
(* The client.  Ended(o) is what the operation that made the request does with *)
(* its outcome; each of the three below either goes on waiting or ends.        *)

(* send: the number is spent even when the write fails *)
Sent == [mcp EXCEPT !.phase = "top", !.id = @ + 1, !.late = FALSE, !.owed = @ \cup {mcp.id + 1}]

Matches(line) == line.id = mcp.id

AtTop   == mcp.phase = "top"
TimedOut == AtTop /\ mcp.late
Blocks  == /\ AtTop /\ ~mcp.late
           /\ mcp' = [mcp EXCEPT !.phase = "read"]

Arrived == mcp.phase = "read" /\ mcp.lines # <<>>
Skip    == /\ Arrived /\ ~Matches(Head(mcp.lines))
           /\ mcp' = [mcp EXCEPT !.phase = "top", !.lines = Tail(@)]
Taken   == Arrived /\ Matches(Head(mcp.lines))
Closed  == mcp.phase = "read" /\ mcp.lines = <<>> /\ ~mcp.alive

AfterTaken == [mcp EXCEPT !.phase = "rest", !.lines = Tail(@)]
AfterError == [mcp EXCEPT !.phase = "rest"]
=============================================================================
