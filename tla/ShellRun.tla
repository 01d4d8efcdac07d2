----------------------------- MODULE ShellRun -------------------------------
(***************************************************************************)
(* `run_bounded` of marlowe-exec: one shell command under a deadline and an *)
(* output cap.  The calling thread polls the child; a reader thread drains  *)
(* its output and hands the buffer over a channel once it sees the end of   *)
(* the pipe; a grandchild that inherited the pipe keeps it open after the   *)
(* shell is gone.  The two streams are one here, and bytes are counted in   *)
(* pieces of which `Cap` fit.                                               *)
(***************************************************************************)
EXTENDS Naturals

CONSTANTS
    Deadline,    \* timeout_ms in polls
    Cap          \* max_output_bytes in pieces

ASSUME ShellAssumption == Deadline \in Nat /\ Cap \in Nat

VARIABLE
    sh           \* the command being run and what the harness knows of it

ShellPhases == {"off", "wait", "grace", "done"}

Shell == [phase : ShellPhases,
          child : {"none", "run", "gone"},
          held : BOOLEAN,              \* a grandchild has the pipe open
          wrote : 0..Cap + 1,          \* pieces written
          buf : 0..Cap,                \* pieces in the reader's buffer
          seen : 0..Cap + 1,           \* pieces the reader has read
          over : BOOLEAN,              \* over_cap
          sent : BOOLEAN,              \* the reader handed its buffer over
          waited : 0..Deadline,
          got : 0..Cap,                \* pieces of ShellRun.text
          stopped : BOOLEAN, flooded : BOOLEAN]

NoShell == [phase |-> "off", child |-> "none", held |-> FALSE, wrote |-> 0, buf |-> 0,
            seen |-> 0, over |-> FALSE, sent |-> FALSE, waited |-> 0, got |-> 0,
            stopped |-> FALSE, flooded |-> FALSE]

Spawned == [NoShell EXCEPT !.phase = "wait", !.child = "run"]

-----------------------------------------------------------------------------
(* The command and what it starts: not under the harness's control *)

ChildWrites ==
    /\ sh.child = "run" \/ sh.held
    /\ sh.wrote < Cap + 1
    /\ sh' = [sh EXCEPT !.wrote = @ + 1]

ChildForks == /\ sh.child = "run" /\ ~sh.held
              /\ sh' = [sh EXCEPT !.held = TRUE]

ChildExits == /\ sh.child = "run"
              /\ sh' = [sh EXCEPT !.child = "gone"]

GrandchildExits == /\ sh.held
                   /\ sh' = [sh EXCEPT !.held = FALSE]

Command == ChildWrites \/ ChildForks \/ ChildExits \/ GrandchildExits

-----------------------------------------------------------------------------
(* drain_capped: past the cap it keeps reading, discards and raises the flag *)

ReaderReads ==
    /\ ~sh.sent /\ sh.seen < sh.wrote
    /\ sh' = [sh EXCEPT !.seen = @ + 1,
                        !.buf = IF @ < Cap THEN @ + 1 ELSE @,
                        !.over = @ \/ sh.buf = Cap]

ReaderEnds ==
    /\ sh.phase # "off" /\ ~sh.sent
    /\ sh.child = "gone" /\ ~sh.held /\ sh.seen = sh.wrote
    /\ sh' = [sh EXCEPT !.sent = TRUE]

Reader == ReaderReads \/ ReaderEnds

-----------------------------------------------------------------------------
(* The calling thread *)

(* mutant: a command that is still writing is given more time *)
PollWriting ==
    /\ sh.phase = "wait"
    /\ \/ sh.child = "gone" /\ sh' = [sh EXCEPT !.phase = "grace", !.flooded = sh.over]
       \/ sh.child = "run" /\ sh' = [sh EXCEPT !.waited = IF @ < Deadline THEN @ + 1 ELSE @]

(* One look at the flag, then at the child, then at the deadline *)
Poll ==
    /\ sh.phase = "wait"
    /\ \/ /\ sh.over
          /\ sh' = [sh EXCEPT !.phase = "grace", !.flooded = TRUE, !.child = "gone"]
       \/ /\ ~sh.over /\ sh.child = "gone"
          /\ sh' = [sh EXCEPT !.phase = "grace"]
       \/ /\ ~sh.over /\ sh.child = "run" /\ sh.waited >= Deadline
          /\ sh' = [sh EXCEPT !.phase = "grace", !.stopped = TRUE, !.child = "gone"]
       \/ /\ ~sh.over /\ sh.child = "run" /\ sh.waited < Deadline
          /\ sh' = [sh EXCEPT !.waited = @ + 1]

(* The flag is read once more: the reader may have raised it after the wait *)
Collected(got) == [sh EXCEPT !.phase = "done", !.got = got, !.flooded = @ \/ sh.over]

(* recv_timeout: the buffer if the reader sent it, nothing once the grace is over *)
Collect ==
    /\ sh.phase = "grace"
    /\ \/ sh.sent /\ sh' = Collected(sh.buf)
       \/ ~sh.sent /\ sh' = Collected(0)

ShellHarness == Poll \/ Collect
ShellNext == Command \/ Reader \/ ShellHarness

-----------------------------------------------------------------------------
(* A result that is a prefix of what the command wrote says so: text cut by the *)
(* cap is never reported as a command that ran to its end.                      *)
CutIsTold == sh.phase = "done" /\ sh.got > 0 /\ sh.got < sh.wrote => sh.flooded
=============================================================================
