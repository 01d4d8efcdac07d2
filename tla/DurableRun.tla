----------------------------- MODULE DurableRun -----------------------------
(***************************************************************************)
(* One durable conversational run of marlowe: the daemon's `turn` driving  *)
(* the loop (`Engine::drive` / `drive_inner`), the checkpoints the loop    *)
(* leaves in the journal, the control plane that a second thread writes    *)
(* to (`/steer`, `/cancel`), and what a crash or a shutdown of the daemon  *)
(* keeps and loses.                                                        *)
(*                                                                         *)
(* The main port serves one connection at a time, so at most one run is    *)
(* driven: `pc` is the place of that single thread.  The control thread    *)
(* interleaves with it at every point where the main thread holds no lock. *)
(* A delegate's own loop (Engine::spawn) runs inside one `Act` step here.  *)
(***************************************************************************)
EXTENDS Integers, Sequences, FiniteSets

CONSTANTS
    Runs,               \* run ids a client may start
    Cancellable,        \* bound: runs a client cancels
    Metered,            \* runs whose tokens the history counts
    NoRun,              \* "the main thread drives nothing"
    MaxSteps,           \* engine.rs MAX_STEPS
    TokenCap,           \* Budget::interactive().tokens
    MinCall,            \* budget.rs MIN_CALL_TOKENS
    CallCosts,          \* tokens one model call may report
    ChildCosts,         \* tokens a step's children may add to the run's spend
    MaxAuto,            \* engine.rs MAX_AUTO_CONTINUE
    InjectClasses,      \* lowest class the retrieval for a message may inject
    EmptyQueryClasses,  \* the same for a retrieval asked with no message
    MaxSteers,          \* bound: steers a client sends
    MaxCrashes,         \* bound: crashes of the daemon process
    MaxAppendFailures   \* bound: checkpoint appends the journal refuses

(* TrustClass, ordered as marlowe-contract declares it *)
Untrusted == 0
Inferred  == 1
Observed  == 2
Asserted  == 3
Classes   == 0..3

Lower(a, b) == IF a < b THEN a ELSE b

ASSUME RunsAssumption  == /\ NoRun \notin Runs /\ Metered \subseteq Runs
                          /\ Cancellable \subseteq Runs
ASSUME LimitAssumption == /\ MaxSteps \in Nat /\ TokenCap \in Nat
                          /\ MinCall \in Nat \ {0} /\ MaxAuto \in Nat
                          /\ MaxSteers \in Nat /\ MaxCrashes \in Nat
                          /\ MaxAppendFailures \in Nat
ASSUME CostAssumption  == CallCosts \subseteq Nat /\ ChildCosts \subseteq Nat
(* What one call or one step's children may report is bounded: the counts are u64 *)
ASSUME BoundAssumption == \A S \in {CallCosts, ChildCosts} : \E m \in S : \A n \in S : n <= m
ASSUME ClassAssumption == /\ InjectClasses \subseteq Classes
                          /\ EmptyQueryClasses \subseteq Classes

RunStatus  == {"running", "awaiting", "paused", "completed", "failed", "cancelled"}
Terminal   == {"completed", "failed", "cancelled"}
Resumable  == {"running", "awaiting", "paused"}
RowWords   == {"none", "running", "paused", "completed", "failed", "cancelled",
               "degraded", "escalated", "interrupted", "cancelling"}
Driving    == {"staged", "select", "boundary", "steer", "view", "call", "act",
               "save", "final", "mark"}

Checkpoint == [step : Nat, spent : Nat, floor : Classes, window : Classes,
               status : RunStatus \cup {"none"}]
NoCheckpoint == [step |-> 0, spent |-> 0, floor |-> Asserted,
                 window |-> Asserted, status |-> "none"]

VARIABLES
    cp,         \* journal: the latest checkpoint of each run (survives a crash)
    row,        \* ControlPlane.runs: the status word /runs shows
    cancelled,  \* DurableControl.cancelled
    steers,     \* DurableControl.steers, tickets in arrival order
    sess,       \* Daemon.sessions: lowest class in the conversation's window
    pc, cur,    \* the main thread and the run it drives
    entry,      \* the turn began with a "message" or with a "checkpoint"
    steps, spent, auto, status, floor, window,  \* Run, SessionState, loop locals
    saved,      \* step of Engine.last_checkpoints, else resumed_steps
    \* history, read by the properties only
    started,    \* runs a client has been given an id for
    done,       \* runs whose terminal outcome was reported
    accepted, heard,      \* per run: steers queued / taken in this daemon life
    exposed,    \* runs whose model call was ever shown untrusted content
    exposure,   \* whether untrusted content entered the conversation's window
    late,       \* calls issued in this drive after the run was cancelled
    real,       \* per metered run: tokens it really used
    tickets, crashes, failures

plane   == <<row, cancelled, steers>>
loop    == <<steps, spent, auto, status, floor, window, saved>>
ghosts  == <<started, done, accepted, heard, exposed, exposure, late,              real, tickets, crashes, failures>>
vars    == <<cp, plane, sess, pc, cur, entry, loop, ghosts>>

Empty == [r \in Runs |-> <<>>]
Zero  == [r \in Runs |-> 0]

Init ==
    /\ cp = [r \in Runs |-> NoCheckpoint]
    /\ row = [r \in Runs |-> "none"] /\ cancelled = {} /\ steers = Empty
    /\ sess = Asserted /\ pc = "idle" /\ cur = NoRun /\ entry = "message"
    /\ steps = 0 /\ spent = 0 /\ auto = 0 /\ status = "running"
    /\ floor = Asserted /\ window = Asserted /\ saved = 0
    /\ started = {} /\ done = {} /\ accepted = Empty /\ heard = Empty
    /\ exposed = {} /\ exposure = "clean" /\ late = 0
    /\ real = Zero
    /\ tickets = 0 /\ crashes = 0 /\ failures = 0

(* What lives on the main thread's stack goes with the turn *)
DropLocals ==
    /\ cur' = NoRun /\ entry' = "message"
    /\ steps' = 0 /\ spent' = 0 /\ auto' = 0 /\ status' = "running"
    /\ floor' = Asserted /\ window' = Asserted /\ saved' = 0 /\ late' = 0

-----------------------------------------------------------------------------
(* The daemon's turn, up to the loop *)

(* Request::Ask: a fresh id, and its row recorded first *)
Ask(r) ==
    /\ pc = "idle" /\ r \notin started
    /\ started' = started \cup {r}
    /\ cur' = r /\ entry' = "message" /\ pc' = "select"
    /\ row' = [row EXCEPT ![r] = "running"]
    /\ UNCHANGED <<cp, cancelled, steers, sess, loop, done, accepted, heard, exposed,
                   exposure, late, real, tickets, crashes, failures>>

(* DurableControl::resume and take_resumed, under one lock *)
Resume(r) ==
    /\ pc = "idle" /\ cp[r].status \in Resumable
    /\ cancelled' = cancelled \ {r}
    /\ cur' = r /\ entry' = "checkpoint" /\ pc' = "staged"
    /\ UNCHANGED <<cp, row, steers, sess, loop, ghosts>>

(* turn's first statement, the row, under a second lock *)
AcceptResumed ==
    /\ pc = "staged"
    /\ row' = [row EXCEPT ![cur] = "running"] /\ pc' = "select"
    /\ UNCHANGED <<cp, cancelled, steers, sess, cur, entry, loop, ghosts>>

(* mutant: an early return that forgets its mark *)
DegradeUnmarked ==
    /\ pc = "select" /\ pc' = "idle" /\ DropLocals
    /\ UNCHANGED <<cp, plane, sess, started, done, accepted, heard, exposed, exposure,
                   real, tickets, crashes, failures>>

(* No provider is ready: the turn marks its row and returns *)
Degrade ==
    /\ pc = "select"
    /\ \E w \in {"failed", "degraded"} : row' = [row EXCEPT ![cur] = w]
    /\ pc' = "idle" /\ DropLocals
    /\ UNCHANGED <<cp, cancelled, steers, sess, started, done, accepted, heard, exposed,
                   exposure, real, tickets, crashes, failures>>

(* A message: a root run over the conversation's window, with what retrieval injects *)
LoadFresh ==
    /\ pc = "select" /\ entry = "message"
    /\ \E c \in InjectClasses : window' = Lower(sess, c)
    /\ sess' = Asserted
    /\ floor' = Asserted /\ steps' = 0 /\ saved' = 0 /\ spent' = 0
    /\ auto' = 0 /\ status' = "running" /\ late' = 0 /\ pc' = "boundary"
    /\ exposure' = IF window' = Untrusted THEN "tainted" ELSE exposure
    /\ UNCHANGED <<cp, plane, cur, entry, started, done, accepted, heard, exposed,
                   real, tickets, crashes, failures>>

(* A checkpoint: Checkpoint::restore.  `is_resume = resumed_steps > 0`, so one
   taken before any step completed still runs retrieval, with an empty message *)
LoadResumed ==
    /\ pc = "select" /\ entry = "checkpoint"
    /\ floor' = cp[cur].floor /\ spent' = cp[cur].spent
    /\ steps' = cp[cur].step /\ saved' = cp[cur].step
    /\ IF cp[cur].step > 0
         THEN window' = cp[cur].window
         ELSE \E c \in EmptyQueryClasses : window' = Lower(cp[cur].window, c)
    /\ auto' = 0 /\ status' = "running" /\ late' = 0 /\ pc' = "boundary"
    /\ UNCHANGED <<cp, plane, sess, cur, entry, started, done, accepted, heard,
                   exposed, exposure, real, tickets, crashes, failures>>

-----------------------------------------------------------------------------
(* The loop's iteration: hard stops, cancel, steer, view *)

HasRoom == spent < TokenCap /\ TokenCap - spent >= MinCall

BudgetStop ==
    /\ pc = "boundary" /\ ~HasRoom
    /\ status' = "paused" /\ pc' = "final"
    /\ UNCHANGED <<cp, plane, sess, cur, entry, steps, spent, auto, floor, window,
                   saved, ghosts>>

StepStop ==
    /\ pc = "boundary" /\ HasRoom /\ steps + 1 > MaxSteps
    /\ steps' = steps + 1 /\ status' = "paused" /\ pc' = "final"
    /\ UNCHANGED <<cp, plane, sess, cur, entry, spent, auto, floor, window, saved,
                   ghosts>>

CancelStop ==
    /\ pc = "boundary" /\ HasRoom /\ steps + 1 <= MaxSteps /\ cur \in cancelled
    /\ steps' = steps + 1 /\ status' = "cancelled" /\ pc' = "final"
    /\ UNCHANGED <<cp, plane, sess, cur, entry, spent, auto, floor, window, saved,
                   ghosts>>

(* mutant: the cancel is not looked at before the model is called *)
ProceedUnchecked ==
    /\ pc = "boundary" /\ HasRoom /\ steps + 1 <= MaxSteps
    /\ steps' = steps + 1 /\ pc' = "steer"
    /\ UNCHANGED <<cp, plane, sess, cur, entry, spent, auto, status, floor, window,
                   saved, ghosts>>

(* mutant: an iteration that is not counted *)
ProceedUncounted ==
    /\ pc = "boundary" /\ HasRoom /\ steps + 1 <= MaxSteps /\ cur \notin cancelled
    /\ pc' = "steer"
    /\ UNCHANGED <<cp, plane, sess, cur, entry, loop, ghosts>>

Proceed ==
    /\ pc = "boundary" /\ HasRoom /\ steps + 1 <= MaxSteps /\ cur \notin cancelled
    /\ steps' = steps + 1 /\ pc' = "steer"
    /\ UNCHANGED <<cp, plane, sess, cur, entry, spent, auto, status, floor, window,
                   saved, ghosts>>

(* mutant: the newest steer first *)
TakeSteerLatest ==
    /\ pc = "steer" /\ pc' = "view"
    /\ IF steers[cur] = <<>>
         THEN UNCHANGED <<steers, heard>>
         ELSE /\ steers' = [steers EXCEPT ![cur] = SubSeq(@, 1, Len(@) - 1)]
              /\ heard' = [heard EXCEPT ![cur] = Append(@, steers[cur][Len(steers[cur])])]
    /\ UNCHANGED <<cp, row, cancelled, sess, cur, entry, loop, started, done, accepted,
                   exposed, exposure, late, real, tickets, crashes,
                   failures>>

(* Control::take_steer: at most one steer an iteration, oldest first *)
TakeSteer ==
    /\ pc = "steer" /\ pc' = "view"
    /\ IF steers[cur] = <<>>
         THEN UNCHANGED <<steers, heard>>
         ELSE /\ steers' = [steers EXCEPT ![cur] = Tail(@)]
              /\ heard' = [heard EXCEPT ![cur] = Append(@, Head(steers[cur]))]
    /\ UNCHANGED <<cp, row, cancelled, sess, cur, entry, loop, started, done, accepted,
                   exposed, exposure, late, real, tickets, crashes,
                   failures>>

(* mutant: the summary is stamped with its author's class alone *)
CompactedClean(w) == Inferred

(* The class of the summary ContextAssembler::compact puts in the window *)
Compacted(w) == Lower(w, Inferred)

Compact ==
    /\ pc = "view" /\ window' = Compacted(window)
    /\ \/ pc' = "boundary" /\ UNCHANGED status
       \/ pc' = "final" /\ status' = "failed"
    /\ UNCHANGED <<cp, plane, sess, cur, entry, steps, spent, auto, floor, saved, ghosts>>

(* clear_tool_results reclaimed something: bodies go, classes stay *)
MaskToolResults ==
    /\ pc = "view" /\ pc' = "boundary"
    /\ UNCHANGED <<cp, plane, sess, cur, entry, loop, ghosts>>

(* The identity block is AgentObserved, so no view is above it *)
ViewFloor == Lower(window, Observed)
Latched(f) == Lower(f, ViewFloor)

IssueCall ==
    /\ pc = "view" /\ pc' = "call"
    /\ floor' = Latched(floor)
    /\ exposed' = IF ViewFloor = Untrusted THEN exposed \cup {cur} ELSE exposed
    /\ late' = IF cur \in cancelled THEN late + 1 ELSE late
    /\ UNCHANGED <<cp, plane, sess, cur, entry, steps, spent, auto, status, window,
                   saved, started, done, accepted, heard, exposure, real,
                   tickets, crashes, failures>>

-----------------------------------------------------------------------------
(* What the model call came back with *)

Failover ==
    /\ pc = "call" /\ pc' = "boundary"
    /\ UNCHANGED <<cp, plane, sess, cur, entry, loop, ghosts>>

CallFails ==
    /\ pc = "call" /\ status' = "failed" /\ pc' = "final"
    /\ UNCHANGED <<cp, plane, sess, cur, entry, steps, spent, auto, floor, window,
                   saved, ghosts>>

Spend(n) == /\ spent' = spent + n
            /\ real' = IF cur \in Metered THEN [real EXCEPT ![cur] = @ + n] ELSE real

replyUnchanged == <<cp, plane, sess, cur, entry, steps, floor, saved, started, done,
                    accepted, heard, exposed, exposure, late,
                    tickets, crashes, failures>>

EmptyReply ==
    /\ pc = "call" /\ \E n \in CallCosts : Spend(n)
    /\ \/ auto < MaxAuto /\ auto' = auto + 1 /\ pc' = "boundary" /\ UNCHANGED status
       \/ auto >= MaxAuto /\ status' = "failed" /\ pc' = "final" /\ UNCHANGED auto
    /\ UNCHANGED <<window, replyUnchanged>>

Say ==
    /\ pc = "call" /\ \E n \in CallCosts : Spend(n)
    /\ auto' = 0 /\ window' = Lower(window, Inferred)
    /\ status' = "completed" /\ pc' = "final"
    /\ UNCHANGED replyUnchanged

AskUser ==
    /\ pc = "call" /\ \E n \in CallCosts : Spend(n)
    /\ auto' = 0 /\ status' = "awaiting" /\ pc' = "final"
    /\ UNCHANGED <<window, replyUnchanged>>

(* Tool calls, a memory write, a spawn or a refused escalation: adjudicated next *)
Reply ==
    /\ pc = "call" /\ \E n \in CallCosts : Spend(n)
    /\ auto' = 0 /\ pc' = "act"
    /\ UNCHANGED <<window, status, replyUnchanged>>

(* The effect itself, and the blocks it leaves; children's spend rolls up *)
Act ==
    /\ pc = "act" /\ pc' = "save"
    /\ \E n \in ChildCosts : Spend(n)
    /\ \E c \in {Inferred, Observed} : window' = Lower(window, c)
    /\ UNCHANGED <<auto, status, replyUnchanged>>

-----------------------------------------------------------------------------
(* Checkpoints: Checkpoint::capture through the roster into the journal *)

(* mutant: the status captured is the one the loop ran under *)
CaptureRunning(step) == [step |-> step, spent |-> spent, floor |-> floor,
                         window |-> window, status |-> "running"]

Capture(step) == [step |-> step, spent |-> spent, floor |-> floor,
                  window |-> window, status |-> status]

StatusWord(s) == IF s = "awaiting" THEN "paused" ELSE s

(* The row moves only once the append succeeded *)
AppendCheckpoint(step) ==
    \/ /\ cp' = [cp EXCEPT ![cur] = Capture(step)]
       /\ row' = [row EXCEPT ![cur] = StatusWord(status)]
       /\ UNCHANGED failures
    \/ /\ failures < MaxAppendFailures /\ failures' = failures + 1
       /\ UNCHANGED <<cp, row>>

SaveIteration ==
    /\ pc = "save" /\ pc' = "boundary"
    /\ AppendCheckpoint(steps) /\ saved' = steps
    /\ UNCHANGED <<cancelled, steers, sess, cur, entry, steps, spent, auto, status,
                   floor, window, started, done, accepted, heard, exposed, exposure,
                   late, real, tickets, crashes>>

(* drive's last act: the step is the one the last checkpoint had *)
SaveFinal ==
    /\ pc = "final" /\ pc' = "mark"
    /\ AppendCheckpoint(saved)
    /\ UNCHANGED <<cancelled, steers, sess, cur, entry, loop, started, done, accepted,
                   heard, exposed, exposure, late, real, tickets,
                   crashes>>

OutcomeWord(s) == IF s = "awaiting" THEN "escalated" ELSE s

(* turn's tail: the window returns to its conversation, the row gets the outcome *)
Mark ==
    /\ pc = "mark" /\ pc' = "idle" /\ DropLocals
    /\ row' = [row EXCEPT ![cur] = OutcomeWord(status)]
    /\ sess' = IF entry = "message" THEN window ELSE sess
    /\ done' = IF status \in Terminal THEN done \cup {cur} ELSE done
    /\ UNCHANGED <<cp, cancelled, steers, started, accepted, heard, exposed, exposure,
                   real, tickets, crashes, failures>>

-----------------------------------------------------------------------------
(* The control thread *)

Stopped == {"completed", "failed", "cancelled"}

Steer(r) ==
    /\ pc # "down" /\ r \in started /\ row[r] \notin Stopped /\ tickets < MaxSteers
    /\ tickets' = tickets + 1
    /\ steers' = [steers EXCEPT ![r] = Append(@, tickets + 1)]
    /\ accepted' = [accepted EXCEPT ![r] = Append(@, tickets + 1)]
    /\ UNCHANGED <<cp, row, cancelled, sess, pc, cur, entry, loop, started, done, heard,
                   exposed, exposure, late, real, crashes, failures>>

Cancel(r) ==
    /\ pc # "down" /\ r \in started /\ r \in Cancellable
    /\ cancelled' = cancelled \cup {r}
    /\ row' = IF row[r] = "none" THEN row ELSE [row EXCEPT ![r] = "cancelling"]
    /\ UNCHANGED <<cp, steers, sess, pc, cur, entry, loop, ghosts>>

-----------------------------------------------------------------------------
(* The process *)

LoseMemory ==
    /\ pc' = "down" /\ DropLocals
    /\ row' = [r \in Runs |-> "none"] /\ cancelled' = {} /\ steers' = Empty
    /\ accepted' = Empty /\ heard' = Empty
    /\ sess' = Asserted /\ exposure' = "clean"
    /\ UNCHANGED <<cp, started, done, exposed, real, tickets, failures>>

Crash == pc # "down" /\ crashes < MaxCrashes /\ crashes' = crashes + 1 /\ LoseMemory

(* Request::Shutdown: refused while live_runs() > 0 *)
Shutdown ==
    /\ pc = "idle" /\ \A r \in Runs : row[r] # "running"
    /\ LoseMemory /\ UNCHANGED crashes

(* Daemon::open: seed_from_journal lists what may be resumed *)
Restart ==
    /\ pc = "down" /\ pc' = "idle"
    /\ row' = [r \in Runs |-> IF cp[r].status \in Resumable THEN "interrupted" ELSE "none"]
    /\ UNCHANGED <<cp, cancelled, steers, sess, cur, entry, loop, ghosts>>

-----------------------------------------------------------------------------
Turn ==
    \/ AcceptResumed \/ Degrade \/ LoadFresh \/ LoadResumed
    \/ BudgetStop \/ StepStop \/ CancelStop \/ Proceed \/ TakeSteer
    \/ Compact \/ MaskToolResults \/ IssueCall
    \/ Failover \/ CallFails \/ EmptyReply \/ Say \/ AskUser \/ Reply \/ Act
    \/ SaveIteration \/ SaveFinal \/ Mark

Next ==
    \/ \E r \in Runs : Ask(r) \/ Resume(r) \/ Steer(r) \/ Cancel(r)
    \/ Turn \/ Crash \/ Shutdown \/ Restart

Spec == Init /\ [][Next]_vars

(* The main thread keeps running a turn it began: nothing in `turn` waits on a
   client between two of its steps, and a model call returns or errors *)
FairSpec == Spec /\ WF_vars(Turn)

-----------------------------------------------------------------------------
(* Every variable stays in its domain, across crashes and resumes. *)
TypeOK ==
    /\ cp \in [Runs -> Checkpoint]
    /\ row \in [Runs -> RowWords] /\ cancelled \subseteq Runs
    /\ steers \in [Runs -> Seq(Nat)]
    /\ sess \in Classes
    /\ pc \in Driving \cup {"idle", "down"}
    /\ cur \in Runs \cup {NoRun} /\ entry \in {"message", "checkpoint"}
    /\ steps \in Nat /\ spent \in Nat /\ auto \in Nat /\ status \in RunStatus
    /\ floor \in Classes /\ window \in Classes /\ saved \in Nat
    /\ started \subseteq Runs /\ done \subseteq Runs
    /\ accepted \in [Runs -> Seq(Nat)] /\ heard \in [Runs -> Seq(Nat)]
    /\ exposed \subseteq Runs /\ exposure \in {"clean", "tainted"} /\ late \in Nat
    /\ real \in [Runs -> Nat]
    /\ tickets \in Nat /\ crashes \in Nat /\ failures \in Nat

(* ADR-023's latch survives the daemon: when a run's tool calls are adjudicated
   and any call it ever made, before or after a crash or a resume, was shown
   untrusted content, the floor the adjudicator reads is untrusted.  The same for
   a run over a conversation whose window untrusted content once entered, however
   often the window was compacted since. *)
BlockedStaysBlocked ==
    pc = "act" => /\ cur \in exposed => floor = Untrusted
                  /\ entry = "message" /\ exposure = "tainted" => floor = Untrusted

(* A run whose completed, failed or cancelled outcome was reported is never driven
   again: no turn is entered for it, whatever crashed in between. *)
FinishedNeverRedriven == pc \in Driving => cur \notin done

(* With the main thread at rest no row says "running": otherwise Shutdown would be
   refused for ever on behalf of a run nothing drives. *)
NoPhantomLiveRun == pc = "idle" => \A r \in Runs : row[r] # "running"

(* Every steer accepted in this daemon life is in the queue of the run it named or
   was taken by that run, once and in the order sent: none crosses to another run,
   none is taken twice, across any number of resumes. *)
SteersRoutedOnce == \A r \in Runs : heard[r] \o steers[r] = accepted[r]

(* after a cancel at most the call already past the iteration's check is issued *)
CancelStopsAtBoundary == late <= 1

MaxOf(S) == CHOOSE x \in S : \A y \in S : y <= x

(* the spend a resume continues from undercounts by at most one iteration's calls
   per crash and per refused append: the calls between two checkpoints are an auto-continued chain *)
Unsaved == (MaxAuto + 1) * MaxOf(CallCosts) + MaxOf(ChildCosts)
SpendLossBounded ==
    \A r \in Metered : real[r] <= (IF cur = r /\ pc \in Driving \ {"staged", "select"}
                                  THEN spent ELSE cp[r].spent) + (crashes + failures) * Unsaved

(* A run that is cut short stops in time and has its calls on its account: after a
   cancel at most the call in flight is made, and a crash or a refused checkpoint
   loses no more than the calls since the last one. *)
StopIsPromptAndPaid == CancelStopsAtBoundary /\ SpendLossBounded

(* A turn the daemon accepted comes to rest, whatever the model, the client and the
   control thread do: the row is marked, or the process went down. *)
TurnEnds == (pc \in Driving) ~> (pc \in {"idle", "down"})
=============================================================================
