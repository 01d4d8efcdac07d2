------------------------------ MODULE RunWindow ------------------------------
(***************************************************************************)
(* What a run has said, as the control plane keeps it (`Frames`, a ring    *)
(* whose tail coalesces) and as a window in another process follows it     *)
(* (`RunProjection`): the turn's sink pushes frames under the plane's      *)
(* lock, the window polls from the highest sequence it holds, and the      *)
(* daemon may stop and start between two polls.                            *)
(***************************************************************************)
EXTENDS Integers, Sequences, FiniteSets

CONSTANTS
    MaxFrames,    \* control_plane.rs MAX_FRAMES
    MaxPushes,    \* bound: frames the run emits
    MaxTurns,     \* bound: drives of the run (a resume keeps its id and its ring)
    MaxRestarts   \* bound: restarts of the daemon

ASSUME FrameAssumption == MaxFrames \in Nat \ {0}
ASSUME RingBoundAssumption == /\ MaxPushes \in Nat /\ MaxTurns \in Nat /\ MaxRestarts \in Nat

Kinds == {"text", "reasoning", "tool", "retract", "compact"}

(* A frame and its sequence: the chunks a prose frame has absorbed; the call a tool
   line is about, as the turn that made it and the id its engine gave it *)
Frame == [n : Nat, kind : Kinds, chunks : Nat, turn : Nat, id : Nat,
          state : {"running", "closed", "none"}]

VARIABLES
    ring, first, next,  \* Frames.seq, .first, .next
    turn, nextId, open, \* the drive, Engine.next_call_id, its open tool lines
    held, latest,       \* RunProjection.frames, .latest
    fresh,              \* history: nothing was pushed since the last poll
    told, from,         \* history: frames reported dropped; where the window began
    pushes, restarts

ringVars == <<ring, first, next, turn, nextId, open, held, latest, fresh, told, from,
              pushes, restarts>>

RingInit ==
    /\ ring = <<>> /\ first = 1 /\ next = 1
    /\ turn = 1 /\ nextId = 1 /\ open = {}
    /\ held = {} /\ latest = 0
    /\ fresh = "yes" /\ told = 0 /\ from = 0
    /\ pushes = 0 /\ restarts = 0

-----------------------------------------------------------------------------
(* ControlPlane::push *)

(* How many frames the ring drops to come back to its size *)
Dropped(r) == IF Len(r) > MaxFrames THEN Len(r) - MaxFrames ELSE 0

Keep(r) == IF Len(r) > MaxFrames THEN SubSeq(r, Len(r) - MaxFrames + 1, Len(r)) ELSE r

AppendFrame(f) ==
    LET grown == Append(ring, [f EXCEPT !.n = next])
    IN  /\ next' = next + 1
        /\ ring' = Keep(grown)
        /\ first' = first + Dropped(grown)

Replace(i, f) ==
    /\ ring' = [ring EXCEPT ![i] = f]
    /\ UNCHANGED <<first, next>>

Emits ==
    /\ pushes < MaxPushes /\ pushes' = pushes + 1 /\ fresh' = "no"
    /\ UNCHANGED <<held, latest, told, from, restarts>>

Prose(kind) == [n |-> 0, kind |-> kind, chunks |-> 1, turn |-> 0, id |-> 0, state |-> "none"]

(* A delta of prose: it grows the tail of its own kind, or opens a frame *)
Say(kind) ==
    /\ Emits
    /\ IF ring # <<>> /\ ring[Len(ring)].kind = kind
         THEN Replace(Len(ring), [ring[Len(ring)] EXCEPT !.chunks = @ + 1])
         ELSE AppendFrame(Prose(kind))
    /\ UNCHANGED <<turn, nextId, open>>

(* SpeechRetracted or Compacted: never coalesced *)
Note(kind) == /\ Emits /\ AppendFrame(Prose(kind))
              /\ UNCHANGED <<turn, nextId, open>>

ToolFrame(c, s) == [n |-> 0, kind |-> "tool", chunks |-> 0, turn |-> c[1], id |-> c[2],
                    state |-> s]

(* The frames a tool line with this id would replace *)
SlotsOf(id) == {i \in DOMAIN ring : ring[i].kind = "tool" /\ ring[i].id = id}

(* A tool line goes in place of the first frame with its id *)
PushTool(f) ==
    IF SlotsOf(f.id) = {} THEN AppendFrame(f)
    ELSE LET i == CHOOSE j \in SlotsOf(f.id) : \A k \in SlotsOf(f.id) : j <= k
         IN  Replace(i, [f EXCEPT !.n = ring[i].n])

OpenTool ==
    /\ Emits /\ PushTool(ToolFrame(<<turn, nextId>>, "running"))
    /\ open' = open \cup {<<turn, nextId>>}
    /\ nextId' = nextId + 1
    /\ UNCHANGED turn

CloseTool(c) ==
    /\ c \in open /\ Emits /\ PushTool(ToolFrame(c, "closed"))
    /\ open' = open \ {c}
    /\ UNCHANGED <<turn, nextId>>

(* The run stops and is resumed: a new Engine, whose call ids start again *)
NextTurn ==
    /\ turn < MaxTurns /\ open = {}
    /\ turn' = turn + 1 /\ nextId' = 1
    /\ UNCHANGED <<ring, first, next, open, held, latest, fresh, told, from,
                   pushes, restarts>>

(* The daemon goes down and comes back; the run is resumed with a new ring *)
Restart ==
    /\ restarts < MaxRestarts /\ restarts' = restarts + 1
    /\ ring' = <<>> /\ first' = 1 /\ next' = 1
    /\ turn' = turn + 1 /\ nextId' = 1 /\ open' = {} /\ fresh' = "no"
    /\ UNCHANGED <<held, latest, told, from, pushes>>

-----------------------------------------------------------------------------
(* RunProjection, over ControlPlane::frames_since *)

(* mutant: the window asks from one past what it holds *)
SincePast(last) == last + 1

Since(last) == last

Answer(since) == {ring[i] : i \in {j \in DOMAIN ring : ring[j].n >= since}}

(* mutant: a gap is not reported *)
DroppedBeforeNone(since) == 0

DroppedBefore(since) == IF since > 0 /\ since < first THEN first - since ELSE 0

MaxOf(S) == CHOOSE x \in S : \A y \in S : y <= x

(* RunProjection::apply: keyed by sequence, what arrives overwrites *)
Poll ==
    LET got == Answer(Since(latest))
        ns  == {f.n : f \in got}
    IN  /\ held' = {f \in held : f.n \notin ns} \cup got
        /\ latest' = MaxOf({latest} \cup ns)
        /\ told' = told + DroppedBefore(Since(latest))
        /\ from' = IF from = 0 /\ got # {} THEN first ELSE from
        /\ fresh' = "yes"
        /\ UNCHANGED <<ring, first, next, turn, nextId, open, pushes, restarts>>

RingNext == \/ \E k \in {"text", "reasoning"} : Say(k)
            \/ (\E k \in {"retract", "compact"} : Note(k))
            \/ OpenTool \/ (\E c \in open : CloseTool(c))
            \/ NextTurn \/ Restart \/ Poll

RingSpec == RingInit /\ [][RingNext]_ringVars

-----------------------------------------------------------------------------
(* Every variable stays in its domain. *)
RingTyped ==
    /\ ring \in Seq(Frame) /\ first \in Nat \ {0} /\ next \in Nat \ {0}
    /\ turn \in Nat \ {0} /\ nextId \in Nat \ {0} /\ open \subseteq (Nat \X Nat)
    /\ held \subseteq Frame /\ latest \in Nat /\ fresh \in {"yes", "no"}
    /\ told \in Nat /\ from \in Nat
    /\ pushes \in Nat /\ restarts \in Nat

(* The ring holds an unbroken run of sequences, ends just before `next`, begins at
   `first` and never outgrows its size: what frames_since's arithmetic stands on. *)
RingShape ==
    /\ Len(ring) <= MaxFrames
    /\ next = first + Len(ring)
    /\ \A i \in 1..Len(ring) : ring[i].n = first + i - 1

(* Within one life of the daemon, a window that has just polled shows every prose
   frame the ring holds as it stands: a growing tail never freezes half-written and no
   sequence is shown with two contents, however pushes and polls interleave. *)
ProseCaughtUp ==
    fresh = "yes" /\ restarts = 0 =>
        /\ \A i \in 1..Len(ring) : ring[i].kind # "tool" => ring[i] \in held
        /\ \A f, g \in held : f.n = g.n => f = g

(* A window that fell off the end of the ring is told: the frames it misses since it
   began are no more than the drops reported to it. *)
GapsReported ==
    Cardinality({n \in from..latest : n > 0 /\ \A f \in held : f.n # n}) <= told
=============================================================================
