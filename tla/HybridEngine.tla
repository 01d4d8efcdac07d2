---------------------------- MODULE HybridEngine ----------------------------
(***************************************************************************)
(* Which process answers a turn: the daemon's provider choice, the          *)
(* `llama-server` it starts or adopts for the hybrid provider, the latched  *)
(* fallback to Ollama, and the requests that switch provider and model.     *)
(*                                                                          *)
(* The daemon serves one request at a time, but a start takes seconds: it   *)
(* is a sequence of steps, and servers come up, wedge and die, strangers    *)
(* take the port or the card and Ollama comes and goes between any two of   *)
(* them.  A killed daemon leaves its server behind, for the next to find.   *)
(* One server fits on the card; one that finds it full runs on the CPU.     *)
(* Two servers may listen on the port at once (hybrid.rs has seen it), and   *)
(* then any request of the daemon's may be answered by either.               *)
(***************************************************************************)
EXTENDS Integers, FiniteSets, FiniteSetsExt

CONSTANTS
    Models,         \* names in Ollama's inventory
    Ghost,          \* a name Ollama does not have
    Slots,          \* places in the process table
    Strangers,      \* [model, tools, ctx] of servers other people start
    Deadline,       \* HEALTH_DEADLINE, in polls
    MaxEvents,      \* what the environment does, bounded
    MaxRequests,    \* what the user asks, bounded
    MaxCrashes

ASSUME HybridAssumption == Ghost \notin Models /\ Deadline \in Nat

None == "none"
Gone == [st |-> "gone"]
Providers == {"ollama", "openrouter", "hybrid"}
NotSelected == [kind |-> "not_selected"]
NoOp == [at |-> "idle"]
NoTurn == [by |-> None]
NoAnswer == [by |-> None]

VARIABLES
    procs,      \* slot -> llama-server process
    card,       \* who holds the card: None, "ollama", "other" or a slot
    ollama,     \* [up, store]: whether Ollama answers, whether its store can be read
    provider,   \* DaemonConfig::model_provider, the declaration
    model,      \* DaemonConfig::model
    engine,     \* HybridEngine, the resolution
    pending,    \* pending_engine
    op,         \* the start in progress
    turn,       \* the turn in progress
    answer,     \* the last turn's answer
    missed,     \* turns in a row that went unanswered although Ollama could serve, with
                \* one server at most on the port and no other come up there
    quota       \* what is left of the bounds

daemon == <<provider, model, engine, pending>>
world == <<procs, card, ollama>>
vars == <<procs, card, ollama, provider, model, engine, pending, op, turn, answer, missed, quota>>

-----------------------------------------------------------------------------
(* Processes *)

Alive(p) == procs[p].st \in {"loading", "ready", "wedged"}
Listening == {p \in Slots : Alive(p) /\ procs[p].bound}
Spend(what) == quota[what] > 0 /\ quota' = [quota EXCEPT ![what] = @ - 1]

(* Kill and wait: the card is free when it returns *)
Killed(p) == [procs EXCEPT ![p] = Gone]
Freed(p) == IF card = p THEN None ELSE card

(* SupervisedServer: a child of this daemon, or a server it adopted *)
Held == IF engine.kind = "serving" THEN {engine.proc} ELSE {}
Serving(p, adopted, reading) ==
    [kind |-> "serving", proc |-> p, adopted |-> adopted, reading |-> reading]
FellBack(why) == [kind |-> "fell_back", why |-> why]

(* mutant: what is adopted is dropped like a child *)
DropsAny == engine.kind = "serving"

(* Drop for SupervisedServer: the child is stopped, an adopted server is not *)
DropsChild == engine.kind = "serving" /\ ~engine.adopted
DropEngine ==
    IF DropsChild
    THEN procs' = Killed(engine.proc) /\ card' = Freed(engine.proc)
    ELSE UNCHANGED <<procs, card>>

(* Availability::probe, with a carried reading: one of those that listen answers it *)
Usable(p) == procs[p].st = "ready" /\ procs[p].ctx
ProbeFails == Listening = {} \/ \E p \in Listening : ~Usable(p)

(* probe_tool_support: only a refusal counts *)
Refuses(p) == procs[p].st = "ready" /\ procs[p].tools # "yes"

OllamaReady == ollama.up /\ model \in Models

-----------------------------------------------------------------------------
(* hybrid::start, step by step *)

StartOf(for) ==
    [at |-> "resolve", for |-> for, proc |-> None, free |-> FALSE, waited |-> 0, reading |-> None]

(* The start ends with an engine: HybridEngine::start never fails *)
Finish(e) ==
    /\ engine' = e
    /\ model' = op.for
    /\ op' = NoOp
    /\ UNCHANGED <<provider, pending, ollama, turn, answer, missed, quota>>

Fails(why) == Finish(FellBack(why)) /\ UNCHANGED <<procs, card>>

(* A server started for nothing is dropped, which kills it *)
FailsDropping(why) ==
    /\ Finish(FellBack(why))
    /\ procs' = Killed(op.proc) /\ card' = Freed(op.proc)

Goto(at) == op' = [op EXCEPT !.at = at]
Starting(at) == op.at = at
Steps == UNCHANGED <<provider, model, engine, pending, turn, answer, missed, quota>>

(* The store is read first *)
ResolveBlob ==
    /\ Starting("resolve")
    /\ IF ollama.store /\ op.for \in Models
       THEN Goto("unload") /\ Steps /\ UNCHANGED world
       ELSE Fails("blob")

(* unload_resident_ollama_models: Ollama may not answer *)
Unload ==
    /\ Starting("unload")
    /\ card' \in IF card = "ollama" /\ ollama.up THEN {card, None} ELSE {card}
    /\ Goto("adopt") /\ Steps /\ UNCHANGED <<procs, ollama>>

(* A timed generation, by who may have answered it *)
Timed(p) == IF Listening = {p} THEN "measured" ELSE "contested"

(* adopt_if_usable: identity, then tools, then the measured reading.  Each is a   *)
(* request of its own.                                                            *)
Adopt ==
    /\ Starting("adopt")
    /\ IF Listening = {} THEN Goto("spawn") /\ Steps /\ UNCHANGED world
       ELSE \E p, tool \in Listening :
              IF ~Usable(p) THEN Fails("port")
              ELSE IF procs[p].tools = "denied" THEN Fails("template")
              ELSE IF procs[p].model # op.for THEN Fails("something_else")
              ELSE IF Refuses(tool) THEN Fails("template")
              ELSE \/ /\ \E q \in Listening : procs[q].st = "ready" /\ procs[q].gpu
                      /\ Finish(Serving(p, TRUE, Timed(p)))
                      /\ UNCHANGED <<procs, card>>
                   \/ Fails("gpu")

(* The binary may be missing or refuse to run; a spawned server takes the    *)
(* card when it is free and its backend loads.  Where another listens it may *)
(* be refused the port, or listen beside it.                                 *)
Spawn ==
    /\ Starting("spawn")
    /\ \/ Fails("binary")
       \/ \E p \in Slots, gpu, bound \in BOOLEAN, tools \in {"yes", "declared"} :
            /\ procs[p] = Gone
            /\ gpu => card = None
            /\ Listening = {} => bound
            /\ procs' = [procs EXCEPT ![p] =
                   [st |-> "loading", owner |-> "us", model |-> op.for, gpu |-> gpu,
                    tools |-> tools, ctx |-> TRUE, bound |-> bound]]
            /\ card' = IF gpu THEN p ELSE card
            /\ op' = [op EXCEPT !.at = "poll", !.proc = p, !.free = (card = None)]
            /\ Steps /\ UNCHANGED ollama

(* serves_blob: the server that answers names the blob that was resolved *)
SameBlob(p) == procs[p].model = op.for

(* One pass of the health wait *)
Poll ==
    /\ Starting("poll")
    /\ IF ~Alive(op.proc) THEN FailsDropping("exited")
       ELSE \/ \E p \in Listening :
                 /\ Usable(p)
                 /\ IF procs[p].tools = "denied" THEN FailsDropping("template")
                    ELSE IF ~SameBlob(p) THEN FailsDropping("something_else")
                    ELSE Goto("offload") /\ Steps /\ UNCHANGED world
            \/ /\ ProbeFails
               /\ IF op.waited >= Deadline THEN FailsDropping("never_healthy")
                  ELSE /\ op' = [op EXCEPT !.waited = @ + 1]
                       /\ Steps /\ UNCHANGED world

(* Three signals: a measured rate settles it, whoever's it is; the log is    *)
(* silent or right; the memory delta cannot tell who took the memory         *)
FromVram == IF ~op.free THEN {"unknown", IF card = None THEN "unknown" ELSE "cpu"}
            ELSE {"unknown", IF card = None THEN "cpu" ELSE "gpu"}
FromLog(p) == {"unknown", IF procs[p].gpu THEN "gpu" ELSE "cpu"}
Measured == {"unknown"} \cup {IF procs[p].gpu THEN "gpu" ELSE "cpu" :
                                p \in {q \in Listening : procs[q].st = "ready"}}

Reading(measured, log, vram) ==
    IF measured # "unknown" THEN [where |-> measured, by |-> Timed(op.proc)]
    ELSE [by |-> "inferred",
          where |-> IF "cpu" \in {log, vram} THEN "cpu"
                    ELSE IF "gpu" \in {log, vram} THEN "gpu" ELSE "unknown"]

MeasureOffload ==
    /\ Starting("offload")
    /\ \E m \in Measured, l \in FromLog(op.proc), v \in FromVram :
         LET r == Reading(m, l, v)
         IN  IF r.where = "gpu"
             THEN op' = [op EXCEPT !.at = "tools", !.reading = r.by] /\ Steps /\ UNCHANGED world
             ELSE FailsDropping("gpu")

(* A tool is sent; only a refusal blocks *)
ProbeTools ==
    /\ Starting("tools")
    /\ \/ /\ \E p \in Listening : Refuses(p)
          /\ FailsDropping("template")
       \/ /\ Listening = {} \/ \E p \in Listening : ~Refuses(p)
          /\ Finish(Serving(op.proc, FALSE, op.reading))
          /\ UNCHANGED <<procs, card>>

-----------------------------------------------------------------------------
(* Requests *)

Idle == op.at = "idle" /\ turn.by = None /\ ~pending
Ask == Idle /\ Spend("requests") /\ missed' = 0 /\ answer' = NoAnswer /\ UNCHANGED turn

SetOllama ==
    /\ Ask /\ provider # "ollama"
    /\ DropEngine
    /\ provider' = "ollama" /\ engine' = NotSelected
    /\ UNCHANGED <<model, pending, op, ollama>>

(* The hosted provider leaves the engine as it was; refused without a key or *)
(* a slug (no step)                                                          *)
SetOpenRouter ==
    /\ Ask /\ provider # "openrouter"
    /\ provider' = "openrouter"
    /\ UNCHANGED <<model, engine, pending, op, procs, card, ollama>>

(* Also the retry.  A sampler that cannot be read refuses the switch.        *)
SetHybrid ==
    /\ Ask /\ ollama.store /\ model \in Models
    /\ DropEngine
    /\ provider' = "hybrid" /\ engine' = NotSelected /\ pending' = TRUE
    /\ UNCHANGED <<model, op, ollama>>

StartPending ==
    /\ pending /\ op.at = "idle"
    /\ pending' = FALSE
    /\ op' = StartOf(model)
    /\ UNCHANGED <<procs, card, ollama, provider, model, engine, turn, answer, missed, quota>>

(* set_model: a validated write under Ollama, a restart under the hybrid,    *)
(* where a name nobody has is only found out by the start                    *)
SetModel(m) ==
    /\ Ask /\ m # model /\ provider # "openrouter"
    /\ IF provider = "hybrid"
       THEN /\ DropEngine /\ engine' = NotSelected
            /\ op' = StartOf(m) /\ UNCHANGED model
       ELSE /\ ollama.up /\ m \in Models /\ model' = m
            /\ UNCHANGED <<procs, card, engine, op>>
    /\ UNCHANGED <<provider, pending, ollama>>

-----------------------------------------------------------------------------
(* A turn: select, call, end *)

(* refresh: a child that exited since the last turn *)
Exited == engine.kind = "serving" /\ ~engine.adopted /\ ~Alive(engine.proc)

Contested == \E p, q \in Listening : p # q
Unanswered == missed' = IF OllamaReady /\ ~Contested THEN missed + 1 ELSE 0

(* The Ollama half: it loads the model onto the card if there is room *)
SelectOllama ==
    IF OllamaReady
    THEN /\ turn' = [by |-> "ollama"]
         /\ card' = IF card = None THEN "ollama" ELSE card
         /\ UNCHANGED missed
    ELSE turn' = NoTurn /\ Unanswered /\ UNCHANGED card

(* the probe of the turn, answered by one that is ready *)
AsksLlama == /\ \E p \in Listening : Usable(p)
             /\ turn' = [by |-> "llama"]
             /\ UNCHANGED <<engine, missed, procs, card>>

(* mutant: an engine that stopped answering is not latched *)
SelectLlamaHoping ==
    \/ AsksLlama
    \/ /\ ProbeFails /\ turn' = NoTurn /\ Unanswered
       /\ UNCHANGED <<engine, procs, card>>

(* An engine that stopped answering is latched; this turn is given up *)
SelectLlama ==
    \/ AsksLlama
    \/ /\ ProbeFails
       /\ engine' = FellBack("port") /\ DropEngine
       /\ turn' = NoTurn /\ Unanswered

SelectHybrid ==
    IF Exited
    THEN /\ engine' = FellBack("exited") /\ procs' = Killed(engine.proc)
         /\ SelectOllama
    ELSE IF engine.kind = "fell_back"
    THEN SelectOllama /\ UNCHANGED <<engine, procs>>
    ELSE SelectLlama

BeginTurn ==
    /\ Idle /\ Spend("requests") /\ answer' = NoAnswer
    /\ CASE provider = "ollama" -> SelectOllama /\ UNCHANGED <<engine, procs>>
         [] provider = "openrouter" -> /\ turn' = [by |-> "openrouter"]
                                       /\ UNCHANGED <<engine, procs, card, missed>>
         [] OTHER -> SelectHybrid
    /\ UNCHANGED <<provider, model, pending, op, ollama>>

(* The call: one of those who listen now answers, or does not *)
EndTurn ==
    /\ turn.by # None
    /\ \/ /\ turn.by = "llama"
          /\ \E p \in Listening :
               /\ procs[p].st = "ready"
               /\ answer' = [by |-> "llama", own |-> Held = {p} /\ ~engine.adopted,
                             model |-> procs[p].model, named |-> model, gpu |-> procs[p].gpu,
                             reading |-> IF engine.kind = "serving" THEN engine.reading ELSE None]
          /\ missed' = 0
       \/ /\ turn.by = "llama"
          /\ Listening = {} \/ \E p \in Listening : procs[p].st # "ready"
          /\ Unanswered /\ UNCHANGED answer
       \/ /\ turn.by # "llama"
          /\ IF turn.by = "openrouter" \/ OllamaReady
             THEN answer' = [by |-> turn.by] /\ missed' = 0
             ELSE missed' = 0 /\ UNCHANGED answer
    /\ turn' = NoTurn
    /\ UNCHANGED <<world, daemon, op, quota>>

-----------------------------------------------------------------------------
(* The environment, and the daemon's own end *)

Env == Spend("events") /\ UNCHANGED <<daemon, op, turn, answer, missed>>

ComesUp(p) == procs[p].st = "loading" /\ procs' = [procs EXCEPT ![p].st = "ready"]
              /\ missed' = 0
              /\ UNCHANGED <<card, ollama, daemon, op, turn, answer, quota>>

(* A child that is dead but not waited for keeps its place *)
Dies(p) ==
    /\ Alive(p)
    /\ procs' = [procs EXCEPT ![p] = IF @.owner = "us" THEN [@ EXCEPT !.st = "exited"] ELSE Gone]
    /\ card' = Freed(p)
    /\ UNCHANGED <<ollama, daemon, op, turn, answer, missed>>

DiesAtBind(p) == Alive(p) /\ ~procs[p].bound /\ Dies(p) /\ UNCHANGED quota
DiesAnytime(p) == Spend("events") /\ Dies(p)

Wedges(p) == Env /\ procs[p].st = "ready" /\ procs' = [procs EXCEPT ![p].st = "wedged"]
             /\ UNCHANGED <<card, ollama>>

StrangerStarts(p) ==
    /\ Spend("events") /\ procs[p] = Gone
    /\ \E s \in Strangers, gpu \in BOOLEAN :
         /\ gpu => card = None
         /\ procs' = [procs EXCEPT ![p] = [st |-> "ready", owner |-> "other", model |-> s.model,
                                           gpu |-> gpu, tools |-> s.tools, ctx |-> s.ctx,
                                           bound |-> TRUE]]
         /\ card' = IF gpu THEN p ELSE card
    /\ missed' = 0
    /\ UNCHANGED <<ollama, daemon, op, turn, answer>>

OtherOnCard ==
    /\ Env
    /\ \/ card = None /\ card' = "other"
       \/ card = "other" /\ card' = None
    /\ UNCHANGED <<procs, ollama>>

OllamaChanges == Env /\ \E f \in {"up", "store"} : ollama' = [ollama EXCEPT ![f] = ~@]
                 /\ UNCHANGED <<procs, card>>

Adrift == [p \in Slots |-> CASE procs[p].st = "exited" -> Gone
                             [] Alive(p) /\ procs[p].owner = "us" -> [procs[p] EXCEPT !.owner = "orphan"]
                             [] OTHER -> procs[p]]

(* The daemon is killed; the next one opens on the hybrid again *)
Crash ==
    /\ Spend("crashes")
    /\ procs' = Adrift
    /\ engine' = NotSelected /\ provider' = "hybrid" /\ pending' = FALSE
    /\ turn' = NoTurn /\ missed' = 0 /\ answer' = NoAnswer
    /\ op' = StartOf(model)
    /\ UNCHANGED <<card, ollama, model>>

Init ==
    /\ procs = [p \in Slots |-> Gone] /\ card \in {None, "ollama"}
    /\ ollama = [up |-> TRUE, store |-> TRUE]
    /\ model \in Models /\ engine = NotSelected /\ pending = FALSE
    /\ \/ provider = "ollama" /\ op = NoOp
       \/ provider = "hybrid" /\ op = StartOf(model)
    /\ turn = NoTurn /\ answer = NoAnswer /\ missed = 0
    /\ quota = [events |-> MaxEvents, requests |-> MaxRequests, crashes |-> MaxCrashes]

Start == ResolveBlob \/ Unload \/ Adopt \/ Spawn \/ Poll \/ MeasureOffload \/ ProbeTools
Daemon == \/ Start \/ SetOllama \/ SetOpenRouter \/ SetHybrid \/ StartPending
          \/ \E m \in Models \cup {Ghost} : SetModel(m)
          \/ BeginTurn \/ EndTurn
Environment == \/ \E p \in Slots : ComesUp(p) \/ DiesAtBind(p) \/ DiesAnytime(p) \/ Wedges(p)
                                   \/ StrangerStarts(p)
               \/ OtherOnCard \/ OllamaChanges \/ Crash

Next == Daemon \/ Environment

Spec == Init /\ [][Next]_vars

-----------------------------------------------------------------------------

(* every live server this daemon process started is in its hands: held by    *)
(* the engine or by the start in progress.  A start that fails for any       *)
(* reason, a switch of model or provider and a retry leave nothing running   *)
(* that nobody will stop (`Drop for SupervisedServer`).                      *)
NoServerForgotten ==
    \A p \in Slots :
        procs[p].st # "gone" /\ procs[p].owner = "us" =>
            p \in Held \/ (op.at # "idle" /\ op.proc = p)

(* The daemon accounts for every server: each one it started is in its hands *)
(* until it is stopped, and it never ends a process it did not start (a      *)
(* stranger's server, or the one an earlier daemon left, stops by itself).   *)
ServersAccountedFor ==
    /\ []NoServerForgotten
    /\ [][Daemon => \A p \in Slots : procs[p].st # "gone" /\ procs[p].owner # "us" =>
                        procs'[p] = procs[p]]_vars

(* the fallback works: while Ollama can serve the model, the user changes    *)
(* nothing, one server at most listens on the port and no other comes up     *)
(* there, at most two turns in a row go unanswered, whatever happens to the  *)
(* server (the call it dies in, and one probe it fails).  With two on the    *)
(* port a turn may pass its probe at one and be lost at the other, and       *)
(* nothing is latched.                                                       *)
FallbackAnswers == missed <= 2

(* what the daemon's own server answers is of the model the daemon names,    *)
(* however the model, the provider and the engine were switched before and   *)
(* whoever else listens; and it is from the GPU when that was measured while *)
(* nobody else listened.                                                     *)
OwnAnswersAreNamed ==
    answer.by = "llama" /\ answer.own =>
        /\ answer.model = answer.named
        /\ answer.reading = "measured" => answer.gpu

(* Turns are answered, and by what the status line names: a server that      *)
(* dies, wedges or is replaced costs two turns at most before the fallback   *)
(* serves, and no switch of model, provider or engine leaves the old one     *)
(* answering under the new one's name.                                       *)
AnsweredAsNamed == FallbackAnswers /\ OwnAnswersAreNamed
=============================================================================
