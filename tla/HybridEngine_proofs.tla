------------------------- MODULE HybridEngine_proofs -------------------------
(***************************************************************************)
(* For any inventory, any number of slots, strangers, requests and events:  *)
(* every server is accounted for, turns are answered after two at most, and *)
(* what the daemon's own server answers is of the model it names.           *)
(***************************************************************************)
EXTENDS HybridEngine, TLAPS

-----------------------------------------------------------------------------
(* The inductive invariant *)

Signals == {None, "measured", "contested", "inferred"}
Names == Models \cup {Ghost} \cup {s.model : s \in Strangers}
Asks == {"yes", "declared"} \cup {s.tools : s \in Strangers}
Sizes == {TRUE} \cup {s.ctx : s \in Strangers}
Server == [st : {"loading", "ready", "wedged", "exited"}, owner : {"us", "orphan", "other"},
           model : Names, gpu : BOOLEAN, tools : Asks, ctx : Sizes, bound : BOOLEAN]
Early == {"resolve", "unload", "adopt", "spawn"}
Late == {"poll", "offload", "tools"}
StartRecord == [at : Early \cup Late, for : Models \cup {Ghost}, proc : Slots \cup {None},
                free : BOOLEAN, waited : Nat, reading : Signals]
Whys == {"blob", "port", "template", "something_else", "gpu", "binary", "exited", "never_healthy"}
Fallen == [kind : {"fell_back"}, why : Whys]
ServingRecord == [kind : {"serving"}, proc : Slots, adopted : BOOLEAN,
                  reading : Signals]

Typed ==
    /\ procs \in [Slots -> {Gone} \cup Server]
    /\ provider \in Providers /\ pending \in BOOLEAN /\ model \in Models \cup {Ghost}
    /\ engine \in {NotSelected} \cup ServingRecord \cup Fallen
    /\ op \in {NoOp} \cup StartRecord
    /\ turn \in [by : {None, "ollama", "openrouter", "llama"}]
    /\ missed \in Nat

(* A start happens under the hybrid alone, with no engine, no turn and nothing missed *)
Placed ==
    /\ op.at # "idle" \/ pending =>
          engine.kind = "not_selected" /\ turn.by = None /\ missed = 0 /\ provider = "hybrid"
    /\ op.at # "idle" => ~pending
    /\ provider = "ollama" => engine.kind = "not_selected"
    /\ provider = "hybrid" /\ op.at = "idle" /\ ~pending => engine.kind # "not_selected"
    /\ turn.by = "llama" => engine.kind = "serving"

Child == engine.kind = "serving" /\ ~engine.adopted

(* The servers of this daemon are the engine's child or the one being started, and the
   child is of the model the daemon names *)
Ours ==
    /\ \A p \in Slots : procs[p].st # "gone" /\ procs[p].owner = "us" =>
          (Child /\ engine.proc = p) \/ (op.at \in Late /\ op.proc = p)
    /\ Child => /\ procs[engine.proc].st # "gone" /\ procs[engine.proc].owner = "us"
                /\ procs[engine.proc].model = model
                /\ engine.reading = "measured" => procs[engine.proc].gpu
    /\ op.at \in Late => /\ op.proc \in Slots
                         /\ procs[op.proc].st # "gone" /\ procs[op.proc].owner = "us"
                         /\ procs[op.proc].model = op.for
    /\ op.at = "tools" /\ op.reading = "measured" => procs[op.proc].gpu

(* A turn that went unanswered leaves an engine that answers no more *)
Counted ==
    /\ missed <= 2
    /\ engine.kind = "serving" /\ missed > 0 =>
          /\ missed = 1 /\ turn.by # "llama"
          /\ \A p \in Slots : ~(procs[p].st = "ready" /\ procs[p].bound)

Inv == Typed /\ Placed /\ Ours /\ Counted
-----------------------------------------------------------------------------
(* What the steps do to the records *)

States == {"loading", "ready", "wedged", "exited"}

LEMMA ServerFields ==
    /\ \A s \in Server : s.st \in States /\ s.st # "gone"
    /\ Gone.st = "gone"
    /\ \A s \in {Gone} \cup Server : s.st # "gone" => s \in Server
BY DEF Server, States, Gone

LEMMA StartFields ==
    /\ NoOp.at = "idle"
    /\ \A o \in StartRecord : /\ o.at \in Early \cup Late /\ o.at # "idle"
                              /\ o.for \in Models \cup {Ghost} /\ o.proc \in Slots \cup {None}
                              /\ o.reading \in Signals
    /\ \A o \in {NoOp} \cup StartRecord : o.at # "idle" => o \in StartRecord
BY DEF StartRecord, NoOp, Early, Late, Signals

LEMMA EngineFields ==
    /\ NotSelected.kind = "not_selected"
    /\ \A why \in Whys : FellBack(why).kind = "fell_back" /\ FellBack(why) \in Fallen
    /\ \A p \in Slots, a \in BOOLEAN, r \in Signals :
          /\ Serving(p, a, r) \in ServingRecord /\ Serving(p, a, r).kind = "serving"
          /\ Serving(p, a, r).proc = p /\ Serving(p, a, r).adopted = a
          /\ Serving(p, a, r).reading = r
    /\ \A e \in Fallen : e.kind = "fell_back"
    /\ \A e \in ServingRecord : /\ e.kind = "serving" /\ e.proc \in Slots /\ e.adopted \in BOOLEAN
                                /\ e.reading \in Signals
    /\ \A e \in {NotSelected} \cup ServingRecord \cup Fallen :
          e.kind = "serving" => e \in ServingRecord
<1>1. \A why \in Whys : FellBack(why).kind = "fell_back" /\ FellBack(why) \in Fallen
  BY DEF FellBack, Fallen
<1>2. ASSUME NEW p \in Slots, NEW a \in BOOLEAN, NEW r \in Signals
      PROVE  /\ Serving(p, a, r) \in ServingRecord /\ Serving(p, a, r).kind = "serving"
             /\ Serving(p, a, r).proc = p /\ Serving(p, a, r).adopted = a
             /\ Serving(p, a, r).reading = r
  BY DEF Serving, ServingRecord
<1>3. \A e \in Fallen : e.kind = "fell_back" BY DEF Fallen
<1>4. \A e \in ServingRecord :
         /\ e.kind = "serving" /\ e.proc \in Slots /\ e.adopted \in BOOLEAN
         /\ e.reading \in Signals
  BY DEF ServingRecord
<1>5. NotSelected.kind = "not_selected" BY DEF NotSelected
<1> QED BY <1>1, <1>2, <1>3, <1>4, <1>5

LEMMA Begins ==
    ASSUME NEW m \in Models \cup {Ghost}
    PROVE  /\ StartOf(m) \in StartRecord /\ StartOf(m).at = "resolve" /\ StartOf(m).for = m
BY DEF StartOf, StartRecord, Early, Late, Signals, None

LEMMA Moves ==
    ASSUME NEW o \in StartRecord, NEW a \in Early \cup Late
    PROVE  /\ [o EXCEPT !.at = a] \in StartRecord
           /\ [o EXCEPT !.at = a].at = a
           /\ [o EXCEPT !.at = a].for = o.for
           /\ [o EXCEPT !.at = a].proc = o.proc
           /\ [o EXCEPT !.at = a].reading = o.reading
BY DEF StartRecord, Early, Late

LEMMA Waits ==
    ASSUME NEW o \in StartRecord
    PROVE  /\ [o EXCEPT !.waited = @ + 1] \in StartRecord
           /\ [o EXCEPT !.waited = @ + 1].at = o.at
           /\ [o EXCEPT !.waited = @ + 1].for = o.for
           /\ [o EXCEPT !.waited = @ + 1].proc = o.proc
           /\ [o EXCEPT !.waited = @ + 1].reading = o.reading
BY DEF StartRecord

LEMMA Reads ==
    ASSUME NEW o \in StartRecord, NEW r \in Signals \ {None}
    PROVE  LET q == [o EXCEPT !.at = "tools", !.reading = r]
           IN  /\ q \in StartRecord /\ q.at = "tools" /\ q.for = o.for /\ q.proc = o.proc
               /\ q.reading = r
BY DEF StartRecord, Late

(* A process changes its state and nothing else; one changes hands *)
LEMMA StateMoves ==
    ASSUME NEW s \in Server, NEW v \in States
    PROVE  LET t == [s EXCEPT !.st = v]
           IN  /\ t \in Server /\ t.st = v /\ t.owner = s.owner /\ t.model = s.model
               /\ t.gpu = s.gpu /\ t.bound = s.bound
BY DEF Server, States

LEMMA HandsMove ==
    ASSUME NEW s \in Server
    PROVE  LET t == [s EXCEPT !.owner = "orphan"]
           IN  t \in Server /\ t.st = s.st /\ t.owner = "orphan" /\ t.bound = s.bound
BY DEF Server

-----------------------------------------------------------------------------
(* The steps of a start, by what they do to the table, the engine and the start *)

Continues ==
    /\ op' \in StartRecord /\ op'.for = op.for /\ op'.proc = op.proc
    /\ op.at \in Early => op'.at \in Early
    /\ op.at \in Late => op'.at \in Late
    /\ op'.at = "tools" => /\ op.at = "offload"
                           /\ op'.reading = "measured" => procs[op.proc].gpu
    /\ UNCHANGED <<procs, provider, model, engine, pending, turn, missed, answer>>
GivesUp ==
    /\ op' = NoOp /\ engine' \in Fallen /\ model' = op.for
    /\ \/ op.at \in Early /\ UNCHANGED procs
       \/ op.at \in Late /\ procs' = Killed(op.proc)
    /\ UNCHANGED <<provider, pending, turn, missed, answer>>
Adopts ==
    /\ op.at = "adopt" /\ op' = NoOp /\ model' = op.for
    /\ \E p \in Listening, r \in Signals : engine' = Serving(p, TRUE, r)
    /\ UNCHANGED <<procs, provider, pending, turn, missed, answer>>
Launches ==
    /\ op.at = "spawn"
    /\ \E p \in Slots, t \in Server :
          /\ procs[p] = Gone /\ procs' = [procs EXCEPT ![p] = t]
          /\ t.st = "loading" /\ t.owner = "us" /\ t.model = op.for
          /\ op' \in StartRecord /\ op'.at = "poll" /\ op'.for = op.for /\ op'.proc = p
    /\ UNCHANGED <<provider, model, engine, pending, turn, missed, answer>>
Serves ==
    /\ op.at = "tools" /\ op' = NoOp /\ model' = op.for
    /\ engine' = Serving(op.proc, FALSE, op.reading)
    /\ UNCHANGED <<procs, provider, pending, turn, missed, answer>>

LEMMA StartSteps ==
    ASSUME Typed, Start
    PROVE  op \in StartRecord /\ (Continues \/ GivesUp \/ Adopts \/ Launches \/ Serves)
<1>0. op \in StartRecord /\ op.at \in Early \cup Late /\ op.for \in Models \cup {Ghost}
  <2>1. op.at # "idle"
    BY DEF Start, ResolveBlob, Unload, Adopt, Spawn, Poll, MeasureOffload, ProbeTools, Starting
  <2> QED BY <2>1, StartFields DEF Typed
<1>1. ASSUME NEW a \in Early \cup Late, Goto(a)
      PROVE  /\ op' \in StartRecord /\ op'.at = a /\ op'.for = op.for /\ op'.proc = op.proc
             /\ op'.reading = op.reading
  BY <1>0, <1>1, Moves DEF Goto
<1>2. ASSUME NEW why \in Whys, Fails(why), op.at \in Early PROVE GivesUp
  BY <1>2, EngineFields DEF Fails, Finish, GivesUp
<1>3. ASSUME NEW why \in Whys, FailsDropping(why), op.at \in Late PROVE GivesUp
  BY <1>3, EngineFields DEF FailsDropping, Finish, GivesUp
<1>4. CASE ResolveBlob
  <2>1. op.at = "resolve" /\ op.at \in Early /\ op.at \notin Late /\ "unload" \in Early
    BY <1>4 DEF ResolveBlob, Starting, Early, Late
  <2>2. CASE Fails("blob") BY <2>1, <2>2, <1>2, <1>0 DEF Whys
  <2>3. CASE Goto("unload") /\ Steps /\ UNCHANGED world
    BY <2>1, <2>3, <1>1, <1>0 DEF Continues, Steps, world
  <2> QED BY <1>4, <2>2, <2>3 DEF ResolveBlob
<1>5. CASE Unload
  <2>1. op.at \in Early /\ op.at \notin Late /\ "adopt" \in Early
    BY <1>5 DEF Unload, Starting, Early, Late
  <2> QED BY <1>5, <2>1, <1>1, <1>0 DEF Unload, Continues, Steps
<1>6. CASE Adopt
  <2>1. op.at = "adopt" /\ op.at \in Early /\ op.at \notin Late /\ "spawn" \in Early
    BY <1>6 DEF Adopt, Starting, Early, Late
  <2>2. CASE Goto("spawn") /\ Steps /\ UNCHANGED world
    BY <2>1, <2>2, <1>1, <1>0 DEF Continues, Steps, world
  <2>3. CASE \E why \in {"port", "template", "something_else", "gpu"} : Fails(why)
    BY <2>1, <2>3, <1>2, <1>0 DEF Whys
  <2>4. CASE \E p \in Listening : Finish(Serving(p, TRUE, Timed(p))) /\ UNCHANGED <<procs, card>>
    <3>1. \A p \in Listening : Timed(p) \in Signals BY DEF Timed, Signals
    <3> QED BY <2>1, <2>4, <3>1, <1>0 DEF Adopts, Finish
  <2> QED BY <1>6, <2>2, <2>3, <2>4 DEF Adopt
<1>7. CASE Spawn
  <2>1. op.at = "spawn" /\ op.at \in Early BY <1>7 DEF Spawn, Starting, Early
  <2>2. CASE Fails("binary") BY <2>1, <2>2, <1>2, <1>0 DEF Whys
  <2>3. CASE ~Fails("binary")
    <3>1. PICK p \in Slots, gpu \in BOOLEAN, bound \in BOOLEAN, tools \in {"yes", "declared"} :
            /\ procs[p] = Gone
            /\ procs' = [procs EXCEPT ![p] =
                   [st |-> "loading", owner |-> "us", model |-> op.for, gpu |-> gpu,
                    tools |-> tools, ctx |-> TRUE, bound |-> bound]]
            /\ op' = [op EXCEPT !.at = "poll", !.proc = p, !.free = (card = None)]
            /\ Steps
      BY <1>7, <2>3 DEF Spawn
    <3>3. [st |-> "loading", owner |-> "us", model |-> op.for, gpu |-> gpu,
           tools |-> tools, ctx |-> TRUE, bound |-> bound] \in Server
      BY <1>0 DEF Server, Names, Asks, Sizes
    <3>4. /\ op' \in StartRecord /\ op'.at = "poll" /\ op'.for = op.for /\ op'.proc = p
      <4>1. ASSUME NEW f \in BOOLEAN, op' = [op EXCEPT !.at = "poll", !.proc = p, !.free = f]
            PROVE  op' \in StartRecord /\ op'.at = "poll" /\ op'.for = op.for /\ op'.proc = p
        <5>1. op \in StartRecord /\ p \in Slots BY <1>0
        <5> HIDE <1>0
        <5> QED BY ONLY <5>1, <4>1 DEF StartRecord, Late
      <4>2. (card = None) \in BOOLEAN
        OBVIOUS
      <4>3. op' = [op EXCEPT !.at = "poll", !.proc = p, !.free = (card = None)] BY <3>1
      <4> QED BY ONLY <4>1, <4>2, <4>3
    <3>5. /\ procs[p] = Gone /\ Steps
          /\ procs' = [procs EXCEPT ![p] =
                   [st |-> "loading", owner |-> "us", model |-> op.for, gpu |-> gpu,
                    tools |-> tools, ctx |-> TRUE, bound |-> bound]]
      BY <3>1
    <3> HIDE <3>1
    <3> QED BY <1>0, <2>1, <3>3, <3>4, <3>5 DEF Launches, Steps
  <2> QED BY <2>2, <2>3
<1>8. CASE Poll
  <2>1. op.at = "poll" /\ op.at \in Late /\ op.at \notin Early /\ "offload" \in Late
    BY <1>8 DEF Poll, Starting, Early, Late
  <2>2. CASE \E why \in {"exited", "template", "something_else", "never_healthy"} :
                FailsDropping(why)
    BY <2>1, <2>2, <1>3, <1>0 DEF Whys
  <2>3. CASE Goto("offload") /\ Steps /\ UNCHANGED world
    BY <2>1, <2>3, <1>1, <1>0 DEF Continues, Steps, world
  <2>4. CASE /\ op' = [op EXCEPT !.waited = @ + 1] /\ Steps /\ UNCHANGED world
    <3>1. /\ op' \in StartRecord /\ op'.at = op.at /\ op'.for = op.for /\ op'.proc = op.proc
      BY <1>0, <2>4, Waits
    <3> QED BY <1>0, <2>1, <2>4, <3>1 DEF Continues, Steps, world
  <2> QED BY <1>8, <2>2, <2>3, <2>4 DEF Poll
<1>9. CASE MeasureOffload
  <2>1. op.at = "offload" /\ op.at \in Late /\ op.at \notin Early /\ "tools" \in Late
    BY <1>9 DEF MeasureOffload, Starting, Early, Late
  <2>2. CASE FailsDropping("gpu") BY <2>1, <2>2, <1>3, <1>0 DEF Whys
  <2>3. CASE ~FailsDropping("gpu")
    <3>1. PICK m \in Measured, l \in FromLog(op.proc), v \in FromVram :
             /\ Reading(m, l, v).where = "gpu"
             /\ op' = [op EXCEPT !.at = "tools", !.reading = Reading(m, l, v).by]
             /\ Steps /\ UNCHANGED world
      BY <1>9, <2>3 DEF MeasureOffload
    <3>2. Reading(m, l, v).by \in Signals \ {None}
      BY DEF Reading, Timed, Signals, None
    <3>3. Reading(m, l, v).by = "measured" => m = "gpu" /\ Listening = {op.proc}
      BY <3>1 DEF Reading, Timed
    <3>4. m = "gpu" => \E p \in Listening : procs[p].gpu BY DEF Measured
    <3>5. /\ op' \in StartRecord /\ op'.at = "tools" /\ op'.for = op.for /\ op'.proc = op.proc
          /\ op'.reading = Reading(m, l, v).by
      BY <1>0, <3>1, <3>2, Reads
    <3> QED BY <1>0, <2>1, <3>1, <3>3, <3>4, <3>5 DEF Continues, Steps, world
  <2> QED BY <2>2, <2>3
<1>10. CASE ProbeTools
  <2>1. op.at = "tools" /\ op.at \in Late BY <1>10 DEF ProbeTools, Starting, Late
  <2>2. CASE FailsDropping("template") BY <2>1, <2>2, <1>3, <1>0 DEF Whys
  <2>3. CASE ~FailsDropping("template")
    BY <1>0, <1>10, <2>1, <2>3 DEF ProbeTools, Serves, Finish
  <2> QED BY <2>2, <2>3
<1> QED BY <1>4, <1>5, <1>6, <1>7, <1>8, <1>9, <1>10 DEF Start

(* A process comes up, wedges or dies; one the daemon started stays until it is waited for *)
LEMMA Ages ==
    ASSUME Typed, NEW p \in Slots, ComesUp(p) \/ DiesAtBind(p) \/ DiesAnytime(p) \/ Wedges(p)
    PROVE  /\ procs' \in [Slots -> {Gone} \cup Server]
           /\ \A q \in Slots \ {p} : procs'[q] = procs[q]
           /\ procs[p] \in Server /\ procs[p].st \in {"loading", "ready", "wedged"}
           /\ \/ procs'[p] = Gone /\ procs[p].owner # "us"
              \/ /\ procs'[p] \in Server
                 /\ procs'[p].owner = procs[p].owner /\ procs'[p].model = procs[p].model
                 /\ procs'[p].gpu = procs[p].gpu /\ procs'[p].bound = procs[p].bound
                 /\ \/ procs[p].st = "loading" /\ procs'[p].st = "ready"
                    \/ procs[p].st = "ready" /\ procs'[p].st = "wedged"
                    \/ procs'[p].st = "exited"
           /\ missed' \in {missed, 0}
           /\ procs'[p].st = "ready" => missed' = 0
           /\ UNCHANGED <<provider, model, engine, pending, op, turn, answer>>
<1>0. procs \in [Slots -> {Gone} \cup Server] BY DEF Typed
<1>1. procs[p].st \in {"loading", "ready", "wedged"}
  BY DEF ComesUp, DiesAtBind, DiesAnytime, Dies, Wedges, Alive
<1>2. procs[p] \in Server BY <1>0, <1>1, ServerFields
<1>3. ASSUME NEW v \in States, procs' = [procs EXCEPT ![p] = [procs[p] EXCEPT !.st = v]]
      PROVE  /\ procs' \in [Slots -> {Gone} \cup Server]
             /\ \A q \in Slots \ {p} : procs'[q] = procs[q]
             /\ procs'[p] \in Server /\ procs'[p].st = v
             /\ procs'[p].owner = procs[p].owner /\ procs'[p].model = procs[p].model
             /\ procs'[p].gpu = procs[p].gpu /\ procs'[p].bound = procs[p].bound
  <2>1. PICK t \in Server :
           /\ t = [procs[p] EXCEPT !.st = v] /\ t.st = v /\ t.owner = procs[p].owner
           /\ t.model = procs[p].model /\ t.gpu = procs[p].gpu /\ t.bound = procs[p].bound
    BY <1>2, StateMoves
  <2>2. procs' = [procs EXCEPT ![p] = t] BY <1>3, <2>1
  <2> QED BY ONLY <1>0, <2>1, <2>2
<1>4. /\ missed' \in {missed, 0}
      /\ UNCHANGED <<provider, model, engine, pending, op, turn, answer>>
  BY DEF ComesUp, DiesAtBind, DiesAnytime, Dies, Wedges, Env, daemon
<1>5. "ready" \in States /\ "wedged" \in States /\ "exited" \in States BY DEF States
<1>6. CASE ComesUp(p)
  <2>1. /\ procs' = [procs EXCEPT ![p] = [procs[p] EXCEPT !.st = "ready"]]
        /\ procs[p].st = "loading" /\ missed' = 0
    BY <1>6 DEF ComesUp
  <2> QED BY <1>1, <1>2, <1>3, <1>4, <1>5, <2>1
<1>7. CASE Wedges(p)
  <2>1. procs' = [procs EXCEPT ![p] = [procs[p] EXCEPT !.st = "wedged"]] /\ procs[p].st = "ready"
    BY <1>7 DEF Wedges
  <2> QED BY <1>1, <1>2, <1>3, <1>4, <1>5, <2>1
<1>8. CASE Dies(p)
  <2>1. CASE procs[p].owner = "us"
    <3>1. procs' = [procs EXCEPT ![p] = [procs[p] EXCEPT !.st = "exited"]] BY <1>8, <2>1 DEF Dies
    <3> QED BY <1>1, <1>2, <1>3, <1>4, <1>5, <3>1
  <2>2. CASE procs[p].owner # "us"
    <3>1. procs' = [procs EXCEPT ![p] = Gone] BY <1>8, <2>2 DEF Dies
    <3> QED BY <1>0, <1>1, <1>2, <1>4, <2>2, <3>1, ServerFields
  <2> QED BY <2>1, <2>2
<1> QED BY <1>6, <1>7, <1>8 DEF DiesAtBind, DiesAnytime

(* A stranger's server is up when it is seen *)
LEMMA StrangerJoins ==
    ASSUME NEW p \in Slots, StrangerStarts(p)
    PROVE  \E t \in Server : /\ procs' = [procs EXCEPT ![p] = t]
                             /\ t.st = "ready" /\ t.owner = "other"
<1>1. PICK s \in Strangers, gpu \in BOOLEAN :
        procs' = [procs EXCEPT ![p] = [st |-> "ready", owner |-> "other", model |-> s.model,
                                       gpu |-> gpu, tools |-> s.tools, ctx |-> s.ctx,
                                       bound |-> TRUE]]
  BY DEF StrangerStarts
<1>2. s.model \in Names /\ s.tools \in Asks /\ s.ctx \in Sizes BY DEF Names, Asks, Sizes
<1> DEFINE t == [st |-> "ready", owner |-> "other", model |-> s.model, gpu |-> gpu,
                 tools |-> s.tools, ctx |-> s.ctx, bound |-> TRUE]
<1>3. t \in Server /\ t.st = "ready" /\ t.owner = "other" BY <1>2 DEF Server
<1>4. procs' = [procs EXCEPT ![p] = t] BY <1>1
<1> HIDE DEF t
<1> QED BY <1>3, <1>4

(* A daemon that was killed leaves no server of its own *)
LEMMA CrashTable ==
    ASSUME Typed, Crash
    PROVE  /\ procs' \in [Slots -> {Gone} \cup Server]
           /\ \A p \in Slots : procs'[p].st # "gone" =>
                 /\ procs[p].st # "gone" /\ procs'[p].owner # "us"
                 /\ procs'[p].st = procs[p].st /\ procs'[p].bound = procs[p].bound
<1>0. procs \in [Slots -> {Gone} \cup Server] /\ procs' = Adrift BY DEF Typed, Crash
<1>1. ASSUME NEW p \in Slots
      PROVE  /\ procs'[p] \in {Gone} \cup Server
             /\ procs'[p].st # "gone" =>
                   /\ procs[p].st # "gone" /\ procs'[p].owner # "us"
                   /\ procs'[p].st = procs[p].st /\ procs'[p].bound = procs[p].bound
  <2>1. CASE procs[p].st = "exited" BY <1>0, <2>1, ServerFields DEF Adrift, Alive
  <2>2. CASE Alive(p) /\ procs[p].owner = "us"
    <3>1. procs[p] \in Server /\ procs[p].st # "gone" /\ procs[p].st # "exited"
      BY <1>0, <2>2, ServerFields DEF Alive
    <3>2. procs'[p] = [procs[p] EXCEPT !.owner = "orphan"] BY <1>0, <2>2, <3>1 DEF Adrift
    <3> QED BY <3>1, <3>2, HandsMove
  <2>3. CASE procs[p].st # "exited" /\ ~(Alive(p) /\ procs[p].owner = "us")
    <3>1. procs'[p] = procs[p] BY <1>0, <2>3 DEF Adrift
    <3>2. procs[p].st # "gone" => Alive(p) BY <1>0, <2>3, ServerFields DEF Alive, States
    <3> QED BY <1>0, <2>3, <3>1, <3>2, ServerFields
  <2> QED BY <2>1, <2>2, <2>3
<1>2. procs' = [p \in Slots |-> procs'[p]] BY <1>0 DEF Adrift
<1> QED BY <1>1, <1>2

(* What a turn's provider choice does: nothing, a call to the server, or the fallback *)
Elsewhere ==
    /\ turn' \in [by : {None, "ollama", "openrouter"}] /\ missed' \in {missed, 0}
    /\ UNCHANGED <<procs, engine>>
AsksServer ==
    /\ turn' = [by |-> "llama"] /\ (\E p \in Listening : Usable(p)) /\ engine.kind = "serving"
    /\ UNCHANGED <<procs, engine, missed>>
Latches ==
    /\ engine.kind = "serving" /\ engine' \in Fallen
    /\ turn' \in [by : {None, "ollama"}] /\ missed' \in {missed, missed + 1, 0}
    /\ procs' = IF Child THEN Killed(engine.proc) ELSE procs

LEMMA TurnSteps ==
    ASSUME Typed, Placed, BeginTurn
    PROVE  /\ Elsewhere \/ AsksServer \/ Latches
           /\ op.at = "idle" /\ turn.by = None /\ ~pending /\ answer' = NoAnswer
           /\ UNCHANGED <<provider, model, pending, op>>
<1>1. /\ op.at = "idle" /\ turn.by = None /\ ~pending /\ answer' = NoAnswer
      /\ UNCHANGED <<provider, model, pending, op>>
  BY DEF BeginTurn, Idle
<1>2. ASSUME SelectOllama PROVE turn' \in [by : {None, "ollama"}] /\ missed' \in {missed, 0}
  BY <1>2 DEF SelectOllama, Unanswered, NoTurn
<1>3. \A t \in [by : {None, "ollama"}] : t \in [by : {None, "ollama", "openrouter"}]
  OBVIOUS
<1>4. CASE provider = "ollama"
  <2>1. SelectOllama /\ UNCHANGED <<engine, procs>> BY <1>4 DEF BeginTurn
  <2> QED BY <1>1, <1>2, <1>3, <2>1 DEF Elsewhere
<1>5. CASE provider = "openrouter"
  <2>1. turn' = [by |-> "openrouter"] /\ UNCHANGED <<engine, procs, missed>>
    BY <1>5 DEF BeginTurn
  <2> QED BY <1>1, <2>1 DEF Elsewhere
<1>6. CASE provider = "hybrid"
  <2>1. SelectHybrid BY <1>6 DEF BeginTurn
  <2>2. engine \in {NotSelected} \cup ServingRecord \cup Fallen /\ engine.kind # "not_selected"
    BY <1>1, <1>6 DEF Typed, Placed
  <2>3. engine.kind \in {"serving", "fell_back"} BY <2>2, EngineFields
  <2>4. CASE Exited
    <3>1. Child BY <2>4 DEF Exited, Child
    <3>2. engine' = FellBack("exited") /\ procs' = Killed(engine.proc) /\ SelectOllama
      BY <2>1, <2>4 DEF SelectHybrid
    <3> QED BY <1>1, <1>2, <3>1, <3>2, EngineFields DEF Latches, Child, Whys
  <2>5. CASE ~Exited /\ engine.kind = "fell_back"
    BY <1>1, <1>2, <1>3, <2>1, <2>5 DEF SelectHybrid, Elsewhere
  <2>6. CASE ~Exited /\ engine.kind = "serving"
    <3>1. SelectLlama BY <2>1, <2>6 DEF SelectHybrid
    <3>2. CASE AsksLlama BY <1>1, <2>6, <3>2 DEF AsksLlama, AsksServer
    <3>3. CASE engine' = FellBack("port") /\ DropEngine /\ turn' = NoTurn /\ Unanswered
      BY <1>1, <2>6, <3>3, EngineFields
         DEF Latches, DropEngine, DropsChild, Child, Unanswered, NoTurn, Whys
    <3> QED BY <3>1, <3>2, <3>3 DEF SelectLlama
  <2> QED BY <2>3, <2>4, <2>5, <2>6
<1> QED BY <1>1, <1>4, <1>5, <1>6 DEF Typed, Providers

(* The requests: what was being served is let go unless the hosted provider is chosen *)
Request == \/ SetOllama \/ SetOpenRouter \/ SetHybrid \/ StartPending
           \/ \E m \in Models \cup {Ghost} : SetModel(m)
Requested ==
    /\ op.at = "idle" /\ turn.by = None /\ missed' = 0 /\ UNCHANGED turn
    /\ answer' = NoAnswer \/ (answer' = answer /\ pending)
    /\ \/ /\ engine' = NotSelected /\ UNCHANGED model
          /\ procs' = IF Child THEN Killed(engine.proc) ELSE procs
          /\ \/ provider' = "ollama" /\ pending' = FALSE /\ UNCHANGED op
             \/ provider' = "hybrid" /\ pending' = TRUE /\ UNCHANGED op
             \/ /\ provider' = "hybrid" /\ pending' = FALSE
                /\ op' \in StartRecord /\ op'.at = "resolve"
       \/ /\ provider' = "openrouter" /\ ~pending /\ pending' = FALSE
          /\ UNCHANGED <<model, engine, op, procs>>
       \/ /\ provider = "ollama" /\ provider' = "ollama" /\ pending' = FALSE
          /\ model' \in Models /\ UNCHANGED <<engine, op, procs>>

LEMMA RequestSteps == ASSUME Typed, Placed, Request PROVE Requested
<1> USE DEF Requested
<1>0. ~pending => pending = FALSE BY DEF Typed
<1>1. CASE SetOllama BY <1>0, <1>1 DEF SetOllama, Ask, Idle, DropEngine, DropsChild, Child
<1>2. CASE SetOpenRouter BY <1>0, <1>2 DEF SetOpenRouter, Ask, Idle
<1>3. CASE SetHybrid BY <1>3 DEF SetHybrid, Ask, Idle, DropEngine, DropsChild, Child
<1>4. CASE StartPending
  <2>1. /\ engine.kind = "not_selected" /\ turn.by = None /\ missed = 0 /\ provider = "hybrid"
    BY <1>4 DEF StartPending, Placed
  <2>2. engine = NotSelected /\ ~Child
    BY <2>1, EngineFields DEF Typed, Child
  <2>3. StartOf(model) \in StartRecord /\ StartOf(model).at = "resolve" BY Begins DEF Typed
  <2> QED BY <1>4, <2>1, <2>2, <2>3 DEF StartPending
<1>5. ASSUME NEW m \in Models \cup {Ghost}, SetModel(m)
      PROVE  /\ op.at = "idle" /\ turn.by = None /\ missed' = 0 /\ UNCHANGED turn
             /\ answer' = NoAnswer
             /\ \/ /\ engine' = NotSelected /\ UNCHANGED model
                   /\ procs' = IF Child THEN Killed(engine.proc) ELSE procs
                   /\ provider' = "hybrid" /\ pending' = FALSE
                   /\ op' \in StartRecord /\ op'.at = "resolve"
                \/ /\ provider = "ollama" /\ provider' = "ollama" /\ pending' = FALSE
                   /\ model' \in Models /\ UNCHANGED <<engine, op, procs>>
  <2>1. StartOf(m) \in StartRecord /\ StartOf(m).at = "resolve" BY Begins
  <2>2. CASE provider = "hybrid"
    <3>1. DropEngine /\ engine' = NotSelected /\ op' = StartOf(m) /\ UNCHANGED model
      BY <1>5, <2>2 DEF SetModel
    <3>2. procs' = IF Child THEN Killed(engine.proc) ELSE procs
      BY <3>1 DEF DropEngine, DropsChild, Child
    <3>3. /\ op.at = "idle" /\ turn.by = None /\ missed' = 0 /\ UNCHANGED <<turn, provider, pending>>
          /\ answer' = NoAnswer
      BY <1>5 DEF SetModel, Ask, Idle
    <3>4. pending = FALSE BY <1>0, <1>5 DEF SetModel, Ask, Idle
    <3> QED BY <2>1, <2>2, <3>1, <3>2, <3>3, <3>4
  <2>3. CASE provider # "hybrid"
    <3>1. provider = "ollama" BY <1>5, <2>3 DEF SetModel, Typed, Providers
    <3> QED BY <1>0, <1>5, <2>3, <3>1 DEF SetModel, Ask, Idle
  <2> QED BY <2>2, <2>3
<1> QED BY <1>1, <1>2, <1>3, <1>4, <1>5 DEF Request

(* The call: one that is ready on the port answers, or nobody does; it is counted where
   no two listen *)
AnsweredByServer ==
    /\ turn.by = "llama" /\ missed' = 0
    /\ \E p \in Listening :
          /\ procs[p].st = "ready"
          /\ answer' = [by |-> "llama", own |-> Held = {p} /\ ~engine.adopted,
                        model |-> procs[p].model, named |-> model, gpu |-> procs[p].gpu,
                        reading |-> IF engine.kind = "serving" THEN engine.reading ELSE None]
NobodyReady ==
    /\ turn.by = "llama" /\ UNCHANGED answer
    /\ \/ missed' = 0
       \/ missed' = missed + 1 /\ \A p \in Listening : procs[p].st # "ready"
AnsweredElsewhere ==
    /\ missed' = 0 /\ answer' \in {answer} \cup [by : {"ollama", "openrouter"}]

LEMMA EndSteps ==
    ASSUME Typed, EndTurn
    PROVE  /\ AnsweredByServer \/ NobodyReady \/ AnsweredElsewhere
           /\ turn.by # None /\ turn' = NoTurn /\ UNCHANGED <<procs, provider, model, engine, pending, op>>
<1>1. turn.by # None /\ turn' = NoTurn /\ UNCHANGED <<procs, provider, model, engine, pending, op>>
  BY DEF EndTurn, world, daemon
<1>2. turn.by \in {None, "ollama", "openrouter", "llama"} BY DEF Typed
<1>3. CASE turn.by = "llama"
  <2>1. CASE \E p \in Listening :
               /\ procs[p].st = "ready"
               /\ answer' = [by |-> "llama", own |-> Held = {p} /\ ~engine.adopted,
                             model |-> procs[p].model, named |-> model, gpu |-> procs[p].gpu,
                             reading |-> IF engine.kind = "serving" THEN engine.reading ELSE None]
               /\ missed' = 0
    BY <1>1, <1>3, <2>1 DEF AnsweredByServer
  <2>2. CASE /\ Listening = {} \/ \E p \in Listening : procs[p].st # "ready"
             /\ Unanswered /\ UNCHANGED answer
    BY <1>1, <1>3, <2>2 DEF NobodyReady, Unanswered, Contested
  <2> QED BY <1>3, <2>1, <2>2 DEF EndTurn
<1>4. CASE turn.by # "llama"
  <2>1. turn.by \in {"ollama", "openrouter"} BY <1>1, <1>2, <1>4
  <2>2. missed' = 0 /\ (answer' = answer \/ answer' = [by |-> turn.by])
    BY <1>4 DEF EndTurn
  <2> QED BY <1>1, <2>1, <2>2 DEF AnsweredElsewhere
<1> QED BY <1>3, <1>4

-----------------------------------------------------------------------------
(* The invariant holds at the start *)

LEMMA TypedStart == Init => Typed
<1> SUFFICES ASSUME Init PROVE Typed
  OBVIOUS
<1>1. op \in {NoOp} \cup StartRecord BY Begins DEF Init
<1>2. procs \in [Slots -> {Gone} \cup Server] BY DEF Init
<1>3. turn \in [by : {None, "ollama", "openrouter", "llama"}] BY DEF Init, NoTurn
<1> QED BY <1>1, <1>2, <1>3 DEF Init, Typed, Providers

LEMMA InvStart == Init => Inv
<1> SUFFICES ASSUME Init PROVE Inv
  OBVIOUS
<1>1. Typed BY TypedStart
<1>2. /\ engine.kind = "not_selected" /\ turn.by = None /\ missed = 0 /\ ~pending
      /\ \A p \in Slots : procs[p].st = "gone"
      /\ (provider = "ollama" /\ op.at = "idle") \/ (provider = "hybrid" /\ op.at = "resolve")
  <2>1. StartOf(model).at = "resolve" BY Begins DEF Init
  <2>2. \A p \in Slots : procs[p].st = "gone" BY ServerFields DEF Init
  <2>3. engine.kind = "not_selected" /\ turn.by = None /\ missed = 0 /\ ~pending
    BY EngineFields DEF Init, NoTurn
  <2>4. (provider = "ollama" /\ op.at = "idle") \/ (provider = "hybrid" /\ op.at = "resolve")
    <3>1. (provider = "ollama" /\ op = NoOp) \/ (provider = "hybrid" /\ op = StartOf(model))
      BY DEF Init
    <3> QED BY <2>1, <3>1, StartFields
  <2> QED BY <2>2, <2>3, <2>4
<1> QED BY <1>1, <1>2 DEF Inv, Placed, Ours, Child, Counted,
        Early, Late, None

-----------------------------------------------------------------------------
(* Every variable stays in its domain, and what kills a server leaves a free place *)

LEMMA Kills ==
    ASSUME Typed, NEW p
    PROVE  /\ Killed(p) \in [Slots -> {Gone} \cup Server]
           /\ \A q \in Slots : Killed(p)[q] = IF q = p THEN Gone ELSE procs[q]
BY DEF Killed, Typed

LEMMA NextTyped == ASSUME Typed, Placed, Ours, [Next]_vars PROVE Typed'
<1> USE DEF Typed
<1>1. CASE Start
  <2>1. op \in StartRecord /\ op.for \in Models \cup {Ghost} /\ op.proc \in Slots \cup {None}
        /\ op.reading \in Signals
    BY <1>1, StartSteps, StartFields
  <2>2. CASE Continues BY <2>2 DEF Continues
  <2>3. CASE GivesUp BY <2>1, <2>3, Kills DEF GivesUp
  <2>4. CASE Adopts
    <3>1. PICK p \in Listening, r \in Signals : engine' = Serving(p, TRUE, r) BY <2>4 DEF Adopts
    <3>2. Serving(p, TRUE, r) \in ServingRecord BY EngineFields DEF Listening
    <3> QED BY <2>1, <2>4, <3>1, <3>2 DEF Adopts
  <2>5. CASE Launches
    <3>1. procs' \in [Slots -> {Gone} \cup Server] BY <2>5 DEF Launches
    <3> QED BY <2>5, <3>1 DEF Launches
  <2>6. CASE Serves
    <3>1. op.proc \in Slots BY <2>6 DEF Serves, Ours, Late
    <3>2. engine' \in ServingRecord BY <2>1, <2>6, <3>1, EngineFields DEF Serves
    <3> QED BY <2>1, <2>6, <3>2 DEF Serves
  <2> QED BY <1>1, <2>2, <2>3, <2>4, <2>5, <2>6, StartSteps
<1>2. CASE Request
  <2>1. Requested BY <1>2, RequestSteps
  <2>2. procs' \in [Slots -> {Gone} \cup Server] BY <2>1, Kills DEF Requested
  <2>3. provider' \in Providers /\ pending' \in BOOLEAN /\ model' \in Models \cup {Ghost}
    BY <2>1 DEF Requested, Providers
  <2>4. /\ engine' \in {NotSelected, engine} /\ op' \in {op} \cup StartRecord
        /\ turn' = turn /\ missed' = 0
    BY <2>1 DEF Requested
  <2> QED BY <2>2, <2>3, <2>4
<1>3. CASE BeginTurn
  <2>1. procs' \in [Slots -> {Gone} \cup Server]
    BY <1>3, TurnSteps, Kills DEF Elsewhere, AsksServer, Latches
  <2>2. turn' \in [by : {None, "ollama", "openrouter", "llama"}]
    BY <1>3, TurnSteps DEF Elsewhere, AsksServer, Latches
  <2>3. missed' \in Nat /\ engine' \in {engine} \cup Fallen
    BY <1>3, TurnSteps DEF Elsewhere, AsksServer, Latches
  <2> QED BY <1>3, <2>1, <2>2, <2>3, TurnSteps
<1>4. CASE EndTurn
  <2>1. missed' \in Nat BY <1>4, EndSteps DEF AnsweredByServer, NobodyReady, AnsweredElsewhere
  <2> QED BY <1>4, <2>1, EndSteps DEF NoTurn
<1>5. ASSUME NEW p \in Slots, ComesUp(p) \/ DiesAtBind(p) \/ DiesAnytime(p) \/ Wedges(p)
      PROVE  Typed'
  BY <1>5, Ages
<1>6. ASSUME NEW p \in Slots, StrangerStarts(p) PROVE Typed'
  <2>1. PICK t \in Server : procs' = [procs EXCEPT ![p] = t] BY <1>6, StrangerJoins
  <2>2. procs' \in [Slots -> {Gone} \cup Server] BY <2>1
  <2>3. missed' = 0 /\ UNCHANGED <<provider, pending, model, engine, op, turn>>
    BY <1>6 DEF StrangerStarts, daemon
  <2> QED BY ONLY <2>2, <2>3, Typed DEF Typed
<1>7. CASE OtherOnCard \/ OllamaChanges BY <1>7 DEF OtherOnCard, OllamaChanges, Env, daemon
<1>8. CASE Crash
  <2>1. StartOf(model) \in StartRecord BY Begins
  <2> QED BY <1>8, <2>1, CrashTable DEF Crash, NoTurn, Providers
<1>9. CASE UNCHANGED vars BY <1>9 DEF vars
<1> QED BY <1>1, <1>2, <1>3, <1>4, <1>5, <1>6, <1>7, <1>8, <1>9 DEF Next, Daemon, Environment, Request

-----------------------------------------------------------------------------
(* A start has the daemon for itself *)

LEMMA NextPlaced == ASSUME Typed, Placed, [Next]_vars PROVE Placed'
<1> USE DEF Placed
<1>1. CASE Start
  <2>1. op.at # "idle" BY <1>1, StartSteps, StartFields
  <2>2. CASE Continues
    <3>1. op'.at # "idle" BY <2>2, StartFields DEF Continues
    <3> QED BY <2>1, <2>2, <3>1 DEF Continues
  <2>3. CASE GivesUp
    <3>1. op'.at = "idle" /\ engine'.kind = "fell_back"
      BY <2>3, StartFields, EngineFields DEF GivesUp
    <3> QED BY <2>1, <2>3, <3>1 DEF GivesUp, None
  <2>4. CASE Adopts
    <3>1. op'.at = "idle" /\ engine'.kind = "serving"
      BY <2>4, StartFields, EngineFields DEF Adopts, Serving
    <3> QED BY <2>1, <2>4, <3>1 DEF Adopts, None
  <2>5. CASE Launches
    <3>1. op'.at # "idle" BY <2>5 DEF Launches
    <3> QED BY <2>1, <2>5, <3>1 DEF Launches
  <2>6. CASE Serves
    <3>1. op'.at = "idle" /\ engine'.kind = "serving"
      BY <2>6, StartFields, EngineFields DEF Serves, Serving
    <3> QED BY <2>1, <2>6, <3>1 DEF Serves, None
  <2> QED BY <1>1, <2>2, <2>3, <2>4, <2>5, <2>6, StartSteps
<1>2. CASE Request
  <2>1. Requested BY <1>2, RequestSteps
  <2>2. CASE engine' = NotSelected
    <3>1. engine'.kind = "not_selected" BY <2>2, EngineFields
    <3> QED BY <2>1, <2>2, <3>1, StartFields DEF Requested, None
  <2>3. CASE UNCHANGED <<engine, op>> /\ pending' = FALSE /\ provider' \in {"openrouter", "ollama"}
             /\ (provider' = "ollama" => provider = "ollama")
    BY <2>1, <2>3 DEF Requested, None
  <2> QED BY <2>1, <2>2, <2>3 DEF Requested
<1>3. CASE BeginTurn
  <2>1. \A e \in Fallen : e.kind = "fell_back" BY EngineFields
  <2>2. turn'.by = "llama" => AsksServer
    BY <1>3, TurnSteps DEF Elsewhere, Latches, None
  <2>3. /\ op.at = "idle" /\ ~pending /\ UNCHANGED <<provider, pending, op>>
        /\ engine' = engine \/ (engine.kind = "serving" /\ engine'.kind = "fell_back")
    BY <1>3, <2>1, TurnSteps DEF Elsewhere, AsksServer, Latches
  <2>4. AsksServer => engine'.kind = "serving" BY DEF AsksServer
  <2> QED BY <2>2, <2>3, <2>4
<1>4. CASE EndTurn
  <2>1. turn.by # None /\ turn'.by = None /\ UNCHANGED <<provider, engine, pending, op>>
    BY <1>4, EndSteps DEF NoTurn
  <2> QED BY <2>1 DEF None
<1>5. ASSUME NEW p \in Slots, ComesUp(p) \/ DiesAtBind(p) \/ DiesAnytime(p) \/ Wedges(p)
      PROVE  Placed'
  BY <1>5, Ages
<1>6. ASSUME NEW p \in Slots, StrangerStarts(p) PROVE Placed' BY <1>6 DEF StrangerStarts, daemon
<1>7. CASE OtherOnCard \/ OllamaChanges BY <1>7 DEF OtherOnCard, OllamaChanges, Env, daemon
<1>8. CASE Crash
  <2>1. StartOf(model).at = "resolve" BY Begins DEF Typed
  <2>2. engine'.kind = "not_selected" /\ turn'.by = None BY <1>8, EngineFields DEF Crash, NoTurn
  <2> QED BY <1>8, <2>1, <2>2 DEF Crash, None
<1>9. CASE UNCHANGED vars BY <1>9 DEF vars
<1> QED BY <1>1, <1>2, <1>3, <1>4, <1>5, <1>6, <1>7, <1>8, <1>9 DEF Next, Daemon, Environment, Request

-----------------------------------------------------------------------------
(* The daemon's servers are in its hands *)

LEMMA NextOurs == ASSUME Typed, Placed, Ours, [Next]_vars PROVE Ours'
<1>0. procs \in [Slots -> {Gone} \cup Server] /\ Gone.st = "gone"
  BY ServerFields DEF Typed
<1>1. CASE Start
  <2>0. op \in StartRecord /\ op.at \in Early \cup Late /\ op.at # "idle"
    BY <1>1, StartSteps, StartFields
  <2>1. ~Child BY <2>0 DEF Placed, Child
  <2>2. CASE Continues
    <3>1. op'.at \in Late => op.at \in Late /\ op'.at # "resolve"
      BY <2>0, <2>2 DEF Continues, Early, Late
    <3>2. UNCHANGED <<procs, engine, model>> /\ ~Child' BY <2>1, <2>2 DEF Continues, Child
    <3>3. op.at \in Late => op'.at \in Late /\ op'.proc = op.proc /\ op'.for = op.for
      BY <2>2 DEF Continues
    <3>4. op'.at = "tools" /\ op'.reading = "measured" => procs[op.proc].gpu
      BY <2>2 DEF Continues
    <3>5. op'.proc = op.proc BY <2>2 DEF Continues
    <3> QED BY <2>1, <3>1, <3>2, <3>3, <3>4, <3>5 DEF Ours
  <2>3. CASE GivesUp
    <3>1. op'.at \notin Late /\ op'.at # "tools" BY <2>3, StartFields DEF GivesUp, Late
    <3>2. ~Child' BY <2>3, EngineFields DEF GivesUp, Child
    <3>3. \A p \in Slots : procs'[p].st # "gone" => procs'[p].owner # "us"
      <4>1. CASE op.at \in Early /\ UNCHANGED procs
        <5>1. op.at \notin Late BY <4>1 DEF Early, Late
        <5> QED BY <2>1, <4>1, <5>1 DEF Ours
      <4>2. CASE procs' = Killed(op.proc) BY <1>0, <2>1, <4>2, Kills DEF Ours
      <4> QED BY <2>3, <4>1, <4>2 DEF GivesUp
    <3> QED BY <3>1, <3>2, <3>3 DEF Ours
  <2>4. CASE Adopts
    <3>1. op.at \notin Late /\ op'.at \notin Late /\ op'.at # "tools"
      BY <2>4, StartFields DEF Adopts, Late
    <3>2. ~Child'
      <4>1. PICK p \in Listening, r \in Signals : engine' = Serving(p, TRUE, r)
        BY <2>4 DEF Adopts
      <4> QED BY <4>1 DEF Child, Serving
    <3> QED BY <2>1, <2>4, <3>1, <3>2 DEF Adopts, Ours
  <2>5. CASE Launches
    <3>1. PICK p \in Slots, t \in Server :
             /\ procs[p] = Gone /\ procs' = [procs EXCEPT ![p] = t]
             /\ t.st = "loading" /\ t.owner = "us" /\ t.model = op.for
             /\ op' \in StartRecord /\ op'.at = "poll" /\ op'.for = op.for /\ op'.proc = p
      BY <2>5 DEF Launches
    <3>2. op.at \notin Late /\ op'.at \in Late BY <2>5, <3>1 DEF Launches, Late
    <3>3. ~Child' BY <2>1, <2>5 DEF Launches, Child
    <3>4. procs'[p] = t /\ \A q \in Slots \ {p} : procs'[q] = procs[q] BY <1>0, <3>1
    <3> QED BY <2>1, <3>1, <3>2, <3>3, <3>4 DEF Ours
  <2>6. CASE Serves
    <3>1. op.at \in Late /\ op.at = "tools" BY <2>6 DEF Serves, Late
    <3>2. op'.at \notin Late /\ op'.at # "tools" BY <2>6, StartFields DEF Serves, Late
    <3>3. /\ engine'.kind = "serving" /\ engine'.proc = op.proc /\ engine'.adopted = FALSE
          /\ engine'.reading = op.reading
      BY <2>6 DEF Serves, Serving
    <3>4. UNCHANGED procs /\ model' = op.for BY <2>6 DEF Serves
    <3> QED BY <2>1, <3>1, <3>2, <3>3, <3>4 DEF Ours, Child
  <2> QED BY <1>1, <2>2, <2>3, <2>4, <2>5, <2>6, StartSteps
<1>2. CASE Request
  <2>1. Requested BY <1>2, RequestSteps
  <2>2. op.at = "idle" /\ op.at \notin Late BY <2>1 DEF Requested, Late
  <2>3. CASE engine' = NotSelected
    <3>1. ~Child' BY <2>3 DEF Child, NotSelected
    <3>2. op'.at \notin Late /\ op'.at # "tools" BY <2>1, <2>2, <2>3 DEF Requested, Late
    <3>3. \A p \in Slots : procs'[p].st # "gone" => procs'[p].owner # "us"
      <4>1. CASE Child /\ procs' = Killed(engine.proc) BY <1>0, <2>2, <4>1, Kills DEF Ours
      <4>2. CASE ~Child /\ procs' = procs BY <2>2, <4>2 DEF Ours
      <4>3. CASE UNCHANGED <<model, engine, op, procs>>
        <5>1. ~Child BY <2>3, <4>3 DEF Child, NotSelected
        <5> QED BY <2>2, <4>3, <5>1 DEF Ours
      <4>4. CASE provider = "ollama" /\ UNCHANGED <<engine, op, procs>>
        <5>1. ~Child BY <2>3, <4>4 DEF Child, NotSelected
        <5> QED BY <2>2, <4>4, <5>1 DEF Ours
      <4> QED BY <2>1, <4>1, <4>2, <4>3, <4>4 DEF Requested
    <3> QED BY <3>1, <3>2, <3>3 DEF Ours
  <2>4. CASE UNCHANGED <<model, engine, op, procs>> BY <2>4 DEF Ours, Child
  <2>5. CASE provider = "ollama" /\ UNCHANGED <<engine, op, procs>>
    <3>1. ~Child /\ ~Child' BY <2>5 DEF Placed, Child
    <3> QED BY <2>2, <2>5, <3>1 DEF Ours
  <2> QED BY <2>1, <2>3, <2>4, <2>5 DEF Requested
<1>3. CASE BeginTurn
  <2>1. op.at = "idle" /\ op.at \notin Late /\ UNCHANGED <<model, op>> BY <1>3, TurnSteps DEF Late
  <2>2. CASE UNCHANGED <<procs, engine>> BY <2>1, <2>2 DEF Ours, Child
  <2>3. CASE Latches
    <3>1. ~Child' BY <2>3, EngineFields DEF Latches, Child
    <3>2. \A p \in Slots : procs'[p].st # "gone" => procs'[p].owner # "us"
      <4>1. CASE Child /\ procs' = Killed(engine.proc) BY <1>0, <2>1, <4>1, Kills DEF Ours
      <4>2. CASE ~Child /\ procs' = procs BY <2>1, <4>2 DEF Ours
      <4> QED BY <2>3, <4>1, <4>2 DEF Latches
    <3> QED BY <2>1, <3>1, <3>2 DEF Ours
  <2> QED BY <1>3, <2>2, <2>3, TurnSteps DEF Elsewhere, AsksServer
<1>4. CASE EndTurn
  <2>1. UNCHANGED <<procs, model, engine, op>> BY <1>4, EndSteps
  <2> QED BY <2>1 DEF Ours, Child
<1>5. ASSUME NEW p \in Slots, ComesUp(p) \/ DiesAtBind(p) \/ DiesAnytime(p) \/ Wedges(p)
      PROVE  Ours'
  <2>1. UNCHANGED <<model, engine, op>> BY <1>5, Ages
  <2>2. \A q \in Slots \ {p} : procs'[q] = procs[q] BY <1>5, Ages
  <2>3. \/ procs'[p] = Gone /\ procs[p].owner # "us"
        \/ /\ procs'[p].st # "gone" /\ procs[p].st # "gone" /\ procs[p].st # "exited"
           /\ procs'[p].owner = procs[p].owner /\ procs'[p].model = procs[p].model
           /\ procs'[p].gpu = procs[p].gpu /\ procs'[p].bound = procs[p].bound
    BY <1>5, Ages, ServerFields
  <2>4. Child => engine.proc \in Slots BY EngineFields DEF Typed, Child
  <2> QED BY <1>0, <2>1, <2>2, <2>3, <2>4 DEF Ours, Child, Late
<1>6. ASSUME NEW p \in Slots, StrangerStarts(p) PROVE Ours'
  <2>1. PICK t \in Server : procs' = [procs EXCEPT ![p] = t] /\ t.owner = "other"
    BY <1>6, StrangerJoins
  <2>2. procs[p].st = "gone" /\ UNCHANGED <<model, engine, op>>
    BY <1>0, <1>6 DEF StrangerStarts, daemon
  <2>3. procs'[p].owner = "other" /\ \A q \in Slots \ {p} : procs'[q] = procs[q] BY <1>0, <2>1
  <2>4. Child => engine.proc \in Slots \ {p} BY <2>2, EngineFields DEF Typed, Child, Ours
  <2>5. op.at \in Late => op.proc \in Slots \ {p} BY <2>2 DEF Ours
  <2> QED BY <2>2, <2>3, <2>4, <2>5 DEF Ours, Child, Late
<1>7. CASE OtherOnCard \/ OllamaChanges
  <2>1. UNCHANGED <<procs, model, engine, op>>
    BY <1>7 DEF OtherOnCard, OllamaChanges, Env, daemon
  <2> QED BY <2>1 DEF Ours, Child
<1>8. CASE Crash
  <2>1. op'.at = "resolve" BY <1>8, Begins DEF Crash, Typed
  <2>2. ~Child' BY <1>8 DEF Crash, Child, NotSelected
  <2>3. op'.at \notin Late /\ op'.at # "tools" BY <2>1 DEF Late
  <2> QED BY <1>8, <2>2, <2>3, CrashTable DEF Ours
<1>9. CASE UNCHANGED vars
  <2>1. UNCHANGED <<procs, model, engine, op>> BY <1>9 DEF vars
  <2> QED BY <2>1 DEF Ours, Child
<1> QED BY <1>1, <1>2, <1>3, <1>4, <1>5, <1>6, <1>7, <1>8, <1>9 DEF Next, Daemon, Environment, Request

-----------------------------------------------------------------------------
(* What a serving engine misses is counted *)

LEMMA ProbeReady ==
    ASSUME NEW p \in Listening, Usable(p)
    PROVE  p \in Slots /\ procs[p].st = "ready" /\ procs[p].bound
BY DEF Listening, Usable

LEMMA NextCounted == ASSUME Typed, Placed, Counted, [Next]_vars PROVE Counted'
<1>0. procs \in [Slots -> {Gone} \cup Server] /\ Gone.st = "gone" /\ missed \in Nat
  BY ServerFields DEF Typed
<1>1. CASE missed' = 0 BY <1>1 DEF Counted
<1>2. CASE Start
  <2>1. missed = 0 BY <1>2, StartSteps, StartFields DEF Placed
  <2>2. missed' = missed BY <1>2, StartSteps DEF Continues, GivesUp, Adopts, Launches, Serves
  <2> QED BY <1>1, <2>1, <2>2
<1>3. CASE Request BY <1>1, <1>3, RequestSteps DEF Requested
<1>4. CASE BeginTurn
  <2>1. CASE Elsewhere
    <3>1. turn'.by # "llama" /\ UNCHANGED <<procs, engine>> BY <2>1 DEF Elsewhere, None
    <3>2. missed' = missed \/ missed' = 0 BY <2>1 DEF Elsewhere
    <3> QED BY <1>1, <3>1, <3>2 DEF Counted
  <2>2. CASE AsksServer
    <3>1. missed = 0 BY <1>0, <2>2, ProbeReady DEF AsksServer, Counted
    <3> QED BY <1>1, <2>2, <3>1 DEF AsksServer
  <2>3. CASE Latches
    <3>1. missed <= 1 BY <1>0, <2>3 DEF Latches, Counted
    <3>2. engine'.kind = "fell_back" BY <2>3, EngineFields DEF Latches
    <3>3. missed' <= 2 BY <1>0, <2>3, <3>1 DEF Latches
    <3> QED BY <3>2, <3>3 DEF Counted
  <2> QED BY <1>4, <2>1, <2>2, <2>3, TurnSteps
<1>5. CASE EndTurn
  <2>1. turn'.by = None /\ UNCHANGED <<procs, engine>> BY <1>5, EndSteps DEF NoTurn
  <2>2. CASE NobodyReady
    <3>1. missed = 0 BY <1>0, <2>2 DEF NobodyReady, Placed, Counted
    <3>2. missed' = 0 \/ (missed' = 1 /\ \A p \in Listening : procs[p].st # "ready")
      BY <2>2, <3>1 DEF NobodyReady
    <3>3. CASE missed' = 1 /\ \A p \in Listening : procs[p].st # "ready"
      <4>1. \A p \in Slots : ~(procs[p].st = "ready" /\ procs[p].bound)
        BY <3>3 DEF Listening, Alive
      <4> QED BY <2>1, <3>3, <4>1 DEF Counted, None
    <3> QED BY <1>1, <3>2, <3>3
  <2> QED BY <1>1, <1>5, <2>2, EndSteps DEF AnsweredByServer, AnsweredElsewhere
<1>6. ASSUME NEW p \in Slots, ComesUp(p) \/ DiesAtBind(p) \/ DiesAnytime(p) \/ Wedges(p)
      PROVE  Counted'
  <2>1. UNCHANGED <<engine, turn>> /\ \A q \in Slots \ {p} : procs'[q] = procs[q]
    BY <1>6, Ages
  <2>2. CASE missed' = missed /\ procs'[p].st # "ready" BY <2>1, <2>2 DEF Counted
  <2> QED BY <1>1, <1>6, <2>2, Ages
<1>7. ASSUME NEW p \in Slots, StrangerStarts(p) PROVE Counted' BY <1>1, <1>7 DEF StrangerStarts
<1>8. CASE OtherOnCard \/ OllamaChanges
  <2>1. UNCHANGED <<procs, engine, turn, missed>>
    BY <1>8 DEF OtherOnCard, OllamaChanges, Env, daemon
  <2> QED BY <2>1 DEF Counted
<1>9. CASE Crash BY <1>1, <1>9 DEF Crash
<1>10. CASE UNCHANGED vars BY <1>10 DEF vars, Counted
<1> QED BY <1>2, <1>3, <1>4, <1>5, <1>6, <1>7, <1>8, <1>9, <1>10
        DEF Next, Daemon, Environment, Request

LEMMA NextInv == ASSUME Inv, [Next]_vars PROVE Inv'
BY NextTyped, NextPlaced, NextOurs, NextCounted DEF Inv

-----------------------------------------------------------------------------
(* What follows *)

LEMMA AnswersStay ==
    ASSUME Inv, OwnAnswersAreNamed, [Next]_vars
    PROVE  OwnAnswersAreNamed'
<1> USE DEF OwnAnswersAreNamed
<1>1. CASE answer' = answer BY <1>1
<1>2. CASE answer'.by # "llama" BY <1>2
<1>3. NoAnswer.by # "llama" BY DEF NoAnswer, None
<1>4. CASE Start BY <1>1, <1>4, StartSteps DEF Inv, Continues, GivesUp, Adopts, Launches, Serves
<1>5. CASE Request BY <1>1, <1>2, <1>3, <1>5, RequestSteps DEF Inv, Requested
<1>6. CASE BeginTurn BY <1>2, <1>3, <1>6, TurnSteps DEF Inv
<1>7. CASE EndTurn
  <2>1. CASE AnsweredByServer
    <3>1. PICK p \in Listening :
            answer' = [by |-> "llama", own |-> Held = {p} /\ ~engine.adopted,
                       model |-> procs[p].model, named |-> model, gpu |-> procs[p].gpu,
                       reading |-> IF engine.kind = "serving" THEN engine.reading ELSE None]
      BY <2>1 DEF AnsweredByServer
    <3>2. /\ answer'.own <=> (Held = {p} /\ ~engine.adopted)
          /\ answer'.reading = "measured" => engine.reading = "measured"
          /\ answer'.model = procs[p].model /\ answer'.named = model /\ answer'.gpu = procs[p].gpu
      BY <3>1 DEF None
    <3>3. SUFFICES ASSUME Held = {p}, ~engine.adopted
                   PROVE  /\ procs[p].model = model
                          /\ engine.reading = "measured" => procs[p].gpu
      BY <3>2
    <3>4. Child /\ engine.proc = p BY <3>3 DEF Held, Child
    <3> QED BY <3>4 DEF Inv, Ours
  <2>2. CASE NobodyReady BY <1>1, <2>2 DEF NobodyReady
  <2>3. CASE AnsweredElsewhere BY <1>1, <1>2, <2>3 DEF AnsweredElsewhere
  <2> QED BY <1>7, <2>1, <2>2, <2>3, EndSteps DEF Inv
<1>8. ASSUME NEW p \in Slots, ComesUp(p) \/ DiesAtBind(p) \/ DiesAnytime(p) \/ Wedges(p)
      PROVE  OwnAnswersAreNamed'
  BY <1>1, <1>8, Ages DEF Inv
<1>9. ASSUME NEW p \in Slots, StrangerStarts(p) PROVE OwnAnswersAreNamed'
  BY <1>1, <1>9 DEF StrangerStarts
<1>10. CASE OtherOnCard \/ OllamaChanges BY <1>1, <1>10 DEF OtherOnCard, OllamaChanges, Env
<1>11. CASE Crash BY <1>2, <1>3, <1>11 DEF Crash
<1>12. CASE UNCHANGED vars BY <1>1, <1>12 DEF vars
<1> QED BY <1>4, <1>5, <1>6, <1>7, <1>8, <1>9, <1>10, <1>11, <1>12
        DEF Next, Daemon, Environment, Request

(* For any servers that die, wedge or are replaced, any that listen beside the daemon's own,
   and any switching between models and providers: while one at most listens and none comes
   up, two turns at most go unanswered in a row while Ollama can serve (the latch of
   `select`); and whoever listens, an answer of the daemon's own server is of the model it
   names, and from the GPU where it was timed with nobody else to answer for it. *)
THEOREM TurnsAnsweredAsNamed == Spec => []AnsweredAsNamed
<1>1. Init => OwnAnswersAreNamed BY DEF Init, OwnAnswersAreNamed, NoAnswer, None
<1>2. Inv /\ OwnAnswersAreNamed => AnsweredAsNamed
  BY DEF Inv, Counted, AnsweredAsNamed, FallbackAnswers
<1> QED BY InvStart, NextInv, AnswersStay, <1>1, <1>2, PTL DEF Spec

StrangersAreLeft ==
    Daemon => \A p \in Slots : procs[p].st # "gone" /\ procs[p].owner # "us" => procs'[p] = procs[p]

LEMMA DaemonSteps == ASSUME Inv, Daemon PROVE StrangersAreLeft
<1> SUFFICES ASSUME NEW p \in Slots, procs[p].st # "gone", procs[p].owner # "us"
             PROVE  procs'[p] = procs[p]
  BY DEF StrangersAreLeft
<1> USE DEF Inv
<1>0. procs \in [Slots -> {Gone} \cup Server] /\ Gone.st = "gone" BY ServerFields DEF Typed
<1>1. CASE procs' = procs BY <1>1
<1>2. CASE Child /\ procs' = Killed(engine.proc) BY <1>2, Kills DEF Ours
<1>3. CASE op.at \in Late /\ procs' = Killed(op.proc) BY <1>3, Kills DEF Ours
<1>4. CASE Start
  <2>1. CASE Launches
    <3>1. PICK q \in Slots, t \in Server : procs[q] = Gone /\ procs' = [procs EXCEPT ![q] = t]
      BY <2>1 DEF Launches
    <3> QED BY <1>0, <3>1
  <2> QED BY <1>1, <1>3, <1>4, <2>1, StartSteps DEF Continues, GivesUp, Adopts, Serves
<1>5. CASE Request BY <1>1, <1>2, <1>5, RequestSteps DEF Requested
<1>6. CASE BeginTurn BY <1>1, <1>2, <1>6, TurnSteps DEF Elsewhere, AsksServer, Latches
<1>7. CASE EndTurn BY <1>1, <1>7, EndSteps
<1> QED BY <1>4, <1>5, <1>6, <1>7 DEF Daemon, Request

(* For any crashes, strangers and switches: every server the daemon started is held by its
   engine or by the start in progress until it is stopped (`Drop for SupervisedServer`), and
   no step of the daemon ends or changes a server that is not its own. *)
THEOREM EveryServerAccountedFor == Spec => ServersAccountedFor
<1>1. Inv => NoServerForgotten
  BY DEF Inv, Ours, Child, NoServerForgotten, Held, Late
<1>2. Inv /\ [Next]_vars =>
        [Daemon => \A p \in Slots : procs[p].st # "gone" /\ procs[p].owner # "us" =>
                        procs'[p] = procs[p]]_vars
  BY DaemonSteps DEF StrangersAreLeft
<1> QED BY InvStart, NextInv, <1>1, <1>2, PTL DEF Spec, ServersAccountedFor

=============================================================================
