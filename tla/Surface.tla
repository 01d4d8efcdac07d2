------------------------------ MODULE Surface -------------------------------
(***************************************************************************)
(* The terminal surface and the daemon's main port.                         *)
(*                                                                          *)
(* One thread draws and reads keys.  Each turn of its loop ticks the        *)
(* session, waits for keys, hands the requests they made to the session one *)
(* at a time, ticks again and draws.  A message starts a thread of its own  *)
(* that holds one connection and answers the daemon's questions with what   *)
(* the drawing thread hands over, on a channel that holds nothing.  The     *)
(* daemon serves one connection at a time, in the order they came.          *)
(***************************************************************************)
EXTENDS Composer, FiniteSets

CONSTANTS
    Models,         \* the options of the model picker
    MaxSends,       \* messages sent
    MaxPrompts,     \* questions asked
    MaxBursts,      \* bursts of keys, the editing of the first message aside
    MaxInput,       \* pieces in the field while the first message is written
    MaxPastes,      \* pastes in it
    MaxFaults,      \* refusals, failed turns and the daemon's death
    Bursts,         \* the bursts of keys a person may press
    Edits           \* and the ones that write the first message

(* The bound on messages is a number: they are counted from one *)
ASSUME SurfaceAssumption == MaxSends \in Nat

(* What comes in one read is a sequence of keys *)
Pressable == Letters \cup Commands \cup Bodies
             \cup {"sp", "bs", "cbs", "enter", "esc", "all", "clear", "copy", "click"}
ASSUME KeysAssumption == Bursts \cup Edits \subseteq Seq(Pressable)

Turns == 1..MaxSends
Call == 0               \* in the line: the drawing thread's own connection
Stop == MaxSends + 1    \* and the one a closing window opens
None == <<0, 0>>
Text == Letters \cup {"enter"}

VARIABLES
    ui,         \* the drawing thread: [at, keys, todo, inbox, answer, gave, reason, armed]
    field,      \* the message field
    meant,      \* what the person wrote, and whether a chip was broken
    view,       \* the session's view: [band, window, model]
    drawn,      \* the window on the screen
    turn,       \* a message's thread, its channel and its connection
    call,       \* the drawing thread's own connection: [at, id, down]
    line,       \* connections waiting to be served: [who, want, id]
    daemon,     \* [up, at, turn, asked, model]
    ran,        \* of the messages the daemon ran: whether each was what the person meant
    acted,      \* grants the daemon acted on
    late,       \* some read waited its ten minutes out
    doubled,    \* two answers were pressed in one burst
    sends, bursts, prompts, faults

surfaceVars == <<ui, field, meant, view, drawn, turn, call, line, daemon, ran, acted,
          sends, bursts, prompts, faults, late, doubled>>
person == <<field, meant, bursts, doubled>>
daemonVars == <<line, daemon, ran, acted, prompts>>

Entry(who, want) == [who |-> who, want |-> want, id |-> IF who = Call THEN call.id + 1 ELSE 0]

(* shut: the daemon closed the connection; q: the question being answered *)
NewTurn == [at |-> "none", whole |-> FALSE, chan |-> <<>>, down |-> <<>>, up |-> <<>>,
            shut |-> FALSE, q |-> 0, end |-> "none"]

SurfaceInit ==
    /\ ui = [at |-> "top", keys |-> <<>>, todo |-> <<>>, inbox |-> 0, answer |-> 0, gave |-> <<>>, reason |-> FALSE,
             armed |-> FALSE]
    /\ field = Blank
    /\ meant = [text |-> <<>>, broken |-> FALSE]
    /\ view = [band |-> "idle", window |-> None, model |-> CHOOSE m \in Models : TRUE]
    /\ daemon = [up |-> TRUE, at |-> "idle", turn |-> 0, asked |-> 0, model |-> view.model]
    /\ drawn = None
    /\ turn = [w \in Turns |-> NewTurn]
    /\ call = [at |-> "none", id |-> 0, down |-> <<>>]
    /\ line = <<>>
    /\ ran = {} /\ acted = {}
    /\ sends = 0 /\ bursts = 0 /\ prompts = 0 /\ faults = 0 /\ late = FALSE /\ doubled = FALSE

-----------------------------------------------------------------------------
(* The session takes what the current message's thread has sent *)

(* mutant: a question raises the window when it is announced *)
RaisesAnnounced(e) == e.k = "approval"

(* The window is the last question's that the daemon waits with *)
Raises(e) == e.k = "approval" /\ e.d # 0
Raised(window, chan) ==
    LET questions == {i \in DOMAIN chan : Raises(chan[i])}
    IN  IF questions = {} THEN window
        ELSE LET e == chan[Max(questions)] IN <<e.w, e.d>>

ApplyEvent(band, e) ==
    CASE e.k = "approval" /\ e.d # 0 -> "waiting"
      [] e.k = "done" -> "idle"
      [] OTHER -> band

Tick(u, v) ==
    IF u.inbox = 0 THEN [u |-> u, v |-> v]
    ELSE LET t == turn[u.inbox]
         IN  [u |-> IF t.at = "ended" THEN [u EXCEPT !.inbox = 0] ELSE u,
              v |-> [v EXCEPT !.band = FoldLeft(ApplyEvent, @, t.chan),
                              !.window = Raised(@, t.chan)]]

Drained == IF ui.inbox = 0 THEN turn ELSE [turn EXCEPT ![ui.inbox].chan = <<>>]

-----------------------------------------------------------------------------
(* Keys.  A key sees the view of the tick before the wait, which is not yet
   drawn, whatever the keys before it in the same burst have asked for. *)

(* What one key leaves: the field, what is meant, the open reason, the
   requests so far, whether the program was told to quit *)
Hand(v) == [v |-> v, f |-> field, m |-> meant, reason |-> ui.reason, armed |-> ui.armed,
            out |-> ui.todo, quit |-> FALSE]

Asks(h, i) == [h EXCEPT !.out = Append(@, i)]
Answers(h, g) == Asks(h, [k |-> "approve", granted |-> g, window |-> h.v.window])

OnPendingApprovalKey(h, key) ==
    IF h.reason
    THEN CASE key = "enter" -> Answers([h EXCEPT !.reason = FALSE], FALSE)
           [] key = "esc" -> [h EXCEPT !.reason = FALSE]
           [] OTHER -> h
    ELSE CASE key = "y" -> Answers(h, TRUE)
           [] key \in {"n", "esc"} -> Answers(h, FALSE)
           [] key = "o" -> [h EXCEPT !.reason = TRUE]
           [] OTHER -> h

Edit(h, f, k, b) ==
    [h EXCEPT !.f = f,
              !.m.text = Means(h.f, @, k, b),
              !.m.broken = @ \/ (k = "cbs" /\ EndsIn(f.input, "wreck"))]

RunCommand(h, c) ==
    CASE c = "/runs" -> Asks(h, [k |-> "runs"])
      [] c = "/quit" -> [h EXCEPT !.quit = TRUE]
      [] c \in Models -> Asks(h, [k |-> "select", model |-> c])
      [] OTHER -> h

Submit(h) ==
    LET text == Submitted(h.f)
        clean == [h EXCEPT !.f.input = <<>>, !.f.pastes = <<>>, !.m.text = <<>>, !.m.broken = FALSE]
    IN  IF text = <<>> THEN clean
        ELSE IF Head(text).k = "cmd" THEN RunCommand(clean, Head(text).b)
        ELSE Asks(clean, [k |-> "send", whole |-> h.m.broken \/ text = Trim(h.m.text)])

OnTextKey(h, key) ==
    CASE key \in Letters -> Edit(h, Insert(h.f, Letter), "insert", Letter)
      [] key = "sp" -> Edit(h, Insert(h.f, Space), "insert", Space)
      [] key \in Commands -> Edit(h, Insert(h.f, Atom("cmd", 0, key)), "insert", Atom("cmd", 0, key))
      [] key = "bs" -> Edit(h, Backspace(h.f), "bs", None)
      [] key = "cbs" -> Edit(h, CtrlBackspace(h.f), "cbs", None)
      [] key = "enter" -> Submit(h)
      [] OTHER -> h

OnGlobalCtrl(h, key) ==
    CASE key = "all" -> [h EXCEPT !.f = SelectAll(@)]
      [] key = "clear" -> Edit(h, ClearInput(h.f), "clear", None)
      [] key = "copy" ->
           IF h.f.all THEN [h EXCEPT !.f = CopySelection(@)]
           ELSE IF h.f.input # <<>> THEN h
           ELSE IF h.armed THEN [h EXCEPT !.quit = TRUE] ELSE [h EXCEPT !.armed = TRUE]
      [] OTHER -> h

OnKey(h, key) ==
    IF h.v.window # None THEN OnPendingApprovalKey(h, key)
    ELSE IF key = "copy" THEN OnGlobalCtrl(h, key)
    ELSE LET disarmed == [h EXCEPT !.armed = FALSE]
         IN  IF key \in {"all", "clear"} THEN OnGlobalCtrl(disarmed, key) ELSE OnTextKey(disarmed, key)

(* A click on an open picker goes past the window *)
OnClick(h) ==
    LET others == Models \ {h.v.model}
    IN  IF others = {} THEN h ELSE Asks(h, [k |-> "select", model |-> CHOOSE m \in others : TRUE])

HandleKey(h, key) ==
    IF key \in Bodies THEN Edit(h, Paste(h.f, key), "paste", key)
    ELSE IF key = "click" THEN OnClick(h) ELSE OnKey(h, key)

(* A burst of text that holds a newline is a paste: the keys never reach OnKey *)
IsPaste(keys) == Len(keys) > 1 /\ Range(keys) \subseteq Text /\ "enter" \in Range(keys)

PasteBurst(h, keys) ==
    LET text == [i \in DOMAIN keys |-> IF keys[i] = "enter" THEN Space ELSE Letter]
    IN  [h EXCEPT !.f.input = @ \o text, !.m.text = @ \o text]

ReadBurst(h, keys) == IF IsPaste(keys) THEN PasteBurst(h, keys) ELSE HandleKey(h, Head(keys))
Unread(keys) == IF IsPaste(keys) THEN <<>> ELSE Tail(keys)

Twice(out) == \E i, j \in DOMAIN out : i # j /\ out[i].k = "approve" /\ out[j].k = "approve"

(* The loop with no key in it: two ticks and a drawing *)
Idle ==
    /\ ui.at = "top"
    /\ ui' = Tick(ui, view).u /\ view' = Tick(ui, view).v /\ drawn' = view'.window
    /\ turn' = Drained
    /\ UNCHANGED <<person, call, daemonVars, sends, faults, late>>

(* Nothing has been asked for and nothing has gone wrong: editing touches only
   the field, so it is explored here and nowhere else *)
Fresh == bursts = 0 /\ faults = 0

(* One key of a burst.  Quitting drops what was asked for; a busy window leaves
   the daemon running, an idle one tells it to stop. *)
Handled(u, h, unread) ==
    /\ field' = h.f /\ meant' = h.m
    /\ doubled' = (doubled \/ Twice(h.out))
    /\ IF h.quit
       THEN /\ ui' = [u EXCEPT !.at = "gone", !.keys = <<>>, !.todo = <<>>, !.reason = FALSE]
            /\ line' = IF u.inbox = 0 /\ daemon.up THEN Append(line, Entry(Stop, "stop")) ELSE line
       ELSE /\ ui' = [u EXCEPT !.at = IF unread = <<>> THEN "draw" ELSE "keys", !.keys = unread,
                              !.todo = h.out, !.reason = h.reason, !.armed = h.armed]
            /\ UNCHANGED line

(* The messages a burst may still send are within the bound *)
Sending(out) == Cardinality({i \in DOMAIN out : out[i].k = "send"})
Room(h, unread) ==
    sends + Sending(h.out) + (IF "enter" \in Range(unread) /\ h.v.window = None THEN 1 ELSE 0) =< MaxSends

(* A burst of keys has come: the first of them, or all as one paste *)
PressKeys ==
    /\ ui.at = "top" /\ bursts < MaxBursts
    /\ view' = Tick(ui, view).v
    /\ turn' = Drained
    /\ \E keys \in IF Fresh THEN Bursts \cup Edits ELSE Bursts :
        LET u == Tick(ui, view).u
            h == ReadBurst(Hand(view'), keys)
            editing == Fresh /\ h.out = <<>> /\ Unread(keys) = <<>>
        IN  /\ Len(h.f.input) =< IF Fresh /\ h.out = <<>> THEN MaxInput ELSE 1
            /\ Len(h.f.pastes) =< MaxPastes
            /\ Room(h, Unread(keys))
            /\ bursts' = IF editing THEN bursts ELSE bursts + 1
            /\ Handled(u, h, Unread(keys))
    /\ UNCHANGED <<drawn, call, daemon, ran, acted, prompts, sends, faults, late>>

(* ... and the others, with no tick and no drawing between them *)
HandleNext ==
    /\ ui.at = "keys"
    /\ Handled(ui, HandleKey(Hand(view), Head(ui.keys)), Tail(ui.keys))
    /\ UNCHANGED <<view, drawn, turn, call, daemon, ran, acted, bursts, prompts, sends, faults, late>>

-----------------------------------------------------------------------------
(* The session: one request at a time *)

Doing(k) == ui.at = "draw" /\ ui.todo # <<>> /\ Head(ui.todo).k = k
Done(u) == [u EXCEPT !.todo = Tail(@)]

(* A new message takes over the channels of the one before it *)
Send ==
    /\ Doing("send") /\ sends < MaxSends
    /\ sends' = sends + 1
    /\ turn' = [turn EXCEPT ![sends'].at = "new", ![sends'].whole = Head(ui.todo).whole]
    /\ view' = [view EXCEPT !.band = "thinking"]
    /\ ui' = [Done(ui) EXCEPT !.inbox = sends', !.answer = sends']
    /\ UNCHANGED <<person, drawn, call, daemonVars, faults, late>>

(* The answer is handed over, or nobody is there to take it *)
Approve ==
    /\ Doing("approve")
    /\ IF ui.answer = 0 THEN ui' = Done(ui) /\ UNCHANGED view
       ELSE /\ ui' = [Done(ui) EXCEPT !.at = "give", !.gave = <<Head(ui.todo)>>]
            /\ view' = [view EXCEPT !.window = None, !.band = "thinking"]
    /\ UNCHANGED <<person, drawn, turn, call, daemonVars, sends, faults, late>>

Given ==
    /\ ui.at = "give" /\ turn[ui.answer].at = "ended"
    /\ ui' = [ui EXCEPT !.at = "draw", !.gave = <<>>]
    /\ UNCHANGED <<person, view, drawn, turn, call, daemonVars, sends, faults, late>>

(* On the main port the drawing thread waits behind whatever is being served *)
OnMainPort(want) ==
    IF daemon.up
    THEN /\ call' = [at |-> "open", id |-> call.id + 1, down |-> <<>>]
         /\ line' = Append(line, Entry(Call, want))
         /\ ui' = [Done(ui) EXCEPT !.at = "wait"]
    ELSE ui' = Done(ui) /\ UNCHANGED <<call, line>>

Select ==
    /\ Doing("select")
    /\ IF Head(ui.todo).model = view.model THEN ui' = Done(ui) /\ UNCHANGED <<call, line>>
       ELSE OnMainPort(Head(ui.todo).model)
    /\ UNCHANGED <<person, view, drawn, turn, daemon, ran, acted, prompts, sends, faults, late>>

(* /runs goes to the control port, or to the main port when there is none *)
Runs ==
    /\ Doing("runs")
    /\ \/ daemon.up /\ ui' = Done(ui) /\ UNCHANGED <<call, line>>
       \/ OnMainPort("runs")
    /\ UNCHANGED <<person, view, drawn, turn, daemon, ran, acted, prompts, sends, faults, late>>

(* The reply is read to the end of the stream, then projected *)
Reply ==
    /\ ui.at = "wait" /\ call.at = "shut"
    /\ view' = IF call.down = <<>> THEN view ELSE [view EXCEPT !.model = Head(call.down)]
    /\ ui' = [ui EXCEPT !.at = "draw"]
    /\ call' = [call EXCEPT !.at = "none", !.down = <<>>]
    /\ UNCHANGED <<person, drawn, turn, daemonVars, sends, faults, late>>

(* Ten minutes without a byte; the request stays in the line *)
CallTimesOut ==
    /\ ui.at = "wait" /\ call.at = "open"
    /\ ui' = [ui EXCEPT !.at = "draw"]
    /\ call' = [call EXCEPT !.at = "none"]
    /\ late' = TRUE
    /\ UNCHANGED <<person, view, drawn, turn, daemonVars, sends, faults>>

(* The end of the loop: all requests handed over, tick and draw *)
TickAndDraw ==
    /\ ui.at = "draw" /\ ui.todo = <<>>
    /\ LET r == Tick(ui, view)
       IN  ui' = [r.u EXCEPT !.at = "top"] /\ view' = r.v /\ drawn' = r.v.window
    /\ turn' = Drained
    /\ UNCHANGED <<person, call, daemonVars, sends, faults, late>>

-----------------------------------------------------------------------------
(* A message's thread *)

Emit(t, e) == [t EXCEPT !.chan = Append(@, e)]
Failed(t) == [Emit(t, [k |-> "error", w |-> 0, d |-> 0]) EXCEPT !.at = "ended", !.end = "error"]

Worker(w, t) ==
    /\ ui.at # "gone"
    /\ turn' = [turn EXCEPT ![w] = t]
    /\ UNCHANGED <<person, view, drawn, call, daemon, ran, acted, prompts, sends>>

Connect(w) ==
    /\ turn[w].at = "new"
    /\ IF daemon.up THEN line' = Append(line, Entry(w, "ask")) /\ Worker(w, [turn[w] EXCEPT !.at = "read"])
       ELSE UNCHANGED line /\ Worker(w, Failed(turn[w]))
    /\ UNCHANGED <<ui, faults, late>>

(* Every event is passed on; a question also stops the reading *)
ReadLine(w) ==
    /\ turn[w].at = "read" /\ turn[w].down # <<>>
    /\ LET e == Head(turn[w].down)
           t == [Emit(turn[w], e) EXCEPT !.down = Tail(@)]
       IN  Worker(w, IF e.k = "approval" /\ e.d # 0 THEN [t EXCEPT !.at = "ask", !.q = e.d]
                     ELSE IF e.k \in {"done", "error"} THEN [t EXCEPT !.end = e.k] ELSE t)
    /\ UNCHANGED <<ui, line, faults, late>>

(* The stream's end is the turn's end, whatever came before it *)
ReadEnd(w) ==
    /\ turn[w].at = "read" /\ turn[w].down = <<>> /\ turn[w].shut
    /\ Worker(w, [turn[w] EXCEPT !.at = "ended"])
    /\ UNCHANGED <<ui, line, faults, late>>

ReadTimesOut(w) ==
    /\ turn[w].at = "read" /\ turn[w].down = <<>> /\ ~turn[w].shut
    /\ late' = TRUE
    /\ Worker(w, Failed(turn[w]))
    /\ UNCHANGED <<ui, line, faults>>

(* The answer names the question this thread is reading; a connection that is
   gone may or may not say so *)
Replied(t, a) ==
    LET r == [t EXCEPT !.at = "read", !.q = 0, !.up = Append(@, [d |-> t.q, a |-> a])]
    IN  IF t.shut THEN {r, Failed(t)} ELSE {r}

Denied == [k |-> "approve", granted |-> FALSE, window |-> None]

(* mutant: the thread of a message that was taken over waits on *)
DecideForever(w) ==
    /\ ui.at = "give" /\ ui.answer = w
    /\ ui' = [ui EXCEPT !.at = "draw", !.gave = <<>>]
    /\ \E t \in Replied(turn[w], Head(ui.gave)) : Worker(w, t)

(* The drawing thread hands an answer over, or let go of the channel *)
Decide(w) ==
    \/ /\ ui.at = "give" /\ ui.answer = w
       /\ ui' = [ui EXCEPT !.at = "draw", !.gave = <<>>]
       /\ \E t \in Replied(turn[w], Head(ui.gave)) : Worker(w, t)
    \/ /\ ui.answer # w
       /\ UNCHANGED ui
       /\ \E t \in Replied(turn[w], Denied) : Worker(w, t)

Answer(w) ==
    /\ turn[w].at = "ask"
    /\ Decide(w)
    /\ UNCHANGED <<line, faults, late>>

-----------------------------------------------------------------------------
(* The daemon *)

Gone(w) == ui.at = "gone" \/ turn[w].at = "ended"

Surfaces == <<ui, person, view, drawn, sends, late>>

(* A request is read from its connection even when its sender has gone *)
ServeTurn ==
    /\ daemon.up /\ daemon.at = "idle" /\ line # <<>> /\ Head(line).who \in Turns
    /\ line' = Tail(line)
    /\ daemon' = [daemon EXCEPT !.at = "run", !.turn = Head(line).who, !.asked = 0]
    /\ ran' = ran \cup {turn[Head(line).who].whole}
    /\ UNCHANGED <<Surfaces, turn, call, acted, prompts, faults>>

(* SetModel is answered with the daemon's own report, or refused *)
ServeCall ==
    /\ daemon.up /\ daemon.at = "idle" /\ line # <<>> /\ Head(line).who = Call
    /\ line' = Tail(line)
    /\ LET want == Head(line).want
       IN  \E ok \in IF want \in Models /\ faults < MaxFaults THEN BOOLEAN ELSE {TRUE} :
            /\ daemon' = IF ok /\ want \in Models THEN [daemon EXCEPT !.model = want] ELSE daemon
            /\ faults' = IF ok THEN faults ELSE faults + 1
            /\ call' = IF call.at # "open" \/ call.id # Head(line).id THEN call
                       ELSE [call EXCEPT !.at = "shut",
                                         !.down = IF ok /\ want \in Models THEN <<want>> ELSE <<>>]
    /\ UNCHANGED <<Surfaces, turn, ran, acted, prompts>>

(* Refused while a run is live *)
ServeStop ==
    /\ daemon.up /\ daemon.at = "idle" /\ line # <<>> /\ Head(line).who = Stop
    /\ line' = Tail(line)
    /\ \E live \in BOOLEAN : daemon' = [daemon EXCEPT !.up = live]
    /\ UNCHANGED <<Surfaces, turn, call, ran, acted, prompts, faults>>

(* The loop announces the question, then the gate asks it *)
Prompt ==
    /\ daemon.up /\ daemon.at = "run" /\ prompts < MaxPrompts
    /\ prompts' = prompts + 1
    /\ LET w == daemon.turn
           d == daemon.asked + 1
       IN  /\ daemon' = [daemon EXCEPT !.asked = d, !.at = IF Gone(w) THEN "run" ELSE "prompt"]
           /\ turn' = IF Gone(w) THEN turn
                      ELSE [turn EXCEPT ![w].down = @ \o <<[k |-> "approval", w |-> w, d |-> 0],
                                                           [k |-> "approval", w |-> w, d |-> d]>>]
    /\ UNCHANGED <<Surfaces, call, line, ran, acted, faults>>

(* A reply that names another question is no answer to this one *)
ReadAnswer ==
    /\ daemon.up /\ daemon.at = "prompt"
    /\ LET w == daemon.turn
       IN  \/ /\ turn[w].up # <<>>
              /\ LET r == Head(turn[w].up)
                 IN  acted' = IF r.a.granted /\ r.d = daemon.asked
                              THEN acted \cup {[w |-> w, d |-> r.d, a |-> r.a]} ELSE acted
              /\ turn' = [turn EXCEPT ![w].up = Tail(@)]
           \/ turn[w].up = <<>> /\ Gone(w) /\ UNCHANGED <<turn, acted>>
    /\ daemon' = [daemon EXCEPT !.at = "run"]
    /\ UNCHANGED <<Surfaces, call, line, ran, prompts, faults>>

Finish ==
    /\ daemon.up /\ daemon.at = "run"
    /\ LET w == daemon.turn
       IN  \E k \in {"done", "error"} :
            /\ k = "done" \/ faults < MaxFaults
            /\ faults' = IF k = "done" THEN faults ELSE faults + 1
            /\ turn' = IF Gone(w) THEN turn
                       ELSE [turn EXCEPT ![w].down = Append(@, [k |-> k, w |-> w, d |-> 0]),
                                         ![w].shut = TRUE]
    /\ daemon' = [daemon EXCEPT !.at = "idle"]
    /\ UNCHANGED <<Surfaces, call, line, ran, acted, prompts>>

DaemonDies ==
    /\ daemon.up /\ faults < MaxFaults /\ Len(field.input) =< 1
    /\ daemon' = [daemon EXCEPT !.up = FALSE, !.at = "idle"]
    /\ line' = <<>>
    /\ turn' = [w \in Turns |-> IF turn[w].at \in {"none", "new"} THEN turn[w]
                                ELSE [turn[w] EXCEPT !.shut = TRUE]]
    /\ call' = IF call.at = "open" THEN [call EXCEPT !.at = "shut"] ELSE call
    /\ faults' = faults + 1
    /\ UNCHANGED <<Surfaces, ran, acted, prompts>>

-----------------------------------------------------------------------------
Drawing == Idle \/ HandleNext \/ Send \/ Approve \/ Given \/ Select \/ Runs \/ Reply \/ TickAndDraw
Working(w) == Connect(w) \/ ReadLine(w) \/ ReadEnd(w) \/ Answer(w)
Serving == ServeTurn \/ ServeCall \/ ServeStop \/ ReadAnswer \/ Finish

SurfaceNext ==
    \/ Drawing
    \/ PressKeys
    \/ CallTimesOut
    \/ \E w \in Turns : Working(w) \/ ReadTimesOut(w)
    \/ Serving
    \/ Prompt
    \/ DaemonDies

(* Every thread that can go on does; a read is given up after ten minutes.
   The person need not press a key, the model need not ask. *)
Fairness ==
    /\ WF_surfaceVars(Drawing) /\ WF_surfaceVars(CallTimesOut) /\ WF_surfaceVars(Serving)
    /\ \A w \in Turns : WF_surfaceVars(Working(w)) /\ WF_surfaceVars(ReadTimesOut(w))

SurfaceSpec == SurfaceInit /\ [][SurfaceNext]_surfaceVars /\ Fairness

-----------------------------------------------------------------------------
(* Approvals (SocketApprovals, LiveSession::apply): a grant the daemon acts on
   was pressed while the window of that very question was up.  Two answers in one
   burst are the case EveryAnswerIsTheirs is about. *)
AnswersAreTheirs ==
    \A x \in acted : x.a.window = <<x.w, x.d>> \/ doubled

(* What daemon.rs says of an answer: it names its question, for "a client that
   answered a stale prompt would otherwise approve whatever is pending now".
   The question is named by the thread that reads the socket, not by the window:
   the second answer of a burst waits in the rendezvous and is given to the next
   question of its turn, which nobody has seen, and every later answer of that
   turn is one question late. *)
EveryAnswerIsTheirs == \A x \in acted : x.a.window = <<x.w, x.d>>

(* Submitting (App::submit, expand_pastes): what the daemon runs is what the
   person wrote and pasted, unless a word-delete broke a chip *)
SentIsMeant ==
    FALSE \notin ran

Quiet ==
    /\ ui.at = "top" /\ ui.inbox = 0 /\ line = <<>> /\ daemon.up /\ daemon.at = "idle"
    /\ \A w \in Turns : turn[w].at \in {"none", "ended"}

(* LiveSession::tick: with nothing in flight, nothing timed out and the last
   turn done, the strip shows the daemon's model and the band is idle *)
ScreenSettles ==
    Quiet /\ ~late /\ ~doubled =>
        /\ view.model = daemon.model
        /\ sends > 0 /\ turn[sends].end = "done" => view.band = "idle" /\ view.window = None

Waiting(w, d) == daemon.up /\ daemon.at = "prompt" /\ daemon.turn = w /\ daemon.asked = d

(* start_turn's channels: a question that waits for an answer is put on the
   screen, or stops waiting, also when its thread was overtaken or the drawing
   thread is itself waiting on the main port *)
QuestionReached ==
    \A w \in Turns : \A d \in 1..MaxPrompts :
        Waiting(w, d) ~> (~Waiting(w, d) \/ drawn = <<w, d>>)

(* A turn reaches the screen: its questions while they wait, also when its thread
   was overtaken or the drawing thread is itself waiting on the main port, and its
   end once nothing is in flight. *)
TurnReachesScreen == []ScreenSettles /\ QuestionReached
=============================================================================
