---------------------------- MODULE WatchWindow -----------------------------
(***************************************************************************)
(* A run's window, a process of its own beside the daemon.  One loop draws, *)
(* waits for keys and, when none come, polls; a key that asks something of  *)
(* the run is sent to the control port before the next key is looked at,    *)
(* and a poll follows it.  RunWindow is the ring it follows.                *)
(*                                                                          *)
(* The window was opened on run "a", by its id or by a name that another    *)
(* run, "b", happens to have too: the daemon resolves what was typed anew   *)
(* at every request.                                                        *)
(***************************************************************************)
EXTENDS RunWindow, Composer

CONSTANTS
    Bursts,         \* what a person may press: keys that arrive in one read; a paste is its body
    MaxBursts,      \* bound: reads
    MaxEvents,      \* bound: frames, restarts and, counted twice, reads
    MaxFaults,      \* bound: failures of a connection
    NoticePolls,    \* NOTICE_POLLS
    MaxSteer        \* MAX_STEER_CHARS, in pieces

(* The keys that are no letters *)
Chords == {"^c", "^x", "^r", "^d"}
ASSUME LettersAssumption ==
    Letters \cap (Chords \cup {"focus", "esc", "all", "bs", "cbs", "newline", "enter"}) = {}

None == "none"
(* The runs whose name the window may have been given *)
Namesakes == {"a", "b"}
Stopped == {"completed", "failed", "cancelled"}

VARIABLES
    app,        \* WindowApp: [field, focus, confirm, armed, notice, age, close]
    burst,      \* keys read and not yet handled
    at,         \* the loop: "idle", "apply", "resume", "poll", "closed"
    request,    \* the one drained from the app: [kind, text, good]
    view,       \* RunView, of the last detail: [run, state]
    typed,      \* what the window was opened with: "id" or "name"
    row,        \* the plane: each run's status word, None when it is not listed
    meant,      \* history: what the person wrote, and whether a chip was broken
    asked, arrived,     \* history: requests made; those that reached the plane
    pressed, faults

windowVars == <<app, burst, at, request, view, typed, row, meant, asked, arrived,
                pressed, faults>>
plane == <<row, arrived>>
allVars == <<ringVars, windowVars>>

NoRequest == [kind |-> None, text |-> <<>>, good |-> TRUE]

Opens ==
    /\ RingInit
    /\ app = [field |-> Blank, focus |-> "output", confirm |-> FALSE, armed |-> FALSE,
              notice |-> None, age |-> 0, close |-> FALSE]
    /\ burst = <<>> /\ at = "idle" /\ request = NoRequest
    /\ typed \in {"id", "name"}
    /\ row = [r \in Namesakes |-> IF r = "a" THEN "running" ELSE None]
    /\ view = [run |-> "a", state |-> "running"]
    /\ meant = [text |-> <<>>, broken |-> FALSE]
    /\ asked = 0 /\ arrived = <<>> /\ pressed = 0 /\ faults = 0

-----------------------------------------------------------------------------
(* Keys *)

Says(a, n) == [a EXCEPT !.notice = n]
Asking(a, kind) == [app |-> a, ask |-> kind]

(* WindowApp::paste: no key, so it neither disarms nor takes a notice away *)
OnPaste(a, b) == [a EXCEPT !.focus = "steer", !.field = Paste(a.field, b)]

(* on_text_key: a key but Esc takes the notice away, for it hides the draft *)
Edit(f, k) ==
    CASE k \in Letters -> Insert(f, Letter)
      [] k = "all" -> SelectAll(f)
      [] k = "bs" -> Backspace(f)
      [] k = "cbs" -> CtrlBackspace(f)
      [] k = "newline" -> [f EXCEPT !.input = Append(@, Space)]
      [] k = "enter" -> [Blank EXCEPT !.all = f.all]
      [] OTHER -> f

OnTextKey(a, k) ==
    LET sends == k = "enter" /\ Trim(Submitted(a.field)) # <<>>
    IN  IF k = "esc" THEN Asking([a EXCEPT !.focus = "output"], None)
        ELSE Asking(Says([a EXCEPT !.field = Edit(@, k)], None), IF sends THEN "steer" ELSE None)

(* ^c: a draft is copied, an empty field arms, and the second press detaches *)
OnCtrlC(a) ==
    IF a.field.all \/ a.field.input # <<>>
    THEN Asking(Says([a EXCEPT !.field.all = FALSE, !.armed = FALSE], "copied"), None)
    ELSE IF a.armed THEN Asking([a EXCEPT !.armed = FALSE, !.close = TRUE], "detach")
    ELSE Asking(Says([a EXCEPT !.armed = TRUE], "again"), None)

(* The question lies over everything and hears two keys *)
OnConfirmKey(a, k) ==
    CASE k = "enter" -> Asking([a EXCEPT !.confirm = FALSE], "cancel")
      [] k = "esc" -> Asking([a EXCEPT !.confirm = FALSE], None)
      [] OTHER -> Asking(a, None)

(* A key that no chord takes: the field hears it, or the region it is in *)
OnPlainKey(a, key) ==
    IF a.focus = "steer" THEN OnTextKey(a, key)
    ELSE Asking(IF key = "esc" THEN Says(a, None) ELSE a, None)

(* on_key; Tab, a region's own key and the mouse are one key, "focus" *)
OnKey(key, to) ==
    LET a == [app EXCEPT !.armed = IF key = "^c" THEN @ ELSE FALSE]
    IN  IF a.confirm THEN OnConfirmKey(a, key)
        ELSE CASE key = "^c" -> OnCtrlC(a)
               [] key = "^x" -> Asking([a EXCEPT !.confirm = TRUE], None)
               [] key = "^r" -> Asking(a, "resume")
               [] key = "^d" -> Asking([a EXCEPT !.close = TRUE], "detach")
               [] key = "focus" -> Asking([a EXCEPT !.focus = to], None)
               [] OTHER -> OnPlainKey(a, key)

(* What the person means by a key: it edits only a field that hears it *)
Hears == app.focus = "steer" /\ ~app.confirm
MeansBy(k) ==
    LET m == meant.text
        f == app.field
    IN  IF k \in Bodies THEN Means(f, m, "paste", k)
        ELSE IF ~Hears THEN m
        ELSE CASE k \in Letters -> Means(f, m, "insert", Letter)
               [] k \in {"bs", "cbs"} -> Means(f, m, k, Letter)
               [] k = "newline" -> Append(m, Space)
               [] k = "enter" -> <<>>
               [] OTHER -> m

(* A chip loses a word, and then the field is not what is meant until both are empty *)
Breaks(f, m) ==
    EndsIn(f.input, "wreck") \/ (meant.broken /\ (f.input # <<>> \/ m # <<>>))

(* A person presses keys while the loop waits *)
Press(keys) ==
    /\ at = "idle" /\ burst = <<>> /\ ~app.close /\ pressed < MaxBursts
    /\ pushes + 2 * pressed + 2 <= MaxEvents
    /\ burst' = keys /\ pressed' = pressed + 1
    /\ UNCHANGED <<ringVars, app, at, request, view, typed, plane, meant, asked, faults>>

(* One key of a burst: handle_key up to the requests it drains *)
Handle ==
    /\ at = "idle" /\ burst # <<>>
    /\ LET k == Head(burst)
       IN  \E to \in IF k = "focus" THEN {"output", "steer", "aside"} ELSE {app.focus} :
             LET did == IF k \in Bodies THEN Asking(OnPaste(app, k), None) ELSE OnKey(k, to)
                 text == Submitted(app.field)
             IN  /\ app' = [did.app EXCEPT !.age = 0]
                 /\ request' = [kind |-> did.ask,
                                text |-> IF did.ask = "steer" THEN text ELSE <<>>,
                                good |-> did.ask # "steer" \/ meant.broken
                                         \/ text = Trim(meant.text)]
                 /\ at' = IF did.ask # None THEN "apply"
                          ELSE IF did.app.close /\ Len(burst) = 1 THEN "closed" ELSE "idle"
                 /\ meant' = [text |-> MeansBy(k), broken |-> Breaks(did.app.field, MeansBy(k))]
                 /\ asked' = asked + (IF did.ask = None THEN 0 ELSE 1)
    /\ burst' = Tail(burst)
    /\ UNCHANGED <<ringVars, view, typed, plane, pressed, faults>>

-----------------------------------------------------------------------------
(* Requests *)

(* How a connection goes: nobody listens; it breaks before the request is
   read, or after the plane has acted on it; it is answered *)
Tries == {"refused", "closed", "lost", "ok"}
Reached(t) == t \in {"lost", "ok"}

(* mutant: any failure of the control port is tried again on the main port *)
RetryAll(control, main) == IF control # "ok" THEN <<control, main>> ELSE <<control>>

(* control_or_main: only a missing listener falls back *)
control_or_main(control, main) ==
    IF control = "refused" THEN <<control, main>> ELSE <<control>>

(* A way the exchange may go, within the failures that are left *)
Faulty(tries) == Cardinality({i \in DOMAIN tries : tries[i] # "ok"})
Exchanges ==
    {ts \in {control_or_main(c, m) : c \in Tries, m \in Tries} : faults + Faulty(ts) <= MaxFaults}
Arrivals(tries) == Cardinality({i \in DOMAIN tries : Reached(tries[i])})

(* resolve_among: a whole id is taken as it is, a name must be one run's *)
resolve ==
    IF typed = "id" THEN "a"
    ELSE LET hits == {r \in Namesakes : row[r] # None}
         IN  IF Cardinality(hits) = 1 THEN CHOOSE r \in hits : TRUE ELSE None

(* answer: a stopped run takes no steer, nor does anybody a long one *)
Admits(r, text) == row[r] \notin Stopped /\ Len(text) <= MaxSteer

(* The detail of a run: of one that is not listed, the word of its last
   checkpoint *)
Detail(r) == [run |-> r, status |-> IF row[r] = None THEN "ended" ELSE row[r]]

(* How a window words it: a status it does not know is a pause, and says so *)
state_of(word) == IF word \in {"running", "completed", "cancelled", "ended"} THEN word ELSE "paused"

(* RunProjection::view: the run that answered, never the one that was typed *)
ViewOf(d) == [run |-> d.run, state |-> state_of(d.status)]

(* What `n` arrivals of a request do at the plane *)
Answered(n) ==
    LET r == resolve
        mark == [id |-> asked, run |-> r, good |-> request.good,
                 queued |-> request.kind = "steer" /\ Admits(r, request.text)]
    IN  IF n = 0 \/ r = None THEN UNCHANGED plane
        ELSE /\ arrived' = arrived \o [i \in 1..n |-> mark]
             /\ row' = IF request.kind = "cancel" /\ row[r] # None
                       THEN [row EXCEPT ![r] = "cancelling"] ELSE row

(* apply: an answer is an answer, whatever it says; only a broken exchange is
   reported *)
Reported(tries) == IF Last(tries) = "ok" THEN request.kind ELSE "failed"

Apply ==
    /\ at = "apply" /\ request.kind \in {"steer", "cancel"}
    /\ \E tries \in Exchanges :
         /\ Answered(Arrivals(tries))
         /\ app' = Says(app, Reported(tries))
         /\ faults' = faults + Faulty(tries)
    /\ at' = "poll" /\ request' = NoRequest
    /\ UNCHANGED <<ringVars, burst, view, typed, meant, asked, pressed>>

(* Detaching asks nobody *)
Detach ==
    /\ at = "apply" /\ request.kind = "detach" /\ request' = NoRequest
    /\ at' = "poll"
    /\ UNCHANGED <<ringVars, app, burst, view, typed, plane, meant, asked, pressed, faults>>

(* A resume goes to the main port, whose answer is the whole resumed turn, or
   at once that there is nothing to resume *)
AskResume ==
    /\ at = "apply" /\ request.kind = "resume"
    /\ LET resumed == resolve # None /\ row[resolve] = "interrupted"
           driven == IF resumed THEN [row EXCEPT ![resolve] = "running"] ELSE row
       IN \/ /\ at' = "resume" /\ row' = driven /\ UNCHANGED <<app, faults>>
             /\ request' = IF resumed THEN request ELSE NoRequest
          \/ \* broken, before the daemon read it or after
             /\ faults < MaxFaults /\ faults' = faults + 1 /\ request' = NoRequest
             /\ app' = Says(app, "failed") /\ at' = "poll" /\ row' \in {row, driven}
    /\ UNCHANGED <<ringVars, burst, view, typed, arrived, meant, asked, pressed>>

ResumeAnswered ==
    /\ at = "resume" /\ at' = "poll" /\ app' = Says(app, "resume") /\ request' = NoRequest
    /\ row' = [r \in Namesakes |-> IF request.kind = "resume" /\ row[r] = "running" /\ r = resolve
                              THEN "completed" ELSE row[r]]
    /\ UNCHANGED <<ringVars, burst, view, typed, arrived, meant, asked, pressed, faults>>

-----------------------------------------------------------------------------
(* Polls *)

(* mutant: the age of a notice is compared and never raised *)
AgedNever(a) == IF a.age >= NoticePolls THEN [a EXCEPT !.notice = None, !.age = 0] ELSE a

(* age_notice, after a poll nothing was typed before *)
Aged(a) ==
    IF a.notice = None THEN [a EXCEPT !.age = 0]
    ELSE IF a.age + 1 >= NoticePolls THEN [a EXCEPT !.notice = None, !.age = 0]
    ELSE [a EXCEPT !.age = @ + 1]

(* poll_run: the detail and the frames of whatever the name means now.  An
   answer that is an error is no answer at all. *)
PollRun(After(_)) ==
    \E tries \in Exchanges :
        /\ faults' = faults + Faulty(tries)
        /\ \/ /\ Last(tries) # "ok"
              /\ app' = After(Says(app, "unreachable")) /\ UNCHANGED <<ringVars, view>>
           \/ /\ Last(tries) = "ok" /\ resolve = None
              /\ app' = After(app) /\ UNCHANGED <<ringVars, view>>
           \/ /\ Last(tries) = "ok" /\ resolve = "a"
              /\ Poll /\ view' = ViewOf(Detail("a"))
              /\ app' = After(IF DroppedBefore(Since(latest)) > 0 THEN Says(app, "dropped") ELSE app)
           \/ /\ Last(tries) = "ok" /\ resolve = "b"
              /\ app' = After(app) /\ view' = ViewOf(Detail("b")) /\ UNCHANGED ringVars

Idle == /\ at = "idle" /\ burst = <<>> /\ ~app.close
        /\ PollRun(Aged)
        /\ UNCHANGED <<burst, at, request, typed, plane, meant, asked, pressed>>

Same(a) == a
PollAfter == /\ at = "poll"
             /\ PollRun(Same)
             /\ at' = IF app.close /\ burst = <<>> THEN "closed" ELSE "idle"
             /\ UNCHANGED <<burst, request, typed, plane, meant, asked, pressed>>

-----------------------------------------------------------------------------
(* The daemon's side, looked at where the window is about to look at it *)

Seen == at # "closed" /\ (at = "idle" => burst = <<>>)

Emit == /\ Seen /\ at # "apply" /\ pushes + 2 * pressed < MaxEvents
        /\ row["a"] \in {"running", "cancelling"}
        /\ \/ \E k \in {"text", "reasoning"} : Say(k)
           \/ \E k \in {"retract", "compact"} : Note(k)
           \/ OpenTool \/ (\E c \in open : CloseTool(c))
           \/ NextTurn
        /\ UNCHANGED windowVars

(* The run stops *)
Stops == /\ Seen /\ row["a"] \in {"running", "cancelling"} /\ open = {} /\ at # "resume"
         /\ row' = [row EXCEPT !["a"] = IF @ = "running" THEN "completed" ELSE "cancelled"]
         /\ UNCHANGED <<ringVars, app, burst, at, request, view, typed, meant, asked,
                        arrived, pressed, faults>>

(* Another run starts that has the same name; its id is nobody's *)
Begins == /\ Seen /\ typed = "name" /\ row["b"] = None /\ row' = [row EXCEPT !["b"] = "running"]
          /\ UNCHANGED <<ringVars, app, burst, at, request, view, typed, meant, asked,
                         arrived, pressed, faults>>

(* The daemon starts again: only what may be resumed is listed *)
Reopens == /\ Seen /\ pushes + 2 * pressed < MaxEvents /\ Restart /\ at # "resume"
           /\ row' = [r \in Namesakes |-> IF row[r] \in Stopped \cup {None} THEN None ELSE "interrupted"]
           /\ UNCHANGED <<app, burst, at, request, view, typed, meant, asked, arrived, pressed,
                          faults>>

Loop == Handle \/ Apply \/ Detach \/ AskResume \/ ResumeAnswered \/ Idle \/ PollAfter

Watches == \/ (\E keys \in Bursts : Press(keys)) \/ Loop
           \/ Emit \/ Stops \/ Begins \/ Reopens

(* The loop never waits for anybody but the daemon, whose reads time out *)
WatchSpec == Opens /\ [][Watches]_allVars /\ WF_allVars(Loop)

-----------------------------------------------------------------------------
(* RunProjection::entries: the frames in order; a retraction takes back the
   entry before it, which becomes a thought if it was speech *)

AddEntry(out, f) ==
    IF f.kind # "retract" THEN Append(out, [k |-> f.kind, n |-> f.n])
    ELSE IF out = <<>> THEN out
    ELSE IF Last(out).k = "text" THEN Append(Front(out), [Last(out) EXCEPT !.k = "reasoning"])
    ELSE Front(out)

(* The frames by their sequences *)
PlaceOf(f) == Cardinality({g \in held : g.n <= f.n})
InOrder == [i \in 1..Cardinality(held) |-> CHOOSE f \in held : PlaceOf(f) = i]
entries == FoldLeft(AddEntry, <<>>, InOrder)

(* Every frame the window holds has one entry, in the order of the run, and
   speech taken back is shown as thinking: provided each retraction comes
   right behind the speech it takes back, for `entries` pops the last entry
   whatever it is. *)
EntriesFollow ==
    LET fs == InOrder
        Retracts(i) == i \in DOMAIN fs /\ fs[i].kind = "retract"
        shown == entries
    IN  (\A i \in DOMAIN fs : Retracts(i) => i > 1 /\ fs[i - 1].kind = "text") =>
            /\ {e.n : e \in Range(shown)} = {f.n : f \in {g \in held : g.kind # "retract"}}
            /\ \A i, j \in DOMAIN shown : i < j => shown[i].n < shown[j].n
            /\ \A i \in DOMAIN fs : fs[i].kind = "text" =>
                  \E e \in Range(shown) :
                      e.n = fs[i].n /\ e.k = (IF Retracts(i + 1) THEN "reasoning" ELSE "text")

(* The window is current: its prose is the ring's after a poll, what it
   missed was reported to it, and its entries follow the frames it holds. *)
WindowIsCurrent ==
    /\ ProseCaughtUp /\ GapsReported
    /\ fresh = "yes" /\ restarts = 0 => EntriesFollow

(* A request reaches the run it was meant for, at most once, in the order the
   person made them, with the words the person wrote: whichever exchange
   breaks, whichever port answers.  Opened by a name, it may reach another run
   of that name only once the daemon lists no other. *)
RequestsAreTheirs ==
    /\ \A i \in 1..Len(arrived) : arrived[i].good /\ arrived[i].run # None
    /\ \A i \in 1..Len(arrived) - 1 : arrived[i].id < arrived[i + 1].id
    /\ (typed = "id" \/ restarts = 0) =>
           view.run = "a" /\ \A i \in 1..Len(arrived) : arrived[i].run = "a"

(* A notice lies over the field a person writes in: once they stop and the
   daemon answers, it goes away by itself. *)
NoticeFades == <>[](app.notice = None \/ at = "closed")
=============================================================================
