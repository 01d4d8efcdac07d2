------------------------------- MODULE Reply --------------------------------
(***************************************************************************)
(* A model's reply on its way to the screen: the driver opens the stream,   *)
(* folds its frames (the channel split, the held buffer, the token ledger,  *)
(* the fragments of tool calls), reads one step out of the assembled        *)
(* message, the loop acts on the step, and the surface's projection folds   *)
(* the events.  The three drivers share one fold and differ in where they   *)
(* begin, in how a frame is charged and in how the call is settled.         *)
(*                                                                          *)
(* Text is a sequence of pieces.  "lt" followed by "open" or "close" is a   *)
(* tag, and a frame may end between the two; "fn" is a call written as      *)
(* markup, "ask" the bare word, everything else prose.                      *)
(***************************************************************************)
EXTENDS Integers, FiniteSets, Sequences, SequencesExt

CONSTANTS
    Drivers,        \* of [name, thinking, timings]: the ones configured
    Frames,         \* of [r, c, k]: what a frame may carry (reasoning, content, a call fragment)
    MaxFrames,      \* frames in one turn
    MaxCalls,       \* model calls in one turn
    MaxAttempts     \* MAX_ATTEMPTS of the hosted driver

ASSUME ReplyAssumption == MaxFrames \in Nat /\ MaxCalls \in Nat /\ MaxAttempts \in Nat

None == "none"

VARIABLES
    driver,     \* the driver of this turn
    at,         \* "open", "stream", "ended" or "failed"
    attempt,    \* of the hosted driver, at this call
    fold,       \* the call's state, folded across frames
    wire,       \* the content the model sent in this call, as one text
    made,       \* tokens the engine generated in this call
    spoken,     \* the text of every settled call
    screen,     \* the transcript
    odd,        \* some call took speech back that did not stand alone in the last entry of speech
    frames, calls

replyVars == <<driver, at, attempt, fold, wire, made, spoken, screen, odd, frames, calls>>

-----------------------------------------------------------------------------
(* ThinkSplitter *)

NewSplitter == [inside |-> FALSE, pending |-> FALSE, spoke |-> FALSE, saw |-> FALSE,
                segs |-> <<>>, retract |-> FALSE]

Push(sp, p) ==
    [sp EXCEPT !.segs = Append(@, [speech |-> ~sp.inside, p |-> p]),
               !.spoke = @ \/ ~sp.inside]

(* A close with no open: what was said was reasoning *)
Tag(sp, p) ==
    LET bare == p = "close" /\ ~sp.inside /\ sp.spoke
        IsReasoning(s) == ~s.speech
    IN  [sp EXCEPT !.inside = (p = "open"), !.saw = TRUE, !.pending = FALSE,
                   !.retract = @ \/ bare,
                   !.segs = IF bare THEN SelectSeq(@, IsReasoning) ELSE @,
                   !.spoke = @ /\ ~bare]

(* mutant: a fragment that could grow into a tag is let through *)
PieceThrough(sp, p) == Push(sp, p)

Piece(sp, p) ==
    LET plain == IF sp.pending THEN Push([sp EXCEPT !.pending = FALSE], "lt") ELSE sp
    IN  IF sp.pending /\ p \in {"open", "close"} THEN Tag(sp, p)
        ELSE IF p = "lt" THEN [plain EXCEPT !.pending = TRUE]
        ELSE Push(plain, p)

Feed(sp, c) == FoldLeft(Piece, [sp EXCEPT !.segs = <<>>, !.retract = FALSE], c)

-----------------------------------------------------------------------------
(* The fold of one call *)

NewFold ==
    [sp |-> NewSplitter, text |-> <<>>, held |-> <<>>, late |-> FALSE,
     closed |-> driver.name = "openrouter" \/ ~driver.thinking,
     calls |-> <<>>, predicted |-> 0, charged |-> 0, total |-> 0,
     speech |-> 0, owed |-> 0, reasoning |-> 0, last |-> TRUE, charge |-> 0, out |-> <<>>]

OnDelta(f, t) == [f EXCEPT !.out = Append(@, [e |-> "text", t |-> t, n |-> 0]), !.text = @ \o t]
OnReasoning(f, t, n) == [f EXCEPT !.out = Append(@, [e |-> "reasoning", t |-> t, n |-> n]),
                                  !.reasoning = @ + n]

(* What a frame is worth: one token, or what the engine's running total says *)
Charge(f) ==
    IF f.predicted = 0 THEN [f EXCEPT !.charge = 1, !.charged = @ + 1]
    ELSE [f EXCEPT !.charge = f.predicted - f.charged, !.charged = f.predicted]

(* The provider separates the channels: content is outside the block *)
AbsorbReasoning(f) ==
    LET c == Charge(f)
    IN  [OnReasoning(c, <<"r">>, c.charge) EXCEPT
            !.closed = TRUE, !.last = TRUE, !.charge = 0, !.late = @ \/ f.held # <<>>]

(* What was held is routed, what was streamed is taken back *)
TakeBack(f) ==
    LET h == IF f.held = <<>> THEN f
             ELSE [OnReasoning(f, f.held, f.owed) EXCEPT !.held = <<>>, !.owed = 0]
        t == IF h.text = <<>> THEN h
             ELSE [h EXCEPT !.out = Append(@, [e |-> "retract", t |-> <<>>, n |-> h.speech]),
                            !.reasoning = @ + h.speech, !.text = <<>>, !.speech = 0]
    IN  [t EXCEPT !.closed = TRUE]

Route(f, s) ==
    LET paid == [f EXCEPT !.charge = 0]
    IN  IF ~s.speech THEN [OnReasoning(paid, <<s.p>>, f.charge) EXCEPT !.last = TRUE]
        ELSE IF f.closed
        THEN [OnDelta(paid, <<s.p>>) EXCEPT !.speech = @ + f.charge, !.last = FALSE]
        ELSE [paid EXCEPT !.held = Append(@, s.p), !.owed = @ + f.charge]

(* What the splitter swallowed whole is owed to the channel that resolves it *)
AbsorbContent(f, c, charged) ==
    LET paid == IF charged THEN f ELSE Charge(f)
        sp == Feed(f.sp, c)
        back == IF sp.retract THEN TakeBack(paid) ELSE paid
        routed == FoldLeft(Route, [back EXCEPT !.sp = sp], sp.segs)
    IN  [routed EXCEPT !.owed = @ + routed.charge, !.charge = 0]

(* Ollama sends whole calls; the others send fragments, joined by index *)
AbsorbCall(f, k) ==
    LET whole == [index |-> Len(f.calls), name |-> <<k.name>>, args |-> <<k.arg>>]
        same == SelectInSeq(f.calls, LAMBDA x : x.index = k.index)
        part == [index |-> k.index, name |-> IF k.name = None THEN <<>> ELSE <<k.name>>,
                 args |-> <<k.arg>>]
    IN  IF driver.name = "ollama" THEN [f EXCEPT !.calls = Append(@, whole)]
        ELSE IF same = 0
        THEN [f EXCEPT !.calls = SortSeq(Append(@, part), LAMBDA a, b : a.index < b.index)]
        ELSE [f EXCEPT !.calls[same].name = @ \o part.name, !.calls[same].args = @ \o part.args]

Cost(fr) == IF fr.r THEN 2 ELSE 1

Absorb(f, fr) ==
    LET m == [f EXCEPT !.out = <<>>,
                       !.predicted = IF driver.timings THEN made + Cost(fr) ELSE 0]
        r == IF fr.r THEN AbsorbReasoning(m) ELSE m
        c == IF fr.c = <<>> THEN r ELSE AbsorbContent(r, fr.c, fr.r)
    IN  FoldLeft(AbsorbCall, c, fr.k)

(* A call ending in a tool call has not answered; with no tag anywhere the   *)
(* buffer is the reply                                                       *)
Release(f) ==
    IF f.held = <<>> THEN f
    ELSE IF f.calls = <<>> /\ (f.closed \/ ~f.sp.saw)
    THEN [OnDelta(f, f.held) EXCEPT !.speech = @ + f.owed, !.held = <<>>, !.owed = 0]
    ELSE [OnReasoning(f, f.held, f.owed) EXCEPT !.held = <<>>, !.owed = 0]

(* Tokens the engine counted and never streamed: `total` is its count, or 0  *)
Settle(f, total) ==
    LET spent == f.reasoning + f.owed + f.speech
        o == IF driver.name = "ollama"
             THEN IF f.reasoning + f.owed > 0 THEN total - spent ELSE 0
             ELSE IF f.last THEN total - f.charged ELSE 0
    IN  IF o > 0 THEN OnReasoning(f, <<>>, o) ELSE f

Finish(f, total) ==
    LET tail == IF f.sp.pending THEN <<[speech |-> ~f.sp.inside, p |-> "lt"]>> ELSE <<>>
        flushed == FoldLeft(Route, [f EXCEPT !.charge = 0, !.out = <<>>], tail)
        kept == [flushed EXCEPT !.last = f.last]
    IN  [Settle(Release(kept), total) EXCEPT !.total = total]

-----------------------------------------------------------------------------
(* parse_step: the step the message says *)

Named(f) == SelectSeq(f.calls, LAMBDA x : x.name \notin {<<>>, <<None>>})
Control == {<<"remember">>, <<"run">>}

Step(f) ==
    LET cs == Named(f)
        first == SelectInSeq(cs, LAMBDA x : x.name \in Control \cup {<<"done">>})
    IN  CASE first > 0 -> IF cs[first].name = <<"done">> THEN "done" ELSE "control"
          [] first = 0 /\ cs # <<>> -> "tools"
          [] cs = <<>> /\ f.text = <<"ask">> -> "ask"
          [] cs = <<>> /\ Contains(f.text, "fn") -> "tools"
          [] OTHER -> IF f.text = <<>> THEN "nothing" ELSE "say"

-----------------------------------------------------------------------------
(* The projection *)

Said(t) == [k |-> "said", t |-> t, n |-> 0, done |-> TRUE]
Thought(t, n) == [k |-> "reasoning", t |-> t, n |-> n, done |-> FALSE]
LastOf(s, k) == SelectLastInSeq(s, LAMBDA x : x.k = k)
OpenEnd(s, k) == s # <<>> /\ Last(s).k = k /\ (k = "reasoning" => ~Last(s).done)

(* Speech moves into the thought before it, with what it cost *)
MovedBack(s, i, n) ==
    LET r == LastOf(SubSeq(s, 1, i - 1), "reasoning")
        cut == RemoveAt(s, i)
    IN  IF r = 0 THEN InsertAt(cut, i, Thought(s[i].t, n))
        ELSE [cut EXCEPT ![r].t = @ \o s[i].t, ![r].n = @ + n, ![r].done = FALSE]

(* mutant: only speech at the very end is taken back *)
RetractedAtEnd(s, n) == IF OpenEnd(s, "said") THEN MovedBack(s, Len(s), n) ELSE s

(* The last speech, wherever in the transcript it is *)
Retracted(s, n) ==
    LET i == LastOf(s, "said") IN IF i = 0 THEN s ELSE MovedBack(s, i, n)

ApplyEvent(s, ev) ==
    CASE ev.e = "text" ->
            IF OpenEnd(s, "said") THEN [s EXCEPT ![Len(s)].t = @ \o ev.t] ELSE Append(s, Said(ev.t))
      [] ev.e = "retract" -> Retracted(s, ev.n)
      [] ev.e = "reasoning" /\ ev.t = <<>> ->
            IF LastOf(s, "reasoning") = 0 THEN s ELSE [s EXCEPT ![LastOf(s, "reasoning")].n = @ + ev.n]
      [] ev.e = "reasoning" /\ ev.t # <<>> ->
            IF OpenEnd(s, "reasoning")
            THEN [s EXCEPT ![Len(s)].t = @ \o ev.t, ![Len(s)].n = @ + ev.n]
            ELSE Append(s, Thought(ev.t, ev.n))
      [] ev.e = "tools" ->
            IF OpenEnd(s, "tools") THEN s ELSE Append(s, [k |-> "tools", t |-> <<>>, n |-> 0, done |-> TRUE])

(* close_finished_reasoning, after the batch *)
Closed(s, finished) ==
    [i \in DOMAIN s |-> IF finished \/ i # Len(s) THEN [s[i] EXCEPT !.done = TRUE] ELSE s[i]]

Show(evs) == Closed(FoldLeft(ApplyEvent, screen, evs), FALSE)

-----------------------------------------------------------------------------

ReplyInit ==
    /\ driver \in Drivers
    /\ at = "open" /\ attempt = 1 /\ fold = NewFold /\ wire = <<>> /\ made = 0
    /\ spoken = <<>> /\ screen = <<[k |-> "user", t |-> <<>>, n |-> 0, done |-> TRUE]>>
    /\ odd = FALSE /\ frames = 0 /\ calls = 0

(* Nothing has streamed, so the hosted driver may try again *)
PostAgain ==
    /\ at = "open" /\ driver.name = "openrouter" /\ calls < MaxCalls
    /\ attempt < MaxAttempts
    /\ attempt' = attempt + 1
    /\ UNCHANGED <<driver, at, fold, wire, made, spoken, screen, odd, frames, calls>>

Fail ==
    /\ at' = "failed"
    /\ screen' = Closed(Append(screen, Said(<<"why">>)), TRUE)
    /\ UNCHANGED <<driver, attempt, fold, wire, made, spoken, odd, frames, calls>>

OpenFails == at = "open" /\ calls < MaxCalls /\ Fail

Open ==
    /\ at = "open" /\ calls < MaxCalls
    /\ at' = "stream" /\ fold' = NewFold /\ wire' = <<>> /\ attempt' = 1
    /\ made' = 0 /\ calls' = calls + 1
    /\ UNCHANGED <<driver, spoken, screen, odd, frames>>

(* The last entry of speech is what this call streamed, all of it and nothing
   else: no reasoning came between, and the call did not go on with the entry
   of an earlier one *)
Alone == LET i == LastOf(screen, "said") IN i > 0 /\ screen[i].t = fold.text

Frame(fr) ==
    /\ at = "stream" /\ frames < MaxFrames
    /\ driver.name = "ollama" => \A i \in DOMAIN fr.k : fr.k[i].name # None
    /\ fold' = Absorb(fold, fr)
    /\ wire' = wire \o fr.c
    /\ made' = made + Cost(fr)
    /\ screen' = Show(fold'.out)
    /\ odd' = (odd \/ (~Alone /\ \E i \in DOMAIN fold'.out : fold'.out[i].e = "retract"))
    /\ frames' = frames + 1
    /\ UNCHANGED <<driver, at, attempt, spoken, calls>>

(* The stream breaks, or carries an error: a call that spoke is not retried *)
Breaks == at = "stream" /\ Fail

(* The stream ends, with the engine's own count or (cut short) without.  The *)
(* loop acts on the step: an answer ends the turn, an empty reply is nudged, *)
(* tools and control steps lead to the next call.                            *)
Ends(total) ==
    /\ at = "stream"
    /\ LET f == Finish(fold, total)
           step == Step(f)
       IN  /\ fold' = f
           /\ spoken' = spoken \o f.text
           /\ screen' = LET shown == Show(f.out \o IF step = "tools"
                                                   THEN <<[e |-> "tools", t |-> <<>>, n |-> 0]>>
                                                   ELSE <<>>)
                        IN  IF step \in {"say", "done"} THEN Closed(shown, TRUE)
                            ELSE IF step = "ask" THEN Closed(Append(shown, Said(<<"ask">>)), TRUE)
                            ELSE shown
           /\ at' = IF step \in {"say", "done", "ask"} THEN "ended" ELSE "open"
    /\ UNCHANGED <<driver, attempt, wire, made, odd, frames, calls>>

ReplyNext ==
    \/ PostAgain \/ OpenFails \/ Open \/ Breaks
    \/ \E fr \in Frames : Frame(fr)
    \/ \E total \in {0, made + 1} : Ends(total)

ReplySpec == ReplyInit /\ [][ReplyNext]_replyVars

-----------------------------------------------------------------------------

Settled == calls > 0 /\ at \in {"open", "ended"}
OnScreen(k) == FlattenSeq([i \in DOMAIN screen |->
                   IF screen[i].k = k THEN screen[i].t ELSE <<>>])
Thinking == FoldLeft(LAMBDA a, x : a + x.n, 0, screen)

(* What a reader of the whole text would call speech: outside every block,   *)
(* and after the last close that closes nothing.                             *)
Tags(w) == {i \in 1..Len(w) - 1 : w[i] = "lt" /\ w[i + 1] \in {"open", "close"}}
Inside(w, i) == \E j \in Tags(w) : /\ j < i /\ w[j + 1] = "open"
                                   /\ \A l \in Tags(w) : l < i => l <= j
Outside(w) ==
    LET keep == {i \in 1..Len(w) : /\ i \notin Tags(w) /\ i - 1 \notin Tags(w)
                                   /\ ~Inside(w, i)
                                   /\ \A j \in Tags(w) : j > i /\ w[j + 1] = "close" => Inside(w, j)}
    IN  [n \in 1..Cardinality(keep) |-> w[CHOOSE i \in keep : Cardinality({j \in keep : j <= i}) = n]]

(* the reply does not depend on how the text was cut into frames: it is the  *)
(* speech of the whole text, or, where the block was never known to be shut, *)
(* nothing at all.                                                           *)
SpeechIsWhole ==
    Settled /\ ~fold.late =>
        \/ fold.text = Outside(wire)
        \/ fold.text = <<>> /\ ~fold.closed /\ (fold.sp.saw \/ fold.calls # <<>>)

ShowsReply ==
    LET asked == at = "ended" /\ Step(fold) = "ask"
    IN  OnScreen("said") = spoken \o IF asked THEN <<"ask">> ELSE <<>>

(* The contract of `call_streaming`: what was streamed and not taken back is *)
(* the text the loop records, and it is what the transcript shows as speech. *)
(* Speech is taken back from behind whatever was put after it, a tool line   *)
(* or a thought, as long as it stands in one entry of its own; where it does *)
(* not, see RetractedWherever.                                               *)
ScreenIsReply == Settled /\ ~odd => ShowsReply

(* What project.rs says of a retraction: it "is about the turn's outstanding *)
(* speech wherever it sits".  The code takes the last entry of speech: a     *)
(* call that spoke, thought and spoke again leaves its first words behind,   *)
(* and one that went on with an earlier call's entry takes that text along.  *)
RetractedWherever == Settled => ShowsReply

(* no token is counted twice on its way to the thinking line, whichever      *)
(* channel it started on; and where the engine reports its count and sends   *)
(* no tags, none is lost either.                                             *)
TokensAddUp ==
    Settled /\ calls = 1 =>
        /\ Thinking + fold.speech <= made + 1
        /\ driver.name = "ollama" /\ fold.total > 0 /\ fold.reasoning > 0 /\ fold.owed = 0 =>
               Thinking + fold.speech = fold.total

(* However the stream is cut and whichever channel each piece came on, the   *)
(* reply is the speech of the whole text and every token is counted once.    *)
ReplyIsWhole == SpeechIsWhole /\ TokensAddUp
=============================================================================
