---------------------------- MODULE ContextWindow ----------------------------
(***************************************************************************)
(* The window of one run: the session state that the daemon's turn and the *)
(* loop push blocks onto (`SessionState`), the view `Assembler` builds of  *)
(* it before each model call, and the two levers that relieve pressure on  *)
(* it, `clear_tool_results` and `compact`.                                 *)
(*                                                                         *)
(* A block keeps its source, its trust class, its token estimate and what  *)
(* a property asks of its text: whether it starts with `[`, and whether it *)
(* carries the user's message or the brief the run was started for.        *)
(***************************************************************************)
EXTENDS Integers, Sequences, FiniteSets, SequencesExt

CONSTANTS
    Roles,           \* run kinds explored: "root", "child", "reader"
    EffectiveWindow, \* Assembler::effective_window
    StableTokens,    \* identity and governance, rebuilt in every view
    ToolCap, OtherCap,  \* SourceBudgets: tool results; the other trimmable sources
    MinTruncated,    \* MIN_TRUNCATED_TOKENS
    TruncSlack,      \* room a truncated block leaves below its budget
    MarkerTokens,    \* an omission marker, and a cleared tool result
    PrefaceTokens,   \* SUMMARY_PREFACE
    Keep,            \* engine.rs KEEP_TOOL_RESULTS
    Sizes,           \* token estimates a block may have
    InjectClasses,   \* floors a retrieval may return
    ToolClasses,     \* classes a tool's outcome may have
    MaxBlocks,       \* bound: blocks in the volatile tier
    MaxSteers        \* bound: steers taken

Untrusted == 0
Inferred  == 1
Observed  == 2
Asserted  == 3
Classes   == 0..3

ASSUME SizeAssumption == /\ Sizes \subseteq Nat /\ StableTokens \in Nat
                         /\ EffectiveWindow \in Nat /\ ToolCap \in Nat /\ OtherCap \in Nat
                         /\ MarkerTokens \in Nat /\ PrefaceTokens \in Nat
ASSUME TrimAssumption == /\ MinTruncated \in Nat /\ TruncSlack \in Nat
                         /\ TruncSlack <= MinTruncated
ASSUME BoundAssumption == Keep \in Nat /\ MaxBlocks \in Nat /\ MaxSteers \in Nat
ASSUME ClassAssumption == InjectClasses \subseteq Classes /\ ToolClasses \subseteq Classes
ASSUME RoleAssumption == Roles \subseteq {"root", "child", "reader"}

ContextSources  == {"ProjectFiles", "Skills"}
VolatileSources == {"History", "ToolResults", "InjectedMemory", "ChildResults",
                    "Brief", "Summary", "Skills"}
Trimmable == {"ProjectFiles", "Skills", "ToolResults", "InjectedMemory", "ChildResults"}
Bodies    == {"text", "bracketed", "message", "brief"}

BlockOf(s, t, n, x) == [src |-> s, trust |-> t, tokens |-> n, body |-> x]
Block == [src : ContextSources \cup VolatileSources, trust : Classes, tokens : Nat,
          body : Bodies]

VARIABLES
    role,      \* what kind of run the window belongs to
    ctx, vol,  \* SessionState.context_blocks and .volatile
    pc,        \* where the loop's iteration is
    steers,    \* steers taken, to its bound
    lowest     \* history: the lowest class ever pushed to this session

vars == <<role, ctx, vol, pc, steers, lowest>>

Lower(a, b) == IF a < b THEN a ELSE b

(* SessionState::push onto the volatile tier *)
Push(bs) == /\ Len(vol) + Len(bs) <= MaxBlocks
            /\ vol' = vol \o bs

Lowest(bs) == {b.trust : b \in {bs[i] : i \in DOMAIN bs}}
MinClass(S) == CHOOSE c \in S : \A d \in S : c <= d

-----------------------------------------------------------------------------
(* Assembler::trim_to_budget, newest block first *)

Cap(s) == IF s = "ToolResults" THEN ToolCap ELSE OtherCap

Charge(acc, b, n) == [acc.spent EXCEPT ![b.src] = @ + n]

(* What happens to a block with `room` tokens of its source's cap left *)
Fate(b, room) == IF b.src \notin Trimmable \/ b.tokens <= room THEN "kept"
                 ELSE IF room >= MinTruncated THEN "cut" ELSE "omitted"

Room(acc, b) == IF Cap(b.src) > acc.spent[b.src] THEN Cap(b.src) - acc.spent[b.src] ELSE 0

(* `kept` newest first in the code and reversed at its end; `omitted` the classes
   each source's marker will stand for *)
TrimOne(b, acc) ==
    LET room == Room(acc, b)
        fate == Fate(b, room)
        n    == IF fate = "kept" THEN b.tokens ELSE room - TruncSlack
    IN  IF fate \in {"kept", "cut"}
        THEN [acc EXCEPT !.spent = Charge(acc, b, n), !.kept = <<[b EXCEPT !.tokens = n]>> \o @]
        ELSE [acc EXCEPT !.omitted[b.src] = @ \cup {b.trust}]

Trim(bs) == FoldRight(TrimOne, bs,
                [kept |-> <<>>,
                 spent |-> [s \in ContextSources \cup VolatileSources |-> 0],
                 omitted |-> [s \in Trimmable |-> {}]])

(* One marker a source, with the lowest class of what it stands for *)
Marker(s, classes) == BlockOf(s, MinClass(classes), MarkerTokens, "bracketed")

(* The markers end up in front of what was kept *)
Trimmed(bs) ==
    LET trim == Trim(bs)
        over == {s \in Trimmable : trim.omitted[s] # {}}
    IN  SetToSeq({Marker(s, trim.omitted[s]) : s \in over}) \o trim.kept

-----------------------------------------------------------------------------
(* Assembler::assemble *)

View(c, v) == Trimmed(c) \o Trimmed(v)

Tokens(bs) == FoldSeq(LAMBDA b, n : b.tokens + n, 0, bs)

(* fill_pct >= COMPACTION_TRIGGER *)
AtTrigger(c, v) == \/ EffectiveWindow = 0
                   \/ 10 * (StableTokens + Tokens(View(c, v))) >= 7 * EffectiveWindow

(* The lowest class in a list of blocks; the identity block is AgentObserved *)
Floor(bs) == MinClass(Lowest(bs) \cup {Observed})

-----------------------------------------------------------------------------
(* Assembler::clear_tool_results *)

ToolResults(v) == {i \in DOMAIN v : v[i].src = "ToolResults"}
Older(v) == {i \in ToolResults(v) :
                Cardinality({j \in ToolResults(v) : j > i}) >= Keep}

(* mutant: what is already cleared counts as cleared again *)
MaskableAgain(v) == Older(v)

Maskable(v) == {i \in Older(v) : v[i].body # "bracketed"}

Masked(v) == [i \in DOMAIN v |->
                IF i \in Maskable(v)
                THEN [v[i] EXCEPT !.tokens = MarkerTokens, !.body = "bracketed"] ELSE v[i]]

OverBudget(v) == Tokens(SelectSeq(v, LAMBDA b : b.src = "ToolResults")) > ToolCap

-----------------------------------------------------------------------------
(* Assembler::compact, and PassthroughSummarizer: the view's last three blocks *)

LiveTurns(v) == {i \in DOMAIN v : v[i].src = "History" /\ v[i].trust = Asserted}
Live(v) == {i \in LiveTurns(v) : \A j \in LiveTurns(v) : j <= i}

(* mutant: the summary has its author's class *)
SummaryClassInferred(v) == Inferred

SummaryClass(v) ==
    MinClass({Inferred} \cup {v[i].trust : i \in DOMAIN v \ Live(v)})

LastThree(bs) == SubSeq(bs, IF Len(bs) > 3 THEN Len(bs) - 2 ELSE 1, Len(bs))

(* The summary's text holds what the three blocks it repeats held *)
SummaryBody(bs) ==
    LET held == {bs[i].body : i \in DOMAIN bs}
    IN  IF "message" \in held THEN "message"
        ELSE IF "brief" \in held THEN "brief" ELSE "text"

(* A summary repeats the summary before it, and grows: beyond the whole window its
   length makes no difference, so it saturates there *)
Summary(v) == LET tail == LastThree(Trimmed(v))
              IN  BlockOf("Summary", SummaryClass(v),
                          Lower(PrefaceTokens + Tokens(tail), EffectiveWindow),
                          SummaryBody(tail))

Compacted(v) == <<Summary(v)>> \o (IF Live(v) = {} THEN <<>>
                                   ELSE <<v[CHOOSE i \in Live(v) : TRUE]>>)

-----------------------------------------------------------------------------
(* What opens the window of each kind of run *)

Opening(r) ==
    CASE r = "root"   -> {<<>>}
      [] r = "child"  -> {<<BlockOf("Brief", Inferred, n, "brief")>> : n \in Sizes}
      [] r = "reader" -> {<<BlockOf("Brief", Inferred, n, "brief"),
                            BlockOf("ToolResults", Untrusted, m, "text")>> :
                                n \in Sizes, m \in Sizes}

Init ==
    /\ role \in Roles
    /\ vol \in Opening(role)
    /\ ctx \in (IF role = "root"
                THEN {<<>>} \cup {<<BlockOf("ProjectFiles", Observed, n, "text")>> : n \in Sizes}
                ELSE {<<>>})
    /\ pc = (IF role = "root" THEN "rest" ELSE "top")
    /\ steers = 0
    /\ lowest = Floor(vol)

(* What `retain` leaves: every block that is no skill, in its place in the order *)
WithoutSkills(bs) ==
    LET Kept[i \in 0..Len(bs)] ==
            IF i = 0 THEN <<>>
            ELSE IF bs[i].src = "Skills" THEN Kept[i - 1] ELSE Append(Kept[i - 1], bs[i])
    IN  Kept[Len(bs)]

(* turn: the message, what retrieval injected at its own floor, then the skills:
   the notice that some are installed and this message's matches, each in place of
   the last turn's *)
Said(n)  == <<BlockOf("History", Asserted, n, "message")>>
Shown(n) == <<BlockOf("Skills", Asserted, n, "text")>>
Memories == {<<>>} \cup {<<BlockOf("InjectedMemory", c, m, "text")>> :
                            c \in InjectClasses, m \in Sizes}

Message ==
    /\ pc = "rest" /\ pc' = "top" /\ Len(vol) + 3 <= MaxBlocks
    /\ \E n \in Sizes, skills \in {"none", "installed", "matched"}, memory \in Memories :
        /\ vol' = WithoutSkills(vol \o Said(n) \o memory)
                    \o (IF skills = "matched" THEN Shown(n) ELSE <<>>)
        /\ ctx' = IF skills = "none" THEN ctx ELSE WithoutSkills(ctx) \o Shown(n)
        /\ lowest' = Lower(lowest, Floor(memory))
    /\ UNCHANGED <<role, steers>>

(* The iteration's top: at most one steer, queued for this run by its id; a spawned child
   shares its parent's control, the quarantined reader has none (NoControl) *)
Top ==
    /\ pc = "top" /\ pc' = "view"
    /\ \/ UNCHANGED <<vol, steers>>
       \/ /\ role # "reader" /\ steers < MaxSteers /\ steers' = steers + 1
          /\ \E n \in Sizes : Push(<<BlockOf("History", Asserted, n, "bracketed")>>)
    /\ UNCHANGED <<role, ctx, lowest>>

AtRest == IF role = "root" THEN "rest" ELSE "ended"

Compact ==
    /\ pc = "view" /\ AtTrigger(ctx, vol)
    /\ vol' = Compacted(vol)
    /\ pc' = IF AtTrigger(ctx, Compacted(vol)) THEN AtRest ELSE "top"
    /\ UNCHANGED <<role, ctx, steers, lowest>>

Mask ==
    /\ pc = "view" /\ ~AtTrigger(ctx, vol) /\ OverBudget(vol) /\ Maskable(vol) # {}
    /\ vol' = Masked(vol) /\ pc' = "top"
    /\ UNCHANGED <<role, ctx, steers, lowest>>

Call ==
    /\ pc = "view" /\ ~AtTrigger(ctx, vol) /\ (~OverBudget(vol) \/ Maskable(vol) = {})
    /\ pc' = "reply"
    /\ UNCHANGED <<role, ctx, vol, steers, lowest>>

-----------------------------------------------------------------------------
(* What a reply leaves in the window *)

Assistant(n) == BlockOf("History", Inferred, n, "text")

Say ==
    /\ pc = "reply" /\ pc' = AtRest
    /\ \E n \in Sizes : Push(<<Assistant(n)>>)
    /\ lowest' = Lower(lowest, Inferred)
    /\ UNCHANGED <<role, ctx, steers>>

(* Nothing said, or a driver that failed over: no block, another iteration *)
Nudge == pc = "reply" /\ pc' = "top" /\ UNCHANGED <<role, ctx, vol, steers, lowest>>

(* finish_call defers a result that would block composed targets; what
   condense_chunk pushes for it is a note of the model's class *)
ResultClass(c) == IF c = Untrusted THEN Inferred ELSE c

(* A reader has no tools *)
ToolBatch ==
    /\ pc = "reply" /\ role # "reader" /\ pc' = "top"
    /\ \E n \in Sizes, c \in ToolClasses, x \in {"text", "bracketed"} :
          Push(<<Assistant(0), BlockOf("ToolResults", ResultClass(c), n, x)>>)
    /\ lowest' = Lower(lowest, Inferred)
    /\ UNCHANGED <<role, ctx, steers>>

(* The receipt, the call and the child's validated return *)
Spawn ==
    /\ pc = "reply" /\ role # "reader" /\ pc' = "top"
    /\ \E n \in Sizes : Push(<<BlockOf("History", Observed, n, "bracketed"), Assistant(0),
                               BlockOf("ChildResults", Inferred, n, "text")>>)
    /\ lowest' = Lower(lowest, Inferred)
    /\ UNCHANGED <<role, ctx, steers>>

(* A contract violation, a refused question or a write's receipt: the harness speaks *)
HarnessNote ==
    /\ pc = "reply" /\ pc' = "top"
    /\ \E n \in Sizes : \E said \in {<<>>, <<Assistant(n)>>} :
          /\ Push(said \o <<BlockOf("History", Observed, n, "bracketed")>>)
          /\ lowest' = Lower(lowest, IF said = <<>> THEN Observed ELSE Inferred)
    /\ UNCHANGED <<role, ctx, steers>>

(* The run stops for another reason: budget, cancel, a question to the user *)
Stop ==
    /\ pc \in {"top", "reply"} /\ pc' = AtRest
    /\ UNCHANGED <<role, ctx, vol, steers, lowest>>

(* drive_inner *)
Iterate == \/ Top \/ Compact \/ Mask \/ Call
           \/ Say \/ Nudge \/ ToolBatch \/ Spawn \/ HarnessNote \/ Stop

Next == Message \/ Iterate

Spec == Init /\ [][Next]_vars

(* The loop's thread keeps moving between an iteration's top and its call: one of Top,
   Compact, Mask and Call is always possible there, and each moves pc *)
Places  == {"rest", "top", "view", "reply", "ended"}
Moves   == pc \in {"top", "view"} /\ pc' \in Places \ {pc}
FairSpec == Spec /\ WF_pc(Moves)

-----------------------------------------------------------------------------
(* Every block and every variable stays in its domain. *)
TypeOK ==
    /\ role \in Roles /\ ctx \in Seq(Block) /\ vol \in Seq(Block)
    /\ pc \in Places
    /\ steers \in Nat /\ lowest \in Classes

(* Layer 2 on the window (audit findings E5 and F1): what the loop is about to read
   the floor from is at or below the class of everything ever pushed to the session,
   however often it was compacted, masked, truncated or omitted since. *)
NothingLaundered == pc = "view" => Floor(View(ctx, vol)) <= lowest

(* trim_to_budget's "nothing is dropped silently": a source with blocks in the state
   has a block in the view, and the class of every block left out is still there. *)
NothingDroppedSilently ==
    pc = "view" =>
        LET view == Trimmed(vol)
        IN  \A i \in DOMAIN vol : \E j \in DOMAIN view :
                view[j].src = vol[i].src /\ view[j].trust <= vol[i].trust

(* Per-source accounting: what is kept of a trimmable source fits its cap. *)
ViewWithinCaps ==
    pc = "view" =>
        LET kept == Trim(vol).kept
        IN  \A s \in Trimmable : Tokens(SelectSeq(kept, LAMBDA b : b.src = s)) <= Cap(s)

(* A conversation is never sent without a turn the user took (the failure that
   SourceKind::Summary records), and until a steer has been taken the message being
   answered is in it, word for word: compaction leaves the last user turn after its
   summary. *)
UserTurnInView ==
    pc = "reply" /\ role = "root" =>
        /\ LiveTurns(vol) # {}
        /\ steers = 0 => \E i \in LiveTurns(vol) : vol[i].body = "message"

(* What the model is sent is honest about the session: nothing in it is trusted more
   than what it came from, nothing is left out without a trace of its class, what is
   kept fits, and a conversation has the user's turn in it. *)
ViewIsHonest == NothingLaundered /\ NothingDroppedSilently /\ ViewWithinCaps /\ UserTurnInView

(* The state's floor only falls, step by step: the specification WindowFloor. *)
W == INSTANCE WindowFloor WITH low <- Floor(ctx \o vol)
ImplementsWindowFloor == W!Spec

(* Relieving pressure never spins: an iteration that compacts or masks comes to the
   model call or to the run's end by itself, with no help from MAX_STEPS. *)
PressureSettles == (pc \in {"top", "view"}) ~> (pc \in {"reply", "rest", "ended"})
=============================================================================
