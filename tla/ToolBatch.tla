----------------------------- MODULE ToolBatch ------------------------------
(***************************************************************************)
(* The tool calls of one model reply: `tool_batch`, `run_group` and         *)
(* `condense_batch` of marlowe-loop with the daemon's hosts and approval    *)
(* socket under them.                                                       *)
(*                                                                          *)
(* A reply's calls are split into groups: a maximal run of consecutive      *)
(* inert calls, or one other call alone.  Each group is adjudicated call by *)
(* call (opening the path a call names, asking the person where the         *)
(* decision says so), executed, and folded back into the conversation;      *)
(* untrusted results are first read by a quarantined child.  Meanwhile the  *)
(* workspace changes under the path walk, the person answers late, twice or *)
(* hangs up, an installed server answers late, and a shell command does as  *)
(* it likes.                                                                *)
(*                                                                          *)
(* A call is known by its place in `calls`, the calls of all replies so far *)
(* (`call_ref` in the code).                                                *)
(***************************************************************************)
EXTENDS Permission, McpPipe, ShellRun, Fetch, Integers, SequencesExt, FiniteSetsExt

CONSTANTS
    Scripts,       \* what a model may reply: sequences of replies, each a sequence of calls
    FirstEgress,   \* egress of the run's profile
    FirstFloors,   \* classes the run may start under (injected memory lowers it)
    Docs,          \* what an untrusted result may say
    NoDoc,
    Layer,         \* tool -> the host that serves it: 0 files and shell, then the wrappers
    MaxSources,    \* MAX_SOURCES_PER_READER
    MaxCache,      \* MAX_CONDENSE_CACHE
    MaxAnswers,    \* bound: lines the person sends
    MaxSwaps       \* bound: changes of the workspace by others

Layers == 0..2     \* FileSystemTools, RecallTools (and SkillTools), McpTools
McpLayer == 2

ASSUME BatchAssumption ==
    /\ Scripts \subseteq Seq(Seq(Call))
    /\ FirstEgress \in Egress /\ FirstFloors \subseteq Classes /\ NoDoc \notin Docs
    /\ Layer \in [DOMAIN Manifests -> Layers]
    /\ "web" \in DOMAIN Manifests => Manifests["web"].type = "url"
    /\ Hosts \subseteq DOMAIN Answers
    /\ {MaxSources, MaxCache, MaxAnswers, MaxSwaps} \subseteq Nat /\ MaxSources > 0

VARIABLES
    pc,        \* where the loop's thread is
    calls,     \* calls declared so far
    done,      \* calls folded back
    upto,      \* last call of the current group
    prep,      \* prepared: the decisions of the group so far, in order
    out,       \* per host layer, the outcomes of its items, in the layer's order
    pend,      \* PendingRead: untrusted results waiting for the reader
    blocks,    \* tool results in the conversation
    egress,    \* run.profile.egress()
    floor,     \* run.trust_floor(), as of the reply being carried out
    fs,        \* the path the file calls name: its directory and its last component
    gate,      \* SocketApprovals, the socket, and what the person meant
    cache,     \* condensed: document -> note
    store,     \* DocumentStore: text -> what is kept with it
    seen,      \* what each call really returned, what was done, and where
    left       \* replies, answers and swaps still to come

talk  == <<calls, pend, blocks, floor, cache>>
span  == <<done, upto>>
step  == <<pc, prep>>
world == <<fs, left>>
hosts == <<mcp, sh, net, store>>
vars  == <<talk, span, step, world, hosts, out, egress, gate, seen>>

NoOut == [of |-> 0, class |-> Observed, kind |-> "none", doc |-> NoDoc]

Init ==
    /\ pc = "idle" /\ calls = <<>> /\ done = 0 /\ upto = 0
    /\ prep = <<>> /\ out = [k \in Layers |-> <<>>] /\ pend = <<>> /\ blocks = <<>>
    /\ egress = FirstEgress /\ floor \in FirstFloors
    /\ fs \in [dir : {"own"}, file : {"none", "own"}, text : {"old"}]
    /\ gate = [decision |-> 0, of |-> <<>>, lines |-> <<>>, up |-> TRUE, yes |-> {},
               reason |-> 0]
    /\ cache = {}
    /\ seen = [doc |-> <<>>, acts |-> {}, touched |-> {}, made |-> {}, why |-> <<>>,
               asked |-> <<>>, read |-> {}]
    /\ left \in [replies : Scripts, swaps : {MaxSwaps}, answers : {MaxAnswers}]
    /\ mcp = Connected /\ sh = NoShell /\ net = Idle
    /\ store = [d \in Docs |-> [format |-> "text", notes |-> {}]]     \* of earlier turns

-----------------------------------------------------------------------------
(* Outside the loop *)

HasPath(c) == Of(c).type \in {"dir", "path", "write"}

(* Somebody replaces a component of the path, by a link out of the workspace or back *)
Swap ==
    /\ left.swaps > 0
    /\ left' = [left EXCEPT !.swaps = @ - 1]
    /\ \/ fs' = [fs EXCEPT !.dir = IF @ = "own" THEN "link" ELSE "own"]
       \/ fs' = [fs EXCEPT !.file = IF @ = "link" THEN "own" ELSE "link"]
    /\ pc \in {"prepare", "dir", "file", "run"}     \* elsewhere nobody looks
    /\ \E i \in done + 1..upto : Registered(calls[i]) /\ HasPath(calls[i])
    /\ UNCHANGED <<talk, span, hosts, step, gate, out, egress, seen>>

(* The person answers a prompt that was shown, possibly again or too late: a line *)
(* sent earlier waits in the socket, so only what is there at a read matters.       *)
PersonAnswers ==
    /\ gate.up /\ pc = "await" /\ left.answers > 0
    /\ left' = [left EXCEPT !.answers = @ - 1]
    /\ \E d \in 1..gate.decision, yes \in BOOLEAN :
         gate' = [gate EXCEPT !.lines = Append(@, [d |-> d, yes |-> yes]),
                              !.yes = IF yes THEN @ \cup {d} ELSE @]
    /\ UNCHANGED <<talk, span, step, hosts, fs, out, egress, seen>>

PersonLeaves ==
    /\ gate.up /\ pc \in {"prompt", "await"}
    /\ gate' = [gate EXCEPT !.up = FALSE]
    /\ UNCHANGED <<talk, span, hosts, world, step, out, egress, seen>>

-----------------------------------------------------------------------------
(* tool_batch *)

(* The turn declaring every call is in the conversation before any outcome; the *)
(* floor was latched from the view the reply was composed under.                *)
Reply ==
    /\ pc = "idle" /\ left.replies # <<>>
    /\ calls' = calls \o Head(left.replies)
    /\ pc' = "group"
    /\ floor' = FoldLeft(LAMBDA c, b : Lower(c, b.class), floor, blocks)
    /\ left' = [left EXCEPT !.replies = Tail(@)]
    /\ UNCHANGED <<span, hosts, prep, out, pend, blocks, egress, cache, seen, fs, gate>>

GroupEnd(from) ==
    IF ~IsInert(calls[from]) THEN from
    ELSE CHOOSE j \in from..Len(calls) :
           /\ \A k \in from..j : IsInert(calls[k])
           /\ j = Len(calls) \/ ~IsInert(calls[j + 1])

NextGroup ==
    /\ pc = "group" /\ done < Len(calls)
    /\ upto' = GroupEnd(done + 1)
    /\ pc' = "prepare" /\ prep' = <<>> /\ out' = [k \in Layers |-> <<>>]
    /\ UNCHANGED <<talk, hosts, world, done, egress, seen, gate>>

EndBatch ==
    /\ pc = "group" /\ done = Len(calls)
    /\ pc' = "idle"
    /\ UNCHANGED <<talk, span, hosts, world, prep, out, egress, seen, gate>>

-----------------------------------------------------------------------------
(* prepare_call *)

Current == done + Len(prep) + 1
TheCall == calls[Current]

AfterPrepare == IF Current = upto THEN "run" ELSE "prepare"

Refused == /\ prep' = Append(prep, [ok |-> FALSE, obj |-> "none"])
           /\ pc' = AfterPrepare

Ready   == /\ prep' = Append(prep, [ok |-> TRUE,
                                    obj |-> IF HasPath(TheCall) THEN "own" ELSE "none"])
           /\ pc' = AfterPrepare

(* Registration, exposure and provenance: before the path is touched *)
Prepare ==
    /\ pc = "prepare"
    /\ \/ ~Registered(TheCall) /\ Refused
       \/ Registered(TheCall) /\ BlockedFirst(TheCall, floor) /\ Refused
       \/ /\ Registered(TheCall) /\ ~BlockedFirst(TheCall, floor)
          /\ pc' = IF HasPath(TheCall) THEN "dir" ELSE "decide"
          /\ UNCHANGED prep
    /\ UNCHANGED <<talk, span, hosts, world, out, egress, seen, gate>>

(* open_within, component by component, following no link *)
WalkDir ==
    /\ pc = "dir"
    /\ \/ /\ fs.dir = "own"
          /\ pc' = IF Of(TheCall).type = "dir" THEN "decide" ELSE "file"
          /\ UNCHANGED prep
       \/ fs.dir = "link" /\ Refused
    /\ UNCHANGED <<talk, span, hosts, world, out, egress, seen, gate>>

WalkFile ==
    /\ pc = "file"
    /\ \/ /\ fs.file = "own"
          /\ pc' = "decide" /\ UNCHANGED <<prep, fs, seen>>
       \/ /\ fs.file = "link"
          /\ Refused /\ UNCHANGED <<fs, seen>>
       \/ /\ fs.file = "none" /\ Of(TheCall).type = "path"
          /\ Refused /\ UNCHANGED <<fs, seen>>
       \/ /\ fs.file = "none" /\ Of(TheCall).type = "write"      \* CreateOrOpen
          /\ fs' = [fs EXCEPT !.file = "own", !.text = "empty"]
          /\ seen' = [seen EXCEPT !.made = @ \cup {[of |-> Current, floor |-> floor]}]
          /\ pc' = "decide" /\ UNCHANGED prep
    /\ UNCHANGED <<talk, span, hosts, out, egress, gate, left>>

(* Egress, then the tier *)
Decide ==
    /\ pc = "decide"
    /\ \/ EgressBlocked(egress, TheCall) /\ Refused
       \/ ~EgressBlocked(egress, TheCall) /\ ~NeedsApproval(egress, TheCall) /\ Ready
       \/ /\ ~EgressBlocked(egress, TheCall) /\ NeedsApproval(egress, TheCall)
          /\ pc' = "prompt" /\ UNCHANGED prep
    /\ UNCHANGED <<talk, span, hosts, world, out, egress, seen, gate>>

(* What the model is told of a decline: the reason held at that moment *)
Told(reason) == [seen EXCEPT !.why = Append(@, [decision |-> gate.decision, reason |-> reason])]

(* await_approval: the prompt goes out and only then is the old reason cleared; a *)
(* write to a client that is gone may fail, and that is a denial.                *)
Prompt ==
    /\ pc = "prompt"
    /\ LET asked == [gate EXCEPT !.decision = @ + 1, !.of = Append(@, Current)]
       IN \/ /\ gate' = [asked EXCEPT !.reason = 0]
             /\ pc' = "await" /\ UNCHANGED <<prep, seen>>
          \/ /\ ~gate.up
             /\ gate' = asked
             /\ seen' = [seen EXCEPT !.why = Append(@, [decision |-> asked.decision,
                                                        reason |-> gate.reason])]
             /\ Refused
    /\ UNCHANGED <<talk, span, hosts, world, out, egress>>

Names(line) == line.d = gate.decision
Grant(line) == Names(line) /\ line.yes

(* One line is read.  It must name the decision pending; everything else declines. *)
Answered ==
    /\ pc = "await" /\ gate.lines # <<>>
    /\ LET line == Head(gate.lines)
           own  == Names(line) /\ ~line.yes
       IN \/ /\ Grant(line)
             /\ Ready
             /\ egress' = IF EgressAsks(egress, TheCall) THEN Granted(egress, TheCall.host)
                          ELSE egress
             /\ gate' = [gate EXCEPT !.lines = Tail(@)]
             /\ UNCHANGED seen
          \/ /\ ~Grant(line)
             /\ Refused
             /\ gate' = [gate EXCEPT !.lines = Tail(@),
                                     !.reason = IF own THEN gate.decision ELSE @]
             /\ seen' = Told(IF own THEN gate.decision ELSE gate.reason)
             /\ UNCHANGED egress
    /\ UNCHANGED <<talk, span, hosts, world, out>>

HungUp ==
    /\ pc = "await" /\ gate.lines = <<>> /\ ~gate.up
    /\ Refused /\ seen' = Told(gate.reason)
    /\ UNCHANGED <<talk, span, hosts, world, out, egress, gate>>

-----------------------------------------------------------------------------
(* execute_batch, layer under layer: each wrapper delegates what it does not serve, *)
(* then serves its own one by one.  Slots of the innermost host fill in any order.  *)

(* the numbers of a set, the least first *)
InOrder(S) == [n \in 1..Cardinality(S) |-> CHOOSE i \in S : Cardinality({j \in S : j < i}) = n - 1]

Group == done + 1..upto
Cleared == {i \in Group : prep[i - done].ok}
Items  == InOrder(Cleared)
ItemsOf(k)  == InOrder({i \in Cleared : Layer[calls[i].tool] = k})
ItemsBelow(k) == InOrder({i \in Cleared : Layer[calls[i].tool] <= k})

Started(k) == /\ pc = "run"
              /\ \A j \in Layers : j < k => /\ Len(out[j]) = Len(ItemsOf(j))
                                            /\ \A n \in DOMAIN out[j] : out[j][n] # NoOut

(* the item a wrapper serves next *)
NextOf(k) == ItemsOf(k)[Len(out[k]) + 1]

Acted(i, obj) == [seen EXCEPT !.acts = @ \cup {[of |-> i, floor |-> floor, answered |-> done]},
                              !.touched = @ \cup ({obj} \ {"none"})]

(* ... and what it answered is a text from outside *)
Learned(i, d) == [Acted(i, "none") EXCEPT !.doc = With(@, i, d)]

Open ==
    /\ Started(0) /\ Len(out[0]) < Len(ItemsOf(0))
    /\ out' = [out EXCEPT ![0] = [n \in DOMAIN ItemsOf(0) |-> NoOut]]
    /\ UNCHANGED <<talk, span, hosts, world, step, egress, seen, gate>>

Filled(n, o) == out' = [out EXCEPT ![0][n] = o]

(* mutant: the path is opened again where it is used *)
ByPath(i) == IF fs.dir = "link" \/ fs.file = "link" THEN "outside" ELSE "own"

(* the handle the adjudication opened *)
Handle(i) == prep[i - done].obj

Fact(i)    == [of |-> i, class |-> Observed, kind |-> "fact", doc |-> NoDoc]
Failure(i) == [of |-> i, class |-> Observed, kind |-> "failed", doc |-> NoDoc]
Text(i, d) == [of |-> i, class |-> Untrusted, kind |-> "text", doc |-> d]

(* what is behind the handle now holds the new text *)
Put(i) == fs' = IF fs.file = "own" /\ Handle(i) = "own" THEN [fs EXCEPT !.text = "new"] ELSE fs

WriteFile(n, i) == /\ Put(i) /\ Filled(n, Fact(i))
                   /\ seen' = Acted(i, Handle(i))

(* A snippet that is absent, repeated or of an empty file changes nothing *)
EditFile(n, i) == /\ \/ fs.text # "empty" /\ Put(i) /\ Filled(n, Fact(i))
                     \/ UNCHANGED fs /\ Filled(n, Failure(i))
                  /\ seen' = Acted(i, Handle(i))

ReadFile(n, i) == /\ UNCHANGED fs
                  /\ Filled(n, Fact(i)) \/ Filled(n, Failure(i))
                  /\ seen' = Acted(i, Handle(i))

(* Names are listed by path, not through the handle *)
GlobFiles(n, i) == /\ UNCHANGED fs
                   /\ Filled(n, Fact(i))
                   /\ seen' = Acted(i, IF fs.dir = "link" THEN "names outside" ELSE "own")

(* Each file found is opened within the scope again; one that is a link is passed over *)
GrepFiles(n, i) == /\ UNCHANGED fs
                   /\ Filled(n, Fact(i)) \/ Filled(n, Failure(i))
                   /\ seen' = Acted(i, IF fs.dir = "own" /\ fs.file = "own" THEN "own" ELSE "none")

(* `read` with a reference: the stored document, untrusted as it came *)
ReadRef(n, i) ==
    /\ UNCHANGED fs
    /\ \/ Filled(n, Failure(i)) /\ seen' = Acted(i, "none")
       \/ \E d \in DOMAIN store : /\ Filled(n, Text(i, d))
                                  /\ seen' = Learned(i, d)

(* `web` without a url: a search this build does not have *)
NoAddress(n, i) == /\ calls[i].host = NoHost
                   /\ UNCHANGED fs /\ Filled(n, Failure(i))
                   /\ seen' = Acted(i, "none")

FileTool(n) ==
    /\ out[0] # <<>> /\ out[0][n] = NoOut
    /\ LET i == ItemsOf(0)[n]
           tool == calls[i].tool
       IN \/ tool = "write" /\ WriteFile(n, i)
          \/ tool = "edit"  /\ EditFile(n, i)
          \/ tool = "read"  /\ ReadFile(n, i)
          \/ tool = "glob"  /\ GlobFiles(n, i)
          \/ tool = "grep"  /\ GrepFiles(n, i)
          \/ tool = "page"  /\ ReadRef(n, i)
          \/ tool = "web"   /\ NoAddress(n, i)
    /\ UNCHANGED <<talk, span, hosts, step, egress, gate, left>>

(* `web`: the fetches of a group run side by side over one client *)
WebAsks(n) ==
    /\ out[0] # <<>> /\ out[0][n] = NoOut
    /\ LET i == ItemsOf(0)[n]
       IN /\ calls[i].tool = "web" /\ calls[i].host # NoHost /\ ~Busy(i)
          /\ TakePooled(i, calls[i].host) \/ Connect(i, calls[i].host)
          /\ seen' = Acted(i, "none")
    /\ UNCHANGED <<talk, span, world, step, out, egress, gate, mcp, sh, store>>

(* The outcome is whoever's response was read; on a connection whose server wrote out of turn *)
(* that may be anybody's                                                                      *)
Answered_(o, i) == [o EXCEPT !.of = From(i),
                             !.kind = IF net.work[i].conn.astray THEN "astray" ELSE @]

(* The document goes to the store; what is answered is the harness's description of it *)
WebReads(n, i, r) ==
    LET doc == ExtractBody(r.body)
    IN IF r.status = "redirect" \/ ~doc.ok
       THEN /\ Filled(n, Answered_(IF r.status = "redirect"
                                   THEN [Fact(i) EXCEPT !.kind = RedirectTo(r.location)]
                                   ELSE Failure(i), i))
            /\ UNCHANGED <<store, seen>>
       ELSE /\ Filled(n, Answered_(IF r.status = "refused" THEN Failure(i) ELSE Fact(i), i))
            /\ store' = PutDocument(store, doc)
            /\ seen' = [seen EXCEPT !.read = @ \cup {[body |-> r.body, doc |-> doc]}]

WebTalks(n) ==
    /\ out[0] # <<>> /\ out[0][n] = NoOut
    /\ LET i == ItemsOf(0)[n]
       IN /\ calls[i].tool = "web" /\ Busy(i)
          /\ \/ /\ Retried(i)
                /\ UNCHANGED <<out, store, seen>>
             \/ /\ GivenUp(i) \/ Unfetched(i)
                /\ Filled(n, Failure(i))
                /\ UNCHANGED <<store, seen>>
             \/ LET r == net.work[i].answer
                IN /\ Received(i, r)
                   /\ \/ /\ Undecodable(r) /\ Filled(n, Answered_(Failure(i), i))
                         /\ UNCHANGED <<store, seen>>
                      \/ ~Undecodable(r) /\ WebReads(n, i, r)
    /\ UNCHANGED <<talk, span, world, step, egress, gate, mcp, sh>>

(* Sites act while a fetch is out or still to come: else nobody takes a connection *)
Sites == /\ pc = "run"
         /\ \E i \in Cleared : calls[i].tool = "web" /\ \A e \in net.ends : e.of # i
         /\ SiteCloses \/ SiteStrays \/ \E i \in DOMAIN net.work : SiteAnswers(i)
         /\ UNCHANGED <<talk, span, world, step, out, egress, gate, mcp, sh, store, seen>>

BashStarts(n) ==
    /\ out[0] # <<>> /\ out[0][n] = NoOut /\ sh.phase = "off"
    /\ calls[ItemsOf(0)[n]].tool = "bash"
    /\ sh' = Spawned
    /\ seen' = Acted(ItemsOf(0)[n], "none")
    /\ UNCHANGED <<talk, span, world, step, out, egress, gate, mcp, net, store>>

BashEnds(n) ==
    /\ out[0] # <<>> /\ out[0][n] = NoOut /\ sh.phase = "done"
    /\ calls[ItemsOf(0)[n]].tool = "bash"
    /\ Filled(n, IF sh.stopped THEN Failure(ItemsOf(0)[n]) ELSE Fact(ItemsOf(0)[n]))
    /\ sh' = NoShell
    /\ UNCHANGED <<talk, span, world, step, egress, seen, gate, mcp, net, store>>

Shell_ == /\ ShellNext
          /\ UNCHANGED <<talk, span, world, step, gate, mcp, net, store, out, egress, seen>>

Recall ==
    /\ Started(1) /\ Len(out[1]) < Len(ItemsOf(1))
    /\ \E d \in Docs \cup {NoDoc} :
         LET i == NextOf(1)
         IN /\ out' = [out EXCEPT ![1] = Append(@, IF d = NoDoc THEN Fact(i) ELSE Text(i, d))]
            /\ seen' = IF d = NoDoc THEN Acted(i, "none") ELSE Learned(i, d)
    /\ UNCHANGED <<talk, span, hosts, world, step, egress, gate>>

(* call_tool: one request, with the fleet locked for its whole length *)
McpAsks ==
    /\ Started(McpLayer) /\ Len(out[McpLayer]) < Len(ItemsOf(McpLayer)) /\ mcp.phase = "rest"
    /\ mcp' = Sent
    /\ seen' = [Acted(NextOf(McpLayer), "none") EXCEPT !.asked = Append(@, NextOf(McpLayer))]
    /\ UNCHANGED <<talk, span, step, world, out, egress, gate, sh, net, store>>

McpGoesOn ==
    /\ Blocks \/ Skip
    /\ UNCHANGED <<talk, span, step, world, out, egress, gate, seen, sh, net, store>>

Served(o) == out' = [out EXCEPT ![McpLayer] = Append(@, o)]

(* The two request kinds of the handshake are numbered 1 and 2 *)
McpAnswered ==
    /\ Taken
    /\ mcp' = AfterTaken
    /\ LET line == Head(mcp.lines)
           i == seen.asked[line.id - 2]
       IN \/ /\ line.kind \in {"text", "tool error"}
             /\ \E d \in Docs :
                  /\ Served(Text(i, d))
                  /\ seen' = [seen EXCEPT !.doc = With(@, i, d)]
          \/ /\ line.kind = "remote error"
             /\ \E d \in Docs :
                  /\ Served([of |-> i, class |-> Observed, kind |-> "server words", doc |-> d])
                  /\ seen' = [seen EXCEPT !.doc = With(@, i, d)]
    /\ UNCHANGED <<talk, span, step, world, egress, gate, sh, net, store>>

McpFails ==
    /\ TimedOut \/ Closed
    /\ mcp' = AfterError
    /\ Served(Failure(NextOf(McpLayer)))
    /\ UNCHANGED <<talk, span, step, world, egress, gate, seen, sh, net, store>>

(* The server acts while a request is out: what it does between two is read by the next *)
McpServer == /\ mcp.phase # "rest" /\ Server
             /\ UNCHANGED <<talk, span, step, world, out, egress, gate, seen, sh, net, store>>

-----------------------------------------------------------------------------
(* Folding back *)

Rank(s, i) == CHOOSE n \in DOMAIN s : s[n] = i

(* mutant: a wrapper reads the inner outcomes at its own positions *)
SlotOfAll(k, i) == Rank(ItemsBelow(k), i)

(* delegated_slots: the place of a delegated item among the delegated *)
Slot(k, i) == Rank(ItemsBelow(k - 1), i)

(* What layer k makes of what the one under it returned *)
Merged(k, inner) ==
    [n \in DOMAIN ItemsBelow(k) |->
        LET i == ItemsBelow(k)[n]
        IN IF Layer[calls[i].tool] = k THEN out[k][Rank(ItemsOf(k), i)]
           ELSE IF Slot(k, i) \in DOMAIN inner THEN inner[Slot(k, i)] ELSE NoOut]

(* What layer k returns, in the order of the items it was given *)
Returned[k \in Layers] == IF k = 0 THEN out[0] ELSE Merged(k, Returned[k - 1])

AllServed == Started(McpLayer + 1)

Block(i, o, class, kind) == [of |-> i, from |-> o.of, class |-> class, kind |-> kind, doc |-> o.doc,
                             words |-> o.kind = "server words", astray |-> o.kind = "astray"]
Blank(i) == [NoOut EXCEPT !.of = i]

(* the outcome of each call that was carried out *)
Results == LET result == Returned[McpLayer] IN [i \in Cleared |-> result[Rank(Items, i)]]

Answer(o, i) == IF i \in Cleared THEN Block(i, o[i], o[i].class, "result")
                ELSE Block(i, Blank(i), Observed, "refusal")

(* finish_call, in call order; refusals are replayed in their places *)
Fold ==
    /\ pc = "run" /\ AllServed
    /\ \E o \in {Results} : \E deferred \in {{i \in Cleared : BlocksComposedTargets(o[i].class)}} :
         LET shown   == InOrder(Group \ deferred)
             waiting == InOrder(deferred)
         IN /\ blocks' = blocks \o [n \in DOMAIN shown |-> Answer(o, shown[n])]
            /\ pend' = [n \in DOMAIN waiting |-> [of |-> waiting[n], from |-> o[waiting[n]].of,
                                                  doc |-> o[waiting[n]].doc]]
    /\ done' = upto /\ pc' = IF pend' = <<>> THEN "group" ELSE "condense"
    /\ prep' = <<>> /\ out' = [k \in Layers |-> <<>>]
    /\ UNCHANGED <<calls, floor, cache, upto, world, hosts, egress, gate, seen>>

-----------------------------------------------------------------------------
(* condense_chunk *)

Chunk == SubSeq(pend, 1, IF Len(pend) < MaxSources THEN Len(pend) ELSE MaxSources)
Cached(p) == \E e \in cache : e.doc = p.doc
Entry(p)  == CHOOSE e \in cache : e.doc = p.doc
Fresh     == LET places == InOrder({n \in DOMAIN Chunk : ~Cached(Chunk[n])})
             IN [n \in DOMAIN places |-> Chunk[places[n]]]

(* mutant: what nobody could read is passed on as it came *)
UnreadShown(p) == [of |-> p.of, from |-> p.from, class |-> Untrusted, kind |-> "not read",
                   doc |-> p.doc, words |-> FALSE, astray |-> FALSE]

(* Failing closed: the harness's words and never the page *)
Unread(p) == [of |-> p.of, from |-> p.of, class |-> Inferred, kind |-> "not read",
              doc |-> NoDoc, words |-> FALSE, astray |-> FALSE]

(* condensed_note, of what was read or what is remembered (Contract, NoteOf) *)
Note(p, src) == [of |-> p.of, from |-> src.from, class |-> Inferred, kind |-> "note",
                 doc |-> src.doc, words |-> FALSE, astray |-> FALSE]

(* the label the reader was given: the place among the sources it was shown *)
FieldOf(p) == CHOOSE n \in DOMAIN Fresh : Fresh[n] = p

(* Only a document read alone is remembered *)
Remembered == IF Len(Fresh) = 1 THEN {[doc |-> Fresh[1].doc, with |-> {Fresh[1].doc}]} ELSE {}

Push(notes) ==
    /\ blocks' = blocks \o notes
    /\ pend' = SubSeq(pend, Len(Chunk) + 1, Len(pend))
    /\ pc' = IF pend' = <<>> THEN "group" ELSE "condense"
    /\ UNCHANGED <<calls, floor, span, prep, world, hosts, out, egress, gate, seen>>

OldNote(p) == Note(p, [from |-> p.from, doc |-> Entry(p).doc])

AllCached ==
    /\ pc = "condense" /\ Fresh = <<>>
    /\ Push([n \in DOMAIN Chunk |-> OldNote(Chunk[n])])
    /\ UNCHANGED cache

NoBudget ==
    /\ pc = "condense" /\ Fresh # <<>>
    /\ Push([n \in DOMAIN Chunk |-> Unread(Chunk[n])])
    /\ UNCHANGED cache

(* The child met its contract: a field it left out is filled with the harness's words, so
   every source has its note *)
ReadUnderQuarantine ==
    /\ pc = "condense" /\ Fresh # <<>>
    /\ Push([n \in DOMAIN Chunk |->
                LET p == Chunk[n] IN IF Cached(p) THEN OldNote(p) ELSE Note(p, Fresh[FieldOf(p)])])
    /\ LET kept == cache \cup Remembered
       IN cache' = IF Cardinality(kept) > MaxCache THEN {} ELSE kept

(* It paused, asked, failed, was cancelled, or met its contract in no attempt *)
ReaderFails ==
    /\ pc = "condense" /\ Fresh # <<>>
    /\ Push([n \in DOMAIN Chunk |->
                LET p == Chunk[n] IN IF Cached(p) THEN OldNote(p) ELSE Unread(p)])
    /\ UNCHANGED cache

-----------------------------------------------------------------------------
Loop == \/ NextGroup \/ EndBatch \/ Prepare \/ WalkDir \/ WalkFile \/ Decide \/ Prompt
        \/ Answered \/ HungUp \/ Open \/ Recall \/ McpAsks \/ McpGoesOn \/ McpAnswered
        \/ McpFails \/ Fold \/ AllCached \/ NoBudget \/ ReadUnderQuarantine \/ ReaderFails
        \/ \E n \in DOMAIN out[0] : FileTool(n) \/ BashStarts(n) \/ BashEnds(n) \/ WebAsks(n) \/ WebTalks(n)

Next == Reply \/ Loop \/ Shell_ \/ McpServer \/ Sites \/ Swap \/ PersonAnswers \/ PersonLeaves

(* The loop's thread runs and run_bounded polls.  Nothing is asked of the command, of *)
(* the server or of the person.                                                       *)
Fairness ==
    /\ WF_vars(Loop)
    /\ WF_vars(ShellHarness /\ UNCHANGED <<talk, span, step, world, out, egress, gate, seen, mcp, net, store>>)

Spec == Init /\ [][Next]_vars /\ Fairness

-----------------------------------------------------------------------------
(* every call the model made is answered exactly once, and nothing else is: refused,   *)
(* failed, condensed, unread for want of budget, whatever became of its siblings        *)
OneAnswerPerCall ==
    pc = "idle" => \A i \in DOMAIN calls :
                     Cardinality({n \in DOMAIN blocks : blocks[n].of = i}) = 1

(* what is remembered of a document was said by a reader that saw nothing else *)
CacheUncontaminated == \A e \in cache : e.with = {e.doc}

(* Every call gets one answer and it is its own, all of it or said to be cut.           *)
(* Three hosts split the group and merge it again, the pipe may hold the answer to an   *)
(* earlier request, the reader is shown some of a chunk's documents under labels of     *)
(* their own, the cache answers for others, and a command's output is capped by one     *)
(* thread and collected by another.  One answer is excepted, a fetch's from a connection *)
(* whose server wrote out of turn: the client reads it as its own (PoolInvisible).       *)
OwnAnswer ==
    /\ \A b \in Range(blocks) :
        b.kind \in {"result", "note"} =>
            /\ b.from = b.of \/ b.astray
            /\ b.doc # NoDoc => b.doc = seen.doc[b.of]
    /\ OneAnswerPerCall /\ CacheUncontaminated /\ CutIsTold

(* A document from outside is in the conversation only as the reader's note: out of     *)
(* budget, reader failed, fetch failed, answered from the cache, no path falls back on   *)
(* the text itself.  One path is excepted because the code takes it: the message of an   *)
(* installed server's JSON-RPC error is put into the refusal as it came and answered as  *)
(* the harness's own (daemon/mcp.rs:197-201; the comment at 229 says otherwise).         *)
NothingRaw ==
    \A b \in Range(blocks) :
        /\ b.class > Untrusted
        /\ b.doc # NoDoc => (b.kind = "note" /\ b.class = Inferred) \/ b.words

Consented(i) == \E d \in gate.yes : gate.of[d] = i
HostConsented(h) == \E i \in DOMAIN calls : Consented(i) /\ calls[i].host = h

Permitted(a) ==
    LET c == calls[a.of]
    IN /\ c.tool \in Exposed /\ ~UntrustedTarget(c, a.floor)
       /\ Of(c).level = Irreversible => Consented(a.of)
       /\ NeedsHost(c) => /\ c.host \in Of(c).hosts
                          /\ Grants(FirstEgress, c.host) \/ HostConsented(c.host)

(* a call with an effect waits for all before it, and all after it wait for its answer *)
Overtakes(a) == \E j \in 1..a.of - 1 :
                   /\ ~IsInert(calls[j]) \/ ~IsInert(calls[a.of])
                   /\ j > a.answered

(* Nothing is carried out that the rules did not allow when the reply was composed: no  *)
(* acting target chosen under untrusted content, no irreversible call and no new host   *)
(* without the person's own yes to that very prompt.  What is carried out stays inside  *)
(* the workspace whatever is swapped under its path between the check and the act,      *)
(* overtakes nothing, and a call that provenance refuses does not even leave an empty   *)
(* file behind.                                                                         *)
ActsOnlyWithLeave ==
    /\ \A a \in seen.acts : Permitted(a) /\ ~Overtakes(a)
    /\ "outside" \notin seen.touched
    /\ \A m \in seen.made : ~UntrustedTarget(calls[m.of], m.floor)

(* What is read of a page is what a reader of it is shown: nothing in a script or a      *)
(* skipped element, wherever stray closing tags are, and never nothing at all of a page  *)
(* that has text outside chrome.  An archive inflates to no more than its ceilings       *)
(* whatever its headers say, and a cell shows its own string or none.                    *)
PageAsShown ==
    \A e \in seen.read :
        LET found == Parsed(e.body.page).blocks
            kept  == e.doc.text
        IN /\ e.doc.format = "html" =>
                /\ \A n \in DOMAIN kept : ~HiddenAt(e.body.page, kept[n])
                /\ kept = <<>> => found = <<>> \/ (Marked(found) # <<>> /\ AllFarm(found))
           /\ e.doc.spent <= MaxTotal + MaxEntry
           /\ e.doc.format = "xlsx" =>
                \A n \in DOMAIN kept : kept[n] \in {Cells(e.body)[n], NoString}

(* A batch ends, or is held for good by somebody else: a person who neither answers nor *)
(* leaves, or a server that neither writes nor dies.  A command, whatever it does, its  *)
(* children included, does not hold it.                                                 *)
HeldOnlyByOthers ==
    \/ []<>(pc = "idle")
    \/ <>[](pc = "await" /\ gate.up /\ gate.lines = <<>>)
    \/ <>[](mcp.phase = "read" /\ mcp.alive /\ mcp.lines = <<>>)
=============================================================================
