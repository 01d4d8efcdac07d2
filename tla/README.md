# marlowe in TLA+

marlowe is a personal agent that runs as a daemon: it answers a person's messages by driving a
model in a loop, lets the model call tools and delegate to child runs, decides what a run may do
from the trust class of what it has read, remembers across conversations, and keeps everything that
happened in a signed, append-only journal from which an interrupted run can be resumed. This
directory models its core logic, checks the models with TLC on small instances, and proves the main
invariants of twelve of them with TLAPS for every value of the constants.

Paths below are under `src/crates/`; `engine.rs` alone is `marlowe-loop/src/engine.rs` and
`daemon.rs` is `marlowe-daemon/src/daemon.rs`. `PROJECT.json` maps every definition to its lines,
lists the hazards the properties are for, and gives each property a mutant of the code that breaks it.

Contents: [Inventory](#inventory), [Modules](#modules), [Runs](#runs), [Proofs](#proofs),
[Where the code departs from its comments](#where-the-code-departs-from-its-comments),
[Not modelled](#not-modelled), [Plan](#plan).

## Inventory

| Component | State | Operations | What makes it correct | Modules |
|---|---|---|---|---|
| Turn (`daemon.rs`) | conversations' sessions, the resumed checkpoint | Ask, Resume, Shutdown, open | an accepted turn ends with its row marked; shutdown is never refused for a run nobody drives | DurableRun |
| Loop (`engine.rs`) | steps, spend, retry counters, trust floor | one iteration: stops, cancel, steer, view, call, act, checkpoint | bounds hold, a cancel stops at the next boundary, the floor never rises | DurableRun |
| Control plane (`control_plane.rs`, `control.rs`) | run rows, cancel set, steer queues, frame rings | steer, cancel, resume, frames | a steer reaches the run it named, once; a window is never left behind silently | DurableRun, RunWindow |
| Durability (`durable.rs`, `roster.rs`) | the latest checkpoint of each run | capture, restore, orphan settlement, seed from journal | a finished run stays finished; what is resumed is what was saved | DurableRun, SpawnTree |
| Context window (`context.rs`) and requests (`wire.rs`, the drivers) | context and volatile blocks | push, trim, mask, compact; render the messages | a class outlives its block; nothing is dropped silently; a reply answers a call | ContextWindow, WindowFloor, RequestBody |
| Delegation (`engine.rs` spawn, `budget.rs`, `profile.rs`) | the stack of active runs, grants, orphan policies | spawn, grant, settle | authority only narrows; spend adds up | SpawnTree |
| Tool batch, reader, contracts (`engine.rs`, `run.rs`) | deferred results, condensed notes | group, adjudicate, run, finish, condense, return | one answer a call, its own; untrusted text reaches no run with tools | ToolBatch, Contract |
| Permission (`marlowe-permission`) | none (pure), the walked path | adjudicate, egress, scope | a composed target below the floor is denied; a path swapped after the check stays inside | Permission, ToolBatch |
| Approvals (`daemon.rs` SocketApprovals) | the numbered prompt, the last reason | ask, answer, hang up | a yes is to that very prompt | ToolBatch, Surface |
| Tools (`marlowe-exec`) | files, the shell's child and its threads | read, edit, write, grep, glob, bash | windows leave no line out; an edit is where it was quoted; a command cannot hold the turn | FileText, ShellRun, ToolBatch |
| Manifests, skills, pins (`marlowe-tools`, `daemon/skills.rs`) | registry, loaded skills, pinned descriptions | load, scan, use, pin | a header means what it says; what is left unsaid is the strictest; a change is announced | Skills, Toolset |
| MCP (`marlowe-mcp`, `daemon/mcp.rs`) | one pipe per server, request ids | connect, request | an answer is matched to its request; a call reaches the server that brought the tool | McpPipe, Toolset |
| Net and extraction (`marlowe-net`, `marlowe-extract`) | the pool of connections, the document store | fetch, redirect, decode, extract | a kept connection is invisible; text is what a reader is shown; ceilings hold | Fetch, HtmlText, Extract |
| Memory (`marlowe-memory`, `daemon/memory.rs`) | beliefs derived from the log | ingest, claim, correct, forget, consolidate | live store = replayed store; trust never rises through lineage | BeliefStore |
| Retrieval (`retrieve.rs`, `rerank.rs`, `gate`, `recall.rs`) | none across calls | sessions, prune, score, decide, recall | an injection leads its rivals; a failed pair costs its own place only; an empty answer says why | Retrieval |
| Memory devices (`cue/dense`) | graphs on a card, CUDA libraries, embedding cache | probe, place, fall back, embed, tokenise | one provider, the reserve left free, a vector belongs to its text | Devices, MemoryHost, Tokens |
| Providers (`marlowe-provider`, `marlowe-openrouter`) | the supervised server, port, card, failures | ensure, adopt, replace, stop, fall back | each server accounted for; the answer is by the model that is named | HybridEngine |
| A reply's stream (drivers, `think.rs`, `project.rs`) | fold of the stream, token ledger, transcript | frame, end, retry, retract | the reply is whole, counted once, and what is on screen | Reply |
| Terminal (`marlowe-surface`, `live.rs`, `client.rs`, `tui.rs`) | field, chips, approval window, message threads | keys, send, answer, tick | a grant reaches the question it was pressed for; what is sent is what was written | Composer, Surface |
| Run windows (`watch.rs`, `window.rs`, `watch_client.rs`) | projection, field, question, notice | poll, steer, cancel, resume, detach | prose is current, requests reach their run once, a notice fades | RunWindow, WatchWindow |
| Journal and profile (`marlowe-journal`) | key, manifest, table, lock file | init, open, append, verify, lock | one chain; what opens is authentic; an existing profile reopens | ProfileJournal |

How they interact. The daemon's main port serves one connection at a time, so one thread drives one
run at a time; the control port's thread takes steers, cancels and polls under the control plane's
mutex while the main thread is inside a model call. The loop calls the provider, the permission
layer and the tools synchronously; a spawn drives the child to its outcome inside the parent's step.
Checkpoints and events go through the roster into the journal and, once appended, move the row the
control plane shows. The surface is another process (or the same one in-process): its drawing thread
owns the screen, one thread per message reads a turn's events and blocks on a rendezvous for each
approval. Windows in other processes poll. A memory host is opened once per process and called
synchronously by the turn.

Hard behaviour: the control thread between any two steps of a turn; a crash between any two durable
writes; a resume that continues from an older durable state than memory had; an append the journal
refuses; the class of content that was trimmed, masked or summarised away; a path swapped between
its check and its use; an answer that arrives twice, late or for another question; a server that
answers late, dies or is somebody else's; a stream cut anywhere; two processes on one profile, one
port or one card; and loops that `continue` without spending anything.

## Modules

### DurableRun

The turn of `daemon.rs`, `drive`/`drive_inner` of `engine.rs`, the control plane's plane half and
the journal's checkpoints. `pc` is where the single main thread is (`idle`, `staged` and `select` in
the turn; `boundary`, `steer`, `view`, `call`, `act`, `save` in one iteration; `final` and `mark` at
the end; `down` when the process is gone) and `cur` the run it drives. `cp` is what the journal
holds, `row`, `cancelled`, `steers` and `sess` what the process holds, the loop variables what is on
the thread's stack: `Crash` and `Shutdown` keep the first and lose the rest, `Restart` seeds the rows
from checkpoints. Lock scopes are kept: `Resume` and `AcceptResumed` are two actions because the code
takes the plane's lock twice, and `Steer` and `Cancel` of the control thread fit between any two
actions. One action stands for each way an iteration can go: the three hard stops in the code's
order, compaction, masking, failover, a failed call, an empty reply with its auto-continue counter,
an answer, a question to the user, a reply to act on. The final checkpoint reuses the step of the
last one (`saved`), as `drive` does.

Data abstraction: content is its lowest trust class (0..3 in `marlowe-contract`'s order), spend is
tokens, a steer is its ticket number. A delegate's whole life is one `Act`, with its spend in
`ChildCosts`.

### ContextWindow, WindowFloor and RequestBody

`SessionState` and `Assembler` of `context.rs`. A block is its source, class, token estimate and
the one thing a property or the code asks of its text: whether it begins with `[` (how
`clear_tool_results` recognises what it already cleared), whether it holds the user's message or
the child's brief, and the call it belongs to. `Trim` is `trim_to_budget` as a fold from the newest
block; `Trimmed` puts one marker per source in front; `Masked`, `Compacted` and `Summary` are the two
levers and `PassthroughSummarizer`. `Message` is what the daemon's turn pushes; the other actions are
what each kind of reply leaves. Three kinds of run open differently: a conversation's root, a child
with its brief, a quarantined reader with the text it is to read. `WindowFloor` is the abstract
promise the permission layer relies on: one number that only falls.

`RequestBody` is the messages the three drivers build of a view: `wire.rs`'s announcement and pairing
of calls and results, the demotion of an orphaned result, the tail `recall` pair, the roles of each
dialect, and the room left for the reply. `SentIsHonest` looks at every request the window can lead
to: nothing is lost between view and request, each `tool` message answers a call announced before
it, nobody speaks in another's name, and prompt plus `max_tokens` fits. Reductions: one call per
batch turn (`ToolBatch` is where a reply makes several, in their order), tools abstracted to a registered and an unregistered one; sampling, seed and model name
are data.

### RunWindow and WatchWindow

`RunWindow` is `ControlPlane::push` and `frames_since` with the ring (`Frames`), and `RunProjection`
of `watch_client.rs` in another process. Prose coalesces into the tail, a tool line replaces the first
frame with its call id, the ring drops from its front. `NextTurn` is a resume in the same daemon
(same ring, new engine whose ids begin again), `Restart` a new daemon under an open window.

`WatchWindow` extends it and `Composer` with the process around the projection: `watch.rs`'s loop (keys in bursts,
poll, draw), the window's field, the question before a cancel, the notice and its
count of polls, the requests over the control port or the main one, the resolution of the name the
person typed, and exchanges that break before or after the daemon acted. Reductions: Tab, hotkeys and
mouse are one key that moves the focus; the daemon acts only where the window is about to look; a
restart is atomic. A resume whose connection breaks may or may not have set the run going.

### ProfileJournal

`marlowe-journal` as several processes use it: every file step of `Profile::init` and
`Profile::open`, the lock file of the POSIX build step by step (create, write the pid, read it back,
probe `/proc`, remove, create again), `verify_chain`, `append` against the table's primary key, and
the end of `Daemon::open`, where the local `Profile` and its lock are dropped. A process may die
between any two steps, and a row may be edited or deleted from outside. A signature is the tuple it
signs: HMAC-SHA256 is taken as ideal.

### SpawnTree

`Engine::spawn`, `condense_chunk`'s readers and `settle_children`. A child is driven to its outcome
inside its parent's step by the same thread, so the runs being driven are a `stack`; `pc` is the
place of the topmost (`loop`, `reply`, `batch` while fetched content is being read, `acted` before
the step's checkpoint, `final` and `settle` at a drive's end). `run` is what the process holds of a
driven run, `cp` its latest checkpoint, `children` the engine's in-memory table. `Grant`,
`ReaderSlice`, `ChildOf`, `ProfileAllowed`, `ComposesTargets` and `Amended` are the pure functions of
`budget.rs`, `profile.rs`, `engine.rs` and `durable.rs`; `Accepts` is every early return of `spawn` in
its order. Any run with a resumable checkpoint, a child's too, can be resumed on its own, as the
daemon does; a crash loses the stack and the table. `settled` is the one history variable.

Data abstraction: of the six dimensions of a budget, tokens, subagents and depth; a stop for another
reason is nondeterministic. The floor is clean or tainted (`blocks_composed_targets`). A profile is a
level and a set of tools. Egress and texts are left out; the return of a result is `Contract`.

### ToolBatch and the components it composes

`ToolBatch` is the life of one reply's tool calls in `engine.rs`: grouping (consecutive calls that may
run together), adjudication of each against the floor the reply was composed under, the approval
prompt, execution by the merged hosts, folding results back with their class, deferring untrusted
ones to the quarantined reader, and its cache. It extends one module per thing a call can do to the
state; the texts a call reads and writes are the pure modules below them, which `MCToolBatch` adds:

- `Permission`: `adjudicate`, egress, targets and taint as operators over a manifest and a call.
- `McpPipe`: one server's pipe; requests with ids, lines read one at a time, notes in between, late
  answers, a deadline looked at before a blocking read, a server that dies.
- `ShellRun`: `run_bounded`; the child and what it leaves behind, the reader thread with its cap, the
  calling thread with its deadline, kill and collection.
- `Fetch`: the client's pool, requests on kept and fresh connections, framing, redirects, retries.
- `HtmlText`, `Extract`: bytes to text; the HTML pass with its counters and the choice of content;
  detection, charsets, archives with their ceilings, spreadsheets, PDF pages, the document store.
- `Contract`: `parse_fields`, the fields a reader's reply is cut into and the note made of them, and
  what a child's result becomes on its way up (`Outcomes`, `TypedNote`, `Headline`, `UpwardNote`).
- `FileText`: ranged reads with their windows and notices, line numbers, edits, walks, searches.
- `Skills`: the front matter parser line by line, the extension block, the scan over directories,
  `use`, discovery and its ranking.
- `Toolset`: loading manifests and their descriptions, the registry, connecting a fleet of servers,
  the pinned descriptions over several starts, the exposure budget and the route of a call by its name.

`pc` is the place of the loop's thread (`idle`, `run`, `await`, ...). The path walk of `scope/walk.rs`
is several steps, so a directory may be swapped under it; the person acts only at a prompt, a server
only while a request is out, a site only while a call runs. `seen` is the history the properties
read: what was carried out, on which leave, which documents were read, what was touched. `Scripts`
(in `MCToolBatch`) are the replies the model makes. A site may write what nobody asked for on a connection
that is kept (`SiteStrays`): more than the body it announced, which `give_back` pools with the reader that
holds it, or a line while the connection lies idle; the next fetch on it reads that first, and what it
leaves behind is then its own response, for the one after. The message of a server's JSON-RPC error enters
the conversation as `McpTools::call` lets it (`words`). The pure parts (`Contract`, `FileText`, `Skills`,
`Toolset`, and the note's text) are functions of their input and touch no state of a batch, so
`ToolBatch` does not extend them; `MCToolBatch` evaluates them over all their bounded inputs once, in
one initial state (`AtStart`), as conjuncts of `ReadAsWritten`.

### BeliefStore

`store.rs`, `ingest.rs`, `claim.rs`, `consolidate.rs`, `trust.rs` and the two hosts that write: the
daemon (external content under derived ids, claims, corrections, forgetting) and the eval adapter
(requests that may be sent again, embedding, consolidation). `log` is the journal's memory events,
`store` what the process holds, `derive` the replay. Operations are serial; an append or an embedding
may fail and the process may die between any two appends of one operation. Time is a clock that
ticks between operations; likeness of texts is a table in which `a` is like `b` and `b` like `c` but
`a` not like `c`, which is what a cluster can get wrong.

### Retrieval, Tokens, Devices and MemoryHost

`Retrieval` takes scored candidates to an answer: sessions by gaps, the prune per cue, the slate, the
cross-encoder in batches that may fail whole or for a pair, the plan (off, shipped, cascade with
fusion, dump), the margin or the fitted gate, the token budget, and `recall`. The gate's artifact is
read first (`from_artifact`): what it must hold, and what refuses it. Z-scores and reciprocal
ranks are exact fractions. A sort inserts one candidate after the other (`SortedBy`), which is stable as Rust's is. `Tokens` is the wordpiece tokenizer with its truncation of pairs and the two
ways its vocabulary is read, lines or `tokenizer.json`. `Devices`
brings the graphs up: the size of the reserve as a person writes it (`parse_size`) or as Ollama
reports it, the CUDA libraries, the probe of the card, one session after
another while other processes take and release memory (`Shift`), the fallback to the CPU, the plan that
follows. A batch (`EmbedTexts`) is looked up text by text (`Pending`), cut into one contiguous run per
session (`Share`) and joined again (`Computed`). `MemoryHost` composes them with the embedding cache,
whose file outlives the process and its provider (`NextStart`). A graph is an uninterpreted function
of the ids it is given. `DevicesAssumption` says what a configuration is (at least one worker,
`workers.max(1)`) and that sizes are natural numbers.

### HybridEngine

`hybrid.rs`, the llama.cpp server's supervision, `ollama_store.rs`'s resolution of a model's file and
the daemon's switches of provider and model. Processes live in slots, the port and the card are
shared with strangers. A turn selects its driver, ensures the server (adopt, start, wait for health
under a deadline, replace, stop) and calls; the server may die, wedge, lose the port or be left
running by a daemon that crashed. Two servers may listen on the port at once, as `hybrid.rs:176` says that
two did: each request the daemon makes (health and `/props`, the timed generation, the tool probe, the
turn's probe, the call) is then answered by either of them. `missed` counts turns that got no answer while
one at most listens and no other comes up; a reading is `measured` when nobody but the server itself could
have answered the timed generation, else `contested`.

### Reply

One turn of streamed calls through the Ollama, llama.cpp and OpenRouter drivers: frames with content,
reasoning, tool-call fragments and the end; the channel splitter of `think.rs` that holds back what
may be a tag; the step read from the stream; retries and retractions; the loop's use of the step;
`project.rs`'s transcript and the token ledger. `odd` names a retraction of speech that is not one entry of its own, which the run `retraction` is about,
and `late` the pattern, listed below, in which the reply depends on how the stream was cut.

### Composer and Surface

`Composer` is the message field both surfaces share: pieces (letters, pastes shown as chips,
commands), editing, submission and `expand_pastes`. `Surface` is the terminal's drawing thread
(bursts of keys, ticks, requests), the thread of each message with its rendezvous for an approval,
the daemon's serial main port with `SocketApprovals`, the client's two ways of reading a reply, and
read timeouts, a dead daemon and a model switch that waits on the port a turn holds. A burst of keys
is handled one key a step. Reductions: the
tick before a wait is merged with the step after it; editing is explored while nothing is under way
and afterwards with at most one piece in the field; focus, regions and pickers by keyboard are left
out.

## Runs

Ten runs pass, and every property of theirs has a mutant of the mapped code that breaks it under the same
cfg. Two more check a sentence of a comment that the code does not keep, and find it violated.

`conversation` and `memory` each hold instances that share no variable: their initial state chooses
which one moves (`part`, in `MCConversation` and `MCMemory`) and the others rest in an initial state.
`MCConversation` narrows what may happen in each part by a conjunct on `Next`, never by a definition of
its own: in `tainted` nobody steers; in `steered` nothing untrusted comes in, no call fails or is
continued, no crash and no compaction happen, none of which touches a queue (a crash empties them all).

| Run | Instance | Distinct states | Shows |
|---|---|---|---|
| `conversation` | two symmetric runs, 1 crash, 2 steps, retrievals of the lowest and the highest class; the same two with 2 steers to either or both; one turn through five driver settings, 4 frames of 14 kinds, 2 calls, 2 attempts | 3,974,533 | `BlockedStaysBlocked`, `FinishedNeverRedriven`: the trust latch and finished outcomes survive crashes, shutdowns, resumes, compactions and later turns; `SteersRoutedOnce`; `ReplyIsWhole`, `ScreenIsReply` |
| `one_run` | one run, 1 steer, cancel, 1 crash, 1 refused append, fairness | 642,872 | `StopIsPromptAndPaid` (after a cancel at most the call in flight; spend lost to a crash is bounded by the calls since the last checkpoint), `NoPhantomLiveRun`, `TurnEnds` |
| `window` | five blocks of two sizes, window of 20 within 24, caps of 5 and 4, keep 1, 1 steer | 349,354 | `SentIsHonest` (view and request), `ImplementsWindowFloor` (refinement), `PressureSettles` |
| `frames` | ring of 2, 4 pushes, 2 turns, 1 restart, 13 bursts of keys, 1 broken exchange | 805,326 | `WindowIsCurrent`, `RequestsAreTheirs`, `NoticeFades` |
| `profile` | two processes that restart, three pids, two rows, one damaged row, new or existing profile | 499,333 | `LogNeverForks`, `OpenedIsAuthentic`, `JournalReopens` |
| `delegation` | one root, two symmetric further runs, 3 tokens, 2 agents, depth 3, six requests, 1 crash | 1,291,939 | `DelegationBounded`, `TaintEndsDelegation`, `OrphansSettled`, `FinishedStays` |
| `batch` | ten scripts of one or two replies, clean or tainted start, a swapped path, a person who answers twice or leaves, one server, two sites of which one writes out of turn once | 201,963 | `OwnAnswer`, `NothingRaw`, `ActsOnlyWithLeave`, `PoolInvisible`, `ReadAsWritten`, `HeldOnlyByOthers` |
| `memory` | each host with three texts, 1 fault; 51 setups, 3 workers, cards of 3, 6, 9 or unknown, 2 starts; pools of 0, 1, 2, 4 beliefs on each plan; 48 pairs of snippets | 240,756 | `LiveIsReplayed`, `LineageBounds`, `MergesKeepMeaning`, `BeliefsLast`; `HostStands`, `EncodedTruly`, `OrderIsEarned`, `AnswerAccounts` |
| `engine` | two models and one without a file, two process slots, two listeners, 3 events, 3 requests, 1 crash | 3,222,923 | `ServersAccountedFor`, `AnsweredAsNamed` |
| `surface` | 2 messages, 2 questions, 4 bursts, 2 pastes, 1 fault, fairness | 328,884 | `AnswersAreTheirs`, `SentIsMeant`, `TurnReachesScreen` |
| `second_answer` | as `surface` | violated | `EveryAnswerIsTheirs`: two answers in one burst, the second of which grants the turn's next question before it was on the screen |
| `retraction` | as `conversation` | violated | `RetractedWherever`: a call that speaks, thinks and speaks again has only its last words taken back |

Why the bounds are enough.

- *Durability, delegation, profile.* A crash, a refused append and a steer are each interesting
  relative to one turn; a second crash repeats the state after the first with one more restored
  checkpoint, and the safety arguments that have to hold for any number are the proved ones. Two runs
  are what it takes for one conversation's window to reach a second run, and for a row to go astray; two
  runs and two steers for a steer to reach the wrong one, or to be taken out of its turn. Two steps suffice to have a checkpoint older than memory. `conversation` and `one_run`
  are two runs because `BlockedStaysBlocked` is a promise only of a journal that takes its
  checkpoints. Two rows give a first and a chained row, three pids let a restarted process get a pid
  its stale lock names or not. Three runs on the stack are a parent between its own parent and a
  child, which is where a roll-up could add up overshoots, taint could travel and a table entry could
  be stale; costs of 1 and 3 against 3 tokens leave a run with room, without, and past its line; the
  six requests take a root to a manager, a soloist, a master and a worker, and each is refused at some
  level or floor.
- *Windows.* Sizes 1 and 5 against caps 4 and 5 give every fate of a block (kept, cut, omitted), five
  blocks with `Keep = 1` give masking with and without effect, and 70% of 20 is reached with and
  without tool results; `Limit = 30` against a window of 24 is where a prompt with its reply could
  overflow. A ring of 2 with 4 pushes drops a frame behind
  a window that has polled once, and polls fall before, between and after.
- *Batch.* The scripts put two calls of one host, of different hosts and of all hosts into a group,
  name a tool that does not exist, one argument too many and a bad URL; they read what was written and
  write what was read. Two documents share a reader; a cache of 1 and two sources a reader make it
  evict and answer for others. One request may be late while the next is out. One stray response
  or stray byte on a kept connection is enough for the next fetch to be answered by it and for the one after
  to be answered by that fetch's own. Pages are all HTML
  token sequences of up to 3 of 14 tokens and three longer ones, which contain every pair of an
  opening, a stray and a closing tag around text. The pure parts: reader replies of up to 3 lines of
  26 shapes under three contracts, files of up to 5 lines read in windows of 2 lines or 6 bytes,
  headers of up to 4 lines of 14 shapes, lists of up to 3 of 6 items, up to 3 skill directories, up
  to 2 servers with 8 tool lists over 3 starts.
- *Memory.* Likeness is not transitive over three texts, so a cluster can be wrong; requests are sent
  again; a named belief may be missing. One fault may be a failed append, a failed embedding or a
  crash, between any two.
- *Retrieval (in `memory`).* Four beliefs give two sessions with a rival inside and outside the slate; a budget of
  3, a narrow of 2 and batches of 2 leave someone out at each stage; logits -1, 0 and 2 with a margin
  of 2 lead, tie and fail to lead. A second start happens only after a batch, which is the start whose
  cache may be of another provider. The size of the resident model
  is listed in three units, one of them unknown, or not listed; the gate's artifact is whole, or one thing is
  wrong with it (unfitted, no floor, cues in another order, a curve that is empty, falls or is out of order);
  the vocabulary is 13 tokens, in which a word can be spelled in two ways.
- *Engine.* Three events and three requests are a server lost, its port taken and the user switching;
  `Deadline = 1` lets a start be slow and too slow. Two slots are the daemon's server and one beside it on the
  port, which is what it takes for a probe to pass at one and a call to be lost at the other.
- *Reply (in `conversation`).* Four frames cut a tag in every place and put content, reasoning and a fragment of a call
  around it; the second call meets the transcript of the first.
- *Surface, frames.* Two messages can overtake each other, two questions can be confused, a burst can
  hold an answer and what follows it. Four bursts write, send, answer and act again.

`CHECK_DEADLOCK FALSE` stands in `Window`, `Frames`, `Memory`, `Engine`, `Surface` and `Batch`, where the
named bounds use up what the environment may do, in `Conversation`, where the turn of the reply ends, and in
`Delegation`, where all of the few runs may have finished; `one_run` looks for deadlocks of DurableRun. `SYMMETRY` is used on run ids, processes and pids in runs
of safety properties only.

Fairness.

- `DurableRun!FairSpec`: `WF(Turn)`. The main thread has one turn at a time, nothing in `turn` waits
  for a client, and a model call returns or errors (the drivers' read timeouts).
- `ContextWindow!FairSpec`: weak fairness of leaving `top` and `view`, which is straight-line code.
- `ToolBatch!Spec`: weak fairness of the loop's own thread and of the shell's harness. Nothing is
  assumed of the person, a server, a site, or of what a command does; that is why `HeldOnlyByOthers`
  names the two of them that can hold a batch.
- `Surface!SurfaceSpec`: weak fairness of the drawing thread, each message thread, the daemon's serving of a
  turn, and the two read timeouts the client sets. The person and the model are not fair.
- `WatchWindow!WatchSpec`: weak fairness of the window's loop.

## Proofs

All for any constants that satisfy the named assumptions of the modules.

**DurableRun_proofs.** `TypeInv` is `TypeOK` with the fact that a turn under way drives a run
(`TypeCorrect`). `LiveInv` says that the loop's status is "running" exactly before its end and that a
row reads "running" only for the current run, from which `ShutdownNeverStuck` follows: it holds even
when the journal refuses checkpoints. `FinishedInv` says that a reported run has a terminal checkpoint,
that no turn is entered over a terminal one, and that at the mark the checkpoint has the run's status;
`FinishedRunsStayFinished` needs `MaxAppendFailures = 0`, because a refused final checkpoint really
does leave a finished run resumable. `BlockInv` ties the history to the state: every checkpoint of a
run that was shown untrusted content carries it, in its floor or in its window; a step's blocks are
saved before the call that is shown them; and once untrusted content entered a conversation it is in
the window of the run that is driven over it or in the session that waits for the next one.
`FloorSurvivesTheDaemon` follows under `MaxAppendFailures = 0` and `Untrusted \notin EmptyQueryClasses`,
both of which the theorem states: with a refused append a crash does restore an older floor.
`SteersReachTheirRun` is `heard \o steers = accepted`, inductive with the types, by a lemma that moving
a head from one sequence to the end of another keeps their concatenation. `CutShortInTimeAndPaid` has
two invariants. `PromptInv` says that the one call made after a cancel belongs to a cancelled run and
is forgotten at the boundary that stops it. `SpendInv` holds what a checkpoint does not know of: `Paid` ties a run's real spend to the
loop's own count while it is loaded, `Owed` ties it to the checkpoint by the calls the automatic chain
has made since (`Unsafe`), and each crash and refused append may turn one `Unsafe` into a loss. Its
assumption `BoundAssumption`, that what one call reports is bounded, is that the counts are `u64`.

**ContextWindow_proofs.** `TheFloorOnlyFalls` is the refinement of `WindowFloor`, every step of it. A
step replaces the two tiers by tiers that *cover* them: every old block worth less than the identity
block has one at or below its class in the new tier. Covering is reflexive and transitive and holds
for what is appended, for masking (same classes), for compaction (the summary is at or below everything but
the live turn, which is kept) and for the removal of the last turn's skill blocks, because those are the
user's own class; that they are is the invariant (`WindowInv`, which leaves the size of a block open so
that the folds behind a summary need not be opened). Covered tiers have ordered floors.

**ProfileJournal_proofs.** `ChainInv` adds to `LogNeverForks` what an open journal remembers: row
`last_seq` is there and `last_signature` is its signature. The next number is then free only if that
row is still the last, so `OneChain` never uses the lock. `Signed` says that a row of the table carries
the signature of some issued row, and that what was issued is signed over its own number and content;
a row that verifies is therefore an issued one, which is `VerifyChainIsSound` (ideal signatures, any
amount of damage). `OneKey` says that a profile that existed has its original key in the file and in
every process and that its rows are signed with it, which gives `ProfileReopens`. `ProfileTyped` is
type correctness.

The module also holds the terminal. `SurfaceInv` follows an answer through four places: a question on
the channel is the one its thread waits with, and no window is up yet (`Unseen`); the window on the
screen is that question's (`OnScreen`); an answer that was pressed is the window's and the only one
(`Pending`); a grant in the socket names the question it was pressed for (`Underway`). Two answers in one
burst (`doubled`, below) are the one way out of it, and the invariant says so: from there
`GrantsAreForTheScreen`. `SentInv` says that the field means what the person typed, and that a message
asked for, sent or run is whole, from the lemmas on the field: `MessagesAreMeant`. The
assumptions are `SurfaceAssumption` (a bound is a number) and `KeysAssumption` (bursts are sequences of keys).

**Composer_proofs.** The lemmas on the field that both windows rest on. `Shows` relates a text with its
pastes to what it stands for (every chip is one minted for its paste, no two are for the same); a
lemma for each editing key, and one for expanding the chips at submission, say that it is kept unless a chip was broken
(`MeansIt`).

**SpawnTree_proofs.** `IInv` joins five groups, each with its own step lemma. *Shape*: the runs on
the stack are distinct and an id not yet given out is nowhere. *Spend*: `Funded` is the strengthening
that makes `SpendBounded` inductive; a run that waits has spent, together with all its child was
granted, no more than its own budget, so a child that overshoots by a prompt takes its parent over by
that prompt and no more (`SpendStaysBounded`). `Endowed` (every budget handed out holds a call) gives
`EveryGrantBuysACall`. *Authority*: `Quarantine` (only a run with tools reads, and a reader has none)
closes the way from a tainted run through a toolless child to further children
(`TaintedRunsDoNotDelegate`), and makes the reader's place on the ladder the last
(`EveryChildIsLower`). `DelegationStaysBounded` is the conjunction of the three that the run checks.
*Fate*: a child in the table is driven, if at all, right above its parent, so what `settle_children`
settles is not being driven; a settled child is driven only once detached. With *Unfinished* (no
driven run is finished, in memory or in the journal) this gives `SettlementLasts` and
`TheFinishedStayFinished`. The assumptions on the constants are those of the code: `MIN_CALL_TOKENS` is
positive and at most `MIN_CHILD_TOKENS`, and the root's budget holds a call and an agent. Nothing is
assumed of the requests, so they are whatever a model can write; crashes are any number.

The module also holds the frame ring and the window that watches a run. `RingHoldsItsShape`: `RingShape`
is inductive with `RingTyped`; the work is in `AppendFrame`, where the ring drops exactly what `first`
skips. `RequestsReachTheirRun` needs `WatchInv`, which joins types, the meaning of the field (`Meant`),
the order of what arrived (`InTheirOrder`: while a request is being applied everything that arrived is
older, and one exchange reaches the daemon at most once, by `OneArrival`) and the run it arrived at
(`ToTheirRun`: as long as the daemon is the same, the name the window was opened by is that of the
run it shows). From `LettersAssumption`, that no letter is the name of a control key. `WindowsAreCurrent`
is about what a poll makes of the ring. `FollowInv` says that frames held are counted once (`Counted`), that
until the daemon restarts the window never counts past the ring's end and holds each frame of prose as it stands there
(`Followed`), and that what is missing was reported (`GapsReported`): a poll misses only what was
missing or fell off the ring. That the entries follow the frames is the fold of a poll unfolded one frame at a
time, by a least counterexample.

**BeliefStore_proofs.** `StoreInv` is inductive: the store in memory is the log replayed (`derive`),
which is in turn a *good* store for that log (`Good`), and an operation under way holds only what the
store has (`OpInv`). A good store numbers each session's claims from zero without a gap, so the next
claim's id is new; each entry is worth no more than its parents, has its origin at the event that wrote
it, is superseded only by a younger one, which in the daemon is worth as much, and says of itself what the
log said of it last. One lemma per kind of event shows that its change keeps a store good, and that the
live operation and the replay of the event are the same (`ReplayOne`); `derive` of a longer log is one
more step of it, by a least counterexample over the natural numbers in place of an induction. From
there: `RestartRebuildsTheStore`; `TrustFollowsLineage`, as every set of beliefs worth as much is closed
under lineage; `NothingIsOverwritten`, an action property. `MergesLoseNothing` needs that a chain of
successors stops, because origins grow along it, and that complete linkage is exact: `Rank` puts every pair
in one place, and after the pairs up to the i-th have been joined the groups divide the beliefs, are
alike throughout, and the groups of each of those pairs are one or hold two beliefs that are not alike.
The assumptions on the constants are that a request is a sequence of inbound turns, that what claims say
is among the texts, that the blank text is not, and that cosines are symmetric; nothing is assumed of
which texts are alike.

The module also holds the host around the store. `HostInv` is where the start stands at each stage: types, that a daemon
goes on whatever fails (`DaemonGoesOn`), and what is decided when (`Widening`, `Settles`,
`Planned`). While the embedder widens, its ledger is what was usable less what its sessions take, so a session more
is opened only with a spare one accounted for (`SpareOnTheLedger`). `StartsStand` is what holds whatever a
session costs. That the card itself keeps tier 1's claim (`CardSpare`) holds where no session costs more than the
floor keeps for it and its spare, `CostsNearFloor`, a hypothesis of `HostStandsAsFound`: without it the first
session really does eat the reserve (below). `VectorsAreTheTexts` is about `embed_batch`. Its folds are unfolded
one place at a time: `FoldsExist` gives a function on the sets of places that satisfies the fold's equation, and
`StepsUp`, a least counterexample, carries a fact from each place to the next. So the shares of the
sessions meet (`SharesMeet`), their answers join to what was pending (`EverythingComputed`), and records put
into the file are those of their text and provider (`PutKeepsOwn`). `OwnInv` says that of the file for either
provider, of the cache in memory and of the batch just returned.
`AnswersAccount` is about the answer of a retrieval, whatever the scores and whoever outranks whom. A sort is
an insertion at a time (`SortedBy`), and whatever the comparison says it loses nothing and repeats nothing
(`ArrangedInOrder`), so an answer's order has every candidate once. A sum of costs may start with any of its members
(`AnyFirst`), which is what makes the tokens counted in the order of injection those of the injected memories as a
set (`AddOneFits`); `FillHolds` carries that through the budget's fold. The assumptions are those on `Pools`: scores
of trust between 0 and 3, costs and limits that are numbers not below zero, and an empty store among what
a request may find.

`OrderEarned` is about how the answer's order came about. Its invariant `EarnedInv` says what each stage leaves
to the next: nothing is in the pool before a request, a retrieval runs only where the start is over, survivors are
candidates, only a survivor has a logit (`ScoredSurvive`), and a rank exists only past the fusion of the cascade,
for what the first graph scored (`RankTyped`). Under it lie lemmas on the operators:

- a sort is in order by every ranking its comparison refines (`ArrangedInOrder`), so two candidates of one
  score need nothing said of them, and the second comparison of a sort by two keys is a ranking where the first is equal;
- the scan that numbers the sessions opens one exactly at a long gap (`SessionsScanned`), and between two
  candidates there is no long gap just when a chain of short ones connects them (`GapsAreChains`), which is what
  `SessionsWhole` states without the scan;
- the best session of a cue is one of its top ones whatever ties the cut falls into (`TopKept`), so its best
  candidate, or one worth the same, survives;
- a calibration checked point by point rises everywhere it is read, and reads no surer than its end
  (`CurveRises`), so a gate that loads says the most it ever says (`GateRead`);
- the fused scores, sums of two reciprocals compared across as products, are in an order (`FusionRanks`), and
  what both graphs rank ahead comes ahead (`FusionAgrees`);
- the first two of an answer's order are the two best logits there are (`FirstTwo`): what was never scored stands
  behind what was, so the lead the declared point measures is one over every scored rival.

The assumptions are that logits are numbers above the mark for a failed pair, scores and times are numbers,
and that what is kept, fused or batched at a time is at least one; the code's constants (`PRUNE_TOP_N` 3,
`RRF_K` 60, a session's gap of 30 minutes, a budget of 10 pairs, a slate of 30 narrowed to 10) satisfy them.
No bound is put on the pool, and the margin and the gate's threshold are any numbers.

**HybridEngine_proofs.** `Inv` has four parts. `Typed`; `Placed` (a start happens under the hybrid, with
no engine and no turn); `Ours`, the heart of it: a live server the daemon started is the
engine's child or the one being started, a child is of the model the daemon names, and one whose reading
was measured is on the GPU; and `Counted` (a turn that went unanswered leaves an engine none of whose port's
servers is ready, or one that is no longer served from). Nothing is assumed of how many listen: the
hypothesis that one does is in `missed`, which is what the theorem says of it. `TurnsAnsweredAsNamed`
and `EveryServerAccountedFor` follow; the second is the conjunction of an invariant and an action
property.

**ToolBatch_proofs.** Five invariants, each with its step lemma. `Shape` is where the loop's thread is
and what that says of the group: the decisions made so far are those of its first calls, a host has no
more outcomes than items, and a request is out only for an item without an answer. `Leave` carries a
decision from where it is made to where it is used: each call cleared so far is `Allowed` under the
floor the reply was composed under, a yes in the socket is the person's to a prompt that was shown, the
pending prompt is the current call's, and the hosts granted beyond the profile's were consented to.
`CarriedOutOnlyWithLeave` follows for whatever is swapped under a path, because the handle is the one
the decision opened. `Fetches` says what may lie unread on a connection, in the pool or
in a fetch's hands: nothing, unless its site wrote out of turn on that connection, and then that, or the
response to an earlier fetch of that site; one the site closed meanwhile is retried on a connection the fetch
opens itself (`KeptConnectionsAreInvisible`, which claims no more than this of a site that strays).
`Drained` follows the command's output through the reader thread's cap to what the answer says was cut.
`Answering` is the account of the answers. Every call up to `done` is answered or waits for the reader,
never both and never twice (`Accounted`); every outcome in a host's hands is that of the item at its
place (`OutOwn`), which needs that a server's request numbers are the order of the requests (`Heard`)
and that a fetch reads what it asked for, or is marked as astray; every block is faithful to what its call returned and none is
untrusted (`Said`). When a group is folded back, the recursion over the layers is unfolded
(`ReturnedIs`) and each merge is shown to keep outcome `n` the one of item `n` (`MergedIs`); a chunk's
notes are led back from the reader's labels to their documents (`FreshIs`). `EveryCallHasItsOwnAnswer`
and `NothingUntrustedIsQuoted` are what it says of the conversation, the second with the message of
`McpError::Remote` as its one exception. A helper the proofs keep needing is
`InOrderIs`: the numbers of a finite set in their order are a sequence that has each once. The
assumption on the constants is `BatchAssumption`: replies are sequences of calls, a tool has a layer,
`web` takes a url, every site has answers, and a chunk holds at least one document. The tools, their
manifests, the documents, the sites' answers, the limits and the number of answers, swaps, requests and
notes are any.

Only model-checked:

- liveness (`TurnEnds`, `PressureSettles`, `HeldOnlyByOthers`, `NoticeFades`, and the second half of
  `TurnReachesScreen`), which this prover does not reach;
- pages, files, headers and notes (`ReadAsWritten`): `FileText` and `Skills` declare RECURSIVE operators,
  behind which this prover has no arithmetic;
- a view's trimming and the request built of it (`SentIsHonest`) and the stream's fold (`ReplyIsWhole`,
  `ScreenIsReply`): nested folds over a whole transcript or a whole reply, where each kind of message or piece
  needs an unfolding of its own. They are within the prover's reach, by the lemmas on folds above, and are not proved;
- of `EncodedTruly`, the tokenizer's three parts (`RowIsPair`, `LayoutIsIdle`, `TokensAreKnown`).

## Where the code departs from its comments

Observations made while modelling. Each is in a model's actions or was found by reading, and the
properties above are stated so as not to claim the contrary. Most are small; the first group is worth
a maintainer's look.

### Contradicted statements

- *Steps are bounded per drive.* `drive` writes the final checkpoint with the step of the last
  per-iteration checkpoint (`engine.rs:734`), so iterations that ended by `continue` or by a question
  are forgotten and a resumed run makes more than `MAX_STEPS` calls. `engine.rs:657`: "a resume that
  reset them would make `MAX_STEPS` and audit finding E8's cap fire *per restart* rather than per run".
- *A steer can wait behind a stopped run.* `control_plane.rs:454` refuses by the row's word, which is
  "running" until the mark. `control_plane.rs:434`: "A STEER FOR A RUN THAT HAS STOPPED IS REFUSED, NOT
  QUEUED".
- *A brief can be compacted away* (`context.rs:840`). `context.rs:89`: "a child evicted of its brief has
  no reason to exist".
- *A tool line closed behind the tail is not sent to a window again* (`control_plane.rs:184`).
  `watch_client.rs:17`: the window "never keeps its own".
- *The profile's lock is released when `Daemon::open` returns* (`daemon.rs:909`), so two daemons run on
  one profile; compare `profile.rs:49`, `57`, `71`.
- *A quarantined reader is not in the table of children* (`engine.rs:2340`), though it is created with
  `OrphanPolicy::Terminate`: one that pauses stays resumable when the run it read for has ended.
- *A vector can be stale*: `vectors.rs:8`, "derived from whatever text the entry currently carries"; a belief written again keeps
  the vector of its old one (`vectors.rs:60`, `96`).
- *An answer can meet the next question* (run `second_answer`): two answers in one burst of keys answer two
  questions, the second unseen, although a reply names its decision so that a client cannot "approve
  whatever is pending now" (`daemon.rs:620`). `AnswersAreTheirs` says what holds without such a burst.
- *A retraction takes back one entry* (run `retraction`): `project.rs:318` says "the turn's outstanding speech
  wherever it sits"; speech that a thought divided keeps its first part on the screen, and an entry that a
  later call went on with is taken as a whole. `ScreenIsReply` is about speech that is an entry of its own,
  whatever was put behind it.
- *A kept connection may hold another response*: `marlowe-net/src/lib.rs:551` says that after a body of the
  announced length "the stream is positioned at the next response"; `give_back` pools the reader without a
  look at what it holds, so what a site sent beyond that body is the answer to the next fetch on it, and
  every later fetch on it is one response behind.
- *A reading may be another server's*: `measure_offload` is the decider because it measures "how fast this
  server generates" (`hybrid.rs:706`), on a port that two may listen on (`hybrid.rs:176`): a child on the CPU
  may serve on the reading of its neighbour, and a turn may pass its probe at one and be lost at the other
  for as long as both are there, with nothing latched.
- *A granted host is persisted*: `egress.rs:149` says that `granted` is "session-scoped and never
  persisted"; it is part of the checkpoint.
- *A server's words reach the string that has none*: `daemon/mcp.rs:199`, "no byte the server wrote
  is in this string"; it holds the message of `McpError::Remote`, which goes into the conversation as the
  harness's own words, unread and of class Observed. `NothingRaw` excepts it by name.
- *An MCP wait is not bounded*: the deadline is looked at before a read that blocks
  (`marlowe-mcp/src/lib.rs:307`), although `REQUEST_TIMEOUT_MS` says "A bounded wait".

### Runs, windows, delegation

- `DurableControl::resume` (`control.rs:263`) removes a run from the cancelled set whatever put it
  there: a person's cancel of a paused run is dropped by the next resume.
- `is_resume` is `resumed_steps > 0` (`daemon.rs:2727`), so a run that asked its question before its
  first completed step is resumed with a retrieval for the empty message.
- A refused final checkpoint leaves a run the client was told had finished, and a restart lists it as
  interrupted.
- Compaction keeps the last `History` block of class UserAsserted. A steer is one, so after a steer
  the message being answered may go into the summary.
- `trim_to_budget` omits a newer block that does not fit and still keeps an older, smaller one of the
  same source.
- `clear_tool_results` takes a result that begins with `[` for one it already cleared, so a JSON array
  is never cleared (`context.rs:786`).
- `PassthroughSummarizer` repeats the last three blocks verbatim and its summary is not trimmable:
  a window can stay at its trigger because of what compaction wrote, which fails the run.
- `wire.rs:38` explains orphaned replies by trimming that "drops an assistant turn while keeping its
  results". Trimming never does; it cuts or omits results, and a cut result has lost its wire, so it is
  demoted to a `user` message and its announced call stays unanswered, a shape nothing handles.
- The tail `recall` pair is announced even when `FARMING_HARD_STOP` withholds every tool, though
  "`recall` is a real tool in the exposed set". Memory and skills go out in role `system` on Ollama,
  even memory of class Untrusted; the OpenAI dialect sends skills as `user`.
- `settle_orphan_in` (`durable.rs`), described as for a daemon that inherits a tree across a restart,
  has no caller; the table of children is in memory (`engine.rs:2674`), so after a crash a `Terminate`
  child stays resumable.
- An orphan's amended checkpoint is recorded under its parent's run id, and the roster writes status
  and spend onto the row of the event's run id (`engine.rs:2697`).
- A grant floors a child's subagents at 1 when the parent has 1 left (`budget.rs`), where the comment
  says that a child starts one short; readers are not held to the parent's count at all.
- A grant passes a spent wall clock, tool call count or dollar amount on as 0, "so the caller's own
  guard can see it" (`budget.rs:492`); `spawn` has a guard for subagents only.
- "It never fails silently and never spends past the line" (`budget.rs:3`): the provider's cap is on
  output, while `Usage::as_budget` counts the prompt too. `SpendBounded` states what does hold.
- A cancel of a parent is read at the parent's own boundary, after the child it waits for has ended.
- `run.rs` `parse_fields` rule 3 leaves unmatched fields absent "so the contract's own `validate`
  fails"; `engine.rs:1221` fills them with `UNDESCRIBED_SOURCE`, and a document read alone is cached as
  one the reader did not describe. The first occurrence of a header wins, so an earlier value's line
  `source_2:` pre-empts the real one. A completed child with an invalid result may still get a headline
  behind the bracketed note.

### Profile and journal

- `Profile::init` looks for an empty directory first and takes the lock last: two first starts may both
  pass, and the second overwrites `profile.key` after the first has signed with its own
  (`profile.rs:172`).
- A lock file whose pid is not written yet reads as stale, and a reclaimer may remove a lock another
  reclaimer has just created (`profile.rs:119`). A stale lock naming the pid the restarted process has
  itself been given (pid 1 in a container) is refused until someone removes it.
- A process that dies inside `Profile::init` leaves a root that `init` refuses (not empty) and `open`
  refuses (incomplete).
- Comments say that two writers fork the chain. They do not: the table's primary key refuses the
  second row of a number, and the loser fails every later append.
- Deleting rows from the end of the table is not detected; what remains is a valid chain.

### Tool batches, permission, tools

- `SocketApprovals` returns from a failed write before `last_reason = None` (`daemon.rs:608`), so a
  reason may be an earlier prompt's. A duplicate or stale Approve line is taken for the next prompt,
  which it denies, and shifts the later ones.
- `run_bounded`: a grandchild that holds the pipe loses all of the output, and success is reported.
- `write` and `edit` truncate before they write: a crash between loses the file.
- `run_group` pads a host's short answer at the end, so a missing result would shift the others.
- `glob` lists by resolved path after the check; unreadable directories and files outside the scope are
  skipped silently, and a walk that stopped exactly at its cap says "there may be more" either way.
- A line longer than `READ_WINDOW_BYTES` is cut to a fragment that counts as a whole line: its rest is
  in no range, and alone it gives no notice (`marlowe-exec/src/lib.rs:79`: both bounds are reported;
  `83`: "nothing becomes unreachable"). A notice names at most one further window.
- `edit` counts sites without overlaps, so "must appear exactly once" is not enforced for overlapping
  ones.
- `marlowe-net` `is_connection_fault`, "Only transport faults qualify": `Malformed` is retried, and so is
  a failing fresh connection. Bodies read to EOF and inflated ones are cut silently.
- `html.rs:36`: "the heuristic may only ever remove text, and never all of it"; the first tier filters link farms after it
  counted, so a marked page of link farms yields nothing. `<embed>`, `<svg/>` or a misnested skipped
  element leaves `skip_depth` raised for the rest of the page. The caps on blocks, notes, chapters,
  strings and columns, a missing `document.xml` and a zip entry whose header lies are all silent,
  though failures are "reported, never disguised".
- `marlowe-extract/src/store.rs`: a catalogued ref "keeps meaning what it meant", but the same text
  replaces title, warnings and format. `fetch_and_extract` and `fetch_many` have no caller but examples.

### Skills and servers

- `frontmatter.rs:21`: "a file that loads here means what a YAML parser would say it means". An
  apostrophe in a plain scalar is taken for a quote, so `description: don't # note` keeps the comment;
  `key: a: b` and `"a" b"` load; null, true and numbers are strings. `ListsReadBack` and the meaning of
  a header are stated for what the parser accepts outside these.
- `skill.rs`, on unknown extension keys: ignoring one "would let a skill ship a capability nobody
  applies". The vocabulary is closed at the first level only, and no code reads a loaded manifest.
- `BodyRef::read` reads the file again without cap, validation or name check; the size told is the
  scan's, though `MAX_BODY_BYTES` is "a load-time refusal".
- `pin.rs:119`: a new tool beside a changed one is never announced. `Daemon::open` writes the pins
  before the exposure budget can refuse the start, so those announcements are lost, although
  `daemon/mcp.rs:92` says "the comparison is against what the user last saw". A changed tool is exposed
  anyway and told of once.
- Two servers of one id: the second's tools are routed to the first; a server id with `__` in it sends
  its calls to the server named by the part before, or to nobody (`daemon/mcp.rs:169`). One tool that
  does not load drops all of its server's. `CallsReachTheirServer` is stated for distinct plain ids.
- Comments speak of eleven and of thirteen tools; there are twelve and fourteen.

### Memory

- `claim.rs:18`: "A refusal is **journalled**"; refusals of `correct` and `forget` are not, and one of
  `remember` is, twice. `forget_claim` checks no authority; a correction is at most AgentInferred, so
  what the user asserted is never corrected; consolidation keeps the most recent, whatever its trust.
- `retrieve.rs:497`: with its first place over the budget an answer is `None` with nothing injected. A
  pruned candidate can come back at place 3. `recall.rs:132` prints "not yet matured" for every
  `silent_until`; `recall.rs:61` says that tombstones are included, and they are dropped.
- `auto` is "never a failed run" (`main.rs:1249`), and `load_auto` "never returns an error for want of a
  GPU"; but a cross-encoder resolved to CUDA selects the cascade, whose fusion graph is opened on CUDA
  with no probe, no reserve and no fallback, and its failure ends the process.
- The first session is budgeted by its floor only: one that costs more than twice the floor eats the
  reserve. A torn cache record makes every later start with that cache refuse.

### Providers and replies

- Switching to `openrouter` does not stop the hybrid server; a port's identity is checked at start
  only; `set_model` under hybrid accepts unknown names; `turns_on_engine` is never incremented; the
  offload table "may only CONFIRM cpu", yet `from_vram` takes Gpu to Gpu.
- `parse_step` in `ollama.rs`, "siblings are reported rather than dropped": they are dropped. A
  structured `done` becomes the answer and is never emitted. With thinking on, `<think>r</think>answer`
  in content goes to reasoning as a whole. Held content that is followed by reasoning is appended later
  (`late`).
- After `remember` the next text joins the previous entry, and a retraction takes both (`odd`);
  `watch_client.rs:184` takes back one entry only, like `project.rs`; `resolve_retractions`
  (`agent.rs:588`) all text so far. `driver.failover` is false for every driver that exists. A stream
  that is cut without chunked encoding counts as complete.

### Surfaces

- A send while a turn is under way drops the rest of its events and denies its questions; two quick
  sends may connect in the other order. A turn whose daemon died, or that answered `Event::Error`, ends
  as success and leaves the band at "thinking". A worker that timed out in the queue reports an error
  for a message the daemon will still run.
- `live.rs:15` says the drawing thread never waits for the main port; `Select` does.
- `Status` updates the model picker and not the provider. `runs_summary` prints fixed figures.
- Ctrl-Backspace after a chip and a space breaks the chip; Ctrl-N clears the field and not the pastes;
  `select_all` survives Enter.
- `client.rs` returns Ok for a steer, cancel or resume the daemon refused, so the window says "steer
  sent" and the text is gone, though `watch.rs:387` and `window.rs:299` promise the refusal verbatim. A
  refusal may be overwritten in the same step by the poll's notice.
- A name is resolved anew at each request: after a restart it may be another run's. The whole id of a
  finished run that is not listed passes the check, and the steer is queued for nobody. `^r` goes to the
  main port and blocks the window until the resumed turn ends. `^x` and Enter in one burst cancel
  without the question having been drawn.
- A window that outlives the daemon keeps the frames and the `latest` of a ring that is gone
  (`watch_client.rs:61`); one that opens after the ring dropped frames asks from 0, for which no gap is
  reported; call ids start at 1 in every `Engine`, so the first call of a resumed run replaces the line
  of the first call before it (`control_plane.rs:181`).

## Not modelled

- *Escalations*: the daemon hands every run `escalations: None`, so the desk's phases are reached by
  tests only; the outcome a raised child leaves its parent with is `Contract`'s `TypedNote`.
- *Drawing*: layout, Markdown, colours, scrolling, pickers by keyboard and the scripted stub have no
  state that an order of steps could spoil.
- *Numbers of models*: the cues' scores, the graphs' arithmetic, the fitted curve and sampling values
  are inputs or constants. What is done with them is modelled.
- *Bytes*: HTTP, SSE and JSON framing, token files, sockets, argument parsing; regular expressions, PDF
  text and TLS come from libraries.
- *The prefix cache*, which changes what a call costs and not what it sees; *the Windows lock*, a share
  mode of the operating system released by the same drop; *fidelity demotion*, which has no writer;
  *onboarding and staleness*, which are configuration and display; *`marlowe-embed-spike` and the Python
  harness*, which are not part of the running system.
- A delegate's own loop inside `DurableRun`, of which `SpawnTree` is the model; the quarantined reader's
  loop inside `ToolBatch`, where it is the fields it returns.

## Plan

Modelled and checked: all of the table above. What is left, in this order:

1. Proofs of the tokenizer's parts of `EncodedTruly`, by the lemmas on folds that `VectorsAreTheTexts` rests on,
   then of `ReplyIsWhole` and `SentIsHonest` in the same way.
2. If the escalation desk is ever wired to the daemon, its phases belong beside the approvals.

A composition of DurableRun and ContextWindow is not planned: the abstract floor `WindowFloor`, which
ContextWindow implements, is what DurableRun's `window` does in each of its actions.
