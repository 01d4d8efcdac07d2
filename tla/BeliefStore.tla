---------------------------- MODULE BeliefStore ----------------------------
(***************************************************************************)
(* `marlowe-memory`'s belief store and its writers.  The log is the truth:  *)
(* `ingest`, `remember_claim`, `correct_claim`, `forget_claim` and          *)
(* `consolidate` append to the journal first and then change the store in   *)
(* memory, and a start rebuilds the store from the log (`derive`).  An      *)
(* operation of several appends can fail or die between two of them.        *)
(*                                                                          *)
(* Two programs own such a store: the daemon (`DaemonMemory`), and the eval *)
(* adapter, which embeds and consolidates after every ingest.  Each holds   *)
(* it by `&mut`, so operations of one store do not interleave; what cuts an *)
(* operation short is an append that fails or the end of the process.       *)
(*                                                                          *)
(* A text is a model value, the vector of a text is the text, and the       *)
(* cosine of two vectors is a level of Cosine.  A memory id is the triple   *)
(* it is formatted from.                                                    *)
(***************************************************************************)
EXTENDS Integers, Sequences, FiniteSets, FiniteSetsExt

CONSTANTS
    Hosts,        \* which programs own the store: "daemon", "adapter"
    Sessions, Runs,
    Turns,        \* turn ids of inbound requests: numbers
    Texts,        \* what a belief can say
    Said,         \* of these, what claims and external content say
    Channels,     \* the origins of inbound turns
    Floors,       \* the trust floors runs may have latched
    Cosine,       \* how near two texts' vectors are, in levels
    Threshold,    \* the frozen merge threshold
    Window,       \* MATURATION_WINDOW_MS
    MaxNow,       \* bound: the clock
    MaxLog,       \* bound: events of the log, per host
    Requests,     \* the ingest requests of the eval harness: sequences of turns
    MaxParents,   \* bound: beliefs one claim is derived from
    MaxFaults     \* bound: failed appends, failed embeddings and crashes

Blank == "blank"             \* the empty text
None == <<>>                 \* no id
Claim == <<"claim">>         \* the turn id of a claim
Tombstone == 0
Record == 3

(* TrustClass *)
Untrusted == 0
Inferred == 1
Observed == 2
Asserted == 3

ASSUME BeliefAssumption ==
    /\ Hosts \subseteq {"daemon", "adapter"} /\ Turns \subseteq Nat
    /\ Blank \notin Texts /\ Said \subseteq Texts /\ Window \in Nat /\ Floors \subseteq 0..3
    /\ Threshold \in Int /\ Cosine \in [Texts \X Texts -> Int]
    /\ \A t, u \in Texts : Cosine[t, u] = Cosine[u, t]

(* memory_id: session, turn id and index.  An inbound turn brings its id;   *)
(* external content has one made from its run, channel and text.            *)
TurnIds == {Claim} \cup ({"turn"} \X Turns) \cup ({"external"} \X Runs \X Channels \X Texts)
Ids == Sessions \X TurnIds \X Nat
Entry == [text : Texts \cup {Blank}, sess : Sessions, own : 0..3, eff : 0..3,
          lineage : SUBSET Ids, origin : Nat, silent : Nat, fidelity : {Tombstone, Record},
          supersedes : Seq(Ids), by : Ids \cup {None}]

VARIABLES
    host,        \* the program that owns this profile (never changes)
    log,         \* the journal
    store,       \* BeliefStore::entries, empty while the process is down
    vectors,     \* VectorStore: id -> the text its vector was computed from
    op,          \* the operation under way
    up,          \* the process runs
    now,         \* the caller's clock
    faults

vars == <<host, log, store, vectors, op, up, now, faults>>

-----------------------------------------------------------------------------
(* Trust: the channel decides, and a belief is worth no more than its lineage *)

trust_for_channel ==
    [terminal |-> Asserted, voice |-> Asserted, web |-> Untrusted, email |-> Untrusted,
     messaging |-> Untrusted, mcp |-> Untrusted, tool_output |-> Observed,
     file |-> Untrusted, agent |-> Untrusted]

(* mutant: the lineage is forgotten *)
OwnTrust(own, parents) == own

effective_trust(own, parents) == Min(parents \cup {own})

(* check_actor: a turn may not claim to be a component of the harness *)
Actors == {"plain", "reserved"}

-----------------------------------------------------------------------------
(* Events and the fold that rebuilds the store *)

Written(id, text, own, eff, lineage, silent) ==
    [kind |-> "written", id |-> id, text |-> text, own |-> own, eff |-> eff,
     lineage |-> lineage, silent |-> silent]
Superseded(id, by) == [kind |-> "superseded", id |-> id, by |-> by]
Tombstoned(id) == [kind |-> "tombstoned", id |-> id]
Rejected == [kind |-> "rejected"]
Merged(rep, losers) == [kind |-> "merged", rep |-> rep, losers |-> losers]
Ran == [kind |-> "ran"]

(* The entry a MemoryWritten event makes, at the sequence number it got *)
EntryOf(e, seq) ==
    [text |-> e.text, sess |-> e.id[1], own |-> e.own, eff |-> e.eff, lineage |-> e.lineage,
     origin |-> seq, silent |-> e.silent, fidelity |-> Record, supersedes |-> <<>>, by |-> None]

(* The store's own operations: the live view of one event *)
Insert(s, id, entry) == [k \in DOMAIN s \cup {id} |-> IF k = id THEN entry ELSE s[k]]

(* mutant: only the loser learns of it *)
SupersedeLoser(s, id, by) == IF id \in DOMAIN s THEN [s EXCEPT ![id].by = by] ELSE s

Supersede(s, id, by) ==
    IF id \notin DOMAIN s THEN s
    ELSE LET marked == [s EXCEPT ![id].by = by]
         IN  IF by \notin DOMAIN s THEN marked
             ELSE [marked EXCEPT ![by].supersedes = Append(@, id)]

Bury(s, id) ==
    IF id \notin DOMAIN s THEN s
    ELSE [s EXCEPT ![id].fidelity = Tombstone, ![id].text = Blank]

(* derive: the same events folded on a start.  An event for a memory the    *)
(* log never wrote refuses the whole rebuild.                               *)
Unreplayable == [k \in {None} |-> None]

ReplaySuperseded(s, id, by) ==
    LET marked == [s EXCEPT ![id].by = by]
    IN  IF by \in DOMAIN s THEN [marked EXCEPT ![by].supersedes = Append(@, id)] ELSE marked

ReplayTombstoned(s, id) == [s EXCEPT ![id].fidelity = Tombstone, ![id].text = Blank]

ReplayOne(s, e, seq) ==
    IF s = Unreplayable THEN s
    ELSE CASE e.kind = "written" -> Insert(s, e.id, EntryOf(e, seq))
           [] e.kind = "superseded" /\ e.id \in DOMAIN s -> ReplaySuperseded(s, e.id, e.by)
           [] e.kind = "tombstoned" /\ e.id \in DOMAIN s -> ReplayTombstoned(s, e.id)
           [] e.kind \in {"superseded", "tombstoned"} /\ e.id \notin DOMAIN s -> Unreplayable
           [] OTHER -> s

derive(events) ==
    LET Fold[i \in 0..Len(events)] ==
            IF i = 0 THEN <<>> ELSE ReplayOne(Fold[i - 1], events[i], i)
    IN  Fold[Len(events)]

-----------------------------------------------------------------------------
(* What readers may take *)

Matured(e, t) == e.silent <= t

InjectionCandidate(e, t) ==
    e.fidelity > Tombstone /\ e.by = None /\ Matured(e, t)

injection_candidates(t) == {id \in DOMAIN store : InjectionCandidate(store[id], t)}
recall_candidates == DOMAIN store

-----------------------------------------------------------------------------
(* Steps of an operation *)

Idle == [at |-> "idle"]
Free == up /\ op = Idle

(* Journal::append, and the change of the store that follows it *)
Commit(e, s) ==
    /\ Len(log) < MaxLog[host]
    /\ log' = Append(log, e)
    /\ store' = s

(* The next step of an operation that appends *)
Appending == op.at \in {"turns", "supersede", "merge", "lose", "ran"}

(* An append fails: the operation returns the error where it stands *)
AppendFails ==
    /\ up /\ Appending /\ faults < MaxFaults
    /\ op' = Idle /\ faults' = faults + 1
    /\ UNCHANGED <<host, log, store, vectors, up, now>>

-----------------------------------------------------------------------------
(* ingest: one inbound turn after another *)

Inbound == [turn : {"turn"} \X Turns, text : Texts, channel : DOMAIN trust_for_channel,
            actor : Actors]
ASSUME InboundAssumption == /\ Requests \subseteq Seq(Inbound) \ {<<>>}
                            /\ Channels \subseteq DOMAIN trust_for_channel

(* The adapter's handle_ingest *)
StartIngest(session, turns) ==
    /\ Free /\ host = "adapter" /\ Len(log) < MaxLog[host]
    /\ op' = [at |-> "turns", sess |-> session, turns |-> turns, i |-> 1]
    /\ UNCHANGED <<host, log, store, vectors, up, now, faults>>

(* DaemonMemory::ingest_external: content the store already knows is        *)
(* answered from the store and nothing is written.  A text of Texts stands  *)
(* for a content with its reference, so two references are two texts.       *)
external_turn_id(run, text, channel) == <<"external", run, channel, text>>

Known(id) == id \in DOMAIN store

IngestExternal(session, run, text, channel) ==
    /\ Free /\ host = "daemon" /\ Len(log) < MaxLog[host]
    /\ LET turn == external_turn_id(run, text, channel)
       IN  /\ ~Known(<<session, turn, 0>>)
           /\ op' = [at |-> "turns", sess |-> session, i |-> 1,
                     turns |-> <<[turn |-> turn, text |-> text, channel |-> channel,
                                  actor |-> "plain"]>>]
    /\ UNCHANGED <<host, log, store, vectors, up, now, faults>>

AfterTurns == IF host = "adapter" THEN [at |-> "embed", sess |-> op.sess] ELSE Idle

IngestTurn ==
    /\ up /\ op.at = "turns"
    /\ LET turn == op.turns[op.i]
           own == trust_for_channel[turn.channel]
           id == <<op.sess, turn.turn, op.i - 1>>
           e == IF turn.actor = "reserved" THEN Rejected
                ELSE Written(id, turn.text, own, effective_trust(own, {}), {}, now + Window)
       IN  Commit(e, IF e = Rejected THEN store ELSE Insert(store, id, EntryOf(e, Len(log) + 1)))
    /\ op' = IF op.i < Len(op.turns) THEN [op EXCEPT !.i = @ + 1] ELSE AfterTurns
    /\ UNCHANGED <<host, vectors, up, now, faults>>

(* embed_missing: every entry without a vector, and none that has one *)
Embed ==
    /\ up /\ op.at = "embed"
    /\ vectors' = [id \in DOMAIN vectors \cup recall_candidates |->
                       IF id \in DOMAIN vectors THEN vectors[id] ELSE store[id].text]
    /\ op' = [at |-> "plan", sess |-> op.sess]
    /\ UNCHANGED <<host, log, store, up, now, faults>>

EmbedFails ==
    /\ up /\ op.at = "embed" /\ faults < MaxFaults
    /\ op' = Idle /\ faults' = faults + 1
    /\ UNCHANGED <<host, log, store, vectors, up, now>>

-----------------------------------------------------------------------------
(* consolidate: complete-linkage clusters of one session's live beliefs, the *)
(* newest of each superseding the others                                     *)

Scoped(session) == {id \in recall_candidates :
    store[id].sess = session /\ store[id].by = None /\ store[id].fidelity > Tombstone}

Before(a, b) == a[2][2] < b[2][2] \/ (a[2][2] = b[2][2] /\ a[3] < b[3])
Similarity(a, b) == Cosine[vectors[a], vectors[b]]

Pairs(ids) == {p \in ids \X ids : Before(p[1], p[2]) /\ Similarity(p[1], p[2]) >= Threshold}

(* Pairs at or above the threshold, the most similar first: the i-th is the   *)
(* one that i - 1 come before                                                *)
Sooner(p, q) ==
    \/ Similarity(p[1], p[2]) > Similarity(q[1], q[2])
    \/ /\ Similarity(p[1], p[2]) = Similarity(q[1], q[2])
       /\ Before(p[1], q[1]) \/ (p[1] = q[1] /\ Before(p[2], q[2]))

Rank(pairs, p) == Cardinality({q \in pairs : Sooner(q, p)}) + 1

MergeCandidates(ids) ==
    [i \in 1..Cardinality(Pairs(ids)) |-> CHOOSE p \in Pairs(ids) : Rank(Pairs(ids), p) = i]

(* mutant: a pair at the threshold does not join *)
JoinsAbove(left, right) == \A x \in left, y \in right : Similarity(x, y) > Threshold

(* Two groups join when EVERY pair across them is similar enough *)
Joins(left, right) == \A x \in left, y \in right : Similarity(x, y) >= Threshold

Join(groups, pair) ==
    LET met == {g \in groups : pair[1] \in g \/ pair[2] \in g}
    IN  IF \A left, right \in met : left # right => Joins(left, right)
        THEN (groups \ met) \cup {UNION met} ELSE groups

Groups(ids) ==
    LET count == Cardinality(Pairs(ids))
        inOrder == MergeCandidates(ids)
        Joined[i \in 0..count] ==
            IF i = 0 THEN {{id} : id \in ids} ELSE Join(Joined[i - 1], inOrder[i])
    IN  Joined[count]

Winner(group) == CHOOSE w \in group : \A id \in group : store[id].origin <= store[w].origin

Losers(group) == group \ {Winner(group)}

Clusters(session) ==
    {[rep |-> Winner(g), losers |-> Losers(g)] :
        g \in {g \in Groups(Scoped(session)) : Cardinality(g) >= 2}}

ApplyNext(clusters) ==
    IF clusters = {} THEN [at |-> "ran"] ELSE [at |-> "merge", clusters |-> clusters]

Plan ==
    /\ up /\ op.at = "plan"
    /\ op' = ApplyNext(Clusters(op.sess))
    /\ UNCHANGED <<host, log, store, vectors, up, now, faults>>

(* apply: a cluster is announced, then its members are superseded one by one. *)
(* The order of ids is left open.                                            *)
Merge ==
    /\ up /\ op.at = "merge"
    /\ \E c \in op.clusters :
         /\ Commit(Merged(c.rep, c.losers), store)
         /\ op' = [at |-> "lose", rep |-> c.rep, losers |-> c.losers, rest |-> op.clusters \ {c}]
    /\ UNCHANGED <<host, vectors, up, now, faults>>

Lose ==
    /\ up /\ op.at = "lose"
    /\ \E id \in op.losers :
         /\ Commit(Superseded(id, op.rep), Supersede(store, id, op.rep))
         /\ op' = IF op.losers = {id} THEN ApplyNext(op.rest)
                  ELSE [op EXCEPT !.losers = @ \ {id}]
    /\ UNCHANGED <<host, vectors, up, now, faults>>

ConsolidationRan ==
    /\ up /\ op.at = "ran"
    /\ Commit(Ran, store)
    /\ op' = Idle
    /\ UNCHANGED <<host, vectors, up, now, faults>>

-----------------------------------------------------------------------------
(* Claims: remember, correct, forget *)

(* mutant: superseded claims are not counted *)
ClaimIdLive(session) ==
    <<session, Claim, Cardinality({id \in recall_candidates :
        id[1] = session /\ id[2] = Claim /\ store[id].by = None})>>

(* The index counts the session's claims, whatever has become of them *)
ClaimId(session) ==
    <<session, Claim, Cardinality({id \in recall_candidates : id[1] = session /\ id[2] = Claim})>>

ClaimTrust(floor, parents) ==
    effective_trust(Min({Inferred, floor}), {store[p].eff : p \in parents \cap DOMAIN store})

ClaimRejected(text, parents) == text = Blank \/ ~(parents \subseteq DOMAIN store)

(* remember_claim, and what the engine does with its answer: the loop        *)
(* journals every refusal, the ones remember_claim journalled too            *)
ClaimWritten(session, text, parents, floor) ==
    Written(ClaimId(session), text, Min({Inferred, floor}), ClaimTrust(floor, parents),
            parents, now + Window)

Remember(session, text, parents, floor) ==
    /\ Free /\ host = "daemon" /\ ~ClaimRejected(text, parents)
    /\ LET e == ClaimWritten(session, text, parents, floor)
       IN  Commit(e, Insert(store, e.id, EntryOf(e, Len(log) + 1)))
    /\ UNCHANGED <<host, vectors, op, up, now, faults>>

RememberRefused(text, parents) ==
    /\ Free /\ host = "daemon" /\ ClaimRejected(text, parents) /\ Len(log) + 1 < MaxLog[host]
    /\ log' = log \o <<Rejected, Rejected>>
    /\ UNCHANGED <<host, store, vectors, op, up, now, faults>>

(* correct_claim: a correction may not be worth less than its target *)
MayCorrect(target, parents, floor) ==
    target \in DOMAIN store /\ ClaimTrust(floor, parents) >= store[target].eff

Correct(target, session, text, parents, floor) ==
    /\ Free /\ host = "daemon" /\ MayCorrect(target, parents, floor)
    /\ ~ClaimRejected(text, parents)
    /\ LET e == ClaimWritten(session, text, parents, floor)
       IN  /\ Commit(e, Insert(store, e.id, EntryOf(e, Len(log) + 1)))
           /\ op' = [at |-> "supersede", id |-> target, by |-> e.id]
    /\ UNCHANGED <<host, vectors, up, now, faults>>

CorrectSupersedes ==
    /\ up /\ op.at = "supersede"
    /\ Commit(Superseded(op.id, op.by), Supersede(store, op.id, op.by))
    /\ op' = Idle
    /\ UNCHANGED <<host, vectors, up, now, faults>>

Forgettable(target) == target \in DOMAIN store

Forget(target) ==
    /\ Free /\ host = "daemon" /\ Forgettable(target)
    /\ Commit(Tombstoned(target), Bury(store, target))
    /\ UNCHANGED <<host, vectors, op, up, now, faults>>

-----------------------------------------------------------------------------
(* The process and the clock *)

Crash ==
    /\ up /\ faults < MaxFaults
    /\ up' = FALSE /\ op' = Idle /\ store' = <<>> /\ vectors' = <<>> /\ faults' = faults + 1
    /\ UNCHANGED <<host, log, now>>

Start ==
    /\ ~up /\ derive(log) # Unreplayable
    /\ up' = TRUE /\ store' = derive(log)
    /\ UNCHANGED <<host, log, vectors, op, now, faults>>

Tick ==
    /\ op = Idle /\ now < MaxNow /\ now' = now + 1
    /\ UNCHANGED <<host, log, store, vectors, op, up, faults>>

-----------------------------------------------------------------------------

Init ==
    /\ host \in Hosts
    /\ log = <<>> /\ store = <<>> /\ vectors = <<>>
    /\ op = Idle /\ up = TRUE /\ now = 0 /\ faults = 0

(* A model may name any belief, and one that does not exist *)
NoSuch == <<Min(Sessions), Claim, 99>>
Named == recall_candidates \cup {NoSuch}
Lineages == {p \in SUBSET Named : Cardinality(p) <= MaxParents}

ClaimStep ==
    \E s \in Sessions, t \in Said, p \in Lineages, f \in Floors :
        \/ Remember(s, t, p, f)
        \/ \E target \in Named : Correct(target, s, t, p, f)

Next ==
    \/ \E s \in Sessions, r \in Requests : StartIngest(s, r)
    \/ \E s \in Sessions, r \in Runs, t \in Said, c \in Channels : IngestExternal(s, r, t, c)
    \/ IngestTurn \/ Embed \/ EmbedFails
    \/ Plan \/ Merge \/ Lose \/ ConsolidationRan
    \/ ClaimStep
    \/ \E t \in Said \cup {Blank}, p \in Lineages : RememberRefused(t, p)
    \/ CorrectSupersedes
    \/ \E target \in Named : Forget(target)
    \/ AppendFails \/ Crash \/ Start \/ Tick

Spec == Init /\ [][Next]_vars

-----------------------------------------------------------------------------
(* Properties *)

(* A reference reading of the log: what may be injected is exactly what was   *)
(* written, matured, and neither superseded nor forgotten since.              *)
LastWord(id) ==
    LET about == {i \in DOMAIN log : log[i].kind \in {"written", "superseded", "tombstoned"}
                                     /\ log[i].id = id}
    IN  log[Max(about)]
CandidatesPerLog ==
    up => injection_candidates(now) =
            {id \in {log[i].id : i \in {i \in DOMAIN log : log[i].kind = "written"}} :
                LastWord(id).kind = "written" /\ LastWord(id).silent <= now}

(* The store in memory and the store a restart would rebuild are the same at  *)
(* every point where the process could die: `supersede` and `tombstone`       *)
(* mirror `derive`, through re-written ids, corrections of corrections,       *)
(* failed appends and half-applied merges.  No sequence of operations and     *)
(* failures writes a log that `derive` refuses, which would keep the daemon   *)
(* from starting, and what may be injected is what the log says.              *)
LiveIsReplayed ==
    /\ derive(log) # Unreplayable
    /\ up => store = derive(log)
    /\ CandidatesPerLog

(* A belief is worth no more than any belief it was derived from, however     *)
(* many claims lie between them (section 3.3's propagation).                  *)
Closed(S) == \A i \in S : store[i].lineage \subseteq S
Ancestors(id) ==
    {a \in DOMAIN store : \A S \in SUBSET DOMAIN store : id \in S /\ Closed(S) => a \in S}
LineageBounds ==
    \A id \in DOMAIN store : \A a \in Ancestors(id) :
        store[id].eff <= store[a].eff /\ store[id].eff <= store[a].own

(* Those a chain of successors from id passes through *)
Passed(S) == \A i \in S : store[i].by # None => store[i].by \in S
Heirs(id) ==
    {h \in DOMAIN store : \A S \in SUBSET DOMAIN store : id \in S /\ Passed(S) => h \in S}

(* Superseding loses nothing: from every superseded belief the chain of       *)
(* successors ends in one that is not superseded, with no circle; and in the  *)
(* daemon no claim evicts a belief worth more than itself, whatever the two   *)
(* have become since (`WouldLowerAuthority`).                                 *)
SurvivorRemains ==
    /\ Passed(DOMAIN store)
    /\ \A id \in DOMAIN store : \E last \in Heirs(id) :
           store[last].by = None /\ (host = "daemon" => store[last].eff >= store[id].eff)

(* Beliefs last: in the daemon no write takes the place of another belief     *)
(* (claim ids are counted and external ids are derived, and neither meets an  *)
(* id in use), and what was forgotten stays forgotten, whatever source is     *)
(* read again, corrected or replayed.                                         *)
BeliefsLast ==
    [][/\ host = "daemon" /\ up /\ up' =>
           \A id \in {id \in DOMAIN store : store[id].fidelity > Tombstone} :
               /\ id \in DOMAIN store'
               /\ store'[id].origin = store[id].origin
               /\ store'[id].text \in {store[id].text, Blank}
       /\ \A id \in DOMAIN store :
              store[id].fidelity = Tombstone /\ up' =>
                  store'[id].fidelity = Tombstone /\ store'[id].text = Blank]_vars

(* A consolidation plan merges only beliefs that are pairwise similar, so a   *)
(* chain of near neighbours never swallows two that are not alike; and it     *)
(* leaves no merge undone: two groups that could be one are one.              *)
ClustersExact ==
    up /\ op.at = "plan" =>
        /\ \A c \in Clusters(op.sess) : \A a, b \in c.losers \cup {c.rep} :
               a # b => Similarity(a, b) >= Threshold
        /\ \A g, h \in Groups(Scoped(op.sess)) :
               g # h => \E a \in g, b \in h : Similarity(a, b) < Threshold

(* Neither a correction nor a consolidation loses what was believed: every    *)
(* superseded belief has a live successor worth as much, and only beliefs     *)
(* that are alike are merged.                                                 *)
MergesKeepMeaning == SurvivorRemains /\ ClustersExact
=============================================================================
