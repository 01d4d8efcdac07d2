------------------------------ MODULE Devices ------------------------------
(***************************************************************************)
(* Bringing the memory host up on a shared card: the embedder and the       *)
(* cross-encoder are verified, placed on the GPU or the CPU, widened while  *)
(* there is room, and the embedder's cache is opened; then batches of texts *)
(* are embedded.  Two hosts do it: the eval adapter, which stops when a     *)
(* part refuses, and the daemon, which goes on without retrieval.           *)
(*                                                                          *)
(* Device memory is counted in small units.  Other processes take and       *)
(* release it between any two steps; a reading may fail; a session costs    *)
(* what it costs, at least its floor.                                       *)
(***************************************************************************)
EXTENDS Tokens, Integers, FiniteSets

CONSTANTS
    Setups,        \* [host, embed, rerank, plan, batch, workers, cache, libs, tier1, bad]
    Memory,        \* free units at a start
    SessionFloor,  \* session_cost_floor of either graph
    Costs,         \* what a session takes of the card
    Batches,       \* sequences of texts
    MaxShifts,     \* moves by other processes
    MaxFailures,   \* failed readings, constructions, graph runs and writes
    MaxStarts

ASSUME DevicesAssumption ==
    /\ SessionFloor \in Nat \ {0} /\ MaxFailures \in Nat
    /\ Memory \subseteq Nat \cup {-1} /\ Costs \subseteq Nat
    /\ \A texts \in Batches : DOMAIN texts = 1..Len(texts) /\ Len(texts) \in Nat
    /\ \A s \in Setups : /\ s.host \in {"adapter", "daemon"} /\ s.workers \in Nat \ {0}
                          /\ s.embed \in {"auto", "cpu", "cuda", "none"}
                          /\ s.rerank \in {"auto", "cpu", "cuda", "off"}
                          /\ s.tier1.size.value \in Nat

Absent == "none"
Silent == -1       \* nvidia-smi absent or silent

VARIABLES
    setup, at, why, free, shifts, failures, starts,
    usable,        \* free at load less tier 1's claim
    cost, ledger, sessions, provider,      \* the embedder's ProviderPlan
    rprovider, rplan,                      \* the cross-encoder's, and the RerankPlan
    file,          \* the cache on disk: [provider -> records], and the torn ones
    entries,       \* ... as opened
    batch, returned \* the last embed_batch: its texts and what it returned

card == <<free, shifts, failures>>
plans == <<usable, cost, ledger, sessions, provider>>
cached == <<file, entries>>
served == <<batch, returned>>
devVars == <<setup, at, why, card, starts, plans, rprovider, rplan, cached, served>>

Less(x, y) == IF x < y THEN 0 ELSE x - y   \* saturating_sub
Broken(part) == part \in setup.bad

-----------------------------------------------------------------------------
(* What the code asks of its surroundings *)

(* Probe::free_bytes: the smallest card, or nothing within the poll bound *)
Readings == {free} \cup (IF failures < MaxFailures THEN {Silent} ELSE {})
Charge(r) == failures' = IF r = Silent /\ free # Silent THEN failures + 1 ELSE failures

(* Tier1Runtime: only Ollama can say of a model that is not loaded that it may be *)
AskOllama(tier1) == tier1.runtime = "ollama"

(* parse_size: rounded up, and no size at all in a unit it does not know *)
Units == [GB |-> 1000, MB |-> 1]
parse_size(listing) ==
    IF listing.unit \in DOMAIN Units THEN (listing.value * Units[listing.unit] + 999) \div 1000
    ELSE Silent

(* Reserve::read: a claim only for a known, installed, absent Ollama model *)
reserve ==
    IF ~AskOllama(setup.tier1) THEN 0
    ELSE IF setup.tier1.resident THEN 0
    ELSE IF ~setup.tier1.listed \/ parse_size(setup.tier1.size) = Silent THEN 0
    ELSE parse_size(setup.tier1.size)

(* resolve: every directory is one, and between them they hold the runtime *)
resolve(libs) ==
    IF libs = <<"unset">> THEN "not requested"
    ELSE IF libs = <<>> THEN "rejected"
    ELSE IF \E i \in DOMAIN libs : libs[i] = "file" THEN "rejected"
    ELSE IF {"blas", "dnn"} \ Range(libs) # {} THEN "rejected" ELSE "applied"

(* ensure_search_path: the environment's word, else what discovery finds *)
ensure_search_path ==
    IF resolve(setup.libs.env) # "not requested" THEN resolve(setup.libs.env)
    ELSE IF setup.libs.found = <<"unset">> THEN "not requested"
    ELSE resolve(setup.libs.found)

(* Resolution::rejection: a request that could not be honoured, and nothing else *)
rejection(resolution) == resolution = "rejected"

(* A CUDA session takes its units, or does not construct *)
Constructs(c) == ~rejection(ensure_search_path) /\ ~Broken("driver") /\ free # Silent /\ c <= free
Refusable == rejection(ensure_search_path) \/ Broken("driver") \/ free = Silent
             \/ (\E c \in Costs : c > free) \/ failures < MaxFailures
ChargeRefusal ==
    failures' = IF rejection(ensure_search_path) \/ Broken("driver") \/ free = Silent
                 \/ (\E c \in Costs : c > free)
              THEN failures ELSE failures + 1

Stop(reason) == at' = "dead" /\ why' = reason
Go(next) == at' = next /\ UNCHANGED why

-----------------------------------------------------------------------------
(* The embedder: Embedder::load_with_provider *)

OnCpu == provider' = "cpu" /\ sessions' = setup.workers
VerifyEmbedder ==
    /\ at = "embed"
    /\ IF Broken("model") \/ Broken("vocab")
       THEN Stop("digest") /\ UNCHANGED <<provider, sessions>>
       ELSE IF setup.embed = "cpu" THEN OnCpu /\ Go("cache")
       ELSE Go(IF setup.embed = "cuda" THEN "explicit" ELSE "probe") /\ UNCHANGED <<provider, sessions>>
    /\ UNCHANGED <<setup, card, starts, usable, cost, ledger, rprovider, rplan, cached, served>>

(* ProviderChoice::Cuda: no budget, and no fallback *)
ExplicitCuda ==
    /\ at = "explicit"
    /\ \/ \E c \in Costs :
            /\ Constructs(c) /\ free' = free - c
            /\ sessions' = sessions + 1 /\ provider' = "cuda"
            /\ Go(IF sessions + 1 = setup.workers THEN "cache" ELSE "explicit")
            /\ UNCHANGED failures
       \/ Refusable /\ Stop("cuda") /\ ChargeRefusal /\ UNCHANGED <<free, sessions, provider>>
    /\ UNCHANGED <<setup, shifts, starts, usable, cost, ledger, rprovider, rplan, cached, served>>

(* auto_sessions, the first session: is there room for it and a spare one?   *)
Probe ==
    /\ at = "probe"
    /\ \E r \in Readings :
         /\ Charge(r)
         /\ usable' = IF r = Silent THEN 0 ELSE Less(r, reserve)
         /\ IF r = Silent \/ Less(r, reserve) < 2 * SessionFloor THEN OnCpu /\ Go("cache")
            ELSE Go("open") /\ UNCHANGED <<provider, sessions>>
    /\ UNCHANGED <<setup, free, shifts, starts, cost, ledger, rprovider, rplan, cached, served>>

Open ==
    /\ at = "open"
    /\ \/ \E c \in Costs : /\ Constructs(c) /\ free' = free - c
                           /\ provider' = "cuda" /\ sessions' = 1 /\ Go("measure")
                           /\ UNCHANGED failures
       \/ Refusable /\ OnCpu /\ Go("cache") /\ ChargeRefusal /\ UNCHANGED free
    /\ UNCHANGED <<setup, shifts, starts, usable, cost, ledger, rprovider, rplan, cached, served>>

(* ... warmed, its cost is what the card lost, and never below the floor *)
Measure ==
    /\ at = "measure"
    /\ \E r \in Readings :
         LET loaded == usable + reserve   \* free_at_load
             after == IF r = Silent THEN loaded ELSE r
             measured == Max({Less(loaded, after), SessionFloor})
         IN  Charge(r) /\ cost' = measured /\ ledger' = Less(usable, measured)
    /\ Go("widen")
    /\ UNCHANGED <<setup, free, shifts, starts, usable, sessions, provider, rprovider, rplan, cached, served>>

(* mutant: another session while one fits, with none to spare *)
RoomForOne(r) == r # Silent /\ Min({Less(r, reserve), ledger}) >= cost

(* Room for another and a spare, by the card and by the ledger *)
Room(r) == r # Silent /\ Min({Less(r, reserve), ledger}) >= 2 * cost

(* Another session while there is room for it and a spare *)
Widen ==
    /\ at = "widen"
    /\ \/ sessions = setup.workers /\ Go("cache") /\ UNCHANGED <<free, failures, sessions, ledger>>
       \/ /\ sessions < setup.workers
          /\ \E r \in Readings :
               /\ ~Room(r) /\ Charge(r) /\ Go("cache") /\ UNCHANGED <<free, sessions, ledger>>
       \/ /\ sessions < setup.workers /\ Room(free) /\ Go("grow")
          /\ UNCHANGED <<free, failures, sessions, ledger>>
    /\ UNCHANGED <<setup, shifts, starts, usable, cost, provider, rprovider, rplan, cached, served>>

Grow ==
    /\ at = "grow"
    /\ \/ \E c \in Costs : /\ Constructs(c) /\ free' = free - c
                           /\ sessions' = sessions + 1 /\ ledger' = Less(ledger, cost)
                           /\ Go("widen") /\ UNCHANGED failures
       \/ Refusable /\ ChargeRefusal /\ Go("cache") /\ UNCHANGED <<free, sessions, ledger>>
    /\ UNCHANGED <<setup, shifts, starts, usable, cost, provider, rprovider, rplan, cached, served>>

-----------------------------------------------------------------------------
(* The cache: one file for one identity, refused when a record is not whole *)

Records(f, p) == [k \in {r.key : r \in Range(f[p])} |->
                    (CHOOSE r \in Range(f[p]) : r.key = k).vector]

(* mutant: the provider is not part of the identity *)
NamespaceShared(p) == "cpu"

(* CacheIdentity::namespace: digests, version and sizes are pinned in this   *)
(* build; the provider is what can differ between two starts                 *)
namespace(p) == p

OpenCache ==
    /\ at = "cache"
    /\ IF ~setup.cache THEN entries' = <<>> /\ Go("rerank")
       ELSE IF file.torn[namespace(provider)] THEN Stop("cache") /\ UNCHANGED entries
       ELSE entries' = Records(file.whole, namespace(provider)) /\ Go("rerank")
    /\ UNCHANGED <<setup, card, starts, plans, rprovider, rplan, file, served>>

-----------------------------------------------------------------------------
(* The cross-encoder, the plan, and its second graph *)

(* A refusal stops the adapter; the daemon goes on write-only *)
Refuse(reason) ==
    IF setup.host = "adapter" THEN Stop(reason) /\ UNCHANGED rprovider
    ELSE rprovider' = Absent /\ Go("plan")

(* load_auto: only what nobody decided is probed for, and only that falls back *)
load_auto(choice) ==
    CASE choice = "cpu" -> rprovider' = "cpu" /\ Go("plan")
      [] choice = "cuda" -> Go("rcuda") /\ UNCHANGED rprovider
      [] choice = "auto" -> Go("rprobe") /\ UNCHANGED rprovider

(* The digests first, on every provider *)
VerifyReranker ==
    /\ at = "rerank"
    /\ IF setup.rerank = "off" THEN rprovider' = Absent /\ Go("plan")
       ELSE IF Broken("graph") \/ Broken("superseded") \/ Broken("tokenizer") THEN Refuse("digest")
       ELSE load_auto(setup.rerank)
    /\ UNCHANGED <<setup, card, starts, plans, rplan, cached, served>>

ProbeReranker ==
    /\ at = "rprobe"
    /\ \E r \in Readings :
         /\ Charge(r)
         /\ IF r = Silent \/ Less(r, reserve) < 2 * SessionFloor THEN rprovider' = "cpu" /\ Go("plan")
            ELSE Go("ropen") /\ UNCHANGED rprovider
    /\ UNCHANGED <<setup, free, shifts, starts, plans, rplan, cached, served>>

OpenReranker ==
    /\ at \in {"ropen", "rcuda"}
    /\ \/ \E c \in Costs : /\ Constructs(c) /\ free' = free - c
                           /\ rprovider' = "cuda" /\ Go("plan") /\ UNCHANGED failures
       \/ /\ Refusable /\ ChargeRefusal
          /\ IF at = "rcuda" THEN Refuse("cuda") ELSE rprovider' = "cpu" /\ Go("plan")
          /\ UNCHANGED free
    /\ UNCHANGED <<setup, shifts, starts, plans, rplan, cached, served>>

(* RerankPlan::select on the provider the graph is really on *)
Selected ==
    IF setup.host = "daemon" \/ setup.plan = "shipped" THEN "shipped"
    ELSE IF setup.plan = "cascade" \/ rprovider = "cuda" THEN "cascade" ELSE "shipped"

SelectPlan ==
    /\ at = "plan"
    /\ rplan' = IF rprovider = Absent THEN "off" ELSE Selected
    /\ Go(IF rprovider # Absent /\ Selected = "cascade" THEN "fuse" ELSE "up")
    /\ UNCHANGED <<setup, card, starts, plans, rprovider, cached, served>>

(* load_fusion_member: on the resolved provider, with no probe and no way back *)
LoadFusion ==
    /\ at = "fuse"
    /\ \/ Broken("fusion") /\ Stop("digest") /\ UNCHANGED card
       \/ ~Broken("fusion") /\ rprovider = "cpu" /\ Go("up") /\ UNCHANGED card
       \/ /\ ~Broken("fusion") /\ rprovider = "cuda" /\ UNCHANGED shifts
          /\ \/ \E c \in Costs : Constructs(c) /\ free' = free - c /\ Go("up") /\ UNCHANGED failures
             \/ Refusable /\ ChargeRefusal /\ Stop("fusion") /\ UNCHANGED free
    /\ UNCHANGED <<setup, starts, plans, rprovider, rplan, cached, served>>

-----------------------------------------------------------------------------
(* embed_batch: hits from the cache, the rest split over the sessions *)

(* What the graph makes of a text on a provider: its ids, pooled *)
forward(text, p) == [ids |-> encode(text), on |-> p]

Unfilled == [ids |-> <<>>, on |-> Absent]
CeilDiv(n, k) == (n + k - 1) \div k

(* A session takes the next contiguous share of what is pending *)
Share(pending, w) ==
    LET per == CeilDiv(Len(pending), sessions)
    IN  SubSeq(pending, (w - 1) * per + 1, Min({w * per, Len(pending)}))

(* The workers' answers joined in order of the workers *)
Computed(pending) ==
    LET extend(acc, w) == acc \o Share(pending, w)
    IN  FoldLeft(extend, <<>>, [w \in 1..sessions |-> w])

(* The texts the cache does not know, in order *)
Pending(texts) ==
    LET look(acc, i) == IF texts[i] \in DOMAIN entries THEN acc ELSE Append(acc, i)
    IN  FoldLeft(look, <<>>, [i \in DOMAIN texts |-> i])

(* EmbeddingCache::put of the first k computed vectors *)
Put(f, texts, done) ==
    LET put(acc, i) ==
            IF \E r \in Range(acc) : r.key = texts[i] THEN acc
            ELSE Append(acc, [key |-> texts[i], vector |-> forward(texts[i], provider)])
    IN  FoldLeft(put, f, done)

(* `bad` is the first text the graph or the cache fails on, 0 for none *)
EmbedBatch(texts) ==
    LET pending == Pending(texts)
        order == Computed(pending)
        vector(i) == IF i \in Range(pending)
                     THEN LET k == CHOOSE k \in DOMAIN pending : pending[k] = i
                          IN  IF k \in DOMAIN order THEN forward(texts[order[k]], provider) ELSE Unfilled
                     ELSE entries[texts[i]]
        ns == namespace(provider)
    IN  \E bad \in 0..(IF failures < MaxFailures THEN Len(pending) ELSE 0), torn \in BOOLEAN :
          /\ torn => bad # 0 /\ setup.cache
          /\ LET done == IF bad = 0 THEN pending ELSE SubSeq(pending, 1, bad - 1)
                 after == IF setup.cache THEN Put(file.whole[ns], texts, done) ELSE file.whole[ns]
             IN  /\ file' = [whole |-> [file.whole EXCEPT ![ns] = after],
                             torn |-> [file.torn EXCEPT ![ns] = @ \/ torn]]
                 /\ entries' = IF setup.cache THEN Records(file'.whole, ns) ELSE entries
          /\ batch' = texts
          /\ returned' = IF bad = 0 THEN [i \in DOMAIN texts |-> vector(i)] ELSE <<>>
          /\ failures' = IF bad = 0 THEN failures ELSE failures + 1

EmbedTexts ==
    /\ at = "up" /\ setup.host = "adapter" /\ batch = <<>>
    /\ \E texts \in Batches : EmbedBatch(texts)
    /\ UNCHANGED <<setup, at, why, free, shifts, starts, plans, rprovider, rplan>>

-----------------------------------------------------------------------------
(* Other processes, and the next start on a cache that a batch wrote to *)

Shift ==
    /\ shifts < MaxShifts /\ at \notin {"up", "dead", "serving"} /\ free # Silent
    /\ free' \in Memory \ {free, Silent} /\ shifts' = shifts + 1
    /\ UNCHANGED <<setup, at, why, failures, starts, plans, rprovider, rplan, cached, served>>

Fresh ==
    /\ usable' = 0 /\ cost' = 0 /\ ledger' = 0 /\ sessions' = 0 /\ provider' = Absent
    /\ rprovider' = Absent /\ rplan' = "off" /\ entries' = <<>> /\ batch' = <<>> /\ returned' = <<>>
    /\ why' = Absent

NextStart ==
    /\ at = "up" /\ setup.cache /\ batch # <<>> /\ starts < MaxStarts
    /\ starts' = starts + 1 /\ free' \in Memory
    /\ at' = "embed" /\ Fresh
    /\ UNCHANGED <<setup, shifts, failures, file>>

DevInit ==
    /\ setup \in Setups /\ at = (IF setup.host = "daemon" THEN "rerank" ELSE "embed")
    /\ why = Absent /\ free \in Memory /\ shifts = 0 /\ failures = 0 /\ starts = 1
    /\ usable = 0 /\ cost = 0 /\ ledger = 0 /\ sessions = 0 /\ provider = Absent
    /\ rprovider = Absent /\ rplan = "off"
    /\ file = [whole |-> [p \in {"cpu", "cuda"} |-> <<>>], torn |-> [p \in {"cpu", "cuda"} |-> FALSE]]
    /\ entries = <<>> /\ batch = <<>> /\ returned = <<>>

DevNext ==
    \/ VerifyEmbedder \/ ExplicitCuda \/ Probe \/ Open \/ Measure \/ Widen \/ Grow \/ OpenCache
    \/ VerifyReranker \/ ProbeReranker \/ OpenReranker \/ SelectPlan \/ LoadFusion
    \/ EmbedTexts \/ Shift \/ NextStart

-----------------------------------------------------------------------------

(* A start that nobody asked to be strict fails only for a file that is not  *)
(* the pinned one, a torn cache, or the cascade's second graph, which is     *)
(* opened with no way back (`auto` ... "never a failed run").                *)
OnlyStrictStartsFail ==
    at = "dead" =>
        /\ setup.host = "adapter"
        /\ why = "cuda" => "cuda" \in {setup.embed, setup.rerank}
        /\ why = "digest" => setup.bad # {}
        /\ why = "cache" => setup.cache
        /\ why = "fusion" => rplan = "cascade" /\ rprovider = "cuda"

(* Beside its sessions a widened embedder leaves room for a spare one,       *)
(* whatever other processes did meanwhile (the ledger).                      *)
SpareOnTheLedger ==
    sessions > 1 /\ provider = "cuda" /\ setup.embed = "auto" /\ at \notin {"open", "measure"} =>
        (sessions + 1) * cost <= usable

(* On a card nobody else touched there is really room left for tier 1, which *)
(* has no CPU to fall back to (`auto_sessions`, ADR-045).                    *)
RoomForTier1 ==
    at = "cache" /\ shifts = 0 /\ failures = 0 /\ provider = "cuda" /\ setup.embed = "auto" =>
        free >= reserve

(* What runs is what was found: one provider for every session, the full     *)
(* width on the CPU, never the CPU for a caller that said CUDA, and a        *)
(* cascade only where its condition held.                                    *)
RunsAsFound ==
    at = "up" =>
        /\ provider = "cpu" => sessions = setup.workers /\ setup.embed # "cuda"
        /\ provider = "cuda" => sessions \in 1..setup.workers /\ setup.embed # "cpu"
        /\ rprovider = "cpu" => setup.rerank # "cuda"
        /\ rplan = "cascade" => rprovider # Absent /\ (setup.plan = "auto" => rprovider = "cuda")

HostStands == OnlyStrictStartsFail /\ SpareOnTheLedger /\ RoomForTier1 /\ RunsAsFound

(* A batch's vectors are its own: the i-th is what this graph makes of the   *)
(* i-th text on the provider the host announced, whether it was computed by  *)
(* some session or read from a cache that an earlier start wrote.            *)
VectorsAreOwn ==
    /\ returned # <<>> => returned = [i \in DOMAIN batch |-> forward(batch[i], provider)]
    /\ at = "up" => \A t \in DOMAIN entries : entries[t] = forward(t, provider)
=============================================================================
