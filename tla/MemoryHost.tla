----------------------------- MODULE MemoryHost -----------------------------
(***************************************************************************)
(* A memory host from its start to an answer: what the devices allowed      *)
(* decides the plan and the batching of the retrievals it serves.           *)
(***************************************************************************)
EXTENDS Retrieval, Devices

CONSTANTS Snippets    \* texts of a query and of a document

VARIABLES pair        \* the last pair given to the cross-encoder: its texts and its row

hostVars == <<retrievalVars, devVars, pair>>
AnySetup == CHOOSE s \in Setups : TRUE
NoPair == [query |-> <<>>, document |-> <<>>]

(* default_batching of the provider that scores, unless the flag said *)
Batching == IF setup.batch # "auto" THEN setup.batch = "on" ELSE rprovider = "cuda"

(* The surroundings of the start are not looked at again: what a query needs *)
(* of them is the plan, the coverage and the batching.  Only the adapter can *)
(* be told to dump features or to ignore the cut point.                      *)
Serve ==
    /\ at = "up" /\ returned = <<>>
    /\ plan' \in {rplan} \cup (IF setup.host = "daemon" THEN {} ELSE {"dump"})
    /\ coverage' \in IF setup.host = "daemon" THEN {"declared"} ELSE Coverages
    /\ batched' = (plan' \in {"shipped", "cascade"} /\ Batching)
    /\ setup' = AnySetup
    /\ at' = "serving" /\ Fresh /\ free' = 0 /\ shifts' = 0 /\ failures' = 0 /\ starts' = 0
    /\ file' = [whole |-> [p \in {"cpu", "cuda"} |-> <<>>],
                torn |-> [p \in {"cpu", "cuda"} |-> FALSE]]
    /\ UNCHANGED <<stage, pool, survived, logit, second, rank, answer, recalled, pair>>

Query ==
    /\ at = "serving" /\ stage = "waiting" /\ pair = NoPair
    /\ pool' \in Pools /\ stage' = "prune"
    /\ UNCHANGED <<plan, coverage, batched, survived, logit, second, rank, answer, recalled,
                   devVars, pair>>

(* score_batch's encoding of one pair, alike for every graph and plan *)
Score ==
    /\ at = "serving" /\ stage = "waiting" /\ pair = NoPair
    /\ plan = "shipped" /\ coverage = "declared" /\ ~batched
    /\ \E q, d \in Snippets : pair' = [query |-> q, document |-> d, row |-> encode_pair(q, d)]
    /\ UNCHANGED <<retrievalVars, devVars>>

HostInit ==
    /\ DevInit /\ pair = NoPair
    /\ stage = "waiting" /\ pool = CHOOSE p \in Pools : p.n = 0
    /\ plan = "off" /\ coverage = "declared" /\ batched = FALSE
    /\ survived = {} /\ logit = <<>> /\ second = <<>> /\ rank = <<>>
    /\ answer = NoAnswer /\ recalled = NoRecall

HostNext ==
    \/ DevNext /\ UNCHANGED <<retrievalVars, pair>>
    \/ Serve \/ Query \/ Score
    \/ RetrievalNext /\ UNCHANGED <<devVars, pair>>

HostSpec == HostInit /\ [][HostNext]_hostVars

-----------------------------------------------------------------------------

Content(text) == pieces_of(text)
IsPrefixOf(s, t) == Len(s) <= Len(t) /\ SubSeq(t, 1, Len(s)) = s

(* A row is what the two texts say: their pieces in order, each side a       *)
(* prefix of itself, the query's part marked 0 and the document's 1; a side  *)
(* that fits half the room is never cut, and nothing is cut while both fit.  *)
RowIsPair ==
    pair # NoPair =>
        LET a == Content(pair.query)
            b == Content(pair.document)
            real == {i \in 1..MaxPair : pair.row.mask[i] = 1}
            right == {i \in real : pair.row.types[i] = 1}
            at0 == Cardinality(real \ right) - 2
            at1 == Cardinality(right) - 1
            room == MaxPair - 3
        IN  /\ Len(pair.row.ids) = MaxPair
            /\ IsPrefixOf(SubSeq(pair.row.ids, 2, at0 + 1), a)
            /\ IsPrefixOf(SubSeq(pair.row.ids, at0 + 3, at0 + at1 + 2), b)
            /\ at0 + at1 = Min({room, Len(a) + Len(b)})
            /\ 2 * Len(a) <= room => at0 = Len(a)
            /\ 2 * Len(b) <= room => at1 = Len(b)
            /\ pair.row.truncated <=> Len(a) + Len(b) > room

(* Tokens do not depend on how a text is laid out: a character that leaves   *)
(* no trace may be dropped, and texts joined by white space tokenize as they *)
(* do apart (`clean_and_space_cjk`, `basic_tokenize`, `wordpiece`).          *)
LayoutIsIdle ==
    pair # NoPair =>
        LET q == pair.query
            d == pair.document
        IN  /\ Content(q \o <<"newline">> \o d) = Content(q) \o Content(d)
            /\ Content(SelectSeq(q, LAMBDA c : c \notin Controls)) = Content(q)

(* Whatever is written, every place of a row is a token the graph has a row  *)
(* of its embedding matrix for: `encode_pair` unwraps its ids because        *)
(* `Vocab::finish` saw the literals it may emit.                             *)
TokensAreKnown ==
    pair # NoPair =>
        \A i \in DOMAIN pair.row.ids : /\ pair.row.ids[i] \in DOMAIN TokenizerJson.vocab
                                       /\ TokenizerJson.vocab[pair.row.ids[i]] < VocabSize

(* The rows and the vectors the two graphs see are those of the texts they   *)
(* are said to be of, in tokens the graphs know.                             *)
EncodedTruly == VectorsAreOwn /\ RowIsPair /\ LayoutIsIdle /\ TokensAreKnown
=============================================================================
