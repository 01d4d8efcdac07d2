------------------------------ MODULE MCMemory ------------------------------
(***************************************************************************)
(* Two small instances in one run: the belief store of a daemon and of an   *)
(* eval adapter, and the retrieval host over a pool.  They share no         *)
(* variable; the initial state chooses which of them moves.                 *)
(***************************************************************************)
EXTENDS BeliefStore, MemoryHost

VARIABLE part    \* what moves: "store" or "host"

(* The one that rests has one of its initial states *)
MemoryInit ==
    /\ Init /\ HostInit
    /\ \/ part = "store" /\ setup = AnySetup /\ free = Max(Memory)
       \/ part = "host" /\ host = "daemon"

StoreMoves == part = "store" /\ Next /\ UNCHANGED <<hostVars, part>>
HostMoves == part = "host" /\ HostNext /\ UNCHANGED <<vars, part>>

MemorySpec == MemoryInit /\ [][StoreMoves \/ HostMoves]_<<vars, hostVars, part>>

-----------------------------------------------------------------------------
(* The store.  Three texts: "a" and "b" are near, "b" and "c" are nearer,    *)
(* "a" and "c" are not, which is the chain single linkage would merge.  The  *)
(* harness sends whole requests and may send one again.                      *)

MCCosine == [p \in Texts \X Texts |->
    IF p[1] = p[2] THEN 3
    ELSE IF {p[1], p[2]} = {"a", "b"} THEN 1
    ELSE IF {p[1], p[2]} = {"b", "c"} THEN 2 ELSE 0]

Says(turn, text, channel, actor) ==
    [turn |-> <<"turn", turn>>, text |-> text, channel |-> channel, actor |-> actor]

MCMaxLog == [daemon |-> 4, adapter |-> 11]

MCRequests == {
    <<Says(1, "a", "terminal", "plain"), Says(2, "b", "web", "plain")>>,
    <<Says(3, "c", "web", "reserved"), Says(4, "c", "tool_output", "plain")>>,
    <<Says(1, "c", "web", "plain")>>}

-----------------------------------------------------------------------------
(* The retrieval host *)

Times(n) == {[i \in 1..n |-> <<0, 2, 5, 1>>[i]], [i \in 1..n |-> <<6, 3, 0, 7>>[i]]}
Lexical(n) == {[i \in 1..n |-> <<0, 1, 2, 0>>[i]], [i \in 1..n |-> <<2, 2, 0, 1>>[i]]}
Dense(n) == {[i \in 1..n |-> 0], [i \in 1..n |-> <<1, 0, 2, 3>>[i]]}

(* Beliefs 1..n: where they lie in time, what each cue says of them, whether *)
(* injection may see them, what they cost and how far they are trusted.      *)
Sized(n) ==
    {[n |-> n, hot |-> hot, at |-> at0, lex |-> lex, den |-> den, made |-> at0,
      eff |-> [i \in 1..n |-> (i + 1) % 4], cost |-> [i \in 1..n |-> <<2, 1, 2, 5>>[i]]] :
        hot \in {1..n, 2..n}, at0 \in Times(n), lex \in Lexical(n), den \in Dense(n)}

MCPools == UNION {Sized(n) : n \in {0, 1, 2, 4}}
MCCurves == [lexical |-> << <<0, 3>>, <<1, 6>> >>, dense |-> << <<-1, 2>>, <<1, 6>>, <<2, 9>> >>]

(* Gates: loadable ones of every verdict, and one for each reason to refuse *)
Gate == [state |-> "fitted", version |-> "frozen-v5", fusion |-> "per query", threshold |-> PassAt,
         names |-> FeatureNames, cues |-> CueFeatures, ranks |-> RankFeatures,
         curves |-> MCCurves, inert |-> {"trust"}, floor |-> "pass", provenance |-> TRUE]
Mute == [c \in {"lexical", "dense"} |-> << <<0, 1>>, <<2, PassAt - 1>> >>]
MCArtifacts ==
    {Gate, [Gate EXCEPT !.floor = "unmeasured"], [Gate EXCEPT !.floor = "fail"],
     [Gate EXCEPT !.floor = "fail", !.curves = Mute], [Gate EXCEPT !.curves = Mute],
     [Gate EXCEPT !.state = "unfitted"], [Gate EXCEPT !.inert = {}], [Gate EXCEPT !.provenance = FALSE],
     [Gate EXCEPT !.cues = Reverse(CueFeatures)], [Gate EXCEPT !.floor = "fail", !.threshold = 8]}
    \cup {[Gate EXCEPT !.floor = "fail", !.curves.dense = bad] :
            bad \in {<<>>, << <<0, 9>>, <<1, 2>> >>, << <<1, 9>>, <<1, 3>> >>, << <<2, 3>>, <<1, 4>> >>}}
MCLogits == {-1, 0, 2}

(* Setups: the shipped one with a cache, and without one something different *)
Unset == <<"unset">>
Shipped == [host |-> "adapter", embed |-> "auto", rerank |-> "auto", plan |-> "auto",
            batch |-> "auto", workers |-> 3, cache |-> FALSE,
            libs |-> [env |-> Unset, found |-> <<"blas", "dnn">>],
            tier1 |-> [runtime |-> "ollama", resident |-> FALSE, listed |-> TRUE,
                      size |-> [value |-> 1500, unit |-> "MB"]],
            bad |-> {}]
MCSetups ==
    {[Shipped EXCEPT !.cache = TRUE]}
    \cup {[Shipped EXCEPT !.embed = c, !.rerank = d] : c \in {"cpu", "cuda"}, d \in {"cpu", "cuda", "off"}}
    \cup {[Shipped EXCEPT !.plan = p, !.rerank = c, !.batch = b, !.embed = "cpu"] :
            p \in {"shipped", "cascade"}, c \in {"auto", "cpu"}, b \in {"on", "off"}}
    \cup {[Shipped EXCEPT !.bad = {b}] :
            b \in {"model", "vocab", "graph", "superseded", "tokenizer", "fusion", "driver"}}
    \cup {[Shipped EXCEPT !.libs = [env |-> e, found |-> f], !.workers = 1] :
            e \in {Unset, <<>>, <<"blas">>, <<"blas", "file">>, <<"blas", "dnn">>},
            f \in {Unset, <<"blas">>, <<"blas", "dnn">>}}
    \cup {[Shipped EXCEPT !.tier1 = [@ EXCEPT !.runtime = r, !.resident = i, !.listed = l]] :
            r \in {"ollama", "llama-server"}, i \in BOOLEAN, l \in BOOLEAN}
    \cup {[Shipped EXCEPT !.tier1.size = [value |-> 2, unit |-> u]] : u \in {"GB", "?"}}
    \cup {[Shipped EXCEPT !.host = "daemon", !.embed = "none", !.rerank = c, !.bad = b] :
            c \in {"auto", "off"}, b \in {{}, {"graph"}, {"driver"}}}

MCMemory == {-1, 3, 6, 9}
MCCosts == {2, 3}

Ta == <<"a", "b">>
Tb == <<"A", "control", ",", "cjk">>
Tc == <<"b", "space", "b", "[MASK]">>
MCBatches == { <<Ta, Tb, Ta>>, <<Tc, Ta, Tb, Tc, <<"z">> >> }

Chars == {"a", "A", "b", "z", ",", "space", "control", "mark", "cjk", "separator", "[SEP]"}
MCSnippets ==
    {<<>>} \cup [1..1 -> Chars] \cup {<<"a", "b", c>> : c \in Chars}
    \cup { <<c, "control", "b">> : c \in Chars} \cup {<<"A", "mark", c, "a">> : c \in Chars}
    \cup { <<"a", "space", "a", "b", "a", ",", "cjk">>, <<"a", ",", "a", ",", "a">>,
           <<"b", "a", "b", "a", "b", "a">> }
MCVocabLines ==
    << <<"[PAD]">>, <<"[UNK]">>, <<"[CLS]">>, <<"[SEP]", "cr">>, <<"[MASK]">>,
       <<"a">>, <<"b", "cr">>, <<"a", "b">>, <<",">>, <<"cjk">>,
       <<"##", "a">>, <<"##", "b">>, <<"##", "b", "a">> >>
MCTokenizerJson == [normalizer |-> Normalizer, vocab |-> Vocab]
=============================================================================
