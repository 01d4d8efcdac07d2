---------------------------- MODULE RequestBody ----------------------------
(***************************************************************************)
(* What a driver sends for the window of ContextWindow: `request_body` of  *)
(* the Ollama, the llama.cpp and the OpenRouter driver, over the one       *)
(* projection the last two share (`openai_messages`), the tool list, and   *)
(* `unorphan_tool_messages`, which decides from the request being built    *)
(* which results may still be called replies.                              *)
(*                                                                         *)
(* A message keeps its role, the blocks its content is made of, the calls  *)
(* it announces, the call it answers, and whether it carries reasoning.    *)
(***************************************************************************)
EXTENDS ContextWindow

CONSTANTS
    WindowTokens,  \* DaemonConfig.context_tokens: `num_ctx`, and the assembler's window
    MinReserve,    \* the least the assembler holds back (512)
    Limit          \* CallLimits.max_output_tokens: what is left of the run's budget

(* turn: the assembler's window is the driver's, less what it holds back *)
Reserve == LET part == WindowTokens \div 16 IN IF part > MinReserve THEN part ELSE MinReserve

ASSUME OneWindow == EffectiveWindow = (IF WindowTokens > Reserve THEN WindowTokens - Reserve
                                       ELSE 0)
ASSUME LimitAssumption == Limit \in Nat

-----------------------------------------------------------------------------
(* Block.wire: an assistant turn that calls names its call, and the result after it
   answers that call. Masking keeps a result's wire; a truncated block and an omission
   marker are new blocks, and have none. *)

Calls(v, i) == IF v[i] = Assistant(0) THEN {i} ELSE {}

Answers(v, i) == IF i > 1 /\ v[i].src \in {"ToolResults", "ChildResults"}
                 THEN Calls(v, i - 1) ELSE {}

Placed(v) == [i \in DOMAIN v |-> [src |-> v[i].src, trust |-> v[i].trust,
                                  tokens |-> v[i].tokens, body |-> v[i].body, at |-> i]]

Wired(v, b) == "at" \in DOMAIN b /\ b.tokens = v[b.at].tokens

-----------------------------------------------------------------------------
(* openai_messages, and the projection the Ollama driver keeps of its own *)

Msg(r, text) == [role |-> r, text |-> text, calls |-> {}, answers |-> {}, thinking |-> FALSE]

Speaker(b) == CASE b.src \in {"ToolResults", "ChildResults"} -> "tool"
                [] b.src = "History" /\ b.trust = Inferred   -> "assistant"
                [] OTHER                                     -> "user"

Turn(v, b) ==
    [Msg(Speaker(b), <<b>>) EXCEPT
        !.calls    = IF Wired(v, b) THEN Calls(v, b.at) ELSE {},
        !.answers  = IF Wired(v, b) THEN Answers(v, b.at) ELSE {},
        !.thinking = Wired(v, b) /\ Speaker(b) = "assistant"]

(* What does not travel as a turn *)
Recalled(d) == IF d = "openai" THEN {"InjectedMemory"} ELSE {"InjectedMemory", "Skills"}

Identity == BlockOf("Identity", Observed, StableTokens, "text")

System(c) == Msg("system", <<Identity>> \o Trimmed(c))

Turns(v, d) == LET spoken == SelectSeq(Trimmed(Placed(v)), LAMBDA b : b.src \notin Recalled(d))
               IN  [i \in DOMAIN spoken |-> Turn(v, spoken[i])]

Memory(v, d) == SelectSeq(Trimmed(Placed(v)), LAMBDA b : b.src \in Recalled(d))

RecallId == -1

(* Ollama: a system message behind everything else, or joined to the one in front when
   `memory_at_head` asks for it *)
OllamaMemory(sys, turns, mem, head) ==
    IF mem = <<>> THEN <<sys>> \o turns
    ELSE IF head THEN <<[sys EXCEPT !.text = @ \o mem]>> \o turns
    ELSE <<sys>> \o turns \o <<Msg("system", mem)>>

(* The others: a call of `recall` and its reply *)
RecallTurns(mem) ==
    IF mem = <<>> THEN <<>>
    ELSE <<[Msg("assistant", <<>>) EXCEPT !.calls = {RecallId}],
           [Msg("tool", mem) EXCEPT !.answers = {RecallId}]>>

(* The calls of the assistant turns before a message *)
Announced(ms, i) == UNION {ms[j].calls : j \in {k \in 1..i - 1 : ms[k].role = "assistant"}}

Linked(ms, i) == ms[i].answers # {} /\ ms[i].answers \subseteq Announced(ms, i)

(* mutant: the pass is left out, as before it was written *)
UnorphanedNever(ms) == ms

(* unorphan_tool_messages *)
Unorphaned(ms) == [i \in DOMAIN ms |->
    IF ms[i].role = "tool" /\ ~Linked(ms, i)
    THEN [ms[i] EXCEPT !.role = "user", !.answers = {}] ELSE ms[i]]

(* Ollama: reasoning only on the newest assistant turn. The other dialect never sends it. *)
Stripped(ms, d) == [i \in DOMAIN ms |->
    [ms[i] EXCEPT !.thinking = /\ @ /\ d # "openai"
                               /\ \A j \in i + 1..Len(ms) : ms[j].role # "assistant"]]

Messages(c, v, d) ==
    LET sys   == System(c)
        turns == Turns(v, d)
        mem   == Memory(v, d)
    IN  Stripped(Unorphaned(IF d = "openai" THEN <<sys>> \o turns \o RecallTurns(mem)
                            ELSE OllamaMemory(sys, turns, mem, d = "ollama_head")), d)

(* num_predict, max_tokens: what is left of the run's budget, at most a quarter *)
MaxTokens == Lower(Limit, WindowTokens \div 4)

(* A reader holds no tool, and a turn that only gathers has its tools withheld for a call;
   exposure and registration may disagree *)
Exposed == IF role = "reader" THEN {} ELSE {"read", "unregistered"}

(* openai_tool_schema: the exposed tools, as far as the registry knows them *)
Schema(exposed) == SetToSeq(exposed \ {"unregistered"})

(* tools_field: the list, unless it came out empty *)
ToolsField(schema) == IF schema = <<>> THEN {} ELSE {schema}

(* request_body: the window is a field of Ollama's request, a launch flag of llama-server,
   and the hosted model's own; a pinned upstream may not be fallen back from *)
OllamaBody(head) ==
    LET d == IF head THEN "ollama_head" ELSE "ollama"
    IN  [dialect |-> d, messages |-> Messages(ctx, vol, d), max |-> MaxTokens,
         tools |-> ToolsField(Schema(Exposed)), window |-> WindowTokens]

LlamaBody == [dialect |-> "openai", messages |-> Messages(ctx, vol, "openai"),
              max |-> MaxTokens, tools |-> ToolsField(Schema(Exposed))]

RouterBody(pinned) ==
    [dialect |-> "openai", messages |-> Messages(ctx, vol, "openai"), max |-> MaxTokens,
     tools |-> ToolsField(Schema(Exposed)), fallbacks |-> pinned = {}]

-----------------------------------------------------------------------------
(* Every reply in a request answers a call an earlier assistant turn of the same request
   announced, and a message that is not a reply names no call: the shapes a strict
   endpoint refuses. *)
RepliesAnswerCalls(ms) ==
    \A i \in DOMAIN ms :
        /\ ms[i].role = "tool" =>
              \E j \in 1..i - 1 : ms[j].role = "assistant" /\ ms[i].answers \cap ms[j].calls # {}
        /\ ms[i].role # "tool" => ms[i].answers = {}

Content(ms) == FlattenSeq([i \in DOMAIN ms |-> ms[i].text])

(* A request holds every block of the view exactly once, the turns in their order, the
   memory behind them (or with the system prompt, when so asked). *)
NothingLost(ms, c, v, d) ==
    LET spoken == SelectSeq(Trimmed(Placed(v)), LAMBDA b : b.src \notin Recalled(d))
        front  == <<Identity>> \o Trimmed(c)
    IN  Content(ms) = IF d = "ollama_head" THEN front \o Memory(v, d) \o spoken
                      ELSE front \o spoken \o Memory(v, d)

(* Who speaks: one system message in front (a second one only carries Ollama's memory, at
   the end), the assistant's turns are the model's own words, and there is always somebody
   to answer: a request is never only system and assistant turns. *)
SpeakersAreTrue(ms) ==
    /\ ms[1].role = "system"
    /\ \A i \in 2..Len(ms) : ms[i].role = "system" =>
          i = Len(ms) /\ \A k \in DOMAIN ms[i].text : ms[i].text[k].src \in Recalled("ollama")
    /\ \A i \in DOMAIN ms : ms[i].role = "assistant" =>
          \A k \in DOMAIN ms[i].text : ms[i].text[k].trust = Inferred
    /\ \E i \in DOMAIN ms : ms[i].role = "user"

(* A tool list is sent only with a tool in it, and the request and the longest reply it
   allows fit the window the server was given. *)
ReplyFits(body) ==
    /\ <<>> \notin body.tools
    /\ StableTokens + Tokens(View(ctx, vol)) + body.max <= WindowTokens

RequestIsHonest(body) == /\ RepliesAnswerCalls(body.messages)
                         /\ NothingLost(body.messages, ctx, vol, body.dialect)
                         /\ SpeakersAreTrue(body.messages)
                         /\ ReplyFits(body)

(* What is sent is an honest view, and the request says it as it is: replies answer calls,
   nothing is lost, nobody speaks in another's name, and the reply has room. *)
SentIsHonest ==
    /\ ViewIsHonest
    /\ pc = "reply" =>
        \E bodies \in {{OllamaBody(FALSE), OllamaBody(TRUE), LlamaBody, RouterBody({})}} :
            \A body \in bodies : RequestIsHonest(body)
=============================================================================
