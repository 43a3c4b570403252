---------------------------- MODULE Conversation ----------------------------
(***************************************************************************)
(* A conversation through the converters: the client sends its history in  *)
(* its own format, the upstream gets it in another, answers, and the answer*)
(* comes back in the client's format and joins the history.  So what one   *)
(* converter makes of a call is what the other gets back with its result.  *)
(* Translation has the converters; here is the state that connects them.   *)
(*                                                                         *)
(* The client of one conversation keeps one connection, and keeps all it   *)
(* is given.  An Anthropic client with an OpenAI upstream, which edits its *)
(* history, is in ReasoningReplay.                                         *)
(***************************************************************************)
EXTENDS Translation, FiniteSets, FiniteSetsExt

CONSTANTS
    Names,     \* names of functions
    MaxTurns,  \* bound on the upstream's answers
    MaxParts,  \* bound on the parts of one of them
    MaxSaid    \* bound on their parts together

ASSUME BoundsAssumption == {MaxTurns, MaxParts, MaxSaid} \subseteq Nat

VARIABLES
    path,      \* the formats of the client and of the upstream
    history,   \* what the client has, in its format
    sigs,      \* SessionStore: the signatures kept by name
    truth,     \* what each side has said, as it said it (history)
    chunked,   \* the turns answered in chunks without SSE framing (history)
    grouped    \* the turns a client puts in one content (history)

vars == <<path, history, sigs, truth, chunked, grouped>>

Paths ==
    {<<"openai", "anthropic">>, <<"openai", "gemini">>, <<"anthropic", "gemini">>,
     <<"gemini", "openai">>, <<"gemini", "anthropic">>,
     <<"responses", "openai">>, <<"responses", "anthropic">>}

client == path[1]
upstream == path[2]

PartsOf(messages) == FlattenSeq(Each(LAMBDA msg : msg.parts, messages))

Said == PartsOf(truth)
Answered == SelectSeq(truth, LAMBDA msg : msg.role = "assistant")
NextN == Len(Said) + Blank + 1

-----------------------------------------------------------------------------
(* What the upstream gets of the history.                                  *)

NonEmpty(messages) == SelectSeq(messages, LAMBDA msg : msg.parts # <<>>)

Parsed == ParseResponsesInput(history)

Request ==
    CASE client = "openai" /\ upstream = "anthropic" -> Each(OpenAIToAnthropic, history)
      [] client = "openai" /\ upstream = "gemini" ->
            NonEmpty(Each(LAMBDA msg : OpenAIToGemini(msg, history, sigs), history))
      [] client = "anthropic" -> NonEmpty(Each(LAMBDA msg : AnthropicToGemini(msg, sigs), history))
      [] client = "gemini" /\ upstream = "openai" -> Each(GeminiToOpenAI, history)
      [] client = "gemini" /\ upstream = "anthropic" -> NonEmpty(Each(GeminiToAnthropic, history))
      [] client = "responses" /\ upstream = "openai" -> Parsed
      [] OTHER -> Each(OpenAIToAnthropic, Parsed)

(* What the client gets of an answer, in its format.                       *)
Response(parts) ==
    CASE client = "openai" /\ upstream = "anthropic" -> AnthropicResponseToOpenAI(parts)
      [] client = "openai" /\ upstream = "gemini" -> GeminiResponseToOpenAI(parts)
      [] client = "anthropic" -> GeminiResponseToAnthropic(parts)
      [] client = "gemini" /\ upstream = "openai" -> OpenAIResponseToGemini(parts, sigs)
      [] client = "gemini" /\ upstream = "anthropic" -> AnthropicResponseToGemini(parts)
      [] OTHER -> parts

(* Only the converter to Anthropic keeps signatures.                       *)
SigsAfter(parts) == IF client = "anthropic" THEN CapturedSigs(parts, sigs) ELSE sigs

Messages(parts) ==
    IF client # "responses" THEN <<Message("assistant", parts)>>
    ELSE IF upstream = "openai" THEN ConvertChatToResponses(parts)
    ELSE ConvertAnthropicToResponses(parts)

-----------------------------------------------------------------------------
(* Whatever its format allows, up to the bounds: a reasoning comes         *)
(* first, and Gemini has none; an OpenAI message has one text, before the  *)
(* calls.  In Gemini a call may have a signature, its own.                 *)
Kinds == {"text", "thought"} \cup Names

MostParts == Min({MaxParts, MaxSaid - Len(PartsOf(Answered))})

Shapes ==
    {shape \in UNION {[1 .. k -> Kinds] : k \in 0 .. MostParts} :
        /\ \A k \in DOMAIN shape : shape[k] = "thought" => k = 1 /\ upstream # "gemini"
        /\ upstream = "openai" =>
             \A k \in DOMAIN shape : shape[k] = "text" => \A j \in 1 .. k - 1 : shape[j] = "thought"}

Answers ==
    UNION {{[k \in DOMAIN shape |->
               LET n == NextN + k - 1 IN
               IF shape[k] \notin Names THEN Part(shape[k], n)
               ELSE IF upstream # "gemini" THEN Call(n, <<"id", n>>, shape[k], 0)
               ELSE Call(n, shape[k], shape[k], IF k \in signed THEN n ELSE 0)] :
              signed \in SUBSET (IF upstream = "gemini"
                                 THEN {k \in DOMAIN shape : shape[k] \in Names} ELSE {})} :
             shape \in Shapes}

Init ==
    /\ path \in Paths
    /\ truth = <<Message("user", <<Text(Blank + 1)>>)>>
    /\ history = truth
    /\ sigs = [name \in Names |-> 0]
    /\ chunked = {} /\ grouped = {}

Asked == Last(truth).role = "user" /\ Len(truth) < 2 * MaxTurns

Tell(parts) == truth' = Append(truth, Message("assistant", parts))

Respond ==
    /\ Asked
    /\ \E parts \in Answers :
          /\ Tell(parts)
          /\ history' = history \o Messages(Response(parts))
          /\ sigs' = SigsAfter(parts)
    /\ UNCHANGED <<path, chunked, grouped>>

(* A Gemini upstream that streams without SSE framing; its finish reason   *)
(* is in the last of two chunks, or missing.                               *)
RespondInChunks ==
    /\ Asked /\ upstream = "gemini"
    /\ \E parts \in Answers, finish \in BOOLEAN :
       \E k \in DOMAIN parts :
          LET chunks == <<[parts |-> SubSeq(parts, 1, k), finish |-> FALSE],
                          [parts |-> SubSeq(parts, k + 1, Len(parts)), finish |-> finish]>>
              merged == ConvertGeminiNDJSONArray(chunks)
          IN  /\ Tell(parts)
              /\ history' = history \o Messages(Response(merged))
              /\ sigs' = SigsAfter(merged)
    /\ chunked' = chunked \cup {Len(truth) + 1}
    /\ UNCHANGED <<path, grouped>>

(* The calls the client was given last, in its format.                     *)
OpenCalls ==
    LET start == SelectLastInSeq(history, LAMBDA msg : msg.role # "assistant")
    IN  FlattenSeq([i \in 1 .. Len(history) - start |-> Of("call", history[start + i])])

(* The client answers every call, in order, and may say something; what    *)
(* puts several of them in one message is up to its format and itself.     *)
Answer ==
    /\ Last(truth).role = "assistant"
    /\ \E says, groups \in BOOLEAN :
          LET results == [k \in DOMAIN OpenCalls |->
                 Result(NextN + k - 1, OpenCalls[k].id, OpenCalls[k].n)]
              text == IF says \/ results = <<>> THEN <<Text(NextN + Len(results))>> ELSE <<>>
              parts == results \o text
          IN  /\ groups => client \in {"anthropic", "gemini"} /\ Len(parts) > 1
              /\ truth' = Append(truth, Message("user", parts))
              /\ grouped' = IF groups THEN grouped \cup {Len(truth) + 1} ELSE grouped
              /\ history' = history \o
                    IF groups THEN <<Message("user", parts)>>
                    ELSE [k \in DOMAIN parts |->
                            Message(IF client = "openai" /\ parts[k].kind = "result"
                                    THEN "tool" ELSE "user", <<parts[k]>>)]
    /\ UNCHANGED <<path, sigs, chunked>>

Next == Respond \/ RespondInChunks \/ Answer

Spec == Init /\ [][Next]_vars
-----------------------------------------------------------------------------
Sent == PartsOf(Request)
SentCalls == SelectSeq(Sent, LAMBDA p : p.kind = "call")

Told(n) == Said[n - Blank]     \* what was said with this number
TurnOf(n) == CHOOSE i \in DOMAIN truth : \E p \in ToSet(truth[i].parts) : p.n = n

(* What the client has was said, and a signature is kept for the name of   *)
(* the function whose call came with it.                                   *)
TypeOK ==
    /\ \A p \in ToSet(PartsOf(history)) : p.n > Blank =>
          /\ p.n < NextN
          /\ p.kind = "call" => p.of = Told(p.n).of
    /\ \A name \in Names : sigs[name] # 0 =>
          Told(sigs[name]) = Call(sigs[name], name, name, sigs[name])
    /\ chunked \cup grouped \subseteq DOMAIN truth

(* What is not kept: the calls of an answer in chunks; of several Gemini   *)
(* parts with a function response among them, for an OpenAI upstream, all  *)
(* but the last response; and where a Responses upstream has only reasoned,*)
(* the reasoning goes to a later message, or nowhere.                      *)
Kept(n) ==
    LET i == TurnOf(n) IN
    /\ i \in chunked => Told(n).kind # "call"
    /\ i \in grouped /\ client = "gemini" /\ upstream = "openai" =>
          n = Last(Of("result", truth[i])).n
    /\ client = "responses" /\ Told(n).kind = "thought" => Len(truth[i].parts) > 1

InTurn(p, q) ==
    \/ TurnOf(p.n) < TurnOf(q.n)
    \/ TurnOf(p.n) = TurnOf(q.n) /\ (Told(p.n).kind = Told(q.n).kind => p.n <= q.n)

(* Whatever has been said by either side, the upstream gets all of it with *)
(* every request: turn by turn, within a turn the texts, the calls and the *)
(* results in their order, each as what it was; only Gemini is given       *)
(* reasoning, and also results, as texts.                                  *)
ConversationKept ==
    LET sent == SelectSeq(Sent, LAMBDA p : p.n > Blank /\ Kept(p.n)) IN
    /\ \A n \in Blank + 1 .. NextN - 1 : Kept(n) => \E i \in DOMAIN sent : sent[i].n = n
    /\ \A i, j \in DOMAIN sent : i < j => InTurn(sent[i], sent[j])
    /\ \A i \in DOMAIN sent :
          \/ sent[i].kind = Told(sent[i].n).kind
          \/ sent[i].kind = "text" /\ "gemini" \in {client, upstream}

(* Each result refers to its own call, earlier in the request, by what the *)
(* upstream knows the call by, though a converter has drawn the id or has  *)
(* to find the name for it.  Not so for what Gemini clients send, whose    *)
(* responses refer to a name where ids are wanted, and for Anthropic       *)
(* clients of Gemini, whose results refer to an id where the name is.      *)
ResultsLinked ==
    client # "gemini" /\ path # <<"anthropic", "gemini">> =>
        LET sent == Sent IN
        \A j \in DOMAIN sent : sent[j].kind = "result" =>
            \E i \in 1 .. j - 1 :
                /\ sent[i].kind = "call" /\ sent[i].n = sent[j].of
                /\ sent[i].id = sent[j].id

(* An Anthropic client, whose format has no place for them, returns to     *)
(* Gemini the signature it gave with a call, unless a later call of the    *)
(* same function came with another; and never that of another function.    *)
SignaturesReturned ==
    client = "anthropic" =>
        \A c \in ToSet(SentCalls) :
            /\ c.sig # 0 => Told(c.sig).of = c.of
            /\ Told(c.n).sig # 0 =>
                 c.sig = c.n \/ (c.sig > c.n /\ Told(c.sig).kind = "call")

(* A client gets every call of an answer in chunks ("The merged            *)
(* text/functionCall parts are extracted from the first candidate of each  *)
(* chunk", openai_to_gemini.go:699).                                       *)
CallsMerged ==
    \A i \in chunked : \A call \in ToSet(Of("call", truth[i])) :
        \E p \in ToSet(PartsOf(history)) : p.n = call.n
=============================================================================
