---------------------------- MODULE Translation ----------------------------
(***************************************************************************)
(* What the converters make of the messages of a request, and of those of  *)
(* a plain response: convert/openai_to_anthropic.go, anthropic_to_openai.go*)
(* openai_to_gemini.go, anthropic_to_gemini.go and responses.go, without   *)
(* the one pair that repairs the history (ToolHistory, ReasoningReplay).   *)
(*                                                                         *)
(* In every format a history is a sequence of messages [role, parts]; the  *)
(* formats differ in what the messages may be.  OpenAI: a reasoning, a text*)
(* and calls, in this order, or the result of one call, role "tool".       *)
(* Anthropic: any blocks.  Gemini: texts, calls and function responses.    *)
(* Responses: items of one part each.                                      *)
(*                                                                         *)
(* A part is [kind, n, id, of, sig].  n tells what is said; Empty is       *)
(* nothing, Blank what a converter makes up where something has to be.  id *)
(* is what a call is known by and what a result refers to: the id of the   *)
(* call, in Gemini the function's name.  of is the name of a call's        *)
(* function; for a result, the n of the call it answers, which no converter*)
(* looks at.  sig is the thought signature of a call, 0 for none or for the*)
(* placeholder that skips its validation.                                  *)
(***************************************************************************)
EXTENDS Naturals, Sequences, SequencesExt

CONSTANT None

Empty == 0
Blank == 1     \* what is said has numbers from 2 on

Part(kind, n) == [kind |-> kind, n |-> n, id |-> None, of |-> None, sig |-> 0]
Text(n) == Part("text", n)
Thought(n) == Part("thought", n)
Call(n, id, name, sig) == [Part("call", n) EXCEPT !.id = id, !.of = name, !.sig = sig]
Result(n, id, call) == [Part("result", n) EXCEPT !.id = id, !.of = call]

Message(role, parts) == [role |-> role, parts |-> parts]

Of(kind, msg) == SelectSeq(msg.parts, LAMBDA p : p.kind = kind)
Each(Convert(_), parts) == [i \in DOMAIN parts |-> Convert(parts[i])]

(* Ids the converters draw are new, in each request and response.          *)
FreshId(call) == [call EXCEPT !.id = <<"new", call.n>>, !.sig = 0]

AsText(part) == IF part.kind = "thought" THEN Text(part.n) ELSE part

(* Calls go to Gemini without an id, with the signature kept for the name. *)
Sign(call, sigs) == [call EXCEPT !.id = call.of, !.sig = sigs[call.of]]

-----------------------------------------------------------------------------
(* Requests to an Anthropic upstream.                                      *)

(* An assistant always says something, and be it nothing: with calls, or   *)
(* with a reasoning, its text block is there, empty or not.                *)
ConvertAssistantContent(msg) ==
    Of("thought", msg)
        \o (IF Of("text", msg) = <<>> THEN <<Text(Empty)>> ELSE Of("text", msg))
        \o Of("call", msg)

OpenAIToAnthropic(msg) ==
    IF msg.role = "assistant" THEN Message("assistant", ConvertAssistantContent(msg))
    ELSE Message("user", msg.parts)

(* A function response refers to the name of its function, no id.          *)
GeminiPartToAnthropic(part) ==
    IF part.kind = "call" THEN FreshId(part) ELSE part

GeminiToAnthropic(msg) ==
    Message(msg.role, Each(GeminiPartToAnthropic, msg.parts))

-----------------------------------------------------------------------------
(* Requests to a Gemini upstream.                                          *)

(* Mutant: the map is made of the first call of each message.              *)
ToolCallIDToNameOfFirst(messages, id) ==
    LET called == {i \in DOMAIN messages :
                     Of("call", messages[i]) # <<>> /\ Of("call", messages[i])[1].id = id}
    IN  IF called = {} THEN id ELSE Of("call", messages[CHOOSE i \in called : TRUE])[1].of

ToolCallIDToName(messages, id) ==
    LET calls == FlattenSeq(Each(LAMBDA msg : Of("call", msg), messages))
        k == SelectLastInSeq(calls, LAMBDA call : call.id = id)
    IN  IF k = 0 THEN id ELSE calls[k].of

(* The text of a tool message goes out as a text, and as the response.     *)
OpenAIToGemini(msg, messages, sigs) ==
    LET responses == Of("result", msg) IN
    Message(IF msg.role = "assistant" THEN "assistant" ELSE "user",
            Each(AsText, Of("thought", msg) \o Of("text", msg))
                \o Each(LAMBDA r : Text(r.n), responses)
                \o Each(LAMBDA call : Sign(call, sigs), Of("call", msg))
                \o Each(LAMBDA r : [r EXCEPT !.id = ToolCallIDToName(messages, r.id)], responses))

(* The blocks in their order, but tool results last, under the call's id.  *)
AnthropicToGemini(msg, sigs) ==
    Message(msg.role,
            Each(LAMBDA p : IF p.kind = "call" THEN Sign(p, sigs) ELSE AsText(p),
                 SelectSeq(msg.parts, LAMBDA p : p.kind # "result"))
                \o Of("result", msg))

-----------------------------------------------------------------------------
(* Requests to an OpenAI upstream.                                         *)

(* Of several function responses the last one is the message, which has    *)
(* no other text.                                                          *)
GeminiToOpenAI(msg) ==
    IF Of("result", msg) # <<>> THEN Message("tool", <<Last(Of("result", msg))>>)
    ELSE Message(msg.role, Of("text", msg) \o Each(FreshId, Of("call", msg)))

(* parseResponsesInput, item by item: parsed is [messages, pending], the   *)
(* reasoning pending until its message comes.                              *)
AwaitsCalls(messages) ==
    messages # <<>> /\ Last(messages).role = "assistant" /\ Of("call", Last(messages)) # <<>>

AddMessage(parsed, role, part) ==
    [messages |-> Append(parsed.messages, Message(role, Append(parsed.pending, part))),
     pending |-> <<>>]

ParseCall(parsed, call) ==
    IF AwaitsCalls(parsed.messages)
    THEN [parsed EXCEPT !.messages =
            Append(Front(@), [Last(@) EXCEPT !.parts = Append(@, call)])]
    ELSE AddMessage(parsed, "assistant", call)

ParseItem(parsed, item) ==
    LET part == item.parts[1] IN
    CASE part.kind = "thought" -> [parsed EXCEPT !.pending = Append(@, part)]
      [] part.kind = "call" -> ParseCall(parsed, part)
      [] part.kind = "result" ->
            [parsed EXCEPT !.messages = Append(@, Message("tool", <<part>>))]
      [] part.kind = "text" /\ item.role = "user" ->
            [parsed EXCEPT !.messages = Append(@, item)]
      [] OTHER -> AddMessage(parsed, "assistant", part)

(* What is left pending goes to the last message, an assistant's without a *)
(* reasoning, or is lost; calls without a reasoning get a made-up one.     *)
Reason(msg, thoughts) ==
    IF msg.role = "assistant" /\ Of("thought", msg) = <<>>
    THEN [msg EXCEPT !.parts = thoughts \o @] ELSE msg

ParseResponsesInput(items) ==
    LET parsed == FoldLeft(ParseItem, [messages |-> <<>>, pending |-> <<>>], items)
        last == Len(parsed.messages)
        reasoned == Each(LAMBDA msg : msg, parsed.messages)
        kept == IF last = 0 THEN <<>>
                ELSE [reasoned EXCEPT ![last] = Reason(@, parsed.pending)]
    IN  Each(LAMBDA msg : IF Of("call", msg) = <<>> THEN msg ELSE Reason(msg, <<Thought(Blank)>>),
             kept)

-----------------------------------------------------------------------------
(* Plain responses.                                                        *)

OrBlank(parts) == IF parts = <<>> THEN <<Text(Blank)>> ELSE parts

AnthropicResponseToOpenAI(parts) ==
    LET msg == Message("assistant", parts)
    IN  Of("thought", msg) \o Of("text", msg) \o Of("call", msg)

(* Mutant: a message with calls is left without its text.                  *)
GeminiResponseToOpenAINoText(parts) ==
    LET calls == Of("call", Message("assistant", parts))
    IN  IF calls = <<>> THEN parts ELSE Each(FreshId, calls)

(* No signature is kept.                                                   *)
GeminiResponseToOpenAI(parts) ==
    LET msg == Message("assistant", parts)
    IN  Of("text", msg) \o Each(FreshId, Of("call", msg))

GeminiResponseToAnthropic(parts) == OrBlank(Each(GeminiPartToAnthropic, parts))

(* Mutant: one signature is kept, whatever the function.                   *)
CapturedSigsNameless(parts, sigs) ==
    FoldLeft(LAMBDA kept, call : IF call.sig = 0 THEN kept ELSE [f \in DOMAIN kept |-> call.sig],
             sigs, Of("call", Message("assistant", parts)))

(* Mutant: a signature that is kept is not replaced.                       *)
CapturedSigsOnce(parts, sigs) ==
    FoldLeft(LAMBDA kept, call : IF call.sig = 0 \/ kept[call.of] # 0 THEN kept
                                 ELSE [kept EXCEPT ![call.of] = call.sig],
             sigs, Of("call", Message("assistant", parts)))

CapturedSigs(parts, sigs) ==
    FoldLeft(LAMBDA kept, call : IF call.sig = 0 THEN kept ELSE [kept EXCEPT ![call.of] = call.sig],
             sigs, Of("call", Message("assistant", parts)))

OpenAIResponseToGemini(parts, sigs) ==
    Each(LAMBDA p : IF p.kind = "call" THEN Sign(p, sigs) ELSE AsText(p), parts)

AnthropicResponseToGemini(parts) ==
    OrBlank(Each(LAMBDA p : IF p.kind = "call" THEN [p EXCEPT !.id = p.of] ELSE AsText(p), parts))

(* One output item for each part, of a role and one part: an OpenAI message*)
(* item by item, the blocks of an Anthropic one as they come.              *)
OutputItems(parts) == Each(LAMBDA p : Message("assistant", <<p>>), parts)

ConvertChatToResponses(parts) ==
    LET msg == Message("assistant", parts)
    IN  OutputItems(Of("thought", msg) \o Of("text", msg) \o Of("call", msg))

ConvertAnthropicToResponses(parts) == OutputItems(parts)

-----------------------------------------------------------------------------
(* convertGeminiNDJSONArray: a response without SSE framing, in chunks     *)
(* [parts, finish].  The candidate is made anew for a function not called  *)
(* before, and for a finish reason.                                        *)
NewCandidate(parts, finish) == [parts |-> parts, finish |-> finish]

MergePart(merged, part) ==
    IF part.kind = "text" THEN [merged EXCEPT !.texts = Append(@, part)]
    ELSE IF part.of \in merged.seen THEN merged
    ELSE [merged EXCEPT !.seen = @ \cup {part.of}, !.candidate = NewCandidate(<<part>>, FALSE)]

MergeChunk(merged, chunk) ==
    LET all == FoldLeft(MergePart, merged, chunk.parts)
    IN  IF chunk.finish THEN [all EXCEPT !.candidate = NewCandidate(<<>>, TRUE)] ELSE all

ConvertGeminiNDJSONArray(chunks) ==
    LET none == [texts |-> <<>>, seen |-> {}, candidate |-> NewCandidate(<<>>, FALSE)]
        merged == FoldLeft(MergeChunk, none, chunks)
        parts == merged.texts \o merged.candidate.parts
    IN  IF merged.candidate.finish THEN parts ELSE OrBlank(parts)
=============================================================================
