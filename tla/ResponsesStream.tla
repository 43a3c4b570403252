--------------------------- MODULE ResponsesStream ---------------------------
(***************************************************************************)
(* The two converters that end in Responses API events: the                *)
(* ResponsesStreamConverter of convert/stream_responses.go (OpenAI chunks  *)
(* in) and the AnthropicStreamConverter of convert/stream_anthropic.go     *)
(* (Anthropic events in).  They keep the same state and differ in how they *)
(* number items, in the order of the closing events, and in what opens an  *)
(* item; sc.via says which of them a stream got.                           *)
(*                                                                         *)
(* As in StreamConverter, a handler returns the converter with the events  *)
(* it emits appended to "events", Deliver hands the client the next one,   *)
(* and what the upstream sends is numbered fragments.                      *)
(***************************************************************************)
EXTENDS Integers, Sequences, FiniteSets, SequencesExt

CONSTANTS
    Upstreams,     \* the protocols an upstream may stream in
    Calls,         \* tool calls the model may make, named by their id
    MaxChunks,     \* bound on OpenAI chunks, and on Anthropic deltas
    MaxEntries,    \* bound on tool call entries in OpenAI chunks
    MaxBlocks,     \* bound on Anthropic content blocks
    None

ResponseIds == {"own", "upstream"}
Finishes == {"stop", "tool_calls", "length", "content_filter"}
Fragments == [of : {"text", "reasoning"} \cup Calls, n : Nat \ {0}]
CallStates == [args : Seq(Fragments), itemIx : Nat]

ASSUME UpstreamsAssumption == Upstreams \subseteq {"openai", "anthropic"}
ASSUME BoundsAssumption == {MaxChunks, MaxEntries, MaxBlocks} \subseteq Nat
ASSUME CallsAssumption == IsFiniteSet(Calls)
ASSUME NoneAssumption == None \notin ResponseIds \cup Finishes \cup Calls \cup CallStates

VARIABLES
    sc,      \* the converter and the events not yet delivered
    client,  \* the response the client has assembled (ResponsesSSE)
    sent     \* what the upstream has sent (history)

vars == <<sc, client, sent>>

Fragment(of, n) == [of |-> of, n |-> n]
InOrder(n, of) == [i \in 1..n |-> Fragment(of, i)]

ItemIds == (ResponseIds \X {"msg", "reasoning"}) \cup ({None} \X Calls)

Rsp == INSTANCE ResponsesSSE

(* A response starts with the id the converter draws for it.               *)
NewConverter(via) ==
    [via |-> via, started |-> FALSE, finalized |-> FALSE,
     responseId |-> "own", status |-> "in_progress", output |-> <<>>,
     accText |-> <<>>, accReasoning |-> <<>>,
     itemIndex |-> -1, partIndex |-> -1, textItemIx |-> -1, textPartIx |-> -1,
     reasonItemIx |-> -1,
     contentBlocks |-> <<>>, toolCallByIndex |-> [c \in Calls |-> None],
     events |-> <<>>]

MsgId(s) == <<s.responseId, "msg">>
ReasonId(s) == <<s.responseId, "reasoning">>
CallId(c) == <<None, c>>

Emit(s, e) == [s EXCEPT !.events = Append(@, e)]
EmitAll(s, es) == [s EXCEPT !.events = @ \o es]

-----------------------------------------------------------------------------
(* Items.                                                                  *)

(* Mutant: an item does not take a number.                                 *)
AddItemUncounted(s, index, id, type) ==
    [Emit(s, Rsp!ItemAdded(index, id, type))
       EXCEPT !.output = Append(@, [id |-> id, type |-> type, status |-> "in_progress",
                                    content |-> <<>>])]

AddItem(s, index, id, type) ==
    [Emit(s, Rsp!ItemAdded(index, id, type))
       EXCEPT !.itemIndex = @ + 1,
              !.output = Append(@, [id |-> id, type |-> type, status |-> "in_progress",
                                    content |-> <<>>])]

StartReasoningItem(s) ==
    LET ix == s.itemIndex + 1 IN
    Emit([AddItem(s, ix, ReasonId(s), "reasoning") EXCEPT !.reasonItemIx = ix],
         Rsp!PartAdded(ReasonId(s), 0))

StartMessageItem(s) ==
    LET ix == s.itemIndex + 1 IN
    [AddItem(s, ix, MsgId(s), "message") EXCEPT !.textItemIx = ix]

StartContentPart(s) ==
    Emit([s EXCEPT !.partIndex = @ + 1, !.textPartIx = s.partIndex + 1],
         Rsp!PartAdded(MsgId(s), s.partIndex + 1))

SummaryDelta(s, fragment) ==
    Emit([s EXCEPT !.accReasoning = Append(@, fragment)],
         Rsp!Delta(ReasonId(s), "reasoning", fragment))

TextDelta(s, fragment) ==
    Emit([s EXCEPT !.accText = Append(@, fragment)], Rsp!Delta(MsgId(s), "message", fragment))

ArgumentsDelta(s, c, fragment) ==
    Emit([s EXCEPT !.toolCallByIndex[c].args = Append(@, fragment)],
         Rsp!Delta(CallId(c), "function_call", fragment))

-----------------------------------------------------------------------------
(* OpenAI chunks.                                                          *)

(* Content is what follows a <think> prefix (or would, for "thought") and  *)
(* what follows the closing tag; without the prefix all of it is text.     *)
SplitInlineThink(content) ==
    IF content.prefix THEN [think |-> content.thought, text |-> content.said]
    ELSE [think |-> <<>>, text |-> content.thought \o content.said]

HandleReasoning(s, fragment) ==
    SummaryDelta(IF s.reasonItemIx < 0 THEN StartReasoningItem(s) ELSE s, fragment)

HandleText(s, fragment) ==
    LET item == IF s.textItemIx < 0 THEN StartMessageItem(s) ELSE s IN
    TextDelta(IF item.textPartIx < 0 THEN StartContentPart(item) ELSE item, fragment)

(* (For empty arguments of a known call the code sends an empty delta, of  *)
(* which nothing comes at the client; here it sends none.)                 *)
HandleToolCall(s, d) ==
    LET known == s.toolCallByIndex[d.index] # None
        ix == s.itemIndex + 1
        item == [AddItem(s, ix, CallId(d.index), "function_call")
                   EXCEPT !.toolCallByIndex[d.index] = [args |-> <<>>, itemIx |-> ix]]
        call == IF known THEN s ELSE item
    IN  IF d.args = <<>> THEN call ELSE ArgumentsDelta(call, d.index, d.args[1])

FinishStatus(reason) ==
    CASE reason \in {"stop", "tool_calls"} -> "completed"
      [] reason = "content_filter" -> "failed"
      [] OTHER -> "incomplete"

(* Mutant: reasoning in a chunk of its own is dropped when text has begun. *)
HandleOpenAIChunkQuiet(s, chunk) ==
    LET split == SplitInlineThink(chunk.content)
        told == [s EXCEPT !.status = IF chunk.finish = None THEN @ ELSE FinishStatus(chunk.finish)]
        thought == FoldLeft(HandleReasoning, told, split.think)
        said == FoldLeft(HandleText, thought, split.text)
    IN  FoldLeft(HandleToolCall,
                 IF said.textItemIx < 0 THEN FoldLeft(HandleReasoning, said, chunk.reasoning)
                                        ELSE said, chunk.tools)

HandleOpenAIChunk(s, chunk) ==
    LET split == SplitInlineThink(chunk.content)
        told == [s EXCEPT !.status = IF chunk.finish = None THEN @ ELSE FinishStatus(chunk.finish)]
        thought == FoldLeft(HandleReasoning, told, split.think)
        said == FoldLeft(HandleText, thought, split.text)
    IN  FoldLeft(HandleToolCall, FoldLeft(HandleReasoning, said, chunk.reasoning), chunk.tools)

-----------------------------------------------------------------------------
(* Anthropic events.                                                       *)

(* The response takes the id of the upstream's message, and the items after*)
(* it take theirs from that.                                               *)
HandleMessageStart(s) == [s EXCEPT !.responseId = "upstream"]

(* A block is opened with its type, its call, and the thinking it starts   *)
(* with; blocks of other types are noted and nothing else.                 *)
HandleContentBlockStart(s, block, thinking) ==
    LET noted == [s EXCEPT !.contentBlocks = Append(@, block)]
        ix == s.itemIndex + 1
    IN  CASE block.type = "text" ->
               StartContentPart([AddItem(noted, None, MsgId(s), "message")
                                   EXCEPT !.textItemIx = ix])
          [] block.type = "tool_use" ->
               [AddItem(noted, None, CallId(block.call), "function_call")
                  EXCEPT !.toolCallByIndex[block.call] = [args |-> <<>>, itemIx |-> ix]]
          [] block.type = "thinking" ->
               FoldLeft(SummaryDelta, StartReasoningItem(noted), thinking)
          [] OTHER -> noted

HandleContentBlockDelta(s, index, fragment) ==
    LET block == s.contentBlocks[index + 1] IN
    CASE block.type = "text" -> TextDelta(s, fragment)
      [] block.type = "tool_use" -> ArgumentsDelta(s, block.call, fragment)
      [] block.type = "thinking" -> SummaryDelta(s, fragment)
      [] OTHER -> s

(* Mutant: the reason is not looked at.                                    *)
HandleMessageDeltaCompleted(s, reason) == [s EXCEPT !.status = "completed"]

(* Only max_tokens leaves a response incomplete.                           *)
HandleMessageDelta(s, reason) ==
    [s EXCEPT !.status = IF reason = "length" THEN "incomplete" ELSE "completed"]

-----------------------------------------------------------------------------
(* HandleStreamEnd.                                                        *)

ReasoningDone(s) ==
    IF s.reasonItemIx < 0 THEN <<>>
    ELSE <<Rsp!ContentDone(ReasonId(s), s.accReasoning), Rsp!PartDone(ReasonId(s), 0),
           Rsp!ItemDone(s.reasonItemIx, ReasonId(s), "reasoning", s.accReasoning)>>

(* content_part.done comes before output_text.done.                        *)
MessageDone(s) ==
    IF s.textItemIx < 0 THEN <<>>
    ELSE <<Rsp!PartDone(MsgId(s), s.textPartIx), Rsp!ContentDone(MsgId(s), s.accText),
           Rsp!ItemDone(s.textItemIx, MsgId(s), "message", s.accText)>>

(* Mutant: output_item.done without the arguments.                         *)
CallDoneBare(s, c) ==
    LET fc == s.toolCallByIndex[c] IN
    (IF fc.args = <<>> THEN <<>> ELSE <<Rsp!ContentDone(CallId(c), fc.args)>>)
        \o <<Rsp!ItemDone(fc.itemIx, CallId(c), "function_call", <<>>)>>

CallDone(s, c) ==
    LET fc == s.toolCallByIndex[c] IN
    (IF fc.args = <<>> THEN <<>> ELSE <<Rsp!ContentDone(CallId(c), fc.args)>>)
        \o <<Rsp!ItemDone(fc.itemIx, CallId(c), "function_call", fc.args)>>

(* The closing events; the calls come in the order a Go map is ranged over.*)
DoneEvents(s, calls) ==
    LET callsDone == FlattenSeq([i \in DOMAIN calls |-> CallDone(s, calls[i])]) IN
    (IF s.via = "openai" THEN ReasoningDone(s) \o MessageDone(s)
                         ELSE MessageDone(s) \o ReasoningDone(s)) \o callsDone

(* A call stays a function_call, custom tool or not: the tool context is a *)
(* field of the options of the call that converted the request, and the    *)
(* call that opens the stream has options of its own.                      *)
FinalOutput(s) ==
    [i \in DOMAIN s.output |->
       [s.output[i] EXCEPT
          !.status = "completed",
          !.content = IF s.output[i].type = "message" THEN s.accText ELSE @]]

HandleStreamEnd(s, calls) ==
    LET status == IF s.status = "in_progress" THEN "completed" ELSE s.status
        type == IF status = "incomplete" THEN "incomplete" ELSE "completed"
    IN  [Emit(EmitAll(s, DoneEvents(s, calls)), Rsp!Final(type, status, FinalOutput(s)))
           EXCEPT !.finalized = TRUE, !.status = status, !.output = FinalOutput(s)]

HandleError(s) ==
    [Emit(s, Rsp!Final("failed", "failed", s.output))
       EXCEPT !.finalized = TRUE, !.status = "failed"]

-----------------------------------------------------------------------------
(* The upstream.  "split" notes that a <think> block went on into another  *)
(* chunk, "blocks" are the Anthropic blocks and whether the last is open.  *)

NothingSent ==
    [begun |-> FALSE, chunks |-> 0, entries |-> 0, text |-> 0, reasoning |-> 0,
     args |-> [c \in Calls |-> 0], calls |-> {}, finish |-> None,
     thinking |-> FALSE, split |-> FALSE, blocks |-> <<>>, open |-> FALSE]

Maybe(fragment) == {<<>>, <<fragment>>}

(* What the next chunk may have as content: nothing, text, a think block   *)
(* with or without text after it, or a part of one.                        *)
Contents(u) ==
    LET said == Maybe(Fragment("text", u.text + 1))
        thought == <<Fragment("reasoning", u.reasoning + 1)>>
        Content(prefix, th, sd) == [prefix |-> prefix, thought |-> th, said |-> sd]
    IN  IF u.thinking THEN {Content(FALSE, thought, s) : s \in said}
        ELSE {Content(FALSE, <<>>, s) : s \in said} \cup {Content(TRUE, thought, s) : s \in said}

SendContent(u, content, reasoning, closed) ==
    [u EXCEPT !.chunks = @ + 1,
              !.text = @ + Len(content.said),
              !.reasoning = @ + Len(content.thought) + Len(reasoning),
              !.thinking = ~ closed,
              !.split = @ \/ u.thinking]

Entries(u) ==
    {[index |-> c, args |-> a] : c \in Calls, a \in {<<>>}}
        \cup {[index |-> c, args |-> <<Fragment(c, u.args[c] + 1)>>] : c \in Calls}

SendEntry(u, d) ==
    [u EXCEPT !.entries = @ + 1, !.calls = @ \cup {d.index}, !.args[d.index] = @ + Len(d.args)]

EntrySeqs(u) ==
    IF u.entries = MaxEntries THEN {<<>>} ELSE {<<>>} \cup {<<d>> : d \in Entries(u)}

FinishesOf(u) == IF u.calls = {} THEN Finishes \ {"tool_calls"} ELSE Finishes

-----------------------------------------------------------------------------
Init ==
    /\ \E via \in Upstreams : sc = NewConverter(via)
    /\ client = Rsp!NewClient
    /\ sent = NothingSent

Idle == sc.events = <<>>

(* A finalized converter answers nothing more.                             *)
Running == Idle /\ sc.started /\ ~ sc.finalized

Start ==
    /\ ~ sc.started
    /\ sc' = EmitAll([sc EXCEPT !.started = TRUE],
                     <<Rsp!Created, Rsp!InProgress>>)
    /\ UNCHANGED <<client, sent>>

(* A finish reason comes at most once, in the last chunk.                  *)
OpenAIChunk ==
    /\ Running /\ sc.via = "openai"
    /\ sent.finish = None /\ sent.chunks < MaxChunks
    /\ \E content \in Contents(sent), closed \in BOOLEAN :
       \E reasoning \in IF content.thought = <<>>
                        THEN Maybe(Fragment("reasoning", sent.reasoning + 1)) ELSE {<<>>} :
          /\ content.thought = <<>> \/ content.said # <<>> => closed
          /\ LET u == SendContent(sent, content, reasoning, closed) IN
             \E tools \in EntrySeqs(u) :
             LET w == FoldLeft(SendEntry, u, tools) IN
             \E finish \in {None} \cup FinishesOf(w) :
                /\ sent' = [w EXCEPT !.finish = finish]
                /\ sc' = HandleOpenAIChunk(sc, [content |-> content, reasoning |-> reasoning,
                                                tools |-> tools, finish |-> finish])
    /\ UNCHANGED client

AnthropicRunning == Running /\ sc.via = "anthropic" /\ sent.finish = None

MessageStart ==
    /\ AnthropicRunning /\ ~ sent.begun
    /\ sc' = HandleMessageStart(sc)
    /\ sent' = [sent EXCEPT !.begun = TRUE]
    /\ UNCHANGED client

ContentBlockStart ==
    /\ AnthropicRunning /\ sent.begun /\ ~ sent.open
    /\ Len(sent.blocks) < MaxBlocks
    /\ \E type \in {"text", "thinking", "tool_use", "redacted_thinking"} :
       \E call \in IF type = "tool_use" THEN Calls \ sent.calls ELSE {None} :
       \E thinking \in IF type = "thinking"
                       THEN Maybe(Fragment("reasoning", sent.reasoning + 1)) ELSE {<<>>} :
          LET block == [type |-> type, call |-> call] IN
          /\ sc' = HandleContentBlockStart(sc, block, thinking)
          /\ sent' = [sent EXCEPT !.blocks = Append(@, block), !.open = TRUE,
                                  !.calls = @ \cup ({call} \ {None}),
                                  !.reasoning = @ + Len(thinking)]
    /\ UNCHANGED client

ContentBlockDelta ==
    /\ AnthropicRunning /\ sent.open /\ sent.chunks < MaxChunks
    /\ LET block == Last(sent.blocks)
           of == CASE block.type = "text" -> "text" [] block.type = "tool_use" -> block.call
                   [] OTHER -> "reasoning"
           n == CASE block.type = "text" -> sent.text [] block.type = "tool_use" -> sent.args[of]
                  [] OTHER -> sent.reasoning
           told == [sent EXCEPT !.chunks = @ + 1]
       IN  /\ sc' = HandleContentBlockDelta(sc, Len(sent.blocks) - 1, Fragment(of, n + 1))
           /\ sent' = CASE block.type = "text" -> [told EXCEPT !.text = n + 1]
                        [] block.type = "tool_use" -> [told EXCEPT !.args[of] = n + 1]
                        [] block.type = "thinking" -> [told EXCEPT !.reasoning = n + 1]
                        [] OTHER -> told
    /\ UNCHANGED client

(* content_block_stop, message_stop and ping change nothing; the first is  *)
(* an action because the upstream's next block waits for it.               *)
ContentBlockStop ==
    /\ AnthropicRunning /\ sent.open
    /\ sent' = [sent EXCEPT !.open = FALSE]
    /\ UNCHANGED <<sc, client>>

(* The stop reason, by the name of the OpenAI finish reason it goes with.  *)
MessageDelta ==
    /\ AnthropicRunning /\ sent.begun /\ ~ sent.open
    /\ \E reason \in FinishesOf(sent) :
          /\ sc' = HandleMessageDelta(sc, reason)
          /\ sent' = [sent EXCEPT !.finish = reason]
    /\ UNCHANGED client

(* The stream may end at any time, a finish reason or not.                 *)
End ==
    /\ Running
    /\ \E calls \in SetToSeqs({c \in Calls : sc.toolCallByIndex[c] # None}) :
          sc' = HandleStreamEnd(sc, calls)
    /\ UNCHANGED <<client, sent>>

EmitError ==
    /\ Running
    /\ sc' = HandleError(sc)
    /\ UNCHANGED <<client, sent>>

Deliver ==
    /\ ~ Idle
    /\ client' = Rsp!Apply(client, Head(sc.events))
    /\ sc' = [sc EXCEPT !.events = Tail(@)]
    /\ UNCHANGED sent

Next ==
    \/ Start \/ OpenAIChunk
    \/ MessageStart \/ ContentBlockStart \/ ContentBlockDelta \/ ContentBlockStop \/ MessageDelta
    \/ End \/ EmitError \/ Deliver

Spec == Init /\ [][Next]_vars
-----------------------------------------------------------------------------
TypeOK ==
    /\ sc.via \in Upstreams /\ {sc.started, sc.finalized} \subseteq BOOLEAN
    /\ sc.responseId \in ResponseIds /\ sc.status \in Rsp!Statuses
    /\ sc.itemIndex = Len(sc.output) - 1
    /\ {sc.textItemIx, sc.reasonItemIx} \subseteq -1 .. sc.itemIndex
    /\ \A c \in Calls : sc.toolCallByIndex[c] # None =>
          sc.output[sc.toolCallByIndex[c].itemIx + 1].id = CallId(c)
    /\ \A i \in DOMAIN sc.events : sc.events[i] \in Rsp!Events

(* The upstream has sent several text or several thinking blocks.          *)
Repeats(type) ==
    \E i, j \in DOMAIN sent.blocks :
        i # j /\ sent.blocks[i].type = type /\ sent.blocks[j].type = type

(* Whatever is mixed in a chunk and in whatever order blocks come, the     *)
(* client gets a legal Responses stream: fresh items, closing events with  *)
(* what the deltas were, a last event that lists the same items.  Two      *)
(* things break it: a second text or thinking block, whose item has the id *)
(* of the first (stream_anthropic.go:282, 312), and "content_filter",      *)
(* which makes the status "failed" and the event response.completed.       *)
Tidy ==
    /\ ~ Repeats("text") /\ ~ Repeats("thinking")
    /\ sc.via = "openai" => sent.finish # "content_filter"

ResponsesSpec ==
    /\ Rsp!Init
    /\ [][Tidy => Rsp!Next]_client

ContentOf(type) ==
    FlattenSeq([i \in DOMAIN client.items |->
                  IF client.items[i].type = type THEN client.items[i].content ELSE <<>>])

Ended == client.phase \in {"completed", "incomplete"}

(* The client gets all of the text and of the reasoning, in order and kept *)
(* apart, and each call as one item with its own arguments, however the    *)
(* upstream mixes them - unless a <think> block spans two chunks, when its *)
(* rest is given out as text (stream_responses.go:382).  README.md:386 has *)
(* the reasoning merged with the text instead, as annotated output_text    *)
(* deltas; both converters send reasoning_summary_text deltas for an item  *)
(* of its own, and so does this property.                                  *)
ContentComplete ==
    Idle =>
        /\ ~ sent.split =>
              /\ ContentOf("message") = InOrder(sent.text, "text")
              /\ ContentOf("reasoning") = InOrder(sent.reasoning, "reasoning")
        /\ \A c \in sent.calls :
              \E i \in DOMAIN client.items :
                 /\ client.items[i].id = CallId(c)
                 /\ client.items[i].content = InOrder(sent.args[c], c)
                 /\ Ended => client.items[i].done

(* The client learns how the upstream ended, however many chunks or blocks *)
(* ago the upstream said so: the status in the last event tells a cut by   *)
(* the token limit, an OpenAI upstream's "content_filter" and anything else*)
(* apart, an Anthropic refusal and a stream without any reason among them. *)
(* The type of the event tells only the limit: a filtered response arrives *)
(* as response.completed with the status "failed".                         *)
OutcomeOf(via, finish) ==
    CASE finish = "length" -> "incomplete"
      [] finish = "content_filter" /\ via = "openai" -> "failed"
      [] OTHER -> "completed"

OutcomeReported ==
    Ended => /\ client.status = OutcomeOf(sc.via, sent.finish)
             /\ client.phase = "incomplete" <=> sent.finish = "length"

=============================================================================
