--------------------------- MODULE StreamConverter ---------------------------
(***************************************************************************)
(* The StreamConverter of convert/stream.go: OpenAI stream chunks in,      *)
(* Anthropic events out, and the reasoning cached when the stream ends.    *)
(*                                                                         *)
(* A handler is a function of the converter's state: it returns the state  *)
(* with the events it emits appended to "events".  An action calls one     *)
(* handler; Deliver hands the client the next event of the batch.  Every   *)
(* piece of text the upstream model sends is a numbered fragment, so that  *)
(* what the client ends up with can be compared with what was sent.        *)
(***************************************************************************)
EXTENDS Naturals, Sequences, FiniteSets, SequencesExt

CONSTANTS
    Calls,         \* upstream indices of tool calls
    Names,         \* tool names the model may call
    Declared,      \* declaredTools; {} leaves the tools unrestricted
    MaxChunks,     \* bound on the chunks with content
    MaxEntries,    \* bound on the tool call entries, two of which fit in a chunk
    Interleaved,   \* an upstream may interleave the entries of a call with others
    Interruptible, \* SetInterrupted may be called
    None

ASSUME BoundsAssumption == MaxChunks \in Nat /\ MaxEntries \in Nat
ASSUME ModeAssumption == {Interleaved, Interruptible} \subseteq BOOLEAN
ASSUME DeclaredAssumption == Declared \subseteq Names

VARIABLES
    sc,      \* the StreamConverter and the events not yet delivered
    cached,  \* what the stream has put in the reasoning cache
    client,  \* the message the client has assembled (AnthropicSSE)
    sent     \* what the upstream model has sent (history)

vars == <<sc, cached, client, sent>>

(* Fragment n of the text, of the reasoning or of the arguments of a call. *)
Fragment(of, n) == [of |-> of, n |-> n]
Sources == {"text", "reasoning", "filler", "interrupted"} \cup Calls
Filler == Fragment("filler", 1)
Marker == Fragment("interrupted", 1)

MaxFragments == 1 + MaxChunks + MaxEntries   \* even an empty stream has a filler
ToolIds == [call : Calls, given : BOOLEAN]
Tools == [id : ToolIds, name : Names \cup {None}]
FinishReasons == {"stop", "tool_calls", "length"}
NoFinish == ""   \* the chunk has, or the converter has seen, no finish reason
NoBlock == ""    \* the curBlockType while no content block is open

ASSUME CallsAssumption ==
    IsFiniteSet(Calls) /\ Calls \cap {"text", "reasoning", "filler", "interrupted"} = {}
ASSUME NoneAssumption == None \notin Calls \cup Names \cup ToolIds \cup Tools

Sse == INSTANCE AnthropicSSE
       WITH Fragments <- [of : Sources, n : 0..MaxFragments],
            StopReasons <- {"end_turn", "max_tokens", "tool_use"},
            MaxBlocks <- 2 * MaxChunks + Cardinality(Calls) + 1

NewStreamConverter ==
    [started |-> FALSE, curBlockType |-> NoBlock, curBlockIndex |-> 0, nextBlockIndex |-> 0,
     thinkingBlockStopped |-> FALSE,
     toolCallByIndex |-> [c \in Calls |-> None],
     finishReason |-> NoFinish, finalized |-> FALSE,
     accumulatedReasoning |-> 0, accumulatedText |-> 0,
     streamInterrupted |-> FALSE, events |-> <<>>]

Emit(s, e) == [s EXCEPT !.events = Append(@, e)]

-----------------------------------------------------------------------------
(* Content blocks.                                                         *)

(* Mutant: a thinking block is stopped without its signature.              *)
StopBlockUnsigned(s) ==
    IF s.curBlockType = NoBlock THEN s
    ELSE [Emit(s, Sse!BlockStop(s.curBlockIndex)) EXCEPT !.curBlockType = NoBlock,
            !.thinkingBlockStopped = @ \/ s.curBlockType = "thinking"]

(* contentBlockStop, and thinkingBlockStop, which signs the block first.   *)
StopBlock(s) ==
    CASE s.curBlockType = NoBlock -> s
      [] s.curBlockType = "thinking" ->
           [Emit(Emit(s, Sse!BlockDelta(s.curBlockIndex, "signature_delta", None)),
                 Sse!BlockStop(s.curBlockIndex))
              EXCEPT !.curBlockType = NoBlock, !.thinkingBlockStopped = TRUE]
      [] OTHER ->
           [Emit(s, Sse!BlockStop(s.curBlockIndex)) EXCEPT !.curBlockType = NoBlock]

OpenBlock(s, type, tool) ==
    [Emit(s, Sse!BlockStart(s.nextBlockIndex, type, tool))
       EXCEPT !.curBlockType = type, !.curBlockIndex = s.nextBlockIndex,
              !.nextBlockIndex = @ + 1]

EnsureBlock(s, type) ==
    IF s.curBlockType = type THEN s ELSE OpenBlock(StopBlock(s), type, None)

Delta(s, delta, fragment) == Emit(s, Sse!BlockDelta(s.curBlockIndex, delta, fragment))

-----------------------------------------------------------------------------
(* HandleChunk.  A chunk has a text fragment, a reasoning fragment (0 when *)
(* there is none), tool call entries, and perhaps a finish reason.         *)

(* stopThinkingBlock only notes that the thinking is over; the block itself*)
(* is stopped by EnsureBlock.                                              *)
StopThinkingBlock(s) ==
    [s EXCEPT !.thinkingBlockStopped = @ \/ s.curBlockType = "thinking"]

HandleContent(s, n) ==
    IF n = 0 THEN s
    ELSE Delta(EnsureBlock(StopThinkingBlock([s EXCEPT !.accumulatedText = n]), "text"),
               "text_delta", Fragment("text", n))

HandleReasoning(s, n) ==
    LET told == [s EXCEPT !.accumulatedReasoning = n] IN
    CASE n = 0 -> s
      [] n # 0 /\ s.thinkingBlockStopped -> told
      [] OTHER -> Delta(EnsureBlock(told, "thinking"), "thinking_delta",
                        Fragment("reasoning", n))

(* An entry has the upstream index of its call, the id and the name (only  *)
(* in the first entry of a call) and a fragment of the arguments.          *)
Undeclared(d) == Declared # {} /\ d.name # None /\ d.name \notin Declared

InputJSONDelta(s, d) == Delta(s, "input_json_delta", Fragment(d.index, d.args))

(* Mutant: arguments that come with the first entry of a call are lost.    *)
HandleToolCallDeltaNoFirstArgs(s, d) ==
    LET id == [call |-> d.index, given |-> d.id] IN
    CASE Undeclared(d) -> s
      [] ~ Undeclared(d) /\ s.toolCallByIndex[d.index] = None ->
           OpenBlock([StopBlock(s) EXCEPT !.toolCallByIndex = [@ EXCEPT ![d.index] = id]],
                     "tool_use", [id |-> id, name |-> d.name])
      [] OTHER -> InputJSONDelta(s, d)

HandleToolCallDelta(s, d) ==
    LET id == [call |-> d.index, given |-> d.id]
        opened == OpenBlock([StopBlock(s) EXCEPT !.toolCallByIndex = [@ EXCEPT ![d.index] = id]],
                            "tool_use", [id |-> id, name |-> d.name])
    IN  CASE Undeclared(d) -> s
          [] ~ Undeclared(d) /\ s.toolCallByIndex[d.index] = None ->
               IF d.args = 0 THEN opened ELSE InputJSONDelta(opened, d)
          [] OTHER -> InputJSONDelta(s, d)

(* The old form of a call, function_call, is handed on as an entry of index*)
(* 0 without an id (stream.go:147), which is one of the entries here.      *)
HandleChunk(s, chunk) ==
    LET finish == [s EXCEPT !.finishReason = IF chunk.finish = NoFinish THEN @ ELSE chunk.finish]
    IN  FoldLeft(HandleToolCallDelta,
                 HandleReasoning(HandleContent(finish, chunk.content), chunk.reasoning),
                 chunk.tools)

-----------------------------------------------------------------------------
(* HandleStreamEnd.                                                        *)

ToolsSeen(s) == {s.toolCallByIndex[c] : c \in Calls} \ {None}

NothingSaid(s) == s.accumulatedText = 0 /\ ToolsSeen(s) = {}

Interrupt(s) ==
    IF s.streamInterrupted
    THEN Delta(EnsureBlock(s, "text"), "text_delta", Marker) ELSE s

FillEmpty(s) ==
    IF NothingSaid(s)
    THEN StopBlock(Delta(EnsureBlock(s, "text"), "text_delta", Filler)) ELSE s

(* Mutant: "stop" is believed even after tool calls.                       *)
StopReasonAsTold(s) ==
    CASE s.finishReason = "length" -> "max_tokens"
      [] s.finishReason = "tool_calls" -> "tool_use"
      [] OTHER -> "end_turn"

(* mapOpenAIStreamFinish, after the correction for tool calls.             *)
StopReason(s) ==
    CASE s.finishReason = NoFinish -> "end_turn"
      [] s.finishReason = "length" -> "max_tokens"
      [] s.finishReason = "tool_calls" -> "tool_use"
      [] OTHER -> IF ToolsSeen(s) # {} THEN "tool_use" ELSE "end_turn"

HandleStreamEnd(s) ==
    LET done == FillEmpty(Interrupt(StopBlock([s EXCEPT !.finalized = TRUE])))
    IN  Emit(Emit(done, Sse!MessageDelta(StopReason(done))), Sse!MessageStop)

(* Mutants: empty reasoning is cached; the text only when there is no call.*)
CacheAtEndAlways(s) ==
    [tools |-> IF ToolsSeen(s) # {}
               THEN [ids |-> ToolsSeen(s), reasoning |-> s.accumulatedReasoning] ELSE None,
     text |-> IF s.accumulatedText > 0
              THEN [said |-> s.accumulatedText, reasoning |-> s.accumulatedReasoning]
              ELSE None]

CacheAtEndToolsOrText(s) ==
    [tools |-> IF s.accumulatedReasoning > 0 /\ ToolsSeen(s) # {}
               THEN [ids |-> ToolsSeen(s), reasoning |-> s.accumulatedReasoning] ELSE None,
     text |-> IF s.accumulatedReasoning > 0 /\ s.accumulatedText > 0 /\ ToolsSeen(s) = {}
              THEN [said |-> s.accumulatedText, reasoning |-> s.accumulatedReasoning]
              ELSE None]

(* The calls of the cache: Put under the ids of the tool calls, PutText.   *)
CacheAtEnd(s) ==
    [tools |-> IF s.accumulatedReasoning > 0 /\ ToolsSeen(s) # {}
               THEN [ids |-> ToolsSeen(s), reasoning |-> s.accumulatedReasoning] ELSE None,
     text |-> IF s.accumulatedReasoning > 0 /\ s.accumulatedText > 0
              THEN [said |-> s.accumulatedText, reasoning |-> s.accumulatedReasoning]
              ELSE None]

-----------------------------------------------------------------------------
(* The upstream model.                                                     *)

NothingSent == [chunks |-> 0, entries |-> 0, text |-> 0, reasoning |-> 0,
                args |-> [c \in Calls |-> 0], name |-> [c \in Calls |-> None],
                last |-> None, mixed |-> FALSE, finish |-> NoFinish]

(* The entry of call c that may come next.  More of a call usually comes   *)
(* only while nothing else has come since; otherwise the stream is "mixed".*)
NextDeltas(u, c) ==
    IF u.name[c] = None
    THEN {[index |-> c, id |-> id, name |-> name, args |-> n] :
             id \in BOOLEAN, name \in Names, n \in {0, 1}}
    ELSE IF Interleaved \/ u.last = c
    THEN {[index |-> c, id |-> FALSE, name |-> None, args |-> n] :
             n \in {0, u.args[c] + 1}}
    ELSE {}

SendDelta(u, d) ==
    [u EXCEPT !.entries = @ + 1,
              !.args = [@ EXCEPT ![d.index] = IF d.args = 0 THEN u.args[d.index] ELSE d.args],
              !.name = [@ EXCEPT ![d.index] = IF d.name = None THEN u.name[d.index] ELSE d.name],
              !.mixed = @ \/ (u.name[d.index] # None /\ u.last # d.index),
              !.last = d.index]

SendContent(u, content, reasoning) ==
    [u EXCEPT !.chunks = @ + 1,
              !.text = IF content THEN @ + 1 ELSE @,
              !.reasoning = IF reasoning THEN @ + 1 ELSE @,
              !.last = IF content \/ reasoning THEN None ELSE @]

(* The entries the next chunk may have: none, one or two.                  *)
DeltaSeqs(u) ==
    LET one == UNION {NextDeltas(u, c) : c \in Calls}
        two(d) == UNION {NextDeltas(SendDelta(u, d), c) : c \in Calls}
        all == {<<>>} \cup {<<d>> : d \in one} \cup UNION {{<<d, e>> : e \in two(d)} : d \in one}
    IN  {ds \in all : u.entries + Len(ds) <= MaxEntries}

(* A finish reason comes at most once, in the last chunk, and fits what has*)
(* been sent: "tool_calls" after tool calls; "stop" may come after them.   *)
Finishes(u) ==
    {NoFinish} \cup IF \E c \in Calls : u.name[c] # None THEN FinishReasons
                                                 ELSE FinishReasons \ {"tool_calls"}

-----------------------------------------------------------------------------
Init ==
    /\ sc = NewStreamConverter
    /\ cached = [tools |-> None, text |-> None]
    /\ client = Sse!NewClient
    /\ sent = NothingSent

(* The session hands a stream one event at a time.                         *)
Idle == sc.events = <<>>
Running == sc.started /\ client.phase # "failed"

Start ==
    /\ ~ sc.started
    /\ sc' = Emit(Emit([sc EXCEPT !.started = TRUE], Sse!MessageStart), Sse!Ping)
    /\ UNCHANGED <<cached, client, sent>>

Chunk ==
    /\ Idle /\ Running
    /\ ~ sc.finalized
    /\ sent.finish = NoFinish /\ sent.chunks < MaxChunks
    /\ \E content, reasoning \in BOOLEAN :
       \E tools \in DeltaSeqs(SendContent(sent, content, reasoning)) :
          LET u == FoldLeft(SendDelta, SendContent(sent, content, reasoning), tools) IN
          \E finish \in Finishes(u) :
             /\ sent' = [u EXCEPT !.finish = finish]
             /\ sc' = HandleChunk(sc, [content |-> IF content THEN u.text ELSE 0,
                                       reasoning |-> IF reasoning THEN u.reasoning ELSE 0,
                                       tools |-> tools, finish |-> finish])
    /\ UNCHANGED <<cached, client>>

End ==
    /\ Idle /\ Running
    /\ ~ sc.finalized
    /\ sc' = HandleStreamEnd(sc)
    /\ cached' = CacheAtEnd(sc)
    /\ UNCHANGED <<client, sent>>

SetInterrupted ==
    /\ Interruptible
    /\ Idle /\ Running
    /\ ~ sc.finalized
    /\ sc' = [sc EXCEPT !.streamInterrupted = TRUE]
    /\ UNCHANGED <<cached, client, sent>>

EmitError ==
    /\ Idle /\ Running
    /\ ~ sc.finalized
    /\ sc' = Emit(sc, Sse!Error)
    /\ UNCHANGED <<cached, client, sent>>

Deliver ==
    /\ ~ Idle
    /\ client' = Sse!Apply(client, Head(sc.events))
    /\ sc' = [sc EXCEPT !.events = Tail(@)]
    /\ UNCHANGED <<cached, sent>>

Next == Start \/ Chunk \/ End \/ SetInterrupted \/ EmitError \/ Deliver

Spec == Init /\ [][Next]_vars
-----------------------------------------------------------------------------
TypeOK ==
    /\ sc.curBlockType \in Sse!BlockTypes \cup {NoBlock}
    /\ {sc.curBlockIndex, sc.nextBlockIndex} \subseteq Nat
    /\ {sc.started, sc.thinkingBlockStopped, sc.finalized, sc.streamInterrupted}
          \subseteq BOOLEAN
    /\ sc.toolCallByIndex \in [Calls -> ToolIds \cup {None}]
    /\ sc.finishReason \in FinishReasons \cup {NoFinish}
    /\ {sc.accumulatedText, sc.accumulatedReasoning} \subseteq 0..MaxChunks
    /\ \A i \in DOMAIN sc.events : sc.events[i] \in Sse!Events
    /\ cached.tools = None \/ cached.tools \in [ids : SUBSET ToolIds, reasoning : 1..MaxChunks]
    /\ cached.text = None \/ cached.text \in [said : 1..MaxChunks, reasoning : 1..MaxChunks]

(* What the client has, once every event of a batch has arrived.  Fragment *)
(* 0 is the empty string.                                                  *)
Spoken(of) == {Fragment(of, n) : n \in 1..MaxFragments}

Picked(content, S) ==
    FlattenSeq([i \in DOMAIN content |-> IF content[i] \in S THEN <<content[i]>> ELSE <<>>])

PickedFrom(blocks, S) ==
    FlattenSeq([i \in DOMAIN blocks |-> Picked(blocks[i].content, S)])

Received(of) == PickedFrom(client.blocks, Spoken(of))

InOrder(n, of) == [i \in 1..n |-> Fragment(of, i)]

ToolBlocks == {i \in DOMAIN client.blocks : client.blocks[i].type = "tool_use"}

Ended == client.phase = "stopped"

(* However content, reasoning and tool calls follow one another, in one    *)
(* chunk or across chunks, the events form a legal stream.  Two things     *)
(* break it: more of a call after something else has come (its delta goes  *)
(* to whatever block is open by then), and SetInterrupted, which only tests*)
(* call (the marker's block is never stopped).                             *)
Tidy == ~ sent.mixed /\ ~ sc.streamInterrupted

SseSpec ==
    /\ Sse!Init
    /\ [][Tidy => Sse!Next]_client

(* Idle and running, the client has what the model sent: all of the text,  *)
(* in order; each tool call as one block with its own arguments and nothing*)
(* else, unless the upstream mixes the entries of two calls; and of the    *)
(* reasoning a prefix, for what comes after the answer has begun is kept   *)
(* from the client, never mixed in.                                        *)
CallComplete(c) ==
    \E i \in ToolBlocks :
        /\ client.blocks[i].tool.id.call = c
        /\ client.blocks[i].tool.name = sent.name[c]
        /\ Picked(client.blocks[i].content, UNION {Spoken(of) : of \in Sources})
              = InOrder(sent.args[c], c)

ContentComplete ==
    Idle /\ Running =>
        /\ Received("text") = InOrder(sent.text, "text")
        /\ IsPrefix(Received("reasoning"), InOrder(sent.reasoning, "reasoning"))
        /\ ~ sent.mixed => \A c \in Calls : sent.name[c] # None => CallComplete(c)

(* What the last event says of the end fits the calls the client has got   *)
(* and the finish reason of whichever chunk had one: it is told to run     *)
(* tools exactly when it has been given some and the upstream has finished *)
(* with "tool_calls" or, as some do after calls, with "stop"; and that the *)
(* message was cut exactly when it was cut by the limit, calls or not.     *)
(* Nothing else asks for tools: a client whose stream ends without any     *)
(* finish reason gets "end_turn", and is not told to run the calls it has. *)
ToolUseAnnounced ==
    Ended =>
        /\ client.reason = "tool_use"
              <=> ToolBlocks # {} /\ sent.finish \in {"stop", "tool_calls"}
        /\ client.reason = "max_tokens" <=> sent.finish = "length"

(* The reasoning is cached, whole, under what the client will send back:   *)
(* the ids of the tool calls and the text it has received.                 *)
CacheServesReplay ==
    Ended /\ sent.reasoning > 0 =>
        /\ ToolBlocks # {} =>
             cached.tools = [ids |-> {client.blocks[i].tool.id : i \in ToolBlocks},
                             reasoning |-> sent.reasoning]
        /\ Received("text") # <<>> =>
             cached.text = [said |-> Len(Received("text")), reasoning |-> sent.reasoning]

=============================================================================
