---------------------------- MODULE GeminiStream ----------------------------
(***************************************************************************)
(* The two converters of convert/stream_gemini.go, which read the stream of*)
(* a Gemini upstream: GeminiToAnthropicStreamConverter, which opens and    *)
(* closes content blocks, and GeminiToOpenAIStreamConverter, which answers *)
(* each chunk by a chunk.  sc.target says which of them a stream got.      *)
(*                                                                         *)
(* Every chunk of a Gemini stream is a whole response: a sequence of parts,*)
(* each a piece of text or a function call with all of its arguments.      *)
(***************************************************************************)
EXTENDS Integers, Sequences, FiniteSets, SequencesExt

CONSTANTS
    Targets,    \* the protocols a client may speak
    Names,      \* names of functions
    MaxChunks,  \* bound on the chunks of a stream
    MaxParts,   \* bound on the parts of a stream
    None

ASSUME TargetsAssumption == Targets \subseteq {"anthropic", "openai"}
ASSUME BoundsAssumption == {MaxChunks, MaxParts} \subseteq Nat

VARIABLES
    sc,      \* the converter and the events not yet delivered
    client,  \* the message the client has assembled (AnthropicSSE or ChatSSE)
    sent     \* what the upstream has sent (history)

vars == <<sc, client, sent>>

(* A piece of text, or a call; both are numbered, for no two are the same. *)
TextParts == [n : 1 .. MaxParts]
CallParts == [n : 1 .. MaxParts, name : Names, args : BOOLEAN]
IsText(part) == "name" \notin DOMAIN part
Parts(n) == {[n |-> n]} \cup [n : {n}, name : Names, args : BOOLEAN]

AnthropicReasons == {"end_turn", "max_tokens"}
OpenAIReasons == {"stop", "length", "content_filter", "MALFORMED_FUNCTION_CALL"}
(* "SAFETY" stands for the six reasons of a filter; the last for a reason  *)
(* that the code does not know.                                            *)
GeminiReasons == {"STOP", "MAX_TOKENS", "SAFETY", "MALFORMED_FUNCTION_CALL"}
NoFinish == ""   \* the chunk has, or the converter has seen, no finish reason
NoBlock == ""    \* the curBlockType while no content block is open

ASSUME NoneAssumption == None \notin Names

Sse == INSTANCE AnthropicSSE
       WITH Fragments <- TextParts \cup CallParts, Tools <- Names,
            StopReasons <- AnthropicReasons, MaxBlocks <- MaxParts

Chat == INSTANCE ChatSSE
        WITH Fragments <- TextParts, Calls <- CallParts,
             FinishReasons <- OpenAIReasons, MaxIndex <- MaxParts

NewConverter(target) ==
    [target |-> target, started |-> FALSE, finalized |-> FALSE,
     curBlockType |-> NoBlock, curBlockIndex |-> 0, nextBlockIndex |-> 0,
     finishReason |-> NoFinish, usage |-> FALSE, events |-> <<>>]

Emit(s, e) == [s EXCEPT !.events = Append(@, e)]

-----------------------------------------------------------------------------
(* GeminiToAnthropicStreamConverter.                                       *)

ContentBlockStop(s) == Emit(s, Sse!BlockStop(s.curBlockIndex))

(* Mutant: a block does not take a number.                                 *)
EnsureBlockUncounted(s, type, tool) ==
    IF s.curBlockType = type THEN s
    ELSE Emit([s EXCEPT !.curBlockType = type, !.curBlockIndex = s.nextBlockIndex],
              Sse!BlockStart(s.nextBlockIndex, type, tool))

EnsureBlock(s, type, tool) ==
    IF s.curBlockType = type THEN s
    ELSE Emit([s EXCEPT !.curBlockType = type, !.curBlockIndex = s.nextBlockIndex,
                        !.nextBlockIndex = @ + 1],
              Sse!BlockStart(s.nextBlockIndex, type, tool))

StopIfOpen(s, type) == IF s.curBlockType = type THEN ContentBlockStop(s) ELSE s

BlockDelta(s, type, part) == Emit(s, Sse!BlockDelta(s.curBlockIndex, Sse!DeltaOf[type], part))

(* Mutant: text goes to the block that is open.                            *)
HandlePartInPlace(s, part) ==
    IF IsText(part)
    THEN BlockDelta(IF s.curBlockType = NoBlock THEN EnsureBlock(s, "text", None) ELSE s, "text", part)
    ELSE LET open == EnsureBlock(StopIfOpen(s, "text"), "tool_use", part.name) IN
         IF part.args THEN BlockDelta(open, "tool_use", part) ELSE open

HandlePart(s, part) ==
    IF IsText(part)
    THEN BlockDelta(EnsureBlock(StopIfOpen(s, "tool_use"), "text", None), "text", part)
    ELSE LET open == EnsureBlock(StopIfOpen(s, "text"), "tool_use", part.name) IN
         IF part.args THEN BlockDelta(open, "tool_use", part) ELSE open

MapFinishToAnthropic(reason) == IF reason = "MAX_TOKENS" THEN "max_tokens" ELSE "end_turn"

(* Mutant: the block that is open is not stopped.                          *)
EndAnthropicOpen(s) ==
    Emit(Emit([s EXCEPT !.curBlockType = NoBlock],
              Sse!MessageDelta(MapFinishToAnthropic(s.finishReason))), Sse!MessageStop)

EndAnthropic(s) ==
    LET closed == IF s.curBlockType = NoBlock THEN s
                  ELSE [ContentBlockStop(s) EXCEPT !.curBlockType = NoBlock]
    IN  Emit(Emit(closed, Sse!MessageDelta(MapFinishToAnthropic(s.finishReason))), Sse!MessageStop)

-----------------------------------------------------------------------------
(* GeminiToOpenAIStreamConverter.                                          *)

(* The delta of a chunk; its calls are numbered from 0 in each.            *)
NoDelta == [content |-> <<>>, toolCalls |-> <<>>]

AddPart(delta, part) ==
    IF IsText(part) THEN [delta EXCEPT !.content = Append(@, part)]
    ELSE [delta EXCEPT !.toolCalls = Append(@, [index |-> Len(delta.toolCalls), call |-> part])]

HandlePartsOpenAI(s, parts) ==
    LET delta == FoldLeft(AddPart, NoDelta, parts) IN
    IF delta = NoDelta THEN s ELSE Emit(s, Chat!Delta(delta.content, delta.toolCalls))

(* What is not known is passed on as it is, calls or not.                  *)
MapFinishToOpenAI(reason) ==
    CASE reason \in {NoFinish, "STOP"} -> "stop"
      [] reason = "MAX_TOKENS" -> "length"
      [] reason = "SAFETY" -> "content_filter"
      [] OTHER -> reason

EndOpenAI(s) ==
    Emit(IF s.finishReason = NoFinish /\ ~ s.usage THEN s
         ELSE Emit(s, Chat!Finish(MapFinishToOpenAI(s.finishReason))), Chat!Done)

-----------------------------------------------------------------------------
(* The handlers both have.                                                 *)

Anthropic(s) == s.target = "anthropic"

HandleStreamStart(s) ==
    LET t == [s EXCEPT !.started = TRUE] IN
    IF Anthropic(s) THEN Emit(Emit(t, Sse!MessageStart), Sse!Ping) ELSE t

HandleError(s) == Emit(s, IF Anthropic(s) THEN Sse!Error ELSE Chat!Error)

(* Mutant: the finish reason is that of the last chunk.                    *)
HandleChunkLatest(s, chunk) ==
    IF chunk.blocked THEN HandleError(s)
    ELSE LET told == [s EXCEPT !.finishReason = chunk.finish, !.usage = @ \/ chunk.usage]
         IN  IF Anthropic(s) THEN FoldLeft(HandlePart, told, chunk.parts)
             ELSE HandlePartsOpenAI(told, chunk.parts)

(* Without candidates, a chunk is an error, or nothing.                    *)
HandleChunk(s, chunk) ==
    IF chunk.blocked THEN HandleError(s)
    ELSE LET told == [s EXCEPT !.finishReason = IF chunk.finish = NoFinish THEN @ ELSE chunk.finish,
                               !.usage = @ \/ chunk.usage]
         IN  IF Anthropic(s) THEN FoldLeft(HandlePart, told, chunk.parts)
             ELSE HandlePartsOpenAI(told, chunk.parts)

HandleStreamEnd(s) ==
    LET t == [s EXCEPT !.finalized = TRUE] IN
    IF Anthropic(s) THEN EndAnthropic(t) ELSE EndOpenAI(t)

-----------------------------------------------------------------------------
(* The upstream: every part it sends gets the next number, and a chunk has *)
(* up to two.                                                              *)

PartSeqs(n) ==
    {<<>>} \cup {<<p>> : p \in Parts(n + 1)}
           \cup {<<p, q>> : p \in Parts(n + 1), q \in Parts(n + 2)}

NothingSent == [chunks |-> 0, parts |-> <<>>, withCalls |-> 0, finish |-> NoFinish, blocked |-> FALSE]

HasCall(parts) == \E i \in DOMAIN parts : ~ IsText(parts[i])

Send(u, chunk) ==
    [u EXCEPT !.chunks = @ + 1, !.parts = @ \o chunk.parts,
              !.withCalls = @ + IF HasCall(chunk.parts) THEN 1 ELSE 0,
              !.finish = IF chunk.finish = NoFinish THEN @ ELSE chunk.finish,
              !.blocked = chunk.blocked]

Init ==
    /\ \E target \in Targets :
          /\ sc = NewConverter(target)
          /\ client = IF target = "anthropic" THEN Sse!NewClient ELSE Chat!NewClient
    /\ sent = NothingSent

Idle == sc.events = <<>>
Running == Idle /\ sc.started /\ ~ sc.finalized

Start ==
    /\ ~ sc.started
    /\ sc' = HandleStreamStart(sc)
    /\ UNCHANGED <<client, sent>>

(* After the finish reason comes at most the usage, in a chunk of its own. *)
Chunk ==
    /\ Running /\ sent.chunks < MaxChunks /\ ~ sent.blocked
    /\ \E parts \in IF sent.finish = NoFinish THEN PartSeqs(Len(sent.parts)) ELSE {<<>>} :
       \E finish \in IF sent.finish = NoFinish THEN {NoFinish} \cup GeminiReasons ELSE {NoFinish} :
       \E usage \in BOOLEAN :
          LET chunk == [blocked |-> FALSE, parts |-> parts, finish |-> finish, usage |-> usage] IN
          /\ Len(sent.parts \o parts) <= MaxParts
          /\ sc' = HandleChunk(sc, chunk)
          /\ sent' = Send(sent, chunk)
    /\ UNCHANGED client

(* The prompt, or what has been said so far, is blocked.                   *)
Blocked ==
    /\ Running /\ sent.chunks < MaxChunks /\ sent.finish = NoFinish /\ ~ sent.blocked
    /\ LET chunk == [blocked |-> TRUE, parts |-> <<>>, finish |-> NoFinish, usage |-> FALSE] IN
       /\ sc' = HandleChunk(sc, chunk)
       /\ sent' = Send(sent, chunk)
    /\ UNCHANGED client

(* The stream may end at any time, a finish reason or not.                 *)
End ==
    /\ Running
    /\ sc' = HandleStreamEnd(sc)
    /\ UNCHANGED <<client, sent>>

(* An error ends the stream: its session is deleted with the same call.    *)
EmitError ==
    /\ Running
    /\ sc' = [HandleError(sc) EXCEPT !.finalized = TRUE]
    /\ UNCHANGED <<client, sent>>

Deliver ==
    /\ ~ Idle
    /\ client' = IF Anthropic(sc) THEN Sse!Apply(client, Head(sc.events))
                                  ELSE Chat!Apply(client, Head(sc.events))
    /\ sc' = [sc EXCEPT !.events = Tail(@)]
    /\ UNCHANGED sent

Next == Start \/ Chunk \/ Blocked \/ End \/ EmitError \/ Deliver

Spec == Init /\ [][Next]_vars
-----------------------------------------------------------------------------
(* The block the converter believes open is the last it has started; what  *)
(* waits to be delivered is events of the client's protocol.               *)
TypeOK ==
    /\ sc.target \in Targets
    /\ {sc.started, sc.finalized, sc.usage} \subseteq BOOLEAN
    /\ sc.curBlockType \in {NoBlock, "text", "tool_use"}
    /\ sc.curBlockType # NoBlock => sc.curBlockIndex = sc.nextBlockIndex - 1
    /\ sc.finishReason \in {NoFinish} \cup GeminiReasons
    /\ \A i \in DOMAIN sc.events :
          sc.events[i] \in IF Anthropic(sc) THEN Sse!Events ELSE Chat!Events

(* However text and calls alternate within a chunk and across chunks, the  *)
(* client gets a legal stream of its protocol.  Three things break it: a   *)
(* blocked stream goes on after its error event (HandleStreamEnd does not  *)
(* know of it); a stream without any part becomes an Anthropic message     *)
(* without a block; and the index of a tool call starts from 0 in every    *)
(* chunk (stream_gemini.go:85), so that an OpenAI client takes the calls of*)
(* a second chunk for the rest of the first chunk's.                       *)
Tidy ==
    /\ sent.blocked => client.phase # "failed"
    /\ IF Anthropic(sc) THEN sc.finalized => sent.parts # <<>> ELSE sent.withCalls <= 1

StreamSpec ==
    /\ IF Anthropic(sc) THEN Sse!Init ELSE Chat!Init
    /\ [][Tidy => IF Anthropic(sc) THEN Sse!Next ELSE Chat!Next]_client

CallsNextToEachOther ==
    \E i \in 2 .. Len(sent.parts) : ~ IsText(sent.parts[i - 1]) /\ ~ IsText(sent.parts[i])

AsBlock(part) ==
    IF IsText(part) THEN part
    ELSE [tool |-> part.name, content |-> IF part.args THEN <<part>> ELSE <<>>]

PartsIn(block) ==
    IF block.type = "text" THEN block.content
    ELSE <<[tool |-> block.tool, content |-> block.content]>>

TextIn(blocks) ==
    FlattenSeq([i \in DOMAIN blocks |-> IF blocks[i].type = "text" THEN blocks[i].content ELSE <<>>])

TextsOf(parts) ==
    FlattenSeq([i \in DOMAIN parts |-> IF IsText(parts[i]) THEN <<parts[i]>> ELSE <<>>])

CallsOf(parts) ==
    FlattenSeq([i \in DOMAIN parts |-> IF IsText(parts[i]) THEN <<>> ELSE <<parts[i]>>])

(* The client gets all of the text, in order and free of arguments, and    *)
(* every call under its own name with its own arguments, in its place -    *)
(* unless two calls follow each other, which become one tool_use block     *)
(* (ensureBlock sees one open already), or, for an OpenAI client, come in  *)
(* two chunks.                                                             *)
PartsComplete ==
    Idle =>
        IF Anthropic(sc)
        THEN /\ TextIn(client.blocks) = TextsOf(sent.parts)
             /\ ~ CallsNextToEachOther =>
                   FlattenSeq([i \in DOMAIN client.blocks |-> PartsIn(client.blocks[i])])
                     = [i \in DOMAIN sent.parts |-> AsBlock(sent.parts[i])]
        ELSE /\ client.content = TextsOf(sent.parts)
             /\ sent.withCalls <= 1 =>
                   LET calls == CallsOf(sent.parts) IN
                   client.calls = [i \in DOMAIN client.calls |->
                                     IF i + 1 \in DOMAIN calls THEN <<calls[i + 1]>> ELSE <<>>]

(* A client that is told how the message ended is told that it was cut off *)
(* exactly when the upstream said so, be it in an earlier chunk than its   *)
(* last, and an OpenAI client that it was filtered.  An OpenAI client also *)
(* learns a reason the code does not know, by its name.                    *)
OutcomeReported ==
    client.reason # None =>
        /\ client.reason \in {"max_tokens", "length"} <=> sent.finish = "MAX_TOKENS"
        /\ ~ Anthropic(sc) =>
              /\ client.reason = "content_filter" <=> sent.finish = "SAFETY"
              /\ client.reason = "stop" <=> sent.finish \in {NoFinish, "STOP"}

=============================================================================
