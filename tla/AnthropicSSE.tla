---------------------------- MODULE AnthropicSSE ----------------------------
(***************************************************************************)
(* The event stream an Anthropic client understands, as the converters of  *)
(* convert/ aim to produce it (the sequence in the comment of stream.go:9).*)
(* A client applies each event to the message it assembles, whatever the   *)
(* event is; the protocol says which events it may get next.               *)
(***************************************************************************)
EXTENDS Naturals, Sequences

CONSTANTS
    Fragments,    \* pieces of text, thinking or tool arguments
    Tools,        \* what content_block_start says of a tool_use block
    StopReasons,
    MaxBlocks,    \* bound on the blocks of a message
    None

VARIABLE client   \* the message as assembled so far

BlockTypes == {"text", "thinking", "tool_use"}

(* The kind of delta each type of block is made of.                        *)
DeltaOf == [text |-> "text_delta", thinking |-> "thinking_delta",
            tool_use |-> "input_json_delta"]

(* Events.                                                                 *)
MessageStart == [type |-> "message_start"]
Ping == [type |-> "ping"]
BlockStart(i, t, tool) ==
    [type |-> "content_block_start", index |-> i, block |-> t, tool |-> tool]
BlockDelta(i, d, fragment) ==
    [type |-> "content_block_delta", index |-> i, delta |-> d, fragment |-> fragment]
BlockStop(i) == [type |-> "content_block_stop", index |-> i]
MessageDelta(reason) == [type |-> "message_delta", reason |-> reason]
MessageStop == [type |-> "message_stop"]
Error == [type |-> "error"]

Indices == 0 .. MaxBlocks - 1

Events ==
    [type : {"message_start", "ping", "message_stop", "error"}]
        \cup [type : {"content_block_start"}, index : Indices,
              block : BlockTypes, tool : Tools \cup {None}]
        \cup [type : {"content_block_delta"}, index : Indices,
              delta : {DeltaOf[t] : t \in BlockTypes} \cup {"signature_delta"},
              fragment : Fragments \cup {None}]
        \cup [type : {"content_block_stop"}, index : Indices]
        \cup [type : {"message_delta"}, reason : StopReasons]

-----------------------------------------------------------------------------
(* What a client does with an event.                                       *)

NewClient == [phase |-> "idle", blocks |-> <<>>, open |-> None, reason |-> None,
              last |-> None]

(* A delta goes to the block its index names; a block keeps only deltas of *)
(* its own kind.                                                           *)
Grow(blocks, e) ==
    IF e.index + 1 \notin DOMAIN blocks THEN blocks
    ELSE IF e.delta = "signature_delta"
    THEN [blocks EXCEPT ![e.index + 1] = [@ EXCEPT !.signed = TRUE]]
    ELSE IF e.delta = DeltaOf[blocks[e.index + 1].type]
    THEN [blocks EXCEPT ![e.index + 1] =
            [@ EXCEPT !.content = Append(blocks[e.index + 1].content, e.fragment)]]
    ELSE blocks

Apply(c, e) ==
    LET seen == [c EXCEPT !.last = e] IN
    CASE e.type = "message_start" -> [NewClient EXCEPT !.phase = "streaming", !.last = e]
      [] e.type = "content_block_start" ->
           [seen EXCEPT !.open = e.index,
                        !.blocks = Append(@, [type |-> e.block, tool |-> e.tool,
                                              content |-> <<>>, signed |-> FALSE])]
      [] e.type = "content_block_delta" -> [seen EXCEPT !.blocks = Grow(@, e)]
      [] e.type = "content_block_stop" -> [seen EXCEPT !.open = None]
      [] e.type = "message_delta" -> [seen EXCEPT !.phase = "closing", !.reason = e.reason]
      [] e.type = "message_stop" -> [seen EXCEPT !.phase = "stopped"]
      [] e.type = "error" -> [seen EXCEPT !.phase = "failed"]
      [] OTHER -> seen

(* Which events it may get: blocks are numbered in order and one is open at*)
(* a time; deltas are for the open block and of its kind; a thinking block *)
(* is signed, once, at its end; a message has a block and none is open when*)
(* its message_delta comes; nothing follows message_stop or an error.      *)
Legal(c, e) ==
    CASE e.type = "message_start" -> c.phase = "idle"
      [] e.type = "ping" -> c.phase = "streaming"
      [] e.type = "content_block_start" ->
           /\ c.phase = "streaming" /\ c.open = None /\ e.index = Len(c.blocks)
           /\ e.block = "tool_use" <=> e.tool # None
      [] e.type = "content_block_delta" ->
           /\ c.phase = "streaming" /\ e.index = c.open
           /\ LET b == c.blocks[e.index + 1] IN
              IF e.delta = "signature_delta" THEN b.type = "thinking" /\ ~ b.signed
              ELSE e.delta = DeltaOf[b.type] /\ ~ b.signed
      [] e.type = "content_block_stop" ->
           /\ c.phase = "streaming" /\ e.index = c.open
           /\ LET b == c.blocks[e.index + 1] IN b.type = "thinking" => b.signed
      [] e.type = "message_delta" ->
           c.phase = "streaming" /\ c.open = None /\ c.blocks # <<>>
      [] e.type = "message_stop" -> c.phase = "closing"
      [] e.type = "error" -> c.phase \in {"idle", "streaming"}

Init == client = NewClient

Accept(e) == Legal(client, e) /\ client' = Apply(client, e)

(* Some event is accepted; the client remembers which.                     *)
Next == client'.last \in Events /\ Accept(client'.last)

Spec == Init /\ [][Next]_client
=============================================================================
