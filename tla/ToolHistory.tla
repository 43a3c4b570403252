----------------------------- MODULE ToolHistory -----------------------------
(***************************************************************************)
(* The repair of a chat history before it is sent to an OpenAI upstream    *)
(* (convert/openai_to_anthropic.go): split messages with tool calls are    *)
(* merged, and every call is paired with its result.                       *)
(*                                                                         *)
(* A message is [role, content, reasoning, calls, id]; content and         *)
(* reasoning are sequences of pieces, for merging joins texts by a line    *)
(* break, calls is a sequence of call ids, and id is the call a tool       *)
(* message answers.                                                        *)
(***************************************************************************)
EXTENDS Naturals, Sequences, SequencesExt

CONSTANT None

User(content) ==
    [role |-> "user", content |-> content, reasoning |-> <<>>, calls |-> <<>>, id |-> None]
Assistant(content, reasoning, calls) ==
    [role |-> "assistant", content |-> content, reasoning |-> reasoning, calls |-> calls,
     id |-> None]
Tool(id, content) ==
    [role |-> "tool", content |-> content, reasoning |-> <<>>, calls |-> <<>>, id |-> id]

HasCalls(msg) == msg.role = "assistant" /\ msg.calls # <<>>
IsTool(msg) == msg.role = "tool"

-----------------------------------------------------------------------------
(* coalesceAdjacentAssistantToolCalls.                                     *)

Merge(prev, msg) ==
    [prev EXCEPT !.content = @ \o msg.content, !.reasoning = @ \o msg.reasoning,
                 !.calls = @ \o msg.calls]

CoalesceNext(out, msg) ==
    IF out # <<>> /\ HasCalls(msg) /\ HasCalls(Last(out))
    THEN Append(Front(out), Merge(Last(out), msg))
    ELSE Append(out, msg)

Coalesce(messages) == FoldLeft(CoalesceNext, <<>>, messages)

-----------------------------------------------------------------------------
(* sanitizeOpenAiToolMessageSequence.                                      *)

Orphan(tool) == User(tool.content)

(* The tool messages after the i-th message, up to the next other one.     *)
TrailingTools(messages, i) ==
    LET run == {j \in i .. Len(messages) : \A k \in i + 1 .. j : IsTool(messages[k])}
    IN  SubSeq(messages, i + 1, CHOOSE j \in run : \A k \in run : k <= j)

(* The i-th message is among the tool messages after one with calls.       *)
Absorbed(messages, i) ==
    \E k \in 1 .. i - 1 : HasCalls(messages[k]) /\ \A j \in k + 1 .. i : IsTool(messages[j])

(* The first result for each call is the one that counts.                  *)
Counts(msg, tools, k) ==
    /\ tools[k].id \in ToSet(msg.calls)
    /\ \A j \in 1 .. k - 1 : tools[j].id # tools[k].id

Pick(s, Test(_)) ==
    FlattenSeq([k \in DOMAIN s |-> IF Test(k) THEN <<s[k]>> ELSE <<>>])

(* Mutant: a second result for a call is dropped.                          *)
OrphansUnknown(msg, tools) ==
    LET rest == Pick(tools, LAMBDA k : tools[k].id \notin ToSet(msg.calls))
    IN  [k \in DOMAIN rest |-> Orphan(rest[k])]

Orphans(msg, tools) ==
    LET rest == Pick(tools, LAMBDA k : ~ Counts(msg, tools, k))
    IN  [k \in DOMAIN rest |-> Orphan(rest[k])]

Fulfilled(msg, tools) ==
    Pick(msg.calls, LAMBDA i : \E k \in DOMAIN tools : tools[k].id = msg.calls[i])

ResultsFor(calls, tools) ==
    [i \in DOMAIN calls |-> tools[SelectInSeq(tools, LAMBDA tool : tool.id = calls[i])]]

(* Mutant: the calls are kept, answered or not.                            *)
PairKeepingAll(msg, tools) ==
    LET calls == Fulfilled(msg, tools) IN
    (IF calls # <<>> THEN <<msg>> \o ResultsFor(calls, tools)
     ELSE IF msg.content # <<>> THEN <<[msg EXCEPT !.calls = <<>>]>> ELSE <<>>)
    \o Orphans(msg, tools)

(* The message with the calls that have a result and the results in their  *)
(* order, then what answers none of them, as user texts.                   *)
Pair(msg, tools) ==
    LET calls == Fulfilled(msg, tools) IN
    (IF calls # <<>> THEN <<[msg EXCEPT !.calls = calls]>> \o ResultsFor(calls, tools)
     ELSE IF msg.content # <<>> THEN <<[msg EXCEPT !.calls = <<>>]>> ELSE <<>>)
    \o Orphans(msg, tools)

SanitizeAt(messages, i) ==
    LET msg == messages[i] IN
    IF HasCalls(msg)
    THEN IF i = Len(messages) THEN <<msg>> ELSE Pair(msg, TrailingTools(messages, i))
    ELSE IF ~ IsTool(msg) THEN <<msg>>
    ELSE IF Absorbed(messages, i) THEN <<>> ELSE <<Orphan(msg)>>

Sanitize(messages) == FlattenSeq([i \in DOMAIN messages |-> SanitizeAt(messages, i)])

-----------------------------------------------------------------------------
(* What an OpenAI upstream accepts: right after a message with calls comes *)
(* one result for each of them, in their order, and nowhere else; only the *)
(* last message may have calls that have none yet.                         *)
Answered(messages, i) ==
    /\ i + Len(messages[i].calls) <= Len(messages)
    /\ \A k \in DOMAIN messages[i].calls :
          /\ IsTool(messages[i + k]) /\ messages[i + k].id = messages[i].calls[k]

WellFormed(messages) ==
    /\ \A i \in DOMAIN messages : HasCalls(messages[i]) => i = Len(messages) \/ Answered(messages, i)
    /\ \A i \in DOMAIN messages : IsTool(messages[i]) =>
          \E k \in 1 .. i - 1 : HasCalls(messages[k]) /\ i <= k + Len(messages[k].calls)
=============================================================================
