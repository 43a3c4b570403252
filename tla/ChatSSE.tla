------------------------------- MODULE ChatSSE -------------------------------
(***************************************************************************)
(* The stream of chat.completion.chunk objects an OpenAI client reads.  It *)
(* puts the deltas of a tool call together by their index: an entry with   *)
(* an index it has seen continues the call that has it.                    *)
(***************************************************************************)
EXTENDS Naturals, Sequences, SequencesExt

CONSTANTS
    Fragments,      \* pieces of text
    Calls,          \* what an entry of tool_calls says: id, name, arguments
    FinishReasons,
    MaxIndex,       \* bound on the index of a tool call
    None

VARIABLE client    \* the message as assembled so far

(* Events: a chunk with a delta, the chunk with the finish reason, the     *)
(* error object and the [DONE] marker.  An entry of tool_calls is          *)
(* [index |-> i, call |-> c].                                              *)
Delta(content, toolCalls) == [type |-> "delta", content |-> content, toolCalls |-> toolCalls]
Finish(reason) == [type |-> "finish", reason |-> reason]
Error == [type |-> "error"]
Done == [type |-> "done"]

Entries == [index : 0 .. MaxIndex, call : Calls]

Events ==
    [type : {"delta"}, content : Seq(Fragments), toolCalls : Seq(Entries)]
        \cup [type : {"finish"}, reason : FinishReasons]
        \cup [type : {"error", "done"}]

NewClient ==
    [phase |-> "streaming", content |-> <<>>, calls |-> [i \in 0 .. MaxIndex |-> <<>>],
     reason |-> None, last |-> None]

Join(calls, entry) == [calls EXCEPT ![entry.index] = Append(@, entry.call)]

Apply(c, e) ==
    LET seen == [c EXCEPT !.last = e] IN
    CASE e.type = "delta" ->
           [seen EXCEPT !.content = @ \o e.content,
                        !.calls = FoldLeft(Join, @, e.toolCalls)]
      [] e.type = "finish" -> [seen EXCEPT !.phase = "finished", !.reason = e.reason]
      [] e.type = "error" -> [seen EXCEPT !.phase = "failed"]
      [] e.type = "done" -> [seen EXCEPT !.phase = "done"]

(* Deltas come before the finish reason, which comes once; the entries with*)
(* an id of their own, as all of them are here, have an index of their own;*)
(* nothing follows [DONE] or an error.                                     *)
Legal(c, e) ==
    CASE e.type = "delta" ->
           /\ c.phase = "streaming"
           /\ e.content # <<>> \/ e.toolCalls # <<>>
           /\ \A i \in DOMAIN e.toolCalls :
                 /\ c.calls[e.toolCalls[i].index] = <<>>
                 /\ \A j \in DOMAIN e.toolCalls : e.toolCalls[i].index = e.toolCalls[j].index => i = j
      [] e.type = "finish" -> c.phase = "streaming"
      [] e.type = "error" -> c.phase \in {"streaming", "finished"}
      [] e.type = "done" -> c.phase \in {"streaming", "finished"}

Init == client = NewClient

Accept(e) == Legal(client, e) /\ client' = Apply(client, e)

Next == client'.last \in Events /\ Accept(client'.last)

Spec == Init /\ [][Next]_client
=============================================================================
