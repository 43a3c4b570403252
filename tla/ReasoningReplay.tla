--------------------------- MODULE ReasoningReplay ---------------------------
(***************************************************************************)
(* A conversation of an Anthropic client with an OpenAI upstream that wants*)
(* its reasoning back (DeepSeek V4): what convertOpenAIResponseToAnthropic *)
(* puts into the three tiers of the ReasoningCache, and the messages       *)
(* convertAnthropicRequestToOpenAI makes of the history the client sends,  *)
(* with the reasoning the client no longer has.                            *)
(*                                                                         *)
(* The client keeps the history and edits it: it drops thinking blocks and *)
(* whole messages, and splits a message with several calls.  The cache     *)
(* loses entries (ReasoningStore models how).                              *)
(***************************************************************************)
EXTENDS Naturals, Sequences, FiniteSets, SequencesExt, ToolHistory

CONSTANTS
    Calls,     \* ids of tool calls
    Texts,     \* what the assistant may say
    Ask,       \* what the user says
    Blank,     \* the text put where there has to be one
    MaxTurns,  \* bound on the upstream's responses
    MaxEdits   \* bound on edits of the history and losses of the cache

ASSUME BoundsAssumption == {MaxTurns, MaxEdits} \subseteq Nat

(* What is said is no result of a call.                                   *)
ASSUME TextsAssumption == \A t \in Texts \cup {Ask, Blank} : t \notin [id : Calls, n : Seq(Nat)]

VARIABLES
    history,    \* the Anthropic messages the client will send
    toolStore,  \* the cached reasoning by the ids of a message's calls
    textStore,  \* the cached reasoning by a message's text
    turns,      \* what the upstream has answered (history)
    split,      \* the turns whose message has been split (history)
    forgotten,  \* the turns whose reasoning the cache has lost (history)
    edits       \* how many edits and losses there have been

vars == <<history, toolStore, textStore, turns, split, forgotten, edits>>

Placeholder == 0     \* otherwise, a reasoning is the number of its turn

(* A message is [role, thinking, text, calls, results, of]: of its blocks, *)
(* the texts and the calls are kept in order, which is all the conversion  *)
(* looks at.  of is the turn an assistant message is from.                 *)
UserMessage(results, text) ==
    [role |-> "user", thinking |-> <<>>, text |-> text, calls |-> <<>>, results |-> results, of |-> 0]
AssistantMessage(n, thinking, text, calls) ==
    [role |-> "assistant", thinking |-> thinking, text |-> text, calls |-> calls,
     results |-> <<>>, of |-> n]

-----------------------------------------------------------------------------
(* ReasoningCache: the ids are sorted before they are hashed.  Nothing puts*)
(* a reasoning into the context tier, so no lookup finds one there.        *)

CacheKeys == {ids \in SUBSET Calls : Cardinality(ids) \in 1 .. 2}

(* Mutant: the first id is the key.                                        *)
CacheKeyOfFirst(calls) == {calls[1]}

CacheKey(calls) == ToSet(calls)

Put(store, calls, reasoning) ==
    IF reasoning = <<>> \/ calls = <<>> THEN store
    ELSE [store EXCEPT ![CacheKey(calls)] = reasoning]

PutText(store, text, reasoning) ==
    IF reasoning = <<>> \/ text = <<>> THEN store
    ELSE [store EXCEPT ![text[1]] = reasoning]

(* Mutant: the text is asked before the ids.                               *)
GetBestByText(calls, text) ==
    LET byText == IF text = <<>> THEN <<>> ELSE textStore[text[1]] IN
    IF byText # <<>> THEN byText ELSE toolStore[CacheKey(calls)]

GetBest(calls, text) ==
    LET byIds == toolStore[CacheKey(calls)] IN
    IF byIds # <<>> THEN byIds
    ELSE IF text = <<>> THEN <<>> ELSE textStore[text[1]]

-----------------------------------------------------------------------------
(* convertAnthropicRequestToOpenAI: the messages.                          *)

ConvertUserMessage(msg) ==
    [i \in DOMAIN msg.results |-> Tool(msg.results[i].id, <<msg.results[i]>>)]
        \o IF msg.results = <<>> \/ msg.text # <<>> THEN <<User(msg.text)>> ELSE <<>>

(* Mutant: without a cached reasoning, there is none.                      *)
ConvertAssistantMessageBare(msg) ==
    LET cached == IF msg.calls = <<>> THEN <<>> ELSE GetBest(msg.calls, msg.text) IN
    Assistant(msg.text, IF msg.thinking # <<>> THEN msg.thinking ELSE cached, msg.calls)

ConvertAssistantMessage(msg) ==
    LET cached == GetBest(msg.calls, msg.text)
        reasoning == IF msg.thinking # <<>> \/ msg.calls = <<>> THEN msg.thinking
                     ELSE IF cached # <<>> THEN cached ELSE <<Placeholder>>
    IN  Assistant(msg.text, reasoning, msg.calls)

ConvertMessage(msg) ==
    IF msg.role = "user" THEN ConvertUserMessage(msg) ELSE <<ConvertAssistantMessage(msg)>>

Converted == FlattenSeq([i \in DOMAIN history |-> ConvertMessage(history[i])])

Request ==
    LET repaired == Sanitize(Coalesce(Converted))
    IN  IF repaired = <<>> THEN <<User(<<Blank>>)>> ELSE repaired

-----------------------------------------------------------------------------
(* The content blocks of a response.                                       *)
ConvertOpenAIMessage(n, reasoning, text, calls) ==
    AssistantMessage(n, reasoning, IF text = <<>> /\ calls = <<>> THEN <<Blank>> ELSE text, calls)

UsedCalls == UNION {ToSet(turns[n].calls) : n \in DOMAIN turns}

(* Calls with ids that are new.                                            *)
SeqsUpTo2(S) == {<<>>} \cup [1 .. 1 -> S] \cup [1 .. 2 -> S]

CallSeqs == {s \in SeqsUpTo2(Calls \ UsedCalls) : IsInjective(s)}

Init ==
    /\ history = <<UserMessage(<<>>, <<Ask>>)>>
    /\ toolStore = [ids \in CacheKeys |-> <<>>]
    /\ textStore = [t \in Texts \cup {Blank} |-> <<>>]
    /\ turns = <<>>
    /\ split = {} /\ forgotten = {} /\ edits = 0

(* The upstream answers the request, and the client keeps the answer.      *)
Respond ==
    /\ history # <<>> /\ Last(history).role = "user"
    /\ Len(turns) < MaxTurns
    /\ \E calls \in CallSeqs, text \in {<<>>} \cup {<<t>> : t \in Texts}, thinks \in BOOLEAN :
          LET n == Len(turns) + 1
              reasoning == IF thinks THEN <<n>> ELSE <<>>
          IN  /\ toolStore' = Put(toolStore, calls, reasoning)
              /\ textStore' = PutText(textStore, text, reasoning)
              /\ history' = Append(history, ConvertOpenAIMessage(n, reasoning, text, calls))
              /\ turns' = Append(turns, [reasoning |-> reasoning, text |-> text, calls |-> calls])
    /\ UNCHANGED <<split, forgotten, edits>>

(* The client answers with text, results, or both: of calls of this or an  *)
(* earlier turn, in any order, also twice.                                 *)
Answer ==
    /\ history # <<>> /\ Last(history).role = "assistant"
    /\ \E ids \in SeqsUpTo2(UsedCalls), text \in {<<>>, <<Ask>>} :
          /\ ids # <<>> \/ text # <<>>
          /\ history' = Append(history, UserMessage([i \in DOMAIN ids |->
                                 [id |-> ids[i], n |-> <<Len(turns), i>>]], text))
    /\ UNCHANGED <<toolStore, textStore, turns, split, forgotten, edits>>

Edit == edits < MaxEdits /\ edits' = edits + 1

(* The client drops thinking blocks to save tokens, ...                    *)
DropThinking ==
    /\ Edit
    /\ \E i \in DOMAIN history :
          /\ history[i].thinking # <<>>
          /\ history' = [history EXCEPT ![i].thinking = <<>>]
    /\ UNCHANGED <<toolStore, textStore, turns, split, forgotten>>

(* ... messages, when it compresses the conversation, ...                  *)
DropMessage ==
    /\ Edit
    /\ \E i \in DOMAIN history : history' = RemoveAt(history, i)
    /\ UNCHANGED <<toolStore, textStore, turns, split, forgotten>>

(* ... and makes two messages of one with two calls.                       *)
SplitMessage ==
    /\ Edit
    /\ \E i \in DOMAIN history :
          LET msg == history[i] IN
          /\ Len(msg.calls) = 2
          /\ history' = InsertAt([history EXCEPT ![i].calls = <<msg.calls[1]>>], i + 1,
                                 AssistantMessage(msg.of, <<>>, <<>>, <<msg.calls[2]>>))
          /\ split' = split \cup {msg.of}
    /\ UNCHANGED <<toolStore, textStore, turns, forgotten>>

(* An entry is evicted or expires, or the process restarts without a file. *)
ForgetTool ==
    /\ Edit
    /\ \E ids \in CacheKeys :
          /\ toolStore[ids] # <<>>
          /\ toolStore' = [toolStore EXCEPT ![ids] = <<>>]
          /\ forgotten' = forgotten \cup ToSet(toolStore[ids])
    /\ UNCHANGED <<history, textStore, turns, split>>

ForgetText ==
    /\ Edit
    /\ \E t \in Texts :
          /\ textStore[t] # <<>>
          /\ textStore' = [textStore EXCEPT ![t] = <<>>]
    /\ UNCHANGED <<history, toolStore, turns, split, forgotten>>

Next ==
    \/ Respond \/ Answer \/ DropThinking \/ DropMessage \/ SplitMessage
    \/ ForgetTool \/ ForgetText

Spec == Init /\ [][Next]_vars
-----------------------------------------------------------------------------
(* What the tiers hold is the reasoning of a turn that asked for those     *)
(* calls or said that text, and messages come from their turns.            *)
TypeOK ==
    /\ \A ids \in CacheKeys : \A n \in ToSet(toolStore[ids]) : ToSet(turns[n].calls) = ids
    /\ \A t \in Texts : \A n \in ToSet(textStore[t]) : turns[n].text = <<t>>
    /\ split \cup forgotten \subseteq DOMAIN turns
    /\ \A i \in DOMAIN history :
          LET msg == history[i] IN
          /\ msg.role \in {"user", "assistant"}
          /\ msg.role = "assistant" =>
                /\ ToSet(msg.thinking) \subseteq {msg.of}
                /\ ToSet(msg.calls) \subseteq ToSet(turns[msg.of].calls)

(* Whatever the client has done to the history, the upstream gets one in   *)
(* which every call is followed by its result (README.md:402).             *)
RequestWellFormed == WellFormed(Request)

(* Each result in the history reaches the upstream, once: as the answer to *)
(* its call or as a user's text.  One that follows its call, in the message*)
(* after the assistant's or after a run of its halves, stays its answer.   *)
CallsBefore(j) ==
    UNION {ToSet(history[i].calls) :
             i \in {i \in 1 .. j - 1 : \A k \in i .. j - 1 : history[k].calls # <<>>}}

ResultsKept ==
    LET request == Request IN
    \A j \in DOMAIN history : \A k \in DOMAIN history[j].results :
        LET x == history[j].results[k]
            first == \A h \in 1 .. k - 1 : history[j].results[h].id # x.id
        IN  /\ Cardinality({i \in DOMAIN request : x \in ToSet(request[i].content)}) = 1
            /\ first /\ x.id \in CallsBefore(j) => Tool(x.id, <<x>>) \in ToSet(request)

SaidOnce(n) ==
    turns[n].text = <<>> \/ \A m \in DOMAIN turns \ {n} : turns[m].text # turns[n].text

ReasoningSent(msg) == ConvertAssistantMessage(msg).reasoning

MessagesWithCalls == {msg \in ToSet(history) : msg.calls # <<>>}

(* A message with calls never goes out without a reasoning, and never with *)
(* that of another turn - unless two turns said the same text: then the    *)
(* text tier answers for one of them with the reasoning of the other, once *)
(* the ids are of no help.                                                 *)
ReasoningIsOwn ==
    \A msg \in MessagesWithCalls :
        /\ ReasoningSent(msg) # <<>>
        /\ SaidOnce(msg.of) => ReasoningSent(msg) \in {<<msg.of>>, <<Placeholder>>}

(* As long as the message is in one piece and its entry in the cache, the  *)
(* upstream gets the very reasoning it gave for these calls, even when the *)
(* text has been said again since.                                         *)
ReplayIsExact ==
    \A msg \in MessagesWithCalls :
        msg.of \notin split \cup forgotten /\ turns[msg.of].reasoning # <<>> =>
            ReasoningSent(msg) = <<msg.of>>

(* The placeholder stands in only for what has never been cached or is     *)
(* gone ("Injects placeholder reasoning when DeepSeek V4 requires it but   *)
(* cache is empty", README.md:405).                                        *)
PlaceholderOnlyIfGone ==
    \A msg \in ToSet(Request) :
        HasCalls(msg) /\ Placeholder \in ToSet(msg.reasoning) =>
            \E n \in DOMAIN turns : n \in forgotten \/ turns[n].reasoning = <<>>
=============================================================================
