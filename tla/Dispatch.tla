------------------------------ MODULE Dispatch ------------------------------
(***************************************************************************)
(* How the rewriter follows an exchange through the session store: Convert *)
(* and HandleSSEEvent of convert/convert.go, called by the proxy over HTTP.*)
(*                                                                         *)
(* A session id is a client connection; its requests come one after the    *)
(* other, while the calls of different connections run at the same time.   *)
(* One call takes the store's mutex several times, and a Set of another    *)
(* connection can evict the session in between.  A call is therefore three *)
(* steps: it begins by asking whether this is a Responses session, Read    *)
(* gets what the session says, and the last step changes the store and     *)
(* answers the proxy.                                                      *)
(***************************************************************************)
EXTENDS Naturals, Sequences, FiniteSets

CONSTANTS
    Sids,
    MaxSize,       \* maxSize of the session store
    Routes,        \* <<client protocol, upstream protocol>> in use
    Mapped,        \* the upstream's model names are targets of the model map
    UriKnown,      \* the metadata of a plain response has the client's URI
    MaxExchanges,  \* bound on the requests of one connection
    MaxEvents,     \* bound on the events of one stream
    None

Protocols == {"anthropic", "openai", "gemini", "responses"}

ASSUME RouteAssumption == Routes \subseteq Protocols \X (Protocols \ {"responses"})
ASSUME BoundsAssumption == MaxSize \in Nat \ {0} /\ {MaxExchanges, MaxEvents} \subseteq Nat
ASSUME ModeAssumption == {Mapped, UriKnown} \subseteq BOOLEAN

(* Stream handlers: what they read from the upstream and write to the      *)
(* client; the passthrough writes what it reads.                           *)
Handlers ==
    [reads : Protocols, writes : Protocols]

Passthrough(p) == [reads |-> p, writes |-> p]
OpenAIToAnthropic == [reads |-> "openai", writes |-> "anthropic"]

SessionRecords ==
    [from : Protocols \cup {None}, isResponses : BOOLEAN, handler : Handlers \cup {None}]

ASSUME NoneAssumption == None \notin SessionRecords \cup Handlers \cup Protocols \cup Routes \cup {"sig"}

VARIABLES
    sessions, order,  \* the session store
    thoughtSigs,      \* and the signatures of the function calls Gemini made
    call,             \* the rewriter call each connection has under way
    conn              \* the exchange each connection is in, as client and proxy see it

store == <<sessions, order, thoughtSigs>>
vars == <<store, call, conn>>

Store == INSTANCE SessionStore
         WITH Sessions <- SessionRecords, FuncNames <- {"f"}, Sigs <- {"sig"}

NoCall == [op |-> "none", pc |-> "idle", responses |-> FALSE, session |-> None]

Fresh == [state |-> "idle", route |-> None, exchanges |-> 0, events |-> 0,
          last |-> "none", forwarded |-> "none", answer |-> None,
          starts |-> 0, used |-> {}, closed |-> FALSE, evicted |-> FALSE,
          commented |-> FALSE]

Client(s) == conn[s].route[1]
Upstream(s) == conn[s].route[2]

TypeOK ==
    /\ Store!TypeOK
    /\ call \in [Sids -> [op : {"none", "request", "response", "chunks", "start", "event", "end",
                                "error"},
                          pc : {"idle", "read", "act"},
                          responses : BOOLEAN, session : SessionRecords \cup {None}]]
    /\ \A s \in Sids :
          /\ conn[s].state \in {"idle", "sent", "streaming"}
          /\ conn[s].route \in Routes \cup {None}
          /\ conn[s].last \in {"none", "response", "chunks", "end", "error", "abort", "refused"}
          /\ conn[s].forwarded \in {"none", "converted", "raw"}
          /\ conn[s].answer \in Protocols \cup {None}
          /\ conn[s].starts \in 0..MaxEvents + 1 /\ conn[s].used \subseteq Handlers

Init ==
    /\ Store!Init
    /\ call = [s \in Sids |-> NoCall]
    /\ conn = [s \in Sids |-> Fresh]

-----------------------------------------------------------------------------
(* The proxy calls the rewriter.                                           *)

Quiet(s) == call[s].op = "none"

IsResponses(s) == sessions[s] # None /\ sessions[s].isResponses

(* A request, and the branches of a Responses session that start a stream  *)
(* or convert a response, do not look at the session again.                *)
ReadsAgain(s, op) ==
    op # "request" /\ (IsResponses(s) => op \in {"chunks", "event", "end", "error"})

(* The first lines of Convert and of HandleSSEEvent.  A response in chunks *)
(* without SSE framing is taken before it is asked for a Responses session.*)
Begin(s, op) ==
    /\ Quiet(s)
    /\ call' = [call EXCEPT ![s] =
                  [op |-> op, pc |-> IF ReadsAgain(s, op) THEN "read" ELSE "act",
                   responses |-> IsResponses(s) /\ op # "chunks", session |-> None]]
    /\ UNCHANGED store

(* A connection belongs to one client, whose requests go one way.          *)
Request(s) ==
    /\ conn[s].state = "idle"
    /\ conn[s].exchanges < MaxExchanges
    /\ Begin(s, "request")
    /\ \E r \in (IF conn[s].route = None THEN Routes ELSE {conn[s].route}) :
          conn' = [conn EXCEPT ![s] = [Fresh EXCEPT !.route = r, !.last = conn[s].last,
                                                    !.exchanges = conn[s].exchanges + 1]]

Respond(s) ==
    /\ conn[s].state = "sent"
    /\ \/ Begin(s, "response")
       \/ Upstream(s) = "gemini" /\ Begin(s, "chunks")
       \/ Begin(s, "start")
    /\ UNCHANGED conn

Stream(s) ==
    /\ conn[s].state = "streaming"
    /\ \/ conn[s].events < MaxEvents /\ Begin(s, "event")
       \/ Begin(s, "end")
       \/ Begin(s, "error")
    /\ UNCHANGED conn

(* The client or the upstream goes away and the proxy says nothing; what   *)
(* there was of the exchange is of no interest any more.                   *)
Abort(s) ==
    /\ Quiet(s)
    /\ conn[s].state # "idle"
    /\ conn' = [conn EXCEPT ![s] = [Fresh EXCEPT !.route = conn[s].route, !.last = "abort",
                                                !.exchanges = conn[s].exchanges]]
    /\ UNCHANGED <<store, call>>

-----------------------------------------------------------------------------
(* The session as the phase or the response path sees it.                  *)
Read(s) ==
    /\ call[s].pc = "read"
    /\ call' = [call EXCEPT ![s] = [@ EXCEPT !.session = sessions[s], !.pc = "act"]]
    /\ UNCHANGED <<store, conn>>

-----------------------------------------------------------------------------
(* The last step of a call.                                                *)

Acts(s, op) == call[s].pc = "act" /\ call[s].op = op

Return(s) == call' = [call EXCEPT ![s] = NoCall]

(* Set and Delete of the store; an eviction is noted on its connection.    *)
Put(s, session) == Store!Set(s, session)

Evicts(s) == IF Store!Full /\ s \notin Store!Live /\ Store!LiveSlots # {}
             THEN {order[Store!SlotToEvict]} ELSE {}

Record(s, exchange) ==
    conn' = [t \in Sids |-> IF t = s THEN exchange
                            ELSE [conn[t] EXCEPT !.evicted = @ \/ t \in Evicts(s)]]

(* Convert of a request.  A session left over from a Responses request     *)
(* makes it take the request for the upstream's response; the upstream gets*)
(* a document of the Responses API, and its refusal ends the exchange.     *)
ConvertRequest(s) ==
    /\ Acts(s, "request")
    /\ Return(s)
    /\ IF call[s].responses
       THEN /\ conn' = [conn EXCEPT ![s] = [@ EXCEPT !.state = "idle", !.last = "refused",
                                                     !.forwarded = "raw"]]
            /\ UNCHANGED store
       ELSE /\ Put(s, [from |-> Client(s), isResponses |-> Client(s) = "responses",
                       handler |-> None])
            /\ Record(s, [conn[s] EXCEPT !.state = "sent", !.forwarded = "converted"])

(* Mutant: the client is taken to speak the opposite protocol.             *)
ClientOfResponseOpposite(s) ==
    CASE Upstream(s) = "anthropic" -> "openai"
      [] Upstream(s) = "openai" -> "anthropic"
      [] OTHER -> None

(* The client of a plain response: the session knows, or else the URI.     *)
ClientOfResponse(s) ==
    IF call[s].session # None /\ call[s].session.from # None THEN call[s].session.from
    ELSE IF UriKnown THEN Client(s) ELSE None

(* Convert of a plain response.  A Responses session is left in the store; *)
(* without it no converter is registered for a Responses client.           *)
ConvertResponse(s) ==
    /\ Acts(s, "response")
    /\ Return(s)
    /\ IF call[s].responses
       THEN /\ UNCHANGED store
            /\ conn' = [conn EXCEPT ![s] = [@ EXCEPT !.state = "idle", !.last = "response",
                                                     !.answer = "responses"]]
       ELSE /\ Store!Delete(s)
            /\ conn' = [conn EXCEPT ![s] = [@ EXCEPT !.state = "idle", !.last = "response",
                  !.answer = IF ClientOfResponse(s) \in {None, "responses"} THEN Upstream(s)
                             ELSE ClientOfResponse(s)]]

(* convertGeminiNDJSONArray: chunks of a plain Gemini response.  The client*)
(* is OpenAI's unless the session says it is Anthropic's; the URI is not   *)
(* asked, and the session stays in the store.                              *)
ClientOfChunks(s) ==
    IF call[s].session # None /\ call[s].session.from = "anthropic"
    THEN "anthropic" ELSE "openai"

ConvertChunks(s) ==
    /\ Acts(s, "chunks")
    /\ Return(s)
    /\ UNCHANGED store
    /\ conn' = [conn EXCEPT ![s] = [@ EXCEPT !.state = "idle", !.last = "chunks",
                                             !.answer = ClientOfChunks(s)]]

(* resolveModel of the upstream's model name, when no session says who the *)
(* client is.                                                              *)
OppositeProtocol(p) ==
    CASE p = "anthropic" -> "openai" [] p = "openai" -> "anthropic" [] OTHER -> None

ResolveModel(p) == IF Mapped THEN p ELSE OppositeProtocol(p)

(* Mutant: the session is not asked.                                       *)
StreamTargetByModel(s) == ResolveModel(Upstream(s))

StreamTarget(s) ==
    IF call[s].session # None /\ call[s].session.from # None
    THEN call[s].session.from ELSE ResolveModel(Upstream(s))

(* handleResponsesSSEEvent tells Anthropic events from the rest.           *)
ResponsesHandler(upstream) ==
    [reads |-> IF upstream = "anthropic" THEN "anthropic" ELSE "openai",
     writes |-> "responses"]

(* Mutant: no handler for OpenAI chunks.                                   *)
StreamHandlerOrNone(from, target) ==
    CASE from = target -> Passthrough(target)
      [] from = "gemini" /\ target \in {"openai", "anthropic"} ->
           [reads |-> "gemini", writes |-> target]
      [] OTHER -> None

StreamHandler(from, target) ==
    CASE from = target -> Passthrough(target)
      [] from = "gemini" /\ target \in {"openai", "anthropic"} ->
           [reads |-> "gemini", writes |-> target]
      [] OTHER -> OpenAIToAnthropic

Picked(s, upstream) ==
    IF call[s].responses
    THEN [from |-> None, isResponses |-> TRUE, handler |-> ResponsesHandler(upstream)]
    ELSE [from |-> StreamTarget(s), isResponses |-> FALSE,
          handler |-> StreamHandler(upstream, StreamTarget(s))]

(* The Start phase picks the handler by the first chunk, keeps it in a new *)
(* session, and sends the opening events.  It asks for Gemini chunks       *)
(* without SSE framing too, but only where neither body nor URI tells a    *)
(* protocol (convert.go:731): here the first chunk always tells its own.   *)
HandleStart(s) ==
    /\ Acts(s, "start")
    /\ Return(s)
    /\ LET session == Picked(s, Upstream(s))
       IN  /\ Put(s, session)
           /\ Record(s, [conn[s] EXCEPT !.state = "streaming", !.starts = @ + 1,
                                        !.used = @ \cup {session.handler}])

(* What starts the stream may be a comment, the keep-alive of OpenRouter.  *)
(* It is dropped, and the Start phase with it; in a Responses session it is*)
(* taken for a chunk, which is no Anthropic one, and the error it leads to *)
(* takes the opening events along.                                         *)
HandleStartComment(s) ==
    /\ Acts(s, "start")
    /\ Return(s)
    /\ LET exchange == [conn[s] EXCEPT !.state = "streaming", !.commented = TRUE]
       IN  IF call[s].responses
           THEN Put(s, Picked(s, "openai")) /\ Record(s, exchange)
           ELSE UNCHANGED store /\ conn' = [conn EXCEPT ![s] = exchange]

(* The Event phase feeds a chunk to the session's handler; without one it  *)
(* starts a stream over.                                                   *)
HandlerOf(s) == IF call[s].session = None THEN None ELSE call[s].session.handler

HandleEvent(s) ==
    /\ Acts(s, "event")
    /\ Return(s)
    /\ IF HandlerOf(s) # None
       THEN /\ conn' = [conn EXCEPT ![s] = [conn[s] EXCEPT !.events = @ + 1,
                                                           !.used = @ \cup {HandlerOf(s)}]]
            /\ UNCHANGED store
       ELSE LET h == IF call[s].responses THEN ResponsesHandler(Upstream(s))
                     ELSE OpenAIToAnthropic
            IN  /\ Put(s, [from |-> None, isResponses |-> call[s].responses, handler |-> h])
                /\ Record(s, [conn[s] EXCEPT !.events = @ + 1, !.starts = @ + 1,
                                             !.used = @ \cup {h}])

(* The signature of a function call in Gemini's response is kept for the   *)
(* next request: from a chunk before the handler sees it, though not from  *)
(* the chunk of the Start phase, and from a plain response, in chunks or   *)
(* not, on its way to an Anthropic client.                                 *)
Capture(s) ==
    /\ conn[s].route # None /\ Upstream(s) = "gemini" /\ ~ call[s].responses
    /\ \/ Acts(s, "event") /\ HandlerOf(s) # None
       \/ Acts(s, "response") /\ ClientOfResponse(s) = "anthropic"
       \/ Acts(s, "chunks") /\ ClientOfChunks(s) = "anthropic"
    /\ Store!SetThoughtSig(s, "f", "sig")
    /\ UNCHANGED <<call, conn>>

(* The End and Error phases drop the session, and its handler closes the   *)
(* client's stream; what a passthrough passed on has closed it already.    *)
(* Mutant: the session stays.                                              *)
HandleLastKeeping(s, op) ==
    /\ Acts(s, op)
    /\ Return(s)
    /\ UNCHANGED store
    /\ conn' = [conn EXCEPT ![s] = [@ EXCEPT !.state = "idle", !.last = op,
                                             !.closed = HandlerOf(s) # None]]

HandleLast(s, op) ==
    /\ Acts(s, op)
    /\ Return(s)
    /\ Store!Delete(s)
    /\ conn' = [conn EXCEPT ![s] = [@ EXCEPT !.state = "idle", !.last = op,
                                             !.closed = HandlerOf(s) # None]]

HandleEnd(s) == HandleLast(s, "end")
HandleError(s) == HandleLast(s, "error")

Next ==
    \E s \in Sids :
        \/ Request(s) \/ Respond(s) \/ Stream(s) \/ Abort(s)
        \/ Read(s)
        \/ ConvertRequest(s) \/ ConvertResponse(s) \/ ConvertChunks(s)
        \/ HandleStart(s) \/ HandleStartComment(s) \/ HandleEvent(s) \/ Capture(s) \/ HandleEnd(s) \/ HandleError(s)

Spec == Init /\ [][Next]_vars
-----------------------------------------------------------------------------
(* Properties.                                                             *)

(* A stream reaches the client in one piece: it is started once and before *)
(* its chunks, every chunk goes through handlers that read what the        *)
(* upstream sends and write what the client reads, and it is closed when   *)
(* the upstream's ends.                                                    *)
InOnePiece(s) ==
    /\ conn[s].starts <= 1 /\ (conn[s].events > 0 => conn[s].starts = 1)
    /\ \A h \in conn[s].used : h.reads = Upstream(s) /\ h.writes = Client(s)
    /\ (conn[s].state = "idle" /\ conn[s].starts = 1 /\ conn[s].last \in {"end", "error"})
          => conn[s].closed

(* Nothing but the eviction of its session, by many other connections, or a*)
(* comment where the first chunk should be ever tears a stream; and not    *)
(* even the comment for the one pair the Event phase falls back to.        *)
StreamInOnePiece ==
    \A s \in Sids :
        /\ conn[s].route # None /\ ~ conn[s].evicted
        /\ conn[s].commented => conn[s].route = <<"anthropic", "openai">>
        => InOnePiece(s)

(* A plain response reaches the client in its own protocol; with the URI of*)
(* the request in the metadata, even after an eviction, unless it came in  *)
(* chunks.  (For chunks a Gemini client is taken for an OpenAI one.)       *)
ByUri(s) == UriKnown /\ Client(s) # "responses" /\ conn[s].last # "chunks"

ResponseInClientProtocol ==
    \A s \in Sids :
        /\ conn[s].answer # None /\ (~ conn[s].evicted \/ ByUri(s))
        /\ conn[s].last = "chunks" => Client(s) \in {"anthropic", "openai"}
        => conn[s].answer = Client(s)

(* "The next request on this SID (HTTP keep-alive) re-stores before use"   *)
(* (convert.go:574): a connection's earlier exchanges never keep a request *)
(* from being converted.                                                   *)
RequestsConverted == \A s \in Sids : conn[s].forwarded # "raw"

(* Only a Responses client is exposed, and only right after an exchange    *)
(* that no End or Error event has closed.                                  *)
OnlyStaleResponsesRefused ==
    [][\A s \in Sids :
          conn[s].forwarded = "none" /\ conn'[s].forwarded = "raw" =>
            Client(s) = "responses" /\ conn[s].last \notin {"none", "end", "error"}]_conn

(* No session is left behind by an exchange that went to its end, but for a*)
(* Responses client's plain one and a response in chunks.                  *)
NoLeak ==
    \A s \in Sids :
        Quiet(s) /\ conn[s].state = "idle" /\ s \in Store!Live =>
            \/ conn[s].last \in {"abort", "refused", "chunks"}
            \/ conn[s].last = "response" /\ Client(s) = "responses"
=============================================================================
