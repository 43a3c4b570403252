--------------------------- MODULE DispatchProofs ---------------------------
(***************************************************************************)
(* Proofs about the dispatch of requests, responses and streams, for any   *)
(* number of connections, any size of the session store and any number of  *)
(* exchanges and events.                                                   *)
(*                                                                         *)
(* What one connection may rely on is Tracked, an invariant of its exchange*)
(* e, the call c it has under way, and its session x.  The other           *)
(* connections share nothing with it but the store, and all they can do to *)
(* it is to evict its session, which is noted in the exchange.             *)
(***************************************************************************)
EXTENDS Dispatch, TLAPS

(* The store keeps its own invariant, whatever the calls put into it.      *)
StoreP == INSTANCE SessionStoreProofs
          WITH Sessions <- SessionRecords, FuncNames <- {"f"}, Sigs <- {"sig"}

Exchanges ==
    [state : {"idle", "sent", "streaming"}, route : Routes \cup {None},
     exchanges : Nat, events : 0 .. MaxEvents,
     last : {"none", "response", "chunks", "end", "error", "abort", "refused"},
     forwarded : {"none", "converted", "raw"}, answer : Protocols \cup {None},
     starts : 0 .. MaxEvents + 1, used : SUBSET Handlers,
     closed : BOOLEAN, evicted : BOOLEAN, commented : BOOLEAN]

CallRecords ==
    [op : {"none", "request", "response", "chunks", "start", "event", "end", "error"},
     pc : {"idle", "read", "act"}, responses : BOOLEAN, session : SessionRecords \cup {None}]

Answering == {"response", "chunks", "start"}
Streaming == {"event", "end", "error"}

(* Each call belongs to a phase of the exchange, and each of its events    *)
(* starts at most one more stream.                                         *)
Phased(e, c) ==
    /\ c.op = "none" <=> c.pc = "idle"
    /\ c.op = "request" => e.state = "idle" /\ e.forwarded = "none" /\ c.pc = "act"
    /\ c.op \in Answering => e.state = "sent"
    /\ c.op \in Streaming => e.state = "streaming"
    /\ c.op = "event" => e.events < MaxEvents
    /\ e.state # "idle" \/ c.op # "none" => e.route # None
    /\ e.starts <= e.events + 1
    /\ e.state = "sent" \/ c.op = "request" =>
          e.starts = 0 /\ e.events = 0 /\ e.used = {} /\ ~ e.commented /\ e.answer = None
    /\ e.state = "streaming" => e.answer = None

(* Only a Responses client ever has a Responses session, and one it still  *)
(* has at its next request is from an exchange that no End or Error closed.*)
ResponsesOnly(e, c, x) ==
    /\ x # None /\ x.isResponses => e.route # None /\ e.route[1] = "responses"
    /\ c.responses => e.route # None /\ e.route[1] = "responses"
    /\ c.op = "request" /\ c.responses => e.last \notin {"none", "end", "error"}

Requested(e) ==
    [from |-> e.route[1], isResponses |-> e.route[1] = "responses", handler |-> None]

(* Until the answer, the session is the request's or evicted, and a call   *)
(* sees what was there when it looked.                                     *)
BeforeAnswer(e, c, x) ==
    /\ e.state = "sent" => x \in {Requested(e), None} /\ (~ e.evicted => x = Requested(e))
    /\ c.op \in Answering =>
          /\ c.session \in {Requested(e), None}
          /\ ~ e.evicted => (c.responses <=> (e.route[1] = "responses" /\ c.op # "chunks"))
          /\ ~ e.evicted /\ c.pc = "act" /\ ~ c.responses => c.session = Requested(e)

LeavesNothing(e, c, x) ==
    e.state = "idle" /\ c.op = "none" /\ x # None =>
        \/ e.last \in {"abort", "refused", "chunks"}
        \/ e.last = "response" /\ e.route # None /\ e.route[1] = "responses"

AnswersClient(e) ==
    /\ e.answer # None
    /\ ~ e.evicted \/ (UriKnown /\ e.route[1] # "responses" /\ e.last # "chunks")
    /\ e.last = "chunks" => e.route[1] \in {"anthropic", "openai"}
    => e.answer = e.route[1]

Tracked(e, c, x) ==
    /\ e \in Exchanges /\ c \in CallRecords /\ x \in SessionRecords \cup {None}
    /\ Phased(e, c)
    /\ ResponsesOnly(e, c, x)
    /\ BeforeAnswer(e, c, x)
    /\ LeavesNothing(e, c, x)
    /\ AnswersClient(e)

IInv ==
    /\ StoreP!Inv
    /\ DOMAIN call = Sids /\ DOMAIN conn = Sids
    /\ call = [s \in Sids |-> call[s]]
    /\ \A s \in Sids : Tracked(conn[s], call[s], sessions[s])

(* The pairs of protocols with a stream converter, and the passthrough.    *)
StreamableRoutes ==
    {<<p, p>> : p \in Protocols}
    \cup {<<"openai", "gemini">>, <<"anthropic", "gemini">>, <<"anthropic", "openai">>,
          <<"responses", "anthropic">>, <<"responses", "openai">>}

Fits(e, h) == h # None /\ h.reads = e.route[2] /\ h.writes = e.route[1]

Undisturbed(e) ==
    /\ e.route # None /\ ~ e.evicted
    /\ e.commented => e.route = <<"anthropic", "openai">>

(* A stream that was started has the handler it needs in its session; one  *)
(* that a comment has started gets it with its first chunk.                *)
Streamed(e, c, x) ==
    /\ e.state = "streaming" /\ Undisturbed(e) =>
          /\ x # None
          /\ IF e.starts = 0
             THEN e.events = 0 /\ e.used = {} /\ e.commented /\ x.handler = None
             ELSE e.starts = 1 /\ Fits(e, x.handler) /\ \A h \in e.used : Fits(e, h)
          /\ c.op \in Streaming /\ c.pc = "act" => c.session = x
    /\ e.state = "idle" /\ Undisturbed(e) =>
          /\ e.starts <= 1 /\ (e.events > 0 => e.starts = 1)
          /\ \A h \in e.used : Fits(e, h)
          /\ e.starts = 1 /\ e.last \in {"end", "error"} => e.closed

StreamsTracked == \A s \in Sids : Streamed(conn[s], call[s], sessions[s])

-----------------------------------------------------------------------------
(* The store: it is the one of SessionStoreProofs, and a Set changes no    *)
(* other connection's session but the one it evicts.                       *)

LEMMA StoreNone == None \notin SessionRecords \cup {"sig"}
BY NoneAssumption

LEMMA StoreInit == Store!Init => StoreP!Inv
<1>1. StoreP!Init => StoreP!Inv
  BY StoreP!InitInv, StoreNone, BoundsAssumption
<1> QED BY <1>1 DEF Store!Init, StoreP!Init

LEMMA StoreTypes == StoreP!Inv => Store!TypeOK
BY DEF StoreP!Inv, StoreP!TypeOK, Store!TypeOK

LEMMA StoreStep ==
  ASSUME StoreP!Inv, [StoreP!Next]_(StoreP!vars)
  PROVE  StoreP!Inv'
BY StoreP!NextInv, StoreNone, BoundsAssumption

LEMMA StoreKept ==
  ASSUME StoreP!Inv, UNCHANGED store
  PROVE  StoreP!Inv' /\ sessions' = sessions
BY StoreStep DEF store, StoreP!vars

LEMMA SameSet ==
  ASSUME NEW s, NEW session, Put(s, session)
  PROVE  StoreP!Set(s, session)
BY DEF Put, StoreP!Set, Store!Set, StoreP!SetNew, Store!SetNew,
       StoreP!SetExisting, Store!SetExisting, StoreP!Live, Store!Live,
       StoreP!Full, Store!Full, StoreP!Cardinality, Store!Cardinality,
       StoreP!OrderAfterEviction, Store!OrderAfterEviction,
       StoreP!SessionsAfterEviction, Store!SessionsAfterEviction,
       StoreP!SlotToEvict, Store!SlotToEvict, StoreP!LiveSlots, Store!LiveSlots,
       StoreP!Min, Store!Min

LEMMA PutEffect ==
  ASSUME StoreP!Inv, NEW s \in Sids, NEW session \in SessionRecords, Put(s, session)
  PROVE  /\ StoreP!Inv' /\ sessions'[s] = session
         /\ \A t \in Sids \ {s} :
               sessions'[t] = IF t \in Evicts(s) THEN None ELSE sessions[t]
<1>1. StoreP!Inv'
  <2>1. StoreP!Next
    BY SameSet DEF StoreP!Next
  <2> QED BY <2>1, StoreStep
<1>2. sessions \in [Sids -> SessionRecords \cup {None}]
  BY StoreTypes DEF Store!TypeOK
<1>3. CASE Store!SetExisting(s, session)
  BY <1>1, <1>2, <1>3 DEF Store!SetExisting, Evicts
<1>4. CASE Store!SetNew(s, session)
  <2>1. s \notin Store!Live
    BY <1>4 DEF Store!SetNew
  <2>2. CASE Store!Full
    <3>1. sessions' = [Store!SessionsAfterEviction EXCEPT ![s] = session]
      BY <1>4, <2>2 DEF Store!SetNew
    <3> QED BY <1>1, <1>2, <2>1, <2>2, <3>1 DEF Store!SessionsAfterEviction, Evicts
  <2>3. CASE ~ Store!Full
    <3>1. sessions' = [sessions EXCEPT ![s] = session]
      BY <1>4, <2>3 DEF Store!SetNew
    <3> QED BY <1>1, <1>2, <2>3, <3>1 DEF Evicts
  <2> QED BY <2>2, <2>3
<1> QED BY <1>3, <1>4 DEF Put, Store!Set

LEMMA DeleteEffect ==
  ASSUME StoreP!Inv, NEW s \in Sids, Store!Delete(s)
  PROVE  /\ StoreP!Inv' /\ sessions'[s] = None
         /\ \A t \in Sids \ {s} : sessions'[t] = sessions[t]
<1>1. StoreP!Delete(s)
  BY DEF Store!Delete, StoreP!Delete, Store!RemoveFirst, StoreP!RemoveFirst,
         Store!RemoveAt, StoreP!RemoveAt, Store!SelectInSeq, StoreP!SelectInSeq,
         Store!Min, StoreP!Min
<1>2. StoreP!Inv'
  <2>1. StoreP!Next
    BY <1>1 DEF StoreP!Next
  <2> QED BY <2>1, StoreStep
<1>3. sessions \in [Sids -> SessionRecords \cup {None}]
  BY StoreTypes DEF Store!TypeOK
<1> QED BY <1>2, <1>3 DEF Store!Delete

LEMMA SignatureEffect ==
  ASSUME StoreP!Inv, NEW s \in Sids, Store!SetThoughtSig(s, "f", "sig")
  PROVE  StoreP!Inv' /\ sessions' = sessions
<1>1. StoreP!Next
  BY DEF Store!SetThoughtSig, StoreP!SetThoughtSig, StoreP!Next
<1> QED BY <1>1, StoreStep DEF Store!SetThoughtSig

-----------------------------------------------------------------------------
(* What a step of one connection leaves to the others.                     *)

Alone(s) ==
    /\ DOMAIN call' = Sids /\ DOMAIN conn' = Sids
    /\ call' = [t \in Sids |-> call'[t]]
    /\ \A t \in Sids \ {s} :
          /\ call'[t] = call[t]
          /\ \/ conn'[t] = conn[t] /\ sessions'[t] = sessions[t]
             \/ conn'[t] = [conn[t] EXCEPT !.evicted = TRUE] /\ sessions'[t] = None

(* What every step keeps, and the one way a request goes out unconverted.  *)
StaleRefused(e, f) ==
    e.forwarded = "none" /\ f.forwarded = "raw" =>
        e.route[1] = "responses" /\ e.last \notin {"none", "end", "error"}

Kept ==
    /\ IInv'
    /\ \A s \in Sids : StaleRefused(conn[s], conn'[s])
    /\ Routes \subseteq StreamableRoutes /\ StreamsTracked => StreamsTracked'

(* A session that is evicted is one less to leave behind, and everything   *)
(* that needs it is only promised to connections that keep theirs.         *)
LEMMA EvictedTracked ==
  ASSUME NEW e, NEW c, NEW x, Tracked(e, c, x)
  PROVE  Tracked([e EXCEPT !.evicted = TRUE], c, None)
<1>1. PICK f : f = [e EXCEPT !.evicted = TRUE]
  OBVIOUS
<1>2. /\ f \in Exchanges /\ f.evicted
      /\ f.state = e.state /\ f.route = e.route /\ f.events = e.events /\ f.last = e.last
      /\ f.forwarded = e.forwarded /\ f.answer = e.answer /\ f.starts = e.starts
      /\ f.used = e.used /\ f.commented = e.commented
  BY <1>1 DEF Tracked, Exchanges
<1>3. Requested(f) = Requested(e)
  BY <1>2 DEF Requested
<1>4. Phased(f, c)
  BY <1>2 DEF Tracked, Phased
<1>5. ResponsesOnly(f, c, None)
  BY <1>2 DEF Tracked, ResponsesOnly
<1>6. BeforeAnswer(f, c, None)
  BY <1>2, <1>3 DEF Tracked, BeforeAnswer
<1>7. LeavesNothing(f, c, None)
  BY DEF LeavesNothing
<1>8. AnswersClient(f)
  BY <1>2 DEF Tracked, AnswersClient
<1> QED BY <1>1, <1>2, <1>4, <1>5, <1>6, <1>7, <1>8 DEF Tracked

LEMMA OthersTracked ==
  ASSUME IInv, NEW s \in Sids, Alone(s), StoreP!Inv',
         Tracked(conn'[s], call'[s], sessions'[s]),
         StaleRefused(conn[s], conn'[s]),
         Routes \subseteq StreamableRoutes /\ Streamed(conn[s], call[s], sessions[s])
            => Streamed(conn'[s], call'[s], sessions'[s])
  PROVE  Kept
<1>1. ASSUME NEW t \in Sids \ {s}
      PROVE  Tracked(conn'[t], call'[t], sessions'[t])
  BY EvictedTracked DEF Alone, IInv
<1>2. ASSUME NEW t \in Sids \ {s}
      PROVE  /\ StaleRefused(conn[t], conn'[t])
             /\ Streamed(conn[t], call[t], sessions[t])
                   => Streamed(conn'[t], call'[t], sessions'[t])
  <2>1. CASE conn'[t] = conn[t] /\ sessions'[t] = sessions[t]
    BY <2>1 DEF Alone, StaleRefused
  <2>2. CASE conn'[t] = [conn[t] EXCEPT !.evicted = TRUE] /\ sessions'[t] = None
    <3>1. conn[t] \in Exchanges
      BY DEF IInv, Tracked
    <3>2. conn'[t].evicted /\ conn'[t].forwarded = conn[t].forwarded
      BY <2>2, <3>1 DEF Exchanges
    <3> QED BY <3>2 DEF Streamed, Undisturbed, StaleRefused
  <2> QED BY <2>1, <2>2 DEF Alone
<1>3. IInv'
  BY <1>1 DEF IInv, Alone
<1> QED BY <1>2, <1>3 DEF Kept, StreamsTracked

LEMMA SameKept ==
  ASSUME IInv, StoreP!Inv', sessions' = sessions, call' = call, conn' = conn
  PROVE  Kept
<1>1. ASSUME NEW s \in Sids
      PROVE  ~ (conn[s].forwarded = "none" /\ conn'[s].forwarded = "raw")
  OBVIOUS
<1> QED BY <1>1 DEF Kept, IInv, StaleRefused, StreamsTracked

(* Putting a session in leaves the others alone; so does all else.         *)
LEMMA PutAlone ==
  ASSUME IInv, NEW s \in Sids, NEW session \in SessionRecords, Put(s, session),
         NEW exchange, Record(s, exchange), Return(s)
  PROVE  /\ Alone(s) /\ StoreP!Inv'
         /\ conn'[s] = exchange /\ call'[s] = NoCall /\ sessions'[s] = session
<1>1. /\ StoreP!Inv' /\ sessions'[s] = session
      /\ \A t \in Sids \ {s} :
            sessions'[t] = IF t \in Evicts(s) THEN None ELSE sessions[t]
  BY PutEffect DEF IInv
<1>2. /\ DOMAIN call' = Sids /\ call'[s] = NoCall
      /\ call' = [t \in Sids |-> call'[t]]
      /\ \A t \in Sids \ {s} : call'[t] = call[t]
  BY DEF Return, IInv
<1>3. /\ DOMAIN conn' = Sids /\ conn'[s] = exchange
      /\ \A t \in Sids \ {s} :
            conn'[t] = [conn[t] EXCEPT !.evicted = @ \/ t \in Evicts(s)]
  BY DEF Record
<1>4. ASSUME NEW t \in Sids \ {s}
      PROVE  \/ conn'[t] = conn[t] /\ sessions'[t] = sessions[t]
             \/ conn'[t] = [conn[t] EXCEPT !.evicted = TRUE] /\ sessions'[t] = None
  <2>1. CASE t \in Evicts(s)
    BY <1>1, <1>3, <2>1
  <2>2. CASE t \notin Evicts(s)
    <3>1. conn[t] \in Exchanges
      BY DEF IInv, Tracked
    <3>2. [conn[t] EXCEPT !.evicted = @ \/ t \in Evicts(s)] = conn[t]
      BY <2>2, <3>1 DEF Exchanges
    <3> QED BY <1>1, <1>3, <2>2, <3>2
  <2> QED BY <2>1, <2>2
<1> QED BY <1>1, <1>2, <1>3, <1>4 DEF Alone

LEMMA QuietAlone ==
  ASSUME IInv, NEW s \in Sids, NEW e, NEW c,
         conn' = [conn EXCEPT ![s] = e] \/ (conn' = conn /\ e = conn[s]),
         call' = [call EXCEPT ![s] = c] \/ (call' = call /\ c = call[s]),
         \A t \in Sids \ {s} : sessions'[t] = sessions[t]
  PROVE  Alone(s) /\ conn'[s] = e /\ call'[s] = c
BY DEF IInv, Alone

-----------------------------------------------------------------------------
(* The calls of the proxy.                                                 *)

Begun(op, x) ==
    [op |-> op,
     pc |-> IF op # "request" /\ (x # None /\ x.isResponses => op \in {"chunks", "event", "end", "error"})
            THEN "read" ELSE "act",
     responses |-> x # None /\ x.isResponses /\ op # "chunks", session |-> None]

LEMMA BeginEffect ==
  ASSUME IInv, NEW s \in Sids, NEW op, Begin(s, op)
  PROVE  /\ Quiet(s) /\ call' = [call EXCEPT ![s] = Begun(op, sessions[s])]
         /\ StoreP!Inv' /\ sessions' = sessions
<1>1. call' = [call EXCEPT ![s] = Begun(op, sessions[s])]
  BY DEF Begin, Begun, ReadsAgain, IsResponses
<1> QED BY <1>1, StoreKept DEF Begin, IInv

LEMMA BegunTyped ==
  ASSUME NEW op \in {"request", "response", "chunks", "start", "event", "end", "error"},
         NEW x \in SessionRecords \cup {None}
  PROVE  /\ Begun(op, x) \in CallRecords
         /\ Begun(op, x).op = op /\ Begun(op, x).session = None
         /\ Begun(op, x).responses \in BOOLEAN
         /\ Begun(op, x).responses <=> (x # None /\ x.isResponses /\ op # "chunks")
         /\ Begun(op, x).pc \in {"read", "act"}
         /\ op = "request" => Begun(op, x).pc = "act"
         /\ op \notin {"request", "response", "start"} => Begun(op, x).pc = "read"
         /\ op \in {"response", "start"} /\ Begun(op, x).pc = "act" => Begun(op, x).responses
<1>1. (x # None /\ x.isResponses) \in BOOLEAN
  BY DEF SessionRecords
<1>2. Begun(op, x).responses <=> (x # None /\ x.isResponses /\ op # "chunks")
  BY DEF Begun
<1> QED BY <1>1, <1>2 DEF Begun, CallRecords

Again(r, n, l) == [Fresh EXCEPT !.route = r, !.last = l, !.exchanges = n]

LEMMA FreshAgain ==
  ASSUME NEW r \in Routes \cup {None}, NEW n \in Nat,
         NEW l \in {"none", "response", "chunks", "end", "error", "abort", "refused"},
         NEW f, f = Again(r, n, l)
  PROVE  /\ f \in Exchanges /\ f.state = "idle" /\ f.route = r /\ f.events = 0 /\ f.last = l
         /\ f.forwarded = "none" /\ f.answer = None /\ f.starts = 0 /\ f.used = {}
         /\ ~ f.commented /\ ~ f.evicted /\ ~ f.closed
<1>1. f = [state |-> "idle", route |-> r, exchanges |-> n, events |-> 0,
           last |-> l, forwarded |-> "none", answer |-> None,
           starts |-> 0, used |-> {}, closed |-> FALSE, evicted |-> FALSE,
           commented |-> FALSE]
  BY DEF Fresh, Again
<1>2. 0 \in 0 .. MaxEvents /\ 0 \in 0 .. MaxEvents + 1
  <2>1. MaxEvents \in Nat
    BY BoundsAssumption
  <2> QED BY <2>1
<1>3. {} \in SUBSET Handlers /\ None \in Protocols \cup {None}
  OBVIOUS
<1>4. f \in Exchanges
  BY <1>1, <1>2, <1>3 DEF Exchanges
<1>5. /\ f.state = "idle" /\ f.route = r /\ f.events = 0 /\ f.last = l
      /\ f.forwarded = "none" /\ f.answer = None /\ f.starts = 0 /\ f.used = {}
  BY <1>1
<1>6. ~ f.commented /\ ~ f.evicted /\ ~ f.closed
  BY <1>1
<1> QED BY <1>4, <1>5, <1>6, Zenon

LEMMA RequestedTyped ==
  ASSUME NEW e \in Exchanges, e.route # None
  PROVE  /\ e.route \in Routes /\ e.route[1] \in Protocols /\ e.route[2] \in Protocols
         /\ e.route[1] # None /\ e.route[2] # None
         /\ Requested(e) \in SessionRecords /\ Requested(e) # None
         /\ Requested(e).from = e.route[1] /\ Requested(e).handler = None
         /\ Requested(e).isResponses <=> e.route[1] = "responses"
<1>1. e.route \in Routes
  BY DEF Exchanges
<1>2. e.route[1] \in Protocols /\ e.route[2] \in Protocols
  BY <1>1, RouteAssumption
<1>3. /\ Requested(e) \in SessionRecords
      /\ Requested(e).from = e.route[1] /\ Requested(e).handler = None
      /\ Requested(e).isResponses <=> e.route[1] = "responses"
  BY <1>2 DEF Requested, SessionRecords
<1> QED BY <1>1, <1>2, <1>3, NoneAssumption

LEMMA RequestStep ==
  ASSUME IInv, NEW s \in Sids, Request(s)
  PROVE  Kept
<1>1. PICK r \in Routes :
         /\ conn[s].route # None => r = conn[s].route
         /\ conn' = [conn EXCEPT ![s] = [Fresh EXCEPT !.route = r, !.last = conn[s].last,
                                                      !.exchanges = conn[s].exchanges + 1]]
  <2>1. conn[s].route \in Routes \cup {None}
    BY DEF IInv, Tracked, Exchanges
  <2>2. PICK r \in IF conn[s].route = None THEN Routes ELSE {conn[s].route} :
           conn' = [conn EXCEPT ![s] = [Fresh EXCEPT !.route = r, !.last = conn[s].last,
                                                     !.exchanges = conn[s].exchanges + 1]]
    BY DEF Request
  <2>3. r \in Routes /\ (conn[s].route # None => r = conn[s].route)
    BY <2>1, <2>2
  <2> QED BY <2>2, <2>3
<1>2. /\ Quiet(s) /\ call' = [call EXCEPT ![s] = Begun("request", sessions[s])]
      /\ StoreP!Inv' /\ sessions' = sessions /\ conn[s].state = "idle"
  BY BeginEffect DEF Request
<1>3. PICK e, c, x : e = conn[s] /\ c = call[s] /\ x = sessions[s]
  OBVIOUS
<1>4. PICK f, n : f = Again(r, n, e.last) /\ n = e.exchanges + 1
  OBVIOUS
<1>5. PICK d : d = Begun("request", x)
  OBVIOUS
<1>6. /\ Alone(s) /\ conn'[s] = f /\ call'[s] = d /\ sessions'[s] = x
  <2>1. \A t \in Sids \ {s} : sessions'[t] = sessions[t]
    BY <1>2
  <2>2. conn' = [conn EXCEPT ![s] = f] /\ call' = [call EXCEPT ![s] = d]
    BY <1>1, <1>2, <1>3, <1>4, <1>5 DEF Again
  <2>3. Alone(s) /\ conn'[s] = f /\ call'[s] = d
    BY <2>1, <2>2, QuietAlone, Zenon
  <2> QED BY <1>2, <1>3, <2>3
<1>7. Tracked(e, c, x)
  BY <1>3 DEF IInv
<1>8. /\ n \in Nat /\ x \in SessionRecords \cup {None}
      /\ e.last \in {"none", "response", "chunks", "end", "error", "abort", "refused"}
  BY <1>4, <1>7 DEF Tracked, Exchanges
<1>9. /\ d \in CallRecords /\ d.op = "request" /\ d.pc = "act" /\ d.session = None
      /\ d.responses <=> (x # None /\ x.isResponses)
  BY <1>5, <1>8, BegunTyped
<1>10. /\ f \in Exchanges /\ f.state = "idle" /\ f.route = r /\ f.events = 0 /\ f.last = e.last
       /\ f.forwarded = "none" /\ f.answer = None /\ f.starts = 0 /\ f.used = {}
       /\ ~ f.commented /\ ~ f.evicted
  BY <1>4, <1>8, FreshAgain
<1>11. r # None
  BY NoneAssumption
<1>12. Phased(f, d)
  BY <1>9, <1>10, <1>11 DEF Phased, Answering, Streaming
<1>13. ResponsesOnly(f, d, x)
  <2>1. c.op = "none" /\ e.state = "idle"
    BY <1>2, <1>3 DEF Quiet
  <2>2. x # None /\ x.isResponses => e.route # None /\ e.route[1] = "responses" /\ r = e.route
    BY <1>1, <1>3, <1>7 DEF Tracked, ResponsesOnly
  <2>3. x # None => e.last \notin {"none", "end", "error"}
    BY <1>7, <2>1 DEF Tracked, LeavesNothing
  <2> QED BY <1>9, <1>10, <1>11, <2>2, <2>3 DEF ResponsesOnly
<1>14. BeforeAnswer(f, d, x) /\ LeavesNothing(f, d, x) /\ AnswersClient(f)
  BY <1>9, <1>10 DEF BeforeAnswer, LeavesNothing, AnswersClient, Answering
<1>15. Tracked(f, d, x)
  BY <1>8, <1>9, <1>10, <1>12, <1>13, <1>14 DEF Tracked
<1>16. StaleRefused(e, f) /\ Streamed(f, d, x)
  BY <1>10 DEF StaleRefused, Streamed
<1> QED BY <1>2, <1>3, <1>6, <1>15, <1>16, OthersTracked

(* A call that begins with the answer or within the stream.                *)
LEMMA BeginStep ==
  ASSUME IInv, NEW s \in Sids, NEW op \in Answering \cup Streaming, Begin(s, op),
         conn' = conn,
         op \in Answering => conn[s].state = "sent",
         op \in Streaming => conn[s].state = "streaming",
         op = "event" => conn[s].events < MaxEvents
  PROVE  Kept
<1>1. /\ Quiet(s) /\ call' = [call EXCEPT ![s] = Begun(op, sessions[s])]
      /\ StoreP!Inv' /\ sessions' = sessions
  BY BeginEffect
<1>2. PICK e, x : e = conn[s] /\ x = sessions[s]
  OBVIOUS
<1>3. PICK d : d = Begun(op, x)
  OBVIOUS
<1>4. Alone(s) /\ conn'[s] = e /\ call'[s] = d /\ sessions'[s] = x
  <2>1. \A t \in Sids \ {s} : sessions'[t] = sessions[t]
    BY <1>1
  <2>2. call' = [call EXCEPT ![s] = d]
    BY <1>1, <1>2, <1>3
  <2>3. Alone(s) /\ conn'[s] = e /\ call'[s] = d
    BY <2>1, <2>2, <1>2, QuietAlone, Zenon
  <2> QED BY <1>1, <1>2, <2>3
<1>5. PICK c : c = call[s]
  OBVIOUS
<1>6. Tracked(e, c, x)
  BY <1>2, <1>5 DEF IInv
<1>7. /\ e \in Exchanges /\ x \in SessionRecords \cup {None}
      /\ op \in Answering => e.state = "sent"
      /\ op \in Streaming => e.state = "streaming"
      /\ op = "event" => e.events < MaxEvents
  BY <1>2, <1>6 DEF Tracked
<1>8. /\ d \in CallRecords /\ d.op = op /\ d.session = None /\ d.pc \in {"read", "act"}
      /\ d.responses <=> (x # None /\ x.isResponses /\ op # "chunks")
      /\ op \notin {"request", "response", "start"} => d.pc = "read"
      /\ op \in {"response", "start"} /\ d.pc = "act" => d.responses
  BY <1>3, <1>7, BegunTyped DEF Answering, Streaming
<1>9. Phased(e, d)
  BY <1>6, <1>7, <1>8 DEF Tracked, Phased, Answering, Streaming
<1>10. ResponsesOnly(e, d, x)
  BY <1>6, <1>8 DEF Tracked, ResponsesOnly, Answering, Streaming
<1>11. BeforeAnswer(e, d, x)
  <2>1. op \in Answering /\ ~ e.evicted => x = Requested(e) /\ x # None
    <3>1. e.state = "sent" => e.route # None
      BY <1>6 DEF Tracked, Phased
    <3> QED BY <1>6, <1>7, <3>1, RequestedTyped DEF Tracked, BeforeAnswer
  <2>2. Requested(e).isResponses <=> e.route[1] = "responses"
    BY DEF Requested
  <2>3. e.state = "sent" => x \in {Requested(e), None} /\ (~ e.evicted => x = Requested(e))
    BY <1>6 DEF Tracked, BeforeAnswer
  <2> QED BY <1>8, <2>1, <2>2, <2>3 DEF BeforeAnswer, Answering
<1>12. LeavesNothing(e, d, x) /\ AnswersClient(e)
  BY <1>6, <1>7, <1>8 DEF Tracked, LeavesNothing, Answering, Streaming
<1>13. Tracked(e, d, x)
  BY <1>6, <1>7, <1>8, <1>9, <1>10, <1>11, <1>12 DEF Tracked
<1>14. StaleRefused(e, e)
  BY DEF StaleRefused
<1>15. Streamed(e, c, x) => Streamed(e, d, x)
  BY <1>8 DEF Streamed, Streaming
<1> QED BY <1>1, <1>2, <1>4, <1>5, <1>13, <1>14, <1>15, OthersTracked

LEMMA AbortStep ==
  ASSUME IInv, NEW s \in Sids, Abort(s)
  PROVE  Kept
<1>1. PICK e, c, x : e = conn[s] /\ c = call[s] /\ x = sessions[s]
  OBVIOUS
<1>2. PICK f : f = Again(e.route, e.exchanges, "abort")
  OBVIOUS
<1>3. Tracked(e, c, x)
  BY <1>1 DEF IInv
<1>4. StoreP!Inv' /\ sessions' = sessions /\ c.op = "none" /\ e.state # "idle"
  BY <1>1, StoreKept DEF Abort, IInv, Quiet
<1>5. Alone(s) /\ conn'[s] = f /\ call'[s] = c /\ sessions'[s] = x
  <2>1. \A t \in Sids \ {s} : sessions'[t] = sessions[t]
    BY <1>4
  <2>2. conn' = [conn EXCEPT ![s] = f] /\ call' = call
    BY <1>1, <1>2 DEF Abort, Again
  <2>3. Alone(s) /\ conn'[s] = f /\ call'[s] = c
    BY <2>1, <2>2, <1>1, QuietAlone, Zenon
  <2> QED BY <1>1, <1>4, <2>3
<1>6. /\ e.route \in Routes \cup {None} /\ e.exchanges \in Nat
      /\ e.route # None
  BY <1>3, <1>4 DEF Tracked, Exchanges, Phased
<1>7. /\ f \in Exchanges /\ f.state = "idle" /\ f.route = e.route /\ f.events = 0
      /\ f.last = "abort" /\ f.forwarded = "none" /\ f.answer = None /\ f.starts = 0
      /\ f.used = {} /\ ~ f.commented /\ ~ f.evicted
  BY <1>2, <1>6, FreshAgain
<1>8. Phased(f, c)
  BY <1>3, <1>4, <1>7 DEF Tracked, Phased, Answering, Streaming
<1>9. ResponsesOnly(f, c, x)
  BY <1>3, <1>4, <1>7 DEF Tracked, ResponsesOnly
<1>10. BeforeAnswer(f, c, x) /\ LeavesNothing(f, c, x) /\ AnswersClient(f)
  BY <1>4, <1>7 DEF BeforeAnswer, LeavesNothing, AnswersClient, Answering
<1>11. Tracked(f, c, x)
  BY <1>3, <1>7, <1>8, <1>9, <1>10 DEF Tracked
<1>12. StaleRefused(e, f) /\ Streamed(f, c, x)
  BY <1>7 DEF StaleRefused, Streamed
<1> QED BY <1>1, <1>4, <1>5, <1>11, <1>12, OthersTracked

LEMMA ReadStep ==
  ASSUME IInv, NEW s \in Sids, Read(s)
  PROVE  Kept
<1>1. PICK e, c, x : e = conn[s] /\ c = call[s] /\ x = sessions[s]
  OBVIOUS
<1>2. PICK d : d = [c EXCEPT !.session = x, !.pc = "act"]
  OBVIOUS
<1>3. Tracked(e, c, x)
  BY <1>1 DEF IInv
<1>4. StoreP!Inv' /\ sessions' = sessions /\ c.pc = "read"
  BY <1>1, StoreKept DEF Read, IInv
<1>5. Alone(s) /\ conn'[s] = e /\ call'[s] = d /\ sessions'[s] = x
  <2>1. \A t \in Sids \ {s} : sessions'[t] = sessions[t]
    BY <1>4
  <2>2. conn' = conn /\ call' = [call EXCEPT ![s] = d]
    BY <1>1, <1>2 DEF Read
  <2>3. Alone(s) /\ conn'[s] = e /\ call'[s] = d
    BY <2>1, <2>2, <1>1, QuietAlone, Zenon
  <2> QED BY <1>1, <1>4, <2>3
<1>6. /\ d \in CallRecords /\ d.op = c.op /\ d.pc = "act" /\ d.session = x
      /\ d.responses = c.responses
  BY <1>2, <1>3 DEF Tracked, CallRecords
<1>7. Phased(e, d)
  BY <1>3, <1>4, <1>6 DEF Tracked, Phased
<1>8. ResponsesOnly(e, d, x)
  BY <1>3, <1>6 DEF Tracked, ResponsesOnly
<1>9. BeforeAnswer(e, d, x)
  BY <1>3, <1>6 DEF Tracked, BeforeAnswer, Phased
<1>10. LeavesNothing(e, d, x) /\ AnswersClient(e)
  BY <1>3, <1>6 DEF Tracked, LeavesNothing
<1>11. Tracked(e, d, x)
  BY <1>3, <1>6, <1>7, <1>8, <1>9, <1>10 DEF Tracked
<1>12. StaleRefused(e, e)
  BY DEF StaleRefused
<1>13. Streamed(e, c, x) => Streamed(e, d, x)
  BY <1>6 DEF Streamed
<1> QED BY <1>1, <1>4, <1>5, <1>11, <1>12, <1>13, OthersTracked

-----------------------------------------------------------------------------
(* The last steps of the calls.                                            *)

LEMMA NothingUnderWay ==
  NoCall \in CallRecords /\ NoCall.op = "none" /\ NoCall.pc = "idle" /\ ~ NoCall.responses
BY DEF NoCall, CallRecords

(* A call that puts nothing in leaves the others' sessions alone.          *)
LEMMA ReturnAlone ==
  ASSUME IInv, NEW s \in Sids, NEW f, Return(s),
         conn' = [conn EXCEPT ![s] = f],
         \A t \in Sids \ {s} : sessions'[t] = sessions[t]
  PROVE  Alone(s) /\ conn'[s] = f /\ call'[s] = NoCall
<1>1. call' = [call EXCEPT ![s] = NoCall]
  BY DEF Return
<1> QED BY <1>1, QuietAlone, Zenon

LEMMA ConvertRequestStep ==
  ASSUME IInv, NEW s \in Sids, ConvertRequest(s)
  PROVE  Kept
<1>1. PICK e, c, x : e = conn[s] /\ c = call[s] /\ x = sessions[s]
  OBVIOUS
<1>2. Tracked(e, c, x)
  BY <1>1 DEF IInv
<1>3. c.op = "request" /\ c.pc = "act" /\ e \in Exchanges /\ x \in SessionRecords \cup {None}
  BY <1>1, <1>2 DEF ConvertRequest, Acts, Tracked
<1>4. /\ e.route # None /\ e.starts = 0 /\ e.events = 0 /\ e.used = {} /\ ~ e.commented
      /\ e.answer = None
  BY <1>2, <1>3 DEF Tracked, Phased
<1>5. CASE c.responses
  <2>1. PICK f : f = [e EXCEPT !.state = "idle", !.last = "refused", !.forwarded = "raw"]
    OBVIOUS
  <2>2. StoreP!Inv' /\ sessions' = sessions
    BY <1>1, <1>5, StoreKept DEF ConvertRequest, IInv
  <2>3. Alone(s) /\ conn'[s] = f /\ call'[s] = NoCall /\ sessions'[s] = x
    <3>1. \A t \in Sids \ {s} : sessions'[t] = sessions[t]
      BY <2>2
    <3>2. conn' = [conn EXCEPT ![s] = f] /\ Return(s)
      BY <1>1, <1>5, <2>1 DEF ConvertRequest
    <3>3. Alone(s) /\ conn'[s] = f /\ call'[s] = NoCall
      BY <3>1, <3>2, ReturnAlone, Zenon
    <3> QED BY <1>1, <2>2, <3>3
  <2>4. /\ f \in Exchanges /\ f.state = "idle" /\ f.route = e.route /\ f.events = e.events
        /\ f.last = "refused" /\ f.answer = e.answer /\ f.starts = e.starts
        /\ f.used = e.used /\ f.commented = e.commented
    BY <1>3, <2>1 DEF Exchanges
  <2>5. Phased(f, NoCall)
    BY <1>4, <2>4, NothingUnderWay DEF Phased, Answering, Streaming
  <2>6. ResponsesOnly(f, NoCall, x)
    BY <1>2, <2>4, NothingUnderWay DEF Tracked, ResponsesOnly
  <2>7. BeforeAnswer(f, NoCall, x) /\ LeavesNothing(f, NoCall, x) /\ AnswersClient(f)
    BY <1>4, <2>4, NothingUnderWay DEF BeforeAnswer, LeavesNothing, AnswersClient, Answering
  <2>8. Tracked(f, NoCall, x)
    BY <1>3, <2>4, <2>5, <2>6, <2>7, NothingUnderWay DEF Tracked
  <2>9. StaleRefused(e, f)
    BY <1>2, <1>3, <1>5 DEF StaleRefused, Tracked, ResponsesOnly
  <2>10. Streamed(f, NoCall, x)
    BY <1>4, <2>4 DEF Streamed
  <2> QED BY <1>1, <2>2, <2>3, <2>8, <2>9, <2>10, OthersTracked
<1>6. CASE ~ c.responses
  <2>1. PICK f : f = [e EXCEPT !.state = "sent", !.forwarded = "converted"]
    OBVIOUS
  <2>3. /\ Alone(s) /\ StoreP!Inv' /\ conn'[s] = f /\ call'[s] = NoCall
        /\ sessions'[s] = Requested(e)
    <3>1. Put(s, Requested(e)) /\ Record(s, f) /\ Return(s)
      BY <1>1, <1>6, <2>1 DEF ConvertRequest, Requested, Client
    <3>2. Requested(e) \in SessionRecords
      BY <1>3, <1>4, RequestedTyped
    <3> QED BY <3>1, <3>2, PutAlone
  <2>4. /\ f \in Exchanges /\ f.state = "sent" /\ f.route = e.route /\ f.events = e.events
        /\ f.forwarded = "converted"
        /\ f.last = e.last /\ f.answer = e.answer /\ f.starts = e.starts
        /\ f.used = e.used /\ f.commented = e.commented
    BY <1>3, <2>1 DEF Exchanges
  <2>5. Phased(f, NoCall)
    BY <1>4, <2>4, NothingUnderWay DEF Phased, Answering, Streaming
  <2>6. ResponsesOnly(f, NoCall, Requested(e))
    <3>1. Requested(e).isResponses <=> e.route[1] = "responses"
      BY <1>3, <1>4, RequestedTyped
    <3> QED BY <1>4, <2>4, <3>1, NothingUnderWay DEF ResponsesOnly
  <2>7. Requested(f) = Requested(e)
    BY <2>4 DEF Requested
  <2>8. BeforeAnswer(f, NoCall, Requested(e))
    BY <2>4, <2>7, NothingUnderWay DEF BeforeAnswer, Answering
  <2>9. LeavesNothing(f, NoCall, Requested(e)) /\ AnswersClient(f)
    BY <1>4, <2>4 DEF LeavesNothing, AnswersClient
  <2>10. Requested(e) \in SessionRecords
    BY <1>3, <1>4, RequestedTyped
  <2>11. Tracked(f, NoCall, Requested(e))
    BY <2>4, <2>5, <2>6, <2>8, <2>9, <2>10, NothingUnderWay DEF Tracked
  <2>12. StaleRefused(e, f) /\ Streamed(f, NoCall, Requested(e))
    BY <2>4 DEF StaleRefused, Streamed
  <2> QED BY <1>1, <2>3, <2>11, <2>12, OthersTracked
<1> QED BY <1>5, <1>6

(* The answer to a plain request is the client's, and nothing but a        *)
(* Responses session stays.                                                *)
LEMMA AnsweredStep ==
  ASSUME NEW e, NEW c, NEW x, Tracked(e, c, x), c.op \in Answering,
         NEW l \in {"response", "chunks"}, NEW p \in Protocols,
         NEW f, f.evicted <=> e.evicted, f \in Exchanges, f.state = "idle", f.route = e.route, f.last = l,
         f.answer = p, f.starts = e.starts, f.events = e.events,
         f.used = e.used, f.forwarded = e.forwarded,
         NEW y \in {x, None},
         y = None \/ l = "chunks" \/ c.responses,
         \/ e.evicted /\ ~ (UriKnown /\ e.route[1] # "responses" /\ l # "chunks")
         \/ l = "chunks" /\ e.route[1] \notin {"anthropic", "openai"}
         \/ p = e.route[1]
  PROVE  Tracked(f, NoCall, y) /\ StaleRefused(e, f) /\ Streamed(f, NoCall, y)
<1>1. e.route # None /\ e.starts <= e.events + 1 /\ x \in SessionRecords \cup {None}
  BY DEF Tracked, Phased, Answering
<1>2. Phased(f, NoCall)
  BY <1>1, NothingUnderWay DEF Phased, Answering, Streaming
<1>3. ResponsesOnly(f, NoCall, y)
  BY <1>1, NothingUnderWay DEF Tracked, ResponsesOnly
<1>4. BeforeAnswer(f, NoCall, y)
  BY NothingUnderWay DEF BeforeAnswer, Answering
<1>5. LeavesNothing(f, NoCall, y)
  BY <1>1 DEF Tracked, ResponsesOnly, LeavesNothing
<1>6. AnswersClient(f)
  BY DEF AnswersClient
<1>7. Tracked(f, NoCall, y)
  BY <1>1, <1>2, <1>3, <1>4, <1>5, <1>6, NothingUnderWay DEF Tracked
<1>8. StaleRefused(e, f)
  BY DEF StaleRefused
<1>9. Streamed(f, NoCall, y)
  BY DEF Streamed, Tracked, Phased
<1> QED BY <1>7, <1>8, <1>9

LEMMA ConvertResponseStep ==
  ASSUME IInv, NEW s \in Sids, ConvertResponse(s)
  PROVE  Kept
<1>1. PICK e, c, x : e = conn[s] /\ c = call[s] /\ x = sessions[s]
  OBVIOUS
<1>2. Tracked(e, c, x)
  BY <1>1 DEF IInv
<1>3. /\ c.op = "response" /\ c.pc = "act" /\ c.op \in Answering
      /\ e \in Exchanges /\ e.route # None
  BY <1>1, <1>2 DEF ConvertResponse, Acts, Tracked, Phased, Answering
<1>4. PICK p : p = IF c.responses THEN "responses"
                   ELSE IF ClientOfResponse(s) \in {None, "responses"} THEN Upstream(s)
                   ELSE ClientOfResponse(s)
  OBVIOUS
<1>5. PICK f : f = [e EXCEPT !.state = "idle", !.last = "response", !.answer = p]
  OBVIOUS
<1>6. /\ conn' = [conn EXCEPT ![s] = f] /\ Return(s)
      /\ IF c.responses THEN UNCHANGED store ELSE Store!Delete(s)
  BY <1>1, <1>4, <1>5 DEF ConvertResponse
<1>7. /\ StoreP!Inv' /\ \A t \in Sids \ {s} : sessions'[t] = sessions[t]
      /\ sessions'[s] = IF c.responses THEN x ELSE None
  <2>1. CASE c.responses
    BY <1>1, <1>6, <2>1, StoreKept DEF IInv
  <2>2. CASE ~ c.responses
    BY <1>6, <2>2, DeleteEffect DEF IInv
  <2> QED BY <2>1, <2>2
<1>8. Alone(s) /\ conn'[s] = f /\ call'[s] = NoCall
  BY <1>6, <1>7, ReturnAlone, Zenon
<1>9. /\ c.responses => e.route[1] = "responses"
      /\ c.session \in {Requested(e), None}
      /\ ~ e.evicted /\ ~ c.responses => c.session = Requested(e) /\ e.route[1] # "responses"
  BY <1>2, <1>3 DEF Tracked, ResponsesOnly, BeforeAnswer
<1>10. /\ e.route[1] \in Protocols /\ e.route[2] \in Protocols /\ e.route[1] # None
       /\ Requested(e) # None /\ Requested(e).from = e.route[1]
  BY <1>3, RequestedTyped
<1>11. ClientOfResponse(s) = IF c.session = Requested(e) \/ UriKnown THEN e.route[1] ELSE None
  BY <1>1, <1>9, <1>10 DEF ClientOfResponse, Client
<1>12. /\ p \in Protocols
       /\ \/ e.evicted /\ ~ (UriKnown /\ e.route[1] # "responses")
          \/ p = e.route[1]
  BY <1>1, <1>4, <1>9, <1>10, <1>11 DEF Upstream, Protocols
<1>13. /\ f \in Exchanges /\ f.state = "idle" /\ f.route = e.route /\ f.events = e.events
       /\ f.last = "response" /\ f.answer = p /\ f.starts = e.starts
       /\ f.used = e.used /\ f.forwarded = e.forwarded
       /\ f.evicted <=> e.evicted
  BY <1>3, <1>5, <1>12 DEF Exchanges
<1>14. PICK y : y = IF c.responses THEN x ELSE None
  OBVIOUS
<1>15. Tracked(f, NoCall, y) /\ StaleRefused(e, f) /\ Streamed(f, NoCall, y)
  <2>1. y \in {x, None} /\ (y = None \/ c.responses)
    BY <1>14
  <2> QED BY <1>2, <1>3, <1>12, <1>13, <2>1, AnsweredStep
<1> QED BY <1>1, <1>7, <1>8, <1>14, <1>15, OthersTracked

LEMMA ConvertChunksStep ==
  ASSUME IInv, NEW s \in Sids, ConvertChunks(s)
  PROVE  Kept
<1>1. PICK e, c, x : e = conn[s] /\ c = call[s] /\ x = sessions[s]
  OBVIOUS
<1>2. Tracked(e, c, x)
  BY <1>1 DEF IInv
<1>3. /\ c.op = "chunks" /\ c.pc = "act" /\ c.op \in Answering
      /\ e \in Exchanges /\ e.route # None
  BY <1>1, <1>2 DEF ConvertChunks, Acts, Tracked, Phased, Answering
<1>4. PICK p : p = ClientOfChunks(s)
  OBVIOUS
<1>5. PICK f : f = [e EXCEPT !.state = "idle", !.last = "chunks", !.answer = p]
  OBVIOUS
<1>6. conn' = [conn EXCEPT ![s] = f] /\ Return(s) /\ UNCHANGED store
  BY <1>1, <1>4, <1>5 DEF ConvertChunks
<1>7. StoreP!Inv' /\ sessions' = sessions
  BY <1>6, StoreKept DEF IInv
<1>8. Alone(s) /\ conn'[s] = f /\ call'[s] = NoCall
  <2>1. \A t \in Sids \ {s} : sessions'[t] = sessions[t]
    BY <1>7
  <2> QED BY <1>6, <2>1, ReturnAlone, Zenon
<1>9. ~ e.evicted => c.session = Requested(e)
  BY <1>2, <1>3 DEF Tracked, BeforeAnswer
<1>10. Requested(e) # None /\ Requested(e).from = e.route[1]
  BY <1>3, RequestedTyped
<1>11. /\ p \in Protocols
       /\ \/ e.evicted
          \/ e.route[1] \notin {"anthropic", "openai"}
          \/ p = e.route[1]
  BY <1>1, <1>4, <1>9, <1>10 DEF ClientOfChunks, Protocols
<1>12. /\ f \in Exchanges /\ f.state = "idle" /\ f.route = e.route /\ f.events = e.events
       /\ f.last = "chunks" /\ f.answer = p /\ f.starts = e.starts
       /\ f.used = e.used /\ f.forwarded = e.forwarded
       /\ f.evicted <=> e.evicted
  BY <1>3, <1>5, <1>11 DEF Exchanges
<1>13. Tracked(f, NoCall, x) /\ StaleRefused(e, f) /\ Streamed(f, NoCall, x)
  BY <1>2, <1>3, <1>11, <1>12, AnsweredStep
<1> QED BY <1>1, <1>7, <1>8, <1>13, OthersTracked

LEMMA PickedTyped ==
  ASSUME NEW s \in Sids, NEW u \in Protocols \ {"responses"}, conn[s].route[2] \in Protocols,
         call[s] \in CallRecords
  PROVE  /\ Picked(s, u) \in SessionRecords /\ Picked(s, u).handler \in Handlers
         /\ Picked(s, u).isResponses <=> call[s].responses
<1>1. StreamTarget(s) \in Protocols \cup {None}
  <2>1. ResolveModel(Upstream(s)) \in Protocols \cup {None}
    BY DEF ResolveModel, OppositeProtocol, Upstream, Protocols
  <2>2. call[s].session = None \/ call[s].session.from \in Protocols \cup {None}
    BY DEF CallRecords, SessionRecords
  <2> QED BY <2>1, <2>2 DEF StreamTarget
<1>2. StreamHandler(u, StreamTarget(s)) \in Handlers
  <2>1. CASE u = StreamTarget(s)
    BY <2>1 DEF StreamHandler, Passthrough, Handlers
  <2>2. CASE u # StreamTarget(s) /\ u = "gemini" /\ StreamTarget(s) \in {"openai", "anthropic"}
    BY <2>2 DEF StreamHandler, Handlers, Protocols
  <2>3. CASE u # StreamTarget(s) /\ ~ (u = "gemini" /\ StreamTarget(s) \in {"openai", "anthropic"})
    BY <2>3 DEF StreamHandler, OpenAIToAnthropic, Handlers, Protocols
  <2> QED BY <2>1, <2>2, <2>3
<1>3. ResponsesHandler(u) \in Handlers
  BY DEF ResponsesHandler, Handlers, Protocols
<1>4. call[s].responses \in BOOLEAN
  BY DEF CallRecords
<1> QED BY <1>1, <1>2, <1>3, <1>4 DEF Picked, SessionRecords

LEMMA RouteForms ==
  ASSUME NEW r \in StreamableRoutes
  PROVE  \/ r[1] = r[2]
         \/ r[1] \in {"openai", "anthropic"} /\ r[2] = "gemini"
         \/ r[1] = "anthropic" /\ r[2] = "openai"
         \/ r[1] = "responses" /\ r[2] \in {"anthropic", "openai"}
<1>1. ASSUME NEW p, NEW q, r = <<p, q>>
      PROVE  r[1] = p /\ r[2] = q
  BY <1>1
<1>2. \/ \E p \in Protocols : r = <<p, p>>
      \/ r = <<"openai", "gemini">> \/ r = <<"anthropic", "gemini">>
      \/ r = <<"anthropic", "openai">>
      \/ r = <<"responses", "anthropic">> \/ r = <<"responses", "openai">>
  BY Zenon DEF StreamableRoutes
<1>3. CASE \E p \in Protocols : r = <<p, p>>
  <2>1. PICK p \in Protocols : r = <<p, p>>
    BY <1>3
  <2>2. r[1] = r[2]
    BY <1>1, <2>1
  <2> QED BY <2>2
<1>4. CASE r = <<"openai", "gemini">> \/ r = <<"anthropic", "gemini">>
  BY <1>1, <1>4
<1>5. CASE r = <<"anthropic", "openai">>
  BY <1>1, <1>5
<1>6. CASE r = <<"responses", "anthropic">> \/ r = <<"responses", "openai">>
  BY <1>1, <1>6
<1> QED BY <1>2, <1>3, <1>4, <1>5, <1>6

(* The handler of the first chunk is the one the route needs: the session  *)
(* says who the client is, and the chunk who the upstream is.              *)
LEMMA PickedFits ==
  ASSUME NEW s \in Sids, NEW e \in Exchanges, e = conn[s], NEW c, c = call[s],
         e.route \in StreamableRoutes, e.route # None,
         c.responses \in BOOLEAN, c.responses <=> e.route[1] = "responses",
         ~ c.responses => c.session = Requested(e)
  PROVE  Fits(e, Picked(s, Upstream(s)).handler)
<1>1. PICK a, b : a = e.route[1] /\ b = e.route[2] /\ b = Upstream(s)
  BY DEF Upstream
<1>2. a \in Protocols /\ b \in Protocols \ {"responses"}
  BY <1>1, RequestedTyped, RouteAssumption
<1>3. \A h \in Handlers : h # None
  BY NoneAssumption
<1>4. \/ a = b
      \/ a \in {"openai", "anthropic"} /\ b = "gemini"
      \/ a = "anthropic" /\ b = "openai"
      \/ a = "responses" /\ b \in {"anthropic", "openai"}
  BY <1>1, RouteForms
<1>5. CASE c.responses
  <2>1. Picked(s, b).handler = ResponsesHandler(b)
    BY <1>5 DEF Picked
  <2>2. a = "responses" /\ b \in {"anthropic", "openai"}
    BY <1>1, <1>2, <1>4, <1>5
  <2>3. ResponsesHandler(b) \in Handlers /\ ResponsesHandler(b).reads = b
        /\ ResponsesHandler(b).writes = "responses"
    BY <2>2 DEF ResponsesHandler, Handlers, Protocols
  <2> QED BY <1>1, <1>3, <2>1, <2>2, <2>3 DEF Fits
<1>6. CASE ~ c.responses
  <2>1. StreamTarget(s) = a
    <3>1. Requested(e) # None /\ Requested(e).from = a /\ a # None
      BY <1>1, RequestedTyped
    <3> QED BY <1>6, <3>1 DEF StreamTarget
  <2>2. Picked(s, b).handler = StreamHandler(b, a)
    BY <1>6, <2>1 DEF Picked
  <2>3. /\ StreamHandler(b, a) \in Handlers
        /\ StreamHandler(b, a).reads = b /\ StreamHandler(b, a).writes = a
    <3>1. \/ a = b
          \/ a \in {"openai", "anthropic"} /\ b = "gemini"
          \/ a = "anthropic" /\ b = "openai"
      BY <1>1, <1>4, <1>6
    <3>2. CASE a = b
      BY <1>2, <3>2 DEF StreamHandler, Passthrough, Handlers
    <3>3. CASE b = "gemini" /\ a \in {"openai", "anthropic"}
      BY <3>3 DEF StreamHandler, Handlers, Protocols
    <3>4. CASE b = "openai" /\ a = "anthropic"
      BY <3>4 DEF StreamHandler, OpenAIToAnthropic, Handlers, Protocols
    <3> QED BY <3>1, <3>2, <3>3, <3>4
  <2> QED BY <1>1, <1>3, <2>2, <2>3 DEF Fits
<1> QED BY <1>5, <1>6

(* Within a stream there is no answer, and nothing else is promised but    *)
(* that a Responses session is a Responses client's.                       *)
LEMMA StreamingStep ==
  ASSUME NEW e, NEW c, NEW x, Tracked(e, c, x), c.op \in Answering \cup Streaming,
         NEW f \in Exchanges, f.state = "streaming", f.route = e.route, f.answer = None,
         f.forwarded = e.forwarded, f.starts <= f.events + 1,
         NEW y \in SessionRecords \cup {None},
         y # None /\ y.isResponses => c.responses \/ y = x
  PROVE  Tracked(f, NoCall, y) /\ StaleRefused(e, f)
<1>1. e.route # None
  BY DEF Tracked, Phased, Answering, Streaming
<1>2. Phased(f, NoCall)
  BY <1>1, NothingUnderWay DEF Phased, Answering, Streaming
<1>3. ResponsesOnly(f, NoCall, y)
  BY NothingUnderWay DEF Tracked, ResponsesOnly
<1>4. BeforeAnswer(f, NoCall, y)
  BY NothingUnderWay DEF BeforeAnswer, Answering
<1>5. LeavesNothing(f, NoCall, y) /\ AnswersClient(f)
  BY DEF LeavesNothing, AnswersClient
<1>6. Tracked(f, NoCall, y)
  BY <1>2, <1>3, <1>4, <1>5, NothingUnderWay DEF Tracked
<1> QED BY <1>6 DEF StaleRefused

LEMMA HandleStartStep ==
  ASSUME IInv, NEW s \in Sids, HandleStart(s)
  PROVE  Kept
<1>1. PICK e, c, x : e = conn[s] /\ c = call[s] /\ x = sessions[s]
  OBVIOUS
<1>2. Tracked(e, c, x)
  BY <1>1 DEF IInv
<1>3. /\ c.op \in Answering \cup Streaming /\ e \in Exchanges /\ e.route # None
      /\ e.starts = 0 /\ e.events = 0 /\ e.answer = None /\ c \in CallRecords
      /\ e.used = {}
  BY <1>1, <1>2 DEF HandleStart, Acts, Tracked, Phased, Answering
<1>4. PICK y : y = Picked(s, Upstream(s))
  OBVIOUS
<1>5. /\ y \in SessionRecords /\ y.handler \in Handlers
      /\ y.isResponses => c.responses
  <2>1. e.route[2] \in Protocols \ {"responses"}
    BY <1>3, RequestedTyped, RouteAssumption DEF Exchanges
  <2> QED BY <1>1, <1>3, <1>4, <2>1, PickedTyped DEF Upstream
<1>6. PICK f : f = [e EXCEPT !.state = "streaming", !.starts = @ + 1,
                             !.used = @ \cup {y.handler}]
  OBVIOUS
<1>7. /\ f \in Exchanges /\ f.state = "streaming" /\ f.route = e.route /\ f.answer = None
      /\ f.starts <= f.events + 1 /\ f.forwarded = e.forwarded
      /\ f.starts = 1 /\ f.used = {y.handler}
      /\ (f.evicted <=> e.evicted) /\ (f.commented <=> e.commented)
  <2>1. MaxEvents \in Nat
    BY BoundsAssumption
  <2>2. PICK n \in 0 .. MaxEvents + 1, H \in SUBSET Handlers :
           n = e.starts + 1 /\ H = e.used \cup {y.handler} /\ n = 1
    <3>1. e.starts + 1 \in 0 .. MaxEvents + 1 /\ e.starts + 1 = 1
      BY <1>3, <2>1
    <3>2. e.used \cup {y.handler} \in SUBSET Handlers
      BY <1>3, <1>5 DEF Exchanges
    <3> QED BY <3>1, <3>2
  <2>3. f = [e EXCEPT !.state = "streaming", !.starts = n, !.used = H]
    BY <1>6, <2>2
  <2>4. /\ f \in Exchanges /\ f.state = "streaming" /\ f.route = e.route
        /\ f.answer = e.answer /\ f.starts = n /\ f.events = e.events
        /\ f.forwarded = e.forwarded /\ f.used = H
    BY <1>3, <2>3 DEF Exchanges
  <2>5. (f.evicted <=> e.evicted) /\ (f.commented <=> e.commented)
    BY <1>3, <2>3 DEF Exchanges
  <2> QED BY <1>3, <2>2, <2>4, <2>5
<1>8. Tracked(f, NoCall, y) /\ StaleRefused(e, f)
  BY <1>2, <1>3, <1>5, <1>7, StreamingStep
<1>9. Put(s, y) /\ Record(s, f) /\ Return(s)
  BY <1>1, <1>4, <1>6 DEF HandleStart
<1>10. Routes \subseteq StreamableRoutes => Streamed(f, NoCall, y)
  <2> SUFFICES ASSUME Routes \subseteq StreamableRoutes, Undisturbed(f)
               PROVE  y # None /\ Fits(f, y.handler)
    BY <1>3, <1>7, NothingUnderWay DEF Streamed, Streaming
  <2>1. e.route \in StreamableRoutes /\ ~ e.evicted
    BY <1>3, <1>7 DEF Undisturbed, Exchanges
  <2>2. /\ c.responses \in BOOLEAN /\ (c.responses <=> e.route[1] = "responses")
        /\ ~ c.responses => c.session = Requested(e)
    <3>1. c.op = "start" /\ c.pc = "act"
      BY <1>1 DEF HandleStart, Acts
    <3> QED BY <1>2, <1>3, <2>1, <3>1 DEF Tracked, BeforeAnswer, Answering, CallRecords
  <2>3. Fits(e, y.handler)
    BY <1>1, <1>3, <1>4, <2>1, <2>2, PickedFits
  <2> QED BY <1>5, <1>7, <2>3, NoneAssumption DEF Fits
<1> QED BY <1>1, <1>5, <1>8, <1>9, <1>10, PutAlone, OthersTracked

LEMMA HandleStartCommentStep ==
  ASSUME IInv, NEW s \in Sids, HandleStartComment(s)
  PROVE  Kept
<1>1. PICK e, c, x : e = conn[s] /\ c = call[s] /\ x = sessions[s]
  OBVIOUS
<1>2. Tracked(e, c, x)
  BY <1>1 DEF IInv
<1>3. /\ c.op \in Answering \cup Streaming /\ e \in Exchanges /\ e.route # None
      /\ e.starts = 0 /\ e.events = 0 /\ e.answer = None /\ c \in CallRecords
      /\ x \in SessionRecords \cup {None} /\ e.used = {} /\ e.state = "sent"
  BY <1>1, <1>2 DEF HandleStartComment, Acts, Tracked, Phased, Answering
<1>4. PICK f : f = [e EXCEPT !.state = "streaming", !.commented = TRUE]
  OBVIOUS
<1>5. /\ f \in Exchanges /\ f.state = "streaming" /\ f.route = e.route /\ f.answer = None
      /\ f.starts <= f.events + 1 /\ f.forwarded = e.forwarded
      /\ f.starts = 0 /\ f.events = 0 /\ f.used = {} /\ f.commented
      /\ f.evicted <=> e.evicted
  <2>1. /\ f \in Exchanges /\ f.state = "streaming" /\ f.route = e.route
        /\ f.answer = e.answer /\ f.starts = e.starts /\ f.events = e.events
        /\ f.forwarded = e.forwarded /\ f.used = e.used
    BY <1>3, <1>4 DEF Exchanges
  <2>2. f.commented /\ (f.evicted <=> e.evicted)
    BY <1>3, <1>4 DEF Exchanges
  <2> QED BY <1>3, <2>1, <2>2
<1>6. CASE c.responses
  <2>1. PICK y : y = Picked(s, "openai")
    OBVIOUS
  <2>2. y \in SessionRecords /\ (y.isResponses => c.responses)
    <3>1. e.route[2] \in Protocols /\ "openai" \in Protocols \ {"responses"}
      BY <1>3, RequestedTyped DEF Protocols
    <3> QED BY <1>1, <1>3, <2>1, <3>1, PickedTyped
  <2>3. Tracked(f, NoCall, y) /\ StaleRefused(e, f)
    BY <1>2, <1>3, <1>5, <2>2, StreamingStep
  <2>4. Put(s, y) /\ Record(s, f) /\ Return(s)
    BY <1>1, <1>4, <1>6, <2>1 DEF HandleStartComment
  <2>5. Streamed(f, NoCall, y)
    <3>1. ~ Undisturbed(f)
      BY <1>2, <1>5, <1>6 DEF Tracked, ResponsesOnly, Undisturbed
    <3> QED BY <3>1 DEF Streamed
  <2> QED BY <1>1, <2>2, <2>3, <2>4, <2>5, PutAlone, OthersTracked
<1>7. CASE ~ c.responses
  <2>1. conn' = [conn EXCEPT ![s] = f] /\ Return(s) /\ UNCHANGED store
    BY <1>1, <1>4, <1>7 DEF HandleStartComment
  <2>2. StoreP!Inv' /\ sessions' = sessions
    BY <2>1, StoreKept DEF IInv
  <2>3. Alone(s) /\ conn'[s] = f /\ call'[s] = NoCall
    <3>1. \A t \in Sids \ {s} : sessions'[t] = sessions[t]
      BY <2>2
    <3> QED BY <2>1, <3>1, ReturnAlone, Zenon
  <2>4. Tracked(f, NoCall, x) /\ StaleRefused(e, f)
    BY <1>2, <1>3, <1>5, StreamingStep
  <2>5. Streamed(f, NoCall, x)
    <3> SUFFICES ASSUME Undisturbed(f)
                 PROVE  x # None /\ x.handler = None
      BY <1>5, NothingUnderWay DEF Streamed, Streaming
    <3>1. x = Requested(e)
      BY <1>2, <1>3, <1>5 DEF Undisturbed, Tracked, BeforeAnswer
    <3> QED BY <1>3, <3>1, RequestedTyped
  <2> QED BY <1>1, <2>2, <2>3, <2>4, <2>5, OthersTracked
<1> QED BY <1>6, <1>7

LEMMA HandlerTyped ==
  ASSUME NEW s \in Sids, call[s] \in CallRecords
  PROVE  HandlerOf(s) \in Handlers \cup {None}
BY DEF HandlerOf, CallRecords, SessionRecords

LEMMA HandleEventStep ==
  ASSUME IInv, NEW s \in Sids, HandleEvent(s)
  PROVE  Kept
<1>1. PICK e, c, x : e = conn[s] /\ c = call[s] /\ x = sessions[s]
  OBVIOUS
<1>2. Tracked(e, c, x)
  BY <1>1 DEF IInv
<1>3. /\ c.op \in Answering \cup Streaming /\ e \in Exchanges /\ e.route # None
      /\ e.state = "streaming" /\ e.events < MaxEvents /\ e.starts <= e.events + 1
      /\ e.answer = None /\ c \in CallRecords
      /\ x \in SessionRecords \cup {None} /\ e.events \in Nat /\ e.starts \in Nat /\ MaxEvents \in Nat
      /\ c.op \in Streaming /\ c.pc = "act"
  <2>1. /\ c.op \in Streaming /\ c.op = "event" /\ c.pc = "act" /\ e \in Exchanges
        /\ c \in CallRecords /\ x \in SessionRecords \cup {None}
    BY <1>1, <1>2 DEF HandleEvent, Acts, Tracked, Streaming
  <2>2. /\ e.state = "streaming" /\ e.events < MaxEvents /\ e.starts <= e.events + 1
        /\ e.answer = None /\ e.route # None
    BY <1>2, <2>1 DEF Tracked, Phased
  <2>3. MaxEvents \in Nat
    BY BoundsAssumption
  <2> QED BY <2>1, <2>2, <2>3 DEF Exchanges
<1>4. CASE HandlerOf(s) # None
  <2>1. PICK f : f = [e EXCEPT !.events = @ + 1, !.used = @ \cup {HandlerOf(s)}]
    OBVIOUS
  <2>2. conn' = [conn EXCEPT ![s] = f] /\ Return(s) /\ UNCHANGED store
    BY <1>1, <1>4, <2>1 DEF HandleEvent
  <2>3. StoreP!Inv' /\ sessions' = sessions
    BY <2>2, StoreKept DEF IInv
  <2>4. Alone(s) /\ conn'[s] = f /\ call'[s] = NoCall
    <3>1. \A t \in Sids \ {s} : sessions'[t] = sessions[t]
      BY <2>3
    <3> QED BY <2>2, <3>1, ReturnAlone, Zenon
  <2>5. HandlerOf(s) \in Handlers
    BY <1>1, <1>3, <1>4, HandlerTyped
  <2>6. /\ f \in Exchanges /\ f.state = "streaming" /\ f.route = e.route /\ f.answer = None
        /\ f.starts <= f.events + 1 /\ f.forwarded = e.forwarded
        /\ f.starts = e.starts /\ f.used = e.used \cup {HandlerOf(s)}
        /\ (f.evicted <=> e.evicted) /\ (f.commented <=> e.commented)
    <3>1. PICK m \in 0 .. MaxEvents, H \in SUBSET Handlers :
             m = e.events + 1 /\ H = e.used \cup {HandlerOf(s)}
      <4>1. e.events + 1 \in 0 .. MaxEvents
        BY <1>3
      <4>2. e.used \cup {HandlerOf(s)} \in SUBSET Handlers
        BY <1>3, <2>5 DEF Exchanges
      <4> QED BY <4>1, <4>2
    <3>2. f = [e EXCEPT !.events = m, !.used = H]
      BY <2>1, <3>1
    <3>3. /\ f \in Exchanges /\ f.state = e.state /\ f.route = e.route
          /\ f.answer = e.answer /\ f.starts = e.starts /\ f.events = m
          /\ f.forwarded = e.forwarded /\ f.used = H
      BY <1>3, <3>2 DEF Exchanges
    <3>4. (f.evicted <=> e.evicted) /\ (f.commented <=> e.commented)
      BY <1>3, <3>2 DEF Exchanges
    <3> QED BY <1>3, <3>1, <3>3, <3>4
  <2>7. Tracked(f, NoCall, x) /\ StaleRefused(e, f)
    BY <1>2, <1>3, <2>6, StreamingStep
  <2>8. Streamed(e, c, x) => Streamed(f, NoCall, x)
    <3> SUFFICES ASSUME Streamed(e, c, x), Undisturbed(f)
                 PROVE  /\ x # None /\ e.starts = 1 /\ Fits(f, x.handler)
                        /\ \A h \in f.used : Fits(f, h)
      BY <2>6, NothingUnderWay DEF Streamed, Streaming
    <3>1. Undisturbed(e)
      BY <2>6 DEF Undisturbed
    <3>2. x # None /\ c.session = x
      BY <1>3, <3>1 DEF Streamed
    <3>3. HandlerOf(s) = x.handler
      BY <1>1, <3>2 DEF HandlerOf
    <3>4. e.starts = 1 /\ Fits(e, x.handler) /\ \A h \in e.used : Fits(e, h)
      BY <1>3, <1>4, <3>1, <3>3 DEF Streamed
    <3> QED BY <2>6, <3>2, <3>3, <3>4 DEF Fits
  <2> QED BY <1>1, <2>3, <2>4, <2>7, <2>8, OthersTracked
<1>5. CASE HandlerOf(s) = None
  <2>1. PICK h, y :
           /\ h = IF c.responses THEN ResponsesHandler(Upstream(s)) ELSE OpenAIToAnthropic
           /\ y = [from |-> None, isResponses |-> c.responses, handler |-> h]
    OBVIOUS
  <2>2. h \in Handlers
    BY <2>1 DEF ResponsesHandler, OpenAIToAnthropic, Handlers, Protocols
  <2>3. y \in SessionRecords /\ (y.isResponses => c.responses)
    <3>1. c.responses \in BOOLEAN
      BY <1>3 DEF CallRecords
    <3> QED BY <2>1, <2>2, <3>1 DEF SessionRecords
  <2>4. PICK f : f = [e EXCEPT !.events = @ + 1, !.starts = @ + 1, !.used = @ \cup {h}]
    OBVIOUS
  <2>5. /\ f \in Exchanges /\ f.state = "streaming" /\ f.route = e.route /\ f.answer = None
        /\ f.starts <= f.events + 1 /\ f.forwarded = e.forwarded
        /\ f.starts = e.starts + 1 /\ f.used = e.used \cup {h}
        /\ (f.evicted <=> e.evicted) /\ (f.commented <=> e.commented)
    <3>1. PICK m \in 0 .. MaxEvents, n \in 0 .. MaxEvents + 1, H \in SUBSET Handlers :
             m = e.events + 1 /\ n = e.starts + 1 /\ H = e.used \cup {h}
      <4>1. e.events + 1 \in 0 .. MaxEvents /\ e.starts + 1 \in 0 .. MaxEvents + 1
        BY <1>3
      <4>2. e.used \cup {h} \in SUBSET Handlers
        BY <1>3, <2>2 DEF Exchanges
      <4> QED BY <4>1, <4>2
    <3>2. f = [e EXCEPT !.events = m, !.starts = n, !.used = H]
      BY <2>4, <3>1
    <3>3. /\ f \in Exchanges /\ f.state = e.state /\ f.route = e.route
          /\ f.answer = e.answer /\ f.starts = n /\ f.events = m
          /\ f.forwarded = e.forwarded /\ f.used = H
      BY <1>3, <3>2 DEF Exchanges
    <3>4. (f.evicted <=> e.evicted) /\ (f.commented <=> e.commented)
      BY <1>3, <3>2 DEF Exchanges
    <3> QED BY <1>3, <3>1, <3>3, <3>4
  <2>6. Tracked(f, NoCall, y) /\ StaleRefused(e, f)
    BY <1>2, <1>3, <2>3, <2>5, StreamingStep
  <2>7. Put(s, y) /\ Record(s, f) /\ Return(s)
    BY <1>1, <1>5, <2>1, <2>4 DEF HandleEvent
  <2>8. Streamed(e, c, x) => Streamed(f, NoCall, y)
    <3> SUFFICES ASSUME Streamed(e, c, x), Undisturbed(f)
                 PROVE  /\ y # None /\ f.starts = 1 /\ Fits(f, y.handler)
                        /\ \A k \in f.used : Fits(f, k)
      BY <2>5, NothingUnderWay DEF Streamed, Streaming
    <3>1. Undisturbed(e)
      BY <2>5 DEF Undisturbed
    <3>2. x # None /\ c.session = x
      BY <1>3, <3>1 DEF Streamed
    <3>3. x.handler = None
      BY <1>1, <1>5, <3>2 DEF HandlerOf
    <3>4. e.starts = 0 /\ e.used = {} /\ e.commented
      BY <1>3, <3>1, <3>3 DEF Streamed, Fits
    <3>5. e.route = <<"anthropic", "openai">>
      BY <3>1, <3>4 DEF Undisturbed
    <3>6. ~ c.responses
      BY <1>2, <3>5 DEF Tracked, ResponsesOnly
    <3>7. h = OpenAIToAnthropic /\ y.handler = h
      BY <2>1, <3>6
    <3>8. h # None /\ y # None
      BY <2>2, <2>3, NoneAssumption
    <3>9. Fits(f, h)
      BY <2>5, <3>5, <3>7, <3>8 DEF Fits, OpenAIToAnthropic
    <3> QED BY <2>5, <3>4, <3>7, <3>8, <3>9
  <2> QED BY <1>1, <2>3, <2>6, <2>7, <2>8, PutAlone, OthersTracked
<1> QED BY <1>4, <1>5

LEMMA CaptureStep ==
  ASSUME IInv, NEW s \in Sids, Capture(s)
  PROVE  Kept
<1>1. StoreP!Inv' /\ sessions' = sessions /\ call' = call /\ conn' = conn
  BY SignatureEffect DEF Capture, IInv
<1> QED BY <1>1, SameKept

LEMMA HandleLastStep ==
  ASSUME IInv, NEW s \in Sids, NEW op \in {"end", "error"}, HandleLast(s, op)
  PROVE  Kept
<1>1. PICK e, c, x : e = conn[s] /\ c = call[s] /\ x = sessions[s]
  OBVIOUS
<1>2. Tracked(e, c, x)
  BY <1>1 DEF IInv
<1>3. /\ c.op \in Streaming /\ e \in Exchanges /\ e.route # None
      /\ e.answer = None /\ e.starts <= e.events + 1 /\ e.state = "streaming" /\ c.pc = "act"
  BY <1>1, <1>2 DEF HandleLast, Acts, Tracked, Phased, Streaming
<1>4. PICK f : f = [e EXCEPT !.state = "idle", !.last = op, !.closed = HandlerOf(s) # None]
  OBVIOUS
<1>5. conn' = [conn EXCEPT ![s] = f] /\ Return(s) /\ Store!Delete(s)
  BY <1>1, <1>4 DEF HandleLast
<1>6. /\ StoreP!Inv' /\ sessions'[s] = None
      /\ \A t \in Sids \ {s} : sessions'[t] = sessions[t]
  BY <1>5, DeleteEffect DEF IInv
<1>7. Alone(s) /\ conn'[s] = f /\ call'[s] = NoCall
  BY <1>5, <1>6, ReturnAlone, Zenon
<1>8. /\ f \in Exchanges /\ f.state = "idle" /\ f.route = e.route /\ f.answer = None
      /\ f.starts <= f.events + 1 /\ f.forwarded = e.forwarded
      /\ f.starts = e.starts /\ f.events = e.events /\ f.used = e.used
      /\ (f.evicted <=> e.evicted) /\ (f.commented <=> e.commented)
      /\ f.closed <=> HandlerOf(s) # None
  <2>1. (HandlerOf(s) # None) \in BOOLEAN
    OBVIOUS
  <2>2. /\ f \in Exchanges /\ f.state = "idle" /\ f.route = e.route /\ f.answer = e.answer
        /\ f.starts = e.starts /\ f.events = e.events /\ f.used = e.used
        /\ f.forwarded = e.forwarded
    BY <1>3, <1>4, <2>1 DEF Exchanges
  <2>3. /\ (f.evicted <=> e.evicted) /\ (f.commented <=> e.commented)
        /\ f.closed <=> HandlerOf(s) # None
    BY <1>3, <1>4, <2>1 DEF Exchanges
  <2> QED BY <1>3, <2>2, <2>3
<1>9. Tracked(f, NoCall, None)
  <2>1. Phased(f, NoCall)
    BY <1>3, <1>8, NothingUnderWay DEF Phased, Answering, Streaming
  <2>2. ResponsesOnly(f, NoCall, None) /\ BeforeAnswer(f, NoCall, None)
    BY <1>8, NothingUnderWay DEF ResponsesOnly, BeforeAnswer, Answering
  <2>3. LeavesNothing(f, NoCall, None) /\ AnswersClient(f)
    BY <1>8 DEF LeavesNothing, AnswersClient
  <2> QED BY <1>8, <2>1, <2>2, <2>3, NothingUnderWay DEF Tracked
<1>10. StaleRefused(e, f)
  BY <1>8 DEF StaleRefused
<1>11. Streamed(e, c, x) => Streamed(f, NoCall, None)
  <2> SUFFICES ASSUME Streamed(e, c, x), Undisturbed(f)
               PROVE  /\ e.starts <= 1 /\ (e.events > 0 => e.starts = 1)
                      /\ \A h \in e.used : Fits(e, h)
                      /\ e.starts = 1 => HandlerOf(s) # None
    BY <1>8 DEF Streamed, Fits
  <2>1. Undisturbed(e)
    BY <1>8 DEF Undisturbed
  <2>2. x # None /\ c.session = x
    BY <1>3, <2>1 DEF Streamed
  <2>3. HandlerOf(s) = x.handler
    BY <1>1, <2>2 DEF HandlerOf
  <2>4. CASE e.starts = 0
    BY <1>3, <2>1, <2>4 DEF Streamed
  <2>5. CASE e.starts # 0
    BY <1>3, <2>1, <2>3, <2>5 DEF Streamed, Fits
  <2> QED BY <2>4, <2>5
<1> QED BY <1>1, <1>6, <1>7, <1>9, <1>10, <1>11, OthersTracked

-----------------------------------------------------------------------------
(* The invariant, and what follows from it.                                *)

LEMMA IInvInit == Init => IInv
<1> SUFFICES ASSUME Init PROVE IInv
  OBVIOUS
<1>1. StoreP!Inv
  BY StoreInit DEF Init
<1>2. ASSUME NEW s \in Sids
      PROVE  Tracked(conn[s], call[s], sessions[s])
  <2>1. conn[s] = Fresh /\ call[s] = NoCall /\ sessions[s] = None
    BY DEF Init, Store!Init
  <2>2. Fresh \in Exchanges
    <3>1. 0 \in 0 .. MaxEvents /\ 0 \in 0 .. MaxEvents + 1
      <4>1. MaxEvents \in Nat
        BY BoundsAssumption
      <4> QED BY <4>1
    <3> QED BY <3>1 DEF Fresh, Exchanges
  <2>3. /\ Phased(Fresh, NoCall) /\ ResponsesOnly(Fresh, NoCall, None)
        /\ BeforeAnswer(Fresh, NoCall, None) /\ LeavesNothing(Fresh, NoCall, None)
        /\ AnswersClient(Fresh)
    BY NothingUnderWay DEF Fresh, Phased, ResponsesOnly, BeforeAnswer, LeavesNothing, AnswersClient,
                           Answering, Streaming
  <2> QED BY <2>1, <2>2, <2>3, NothingUnderWay DEF Tracked
<1> QED BY <1>1, <1>2 DEF Init, IInv

LEMMA RespondStep ==
  ASSUME IInv, NEW s \in Sids, Respond(s)
  PROVE  Kept
<1>1. conn[s].state = "sent" /\ conn' = conn
  BY DEF Respond
<1>2. \E op \in {"response", "chunks", "start"} : Begin(s, op)
  BY DEF Respond
<1> QED BY <1>1, <1>2, BeginStep DEF Answering, Streaming

LEMMA StreamStep ==
  ASSUME IInv, NEW s \in Sids, Stream(s)
  PROVE  Kept
<1>1. conn[s].state = "streaming" /\ conn' = conn
  BY DEF Stream
<1>2. \E op \in {"event", "end", "error"} :
         Begin(s, op) /\ (op = "event" => conn[s].events < MaxEvents)
  BY DEF Stream
<1> QED BY <1>1, <1>2, BeginStep DEF Answering, Streaming

LEMMA IInvStep == IInv /\ [Next]_vars => Kept
<1> SUFFICES ASSUME IInv, [Next]_vars PROVE Kept
  OBVIOUS
<1>1. CASE UNCHANGED vars
  <2>1. StoreP!Inv' /\ sessions' = sessions /\ call' = call /\ conn' = conn
    BY <1>1, StoreKept DEF vars, IInv
  <2> QED BY <2>1, SameKept
<1>2. ASSUME NEW s \in Sids, HandleEnd(s) \/ HandleError(s)
      PROVE  Kept
  BY <1>2, HandleLastStep DEF HandleEnd, HandleError
<1> QED BY <1>1, <1>2, RequestStep, RespondStep, StreamStep, AbortStep, ReadStep,
           ConvertRequestStep, ConvertResponseStep, ConvertChunksStep, HandleStartStep,
           HandleStartCommentStep, HandleEventStep, CaptureStep DEF Next

LEMMA Inductive == Spec => []IInv
<1>1. IInv /\ [Next]_vars => IInv'
  BY IInvStep DEF Kept
<1> QED BY <1>1, IInvInit, PTL DEF Spec

(* The store, the call and the exchange of every connection keep their     *)
(* types, and no stream is started more often than once for its first      *)
(* chunk and each of its events (convert.go, HandleSSEEvent).              *)
THEOREM TypeCorrect == Spec => []TypeOK
<1>1. IInv => TypeOK
  <2> SUFFICES ASSUME IInv PROVE TypeOK
    OBVIOUS
  <2>1. Store!TypeOK
    BY StoreTypes DEF IInv
  <2>2. call \in [Sids -> CallRecords]
    <3>1. Store!TypeOK => sessions \in [Sids -> SessionRecords \cup {None}]
      BY DEF Store!TypeOK
    <3> QED BY DEF IInv, Tracked
  <2> QED BY <2>1, <2>2 DEF TypeOK, IInv, Tracked, CallRecords, Exchanges
<1> QED BY <1>1, Inductive, PTL

(* A session outlives its exchange only where the code leaves it on        *)
(* purpose or never hears of the end: a Responses client's plain exchange, *)
(* a response in chunks, an abort, a refusal (convert.go, Convert).        *)
THEOREM NothingLeaks == Spec => []NoLeak
<1>1. IInv => NoLeak
  BY DEF IInv, Tracked, LeavesNothing, NoLeak, Quiet, Client, Store!Live
<1> QED BY <1>1, Inductive, PTL

(* A plain response reaches the client in its own protocol, whatever the   *)
(* other connections do to the store: unless the session was evicted and   *)
(* the URI does not tell (convert.go, Convert).                            *)
THEOREM ResponseProtocol == Spec => []ResponseInClientProtocol
<1>1. IInv => ResponseInClientProtocol
  BY DEF IInv, Tracked, AnswersClient, ResponseInClientProtocol, ByUri, Client
<1> QED BY <1>1, Inductive, PTL

(* A request is sent on unconverted only to a Responses client, and only   *)
(* right after an exchange that no End or Error event has closed           *)
(* (convert.go:574 has every request stored anew).                         *)
THEOREM OnlyResponsesRefused == Spec => OnlyStaleResponsesRefused
<1>1. IInv /\ [Next]_vars => [\A s \in Sids :
          conn[s].forwarded = "none" /\ conn'[s].forwarded = "raw" =>
            Client(s) = "responses" /\ conn[s].last \notin {"none", "end", "error"}]_conn
  BY IInvStep DEF Kept, StaleRefused, Client
<1> QED BY <1>1, Inductive, PTL DEF Spec, OnlyStaleResponsesRefused

(* On a route that has a stream converter, a stream reaches the client in  *)
(* one piece: nothing but the eviction of its session or a comment where   *)
(* the first chunk should be ever tears it (convert.go, HandleSSEEvent).   *)
THEOREM StreamsWhole ==
  ASSUME Routes \subseteq StreamableRoutes
  PROVE  Spec => []StreamInOnePiece
<1>1. Init => StreamsTracked
  <2> SUFFICES ASSUME Init, NEW s \in Sids
               PROVE  Streamed(conn[s], call[s], sessions[s])
    BY DEF StreamsTracked
  <2>1. conn[s] = Fresh
    BY DEF Init
  <2> QED BY <2>1 DEF Fresh, Streamed, Undisturbed
<1>2. IInv /\ StreamsTracked /\ [Next]_vars => StreamsTracked'
  BY IInvStep DEF Kept
<1>3. IInv /\ StreamsTracked => StreamInOnePiece
  <2> SUFFICES ASSUME IInv, NEW s \in Sids, Streamed(conn[s], call[s], sessions[s]),
                      Undisturbed(conn[s])
               PROVE  InOnePiece(s)
    BY DEF StreamsTracked, StreamInOnePiece, Undisturbed
  <2>1. PICK e, c, x : e = conn[s] /\ c = call[s] /\ x = sessions[s]
    OBVIOUS
  <2>2. Tracked(e, c, x)
    BY <2>1 DEF IInv
  <2>3. /\ e.starts <= 1 /\ (e.events > 0 => e.starts = 1)
        /\ \A h \in e.used : Fits(e, h)
        /\ e.state = "idle" /\ e.starts = 1 /\ e.last \in {"end", "error"} => e.closed
    <3>1. e.state \in {"idle", "sent", "streaming"}
      BY <2>2 DEF Tracked, Exchanges
    <3>2. CASE e.state = "idle"
      BY <2>1, <3>2 DEF Streamed
    <3>3. CASE e.state = "sent"
      BY <2>2, <3>3 DEF Tracked, Phased
    <3>4. CASE e.state = "streaming"
      BY <2>1, <3>4 DEF Streamed
    <3> QED BY <3>1, <3>2, <3>3, <3>4
  <2> QED BY <2>1, <2>3 DEF InOnePiece, Fits, Client, Upstream
<1> QED BY <1>1, <1>2, <1>3, Inductive, PTL DEF Spec
=============================================================================
