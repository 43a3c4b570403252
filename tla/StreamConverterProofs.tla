------------------------ MODULE StreamConverterProofs ------------------------
(***************************************************************************)
(* Proofs about the stream converter, for any number of chunks, calls and  *)
(* entries: the events it sends an Anthropic client are a legal stream;    *)
(* the client receives what the model has sent; and the reasoning is cached*)
(* under what the client will send back.                                   *)
(*                                                                         *)
(* The events of a handler are delivered one by one, and only then the next*)
(* handler runs.  What the handlers rely on is how the converter's state   *)
(* and the client will agree once the last pending event has arrived; Runs *)
(* says that the pending events take the client from c to d.  The invariant*)
(* comes in two parts: IInv, on which the protocol rests, and Whole, on    *)
(* what the client holds.                                                  *)
(***************************************************************************)
EXTENDS StreamConverter, FiniteSetTheorems, SequenceTheorems, WellFoundedInduction, TLAPS

Fragments == [of : Sources, n : 0..MaxFragments]
MaxBlocks == 2 * MaxChunks + Cardinality(Calls) + 1
Reasons == {"end_turn", "max_tokens", "tool_use"}

Blocks == [type : Sse!BlockTypes, tool : Tools \cup {None}, content : Seq(Fragments \cup {None}),
           signed : BOOLEAN]

Clients == [phase : {"idle", "streaming", "closing", "stopped", "failed"}, blocks : Seq(Blocks),
            open : Nat \cup {None}, reason : Reasons \cup {None}, last : Sse!Events \cup {None}]

Converters ==
    [started : BOOLEAN, curBlockType : Sse!BlockTypes \cup {NoBlock}, curBlockIndex : Nat,
     nextBlockIndex : Nat, thinkingBlockStopped : BOOLEAN,
     toolCallByIndex : [Calls -> ToolIds \cup {None}],
     finishReason : FinishReasons \cup {NoFinish}, finalized : BOOLEAN,
     accumulatedReasoning : 0 .. MaxChunks, accumulatedText : 0 .. MaxChunks,
     streamInterrupted : BOOLEAN, events : Seq(Sse!Events)]

Histories ==
    [chunks : 0 .. MaxChunks, entries : 0 .. MaxEntries, text : 0 .. MaxChunks,
     reasoning : 0 .. MaxChunks, args : [Calls -> 0 .. MaxEntries],
     name : [Calls -> Names \cup {None}], last : Calls \cup {None}, mixed : BOOLEAN,
     finish : FinishReasons \cup {NoFinish}]

(* The pending events es take the client from c to d, and while the stream *)
(* is tidy each of them is one the client may get.                         *)
Runs(c, es, d, tidy) ==
    \E p : /\ p[1] = c /\ p[Len(es) + 1] = d
           /\ \A i \in 1 .. Len(es) :
                 /\ p[i + 1] = Sse!Apply(p[i], es[i])
                 /\ p[i].phase \notin {"stopped", "failed"}
                 /\ tidy => Sse!Legal(p[i], es[i])

ToolsOf(d) == {d.blocks[i].tool.id : i \in {j \in DOMAIN d.blocks : d.blocks[j].type = "tool_use"}}

(* The client and the converter agree on the blocks.                       *)
Agree(s, d) ==
    /\ d \in Clients /\ d.phase = "streaming" /\ d.reason = None
    /\ Len(d.blocks) = s.nextBlockIndex
    /\ s.curBlockIndex \in 0 .. MaxBlocks - 1
    /\ s.curBlockType = NoBlock => d.open = None
    /\ s.curBlockType # NoBlock =>
          /\ d.open = s.curBlockIndex /\ s.nextBlockIndex = s.curBlockIndex + 1
          /\ d.blocks[s.curBlockIndex + 1].type = s.curBlockType
          /\ ~ d.blocks[s.curBlockIndex + 1].signed

(* How far the stream is, and the client with it.                          *)
Phased(s, d) ==
    \/ s = NewStreamConverter /\ d = Sse!NewClient
    \/ s.started /\ ~ s.finalized /\ Agree(s, d) /\ ToolsOf(d) = ToolsSeen(s)
    \/ s.started /\ ~ s.finalized /\ d \in Clients /\ d.phase = "failed"
    \/ /\ s.started /\ s.finalized /\ d \in Clients /\ d.phase = "stopped"
       /\ d.reason = StopReason(s) /\ ToolsOf(d) = ToolsSeen(s)

(* The converter's state tells what was sent, as far as it remembers it.   *)
OpenCalls(s) == {c \in Calls : s.toolCallByIndex[c] # None}

Tracks(s, u) ==
    /\ s.accumulatedText = u.text /\ s.accumulatedReasoning = u.reasoning
    /\ u.text <= u.chunks /\ u.reasoning <= u.chunks
    /\ \A c \in Calls : u.args[c] <= u.entries
    /\ \A c \in Calls : u.name[c] = None => s.toolCallByIndex[c] = None
    /\ Declared \in {{}, Names} =>
          \A c \in Calls : u.name[c] # None => s.toolCallByIndex[c] # None

(* While it runs, the call whose entry came last is the one whose block is *)
(* open, and no more blocks have been opened than a chunk may open.        *)
Follows(s, u) ==
    /\ u.last # None => u.name[u.last] # None
    /\ u.last # None /\ ~ u.mixed /\ s.toolCallByIndex[u.last] # None => s.curBlockType = "tool_use"
    /\ s.accumulatedText # 0 => s.nextBlockIndex > 0
    /\ s.nextBlockIndex <= 2 * u.chunks + Cardinality(OpenCalls(s))

Remembers(s, u) ==
    /\ s.finishReason = u.finish
    /\ u.finish = "tool_calls" => \E c \in Calls : u.name[c] # None
    /\ Tracks(s, u)
    /\ ~ s.finalized => Follows(s, u)

IInv ==
    /\ sc \in Converters /\ sent \in Histories /\ client \in Clients
    /\ \E d : Runs(client, sc.events, d, Tidy) /\ Phased(sc, d)
    /\ Remembers(sc, sent)
    /\ cached = IF sc.finalized THEN CacheAtEnd(sc) ELSE [tools |-> None, text |-> None]

LEMMA Maxima == Max({1}) = 1 /\ Max({2}) = 2 /\ Max({1, 2}) = 2
<1>1. Max({1}) = 1
  BY DEF Max
<1>2. Max({2}) = 2
  BY DEF Max
<1>3. Max({1, 2}) = 2
  BY DEF Max
<1> QED BY <1>1, <1>2, <1>3

LEMMA Subsets ==
  /\ SUBSET {1} = {{}, {1}} /\ SUBSET {1, 2} = {{}, {1}, {2}, {1, 2}}
  /\ {1} \ {1} = {} /\ {2} \ {2} = {} /\ {1, 2} \ {2} = {1}
  /\ {1} # {} /\ {2} # {} /\ {1, 2} # {} /\ {1} # {2} /\ {1, 2} # {1} /\ {1, 2} # {2}
OBVIOUS

(* FoldLeft over an empty, a one-entry and a two-entry sequence.           *)
AllHandled(base, seq) == FoldLeft(HandleToolCallDelta, base, seq)

HTDSteps(base, seq, it) ==
    it = [s \in SUBSET (DOMAIN seq) |->
            IF s = {} THEN base ELSE HandleToolCallDelta(it[s \ {Max(s)}], seq[Max(s)])]

LEMMA HTDUnfolded ==
  ASSUME NEW base, NEW seq
  PROVE  AllHandled(base, seq) = (CHOOSE it : HTDSteps(base, seq, it))[DOMAIN seq]
BY DEF AllHandled, FoldLeft, MapThenFoldSet, HTDSteps

LEMMA HTDFolded0 ==
  ASSUME NEW base
  PROVE  AllHandled(base, <<>>) = base
<1>1. PICK it : it = CHOOSE i : HTDSteps(base, <<>>, i)
  OBVIOUS
<1>2. DOMAIN <<>> = {} /\ SUBSET {} = {{}}
  OBVIOUS
<1>3. PICK w : w = [s \in SUBSET {} |-> base]
  OBVIOUS
<1>4. w = [s \in SUBSET {} |-> IF s = {} THEN base ELSE HandleToolCallDelta(w[s \ {Max(s)}], <<>>[Max(s)])]
  BY <1>2, <1>3
<1>5. HTDSteps(base, <<>>, w)
  BY <1>2, <1>4 DEF HTDSteps
<1>6. HTDSteps(base, <<>>, it)
  BY <1>1, <1>5
<1>7. it[{}] = base
  BY <1>2, <1>6 DEF HTDSteps
<1> QED BY <1>1, <1>2, <1>7, HTDUnfolded

LEMMA HTDFolded1 ==
  ASSUME NEW base, NEW x
  PROVE  AllHandled(base, <<x>>) = HandleToolCallDelta(base, x)
<1>1. PICK it : it = CHOOSE i : HTDSteps(base, <<x>>, i)
  OBVIOUS
<1>2. DOMAIN <<x>> = {1} /\ <<x>>[1] = x
  OBVIOUS
<1>3. PICK w : w = [s \in SUBSET {1} |-> IF s = {} THEN base ELSE HandleToolCallDelta(base, x)]
  OBVIOUS
<1>4. w[{}] = base /\ w[{1}] = HandleToolCallDelta(base, x)
  BY <1>3, Subsets
<1>5. ASSUME NEW s \in SUBSET {1}
      PROVE  w[s] = IF s = {} THEN base ELSE HandleToolCallDelta(w[s \ {Max(s)}], <<x>>[Max(s)])
  <2>1. CASE s = {}
    BY <1>4, <2>1
  <2>2. CASE s = {1}
    BY <1>2, <1>4, <2>2, Maxima, Subsets
  <2> QED BY <2>1, <2>2, Subsets
<1>6. HTDSteps(base, <<x>>, w)
  BY <1>2, <1>3, <1>5 DEF HTDSteps
<1>7. HTDSteps(base, <<x>>, it)
  BY <1>1, <1>6
<1>8. it[{}] = base /\ it[{1}] = HandleToolCallDelta(it[{1} \ {Max({1})}], <<x>>[Max({1})])
  <2>1. {} \in SUBSET {1} /\ {1} \in SUBSET {1} /\ {1} # {}
    OBVIOUS
  <2> QED BY <1>2, <1>7, <2>1 DEF HTDSteps
<1>9. it[{1}] = HandleToolCallDelta(base, x)
  BY <1>2, <1>8, Maxima, Subsets
<1> QED BY <1>1, <1>2, <1>9, HTDUnfolded

LEMMA HTDFolded2 ==
  ASSUME NEW base, NEW x, NEW y
  PROVE  AllHandled(base, <<x, y>>) = HandleToolCallDelta(HandleToolCallDelta(base, x), y)
<1>1. PICK it : it = CHOOSE i : HTDSteps(base, <<x, y>>, i)
  OBVIOUS
<1>2. DOMAIN <<x, y>> = {1, 2} /\ <<x, y>>[1] = x /\ <<x, y>>[2] = y
  OBVIOUS
<1>3. PICK w : w = [s \in SUBSET {1, 2} |->
                      IF s = {} THEN base ELSE IF s = {1} THEN HandleToolCallDelta(base, x)
                      ELSE IF s = {2} THEN HandleToolCallDelta(base, y) ELSE HandleToolCallDelta(HandleToolCallDelta(base, x), y)]
  OBVIOUS
<1>4. /\ w[{}] = base /\ w[{1}] = HandleToolCallDelta(base, x) /\ w[{2}] = HandleToolCallDelta(base, y)
      /\ w[{1, 2}] = HandleToolCallDelta(HandleToolCallDelta(base, x), y)
  BY <1>3, Subsets
<1>5. ASSUME NEW s \in SUBSET {1, 2}
      PROVE  w[s] = IF s = {} THEN base ELSE HandleToolCallDelta(w[s \ {Max(s)}], <<x, y>>[Max(s)])
  <2>1. CASE s = {}
    BY <1>4, <2>1
  <2>2. CASE s = {1}
    BY <1>2, <1>4, <2>2, Maxima, Subsets
  <2>3. CASE s = {2}
    BY <1>2, <1>4, <2>3, Maxima, Subsets
  <2>4. CASE s = {1, 2}
    BY <1>2, <1>4, <2>4, Maxima, Subsets
  <2> QED BY <2>1, <2>2, <2>3, <2>4, Subsets
<1>6. HTDSteps(base, <<x, y>>, w)
  BY <1>2, <1>3, <1>5 DEF HTDSteps
<1>7. HTDSteps(base, <<x, y>>, it)
  BY <1>1, <1>6
<1>8. /\ it[{}] = base /\ it[{1}] = HandleToolCallDelta(it[{1} \ {Max({1})}], <<x, y>>[Max({1})])
      /\ it[{1, 2}] = HandleToolCallDelta(it[{1, 2} \ {Max({1, 2})}], <<x, y>>[Max({1, 2})])
  <2>1. {} \in SUBSET {1, 2} /\ {1} \in SUBSET {1, 2} /\ {1, 2} \in SUBSET {1, 2}
       /\ {1} # {} /\ {1, 2} # {}
    OBVIOUS
  <2> QED BY <1>2, <1>7, <2>1 DEF HTDSteps
<1>9. it[{1}] = HandleToolCallDelta(base, x)
  BY <1>2, <1>8, Maxima, Subsets
<1>10. it[{1, 2}] = HandleToolCallDelta(HandleToolCallDelta(base, x), y)
  BY <1>2, <1>8, <1>9, Maxima, Subsets
<1> QED BY <1>1, <1>2, <1>10, HTDUnfolded

(* FoldLeft over an empty, a one-entry and a two-entry sequence.           *)
AllSent(base, seq) == FoldLeft(SendDelta, base, seq)

SentSteps(base, seq, it) ==
    it = [s \in SUBSET (DOMAIN seq) |->
            IF s = {} THEN base ELSE SendDelta(it[s \ {Max(s)}], seq[Max(s)])]

LEMMA SentUnfolded ==
  ASSUME NEW base, NEW seq
  PROVE  AllSent(base, seq) = (CHOOSE it : SentSteps(base, seq, it))[DOMAIN seq]
BY DEF AllSent, FoldLeft, MapThenFoldSet, SentSteps

LEMMA SentFolded0 ==
  ASSUME NEW base
  PROVE  AllSent(base, <<>>) = base
<1>1. PICK it : it = CHOOSE i : SentSteps(base, <<>>, i)
  OBVIOUS
<1>2. DOMAIN <<>> = {} /\ SUBSET {} = {{}}
  OBVIOUS
<1>3. PICK w : w = [s \in SUBSET {} |-> base]
  OBVIOUS
<1>4. w = [s \in SUBSET {} |-> IF s = {} THEN base ELSE SendDelta(w[s \ {Max(s)}], <<>>[Max(s)])]
  BY <1>2, <1>3
<1>5. SentSteps(base, <<>>, w)
  BY <1>2, <1>4 DEF SentSteps
<1>6. SentSteps(base, <<>>, it)
  BY <1>1, <1>5
<1>7. it[{}] = base
  BY <1>2, <1>6 DEF SentSteps
<1> QED BY <1>1, <1>2, <1>7, SentUnfolded

LEMMA SentFolded1 ==
  ASSUME NEW base, NEW x
  PROVE  AllSent(base, <<x>>) = SendDelta(base, x)
<1>1. PICK it : it = CHOOSE i : SentSteps(base, <<x>>, i)
  OBVIOUS
<1>2. DOMAIN <<x>> = {1} /\ <<x>>[1] = x
  OBVIOUS
<1>3. PICK w : w = [s \in SUBSET {1} |-> IF s = {} THEN base ELSE SendDelta(base, x)]
  OBVIOUS
<1>4. w[{}] = base /\ w[{1}] = SendDelta(base, x)
  BY <1>3, Subsets
<1>5. ASSUME NEW s \in SUBSET {1}
      PROVE  w[s] = IF s = {} THEN base ELSE SendDelta(w[s \ {Max(s)}], <<x>>[Max(s)])
  <2>1. CASE s = {}
    BY <1>4, <2>1
  <2>2. CASE s = {1}
    BY <1>2, <1>4, <2>2, Maxima, Subsets
  <2> QED BY <2>1, <2>2, Subsets
<1>6. SentSteps(base, <<x>>, w)
  BY <1>2, <1>3, <1>5 DEF SentSteps
<1>7. SentSteps(base, <<x>>, it)
  BY <1>1, <1>6
<1>8. it[{}] = base /\ it[{1}] = SendDelta(it[{1} \ {Max({1})}], <<x>>[Max({1})])
  <2>1. {} \in SUBSET {1} /\ {1} \in SUBSET {1} /\ {1} # {}
    OBVIOUS
  <2> QED BY <1>2, <1>7, <2>1 DEF SentSteps
<1>9. it[{1}] = SendDelta(base, x)
  BY <1>2, <1>8, Maxima, Subsets
<1> QED BY <1>1, <1>2, <1>9, SentUnfolded

LEMMA SentFolded2 ==
  ASSUME NEW base, NEW x, NEW y
  PROVE  AllSent(base, <<x, y>>) = SendDelta(SendDelta(base, x), y)
<1>1. PICK it : it = CHOOSE i : SentSteps(base, <<x, y>>, i)
  OBVIOUS
<1>2. DOMAIN <<x, y>> = {1, 2} /\ <<x, y>>[1] = x /\ <<x, y>>[2] = y
  OBVIOUS
<1>3. PICK w : w = [s \in SUBSET {1, 2} |->
                      IF s = {} THEN base ELSE IF s = {1} THEN SendDelta(base, x)
                      ELSE IF s = {2} THEN SendDelta(base, y) ELSE SendDelta(SendDelta(base, x), y)]
  OBVIOUS
<1>4. /\ w[{}] = base /\ w[{1}] = SendDelta(base, x) /\ w[{2}] = SendDelta(base, y)
      /\ w[{1, 2}] = SendDelta(SendDelta(base, x), y)
  BY <1>3, Subsets
<1>5. ASSUME NEW s \in SUBSET {1, 2}
      PROVE  w[s] = IF s = {} THEN base ELSE SendDelta(w[s \ {Max(s)}], <<x, y>>[Max(s)])
  <2>1. CASE s = {}
    BY <1>4, <2>1
  <2>2. CASE s = {1}
    BY <1>2, <1>4, <2>2, Maxima, Subsets
  <2>3. CASE s = {2}
    BY <1>2, <1>4, <2>3, Maxima, Subsets
  <2>4. CASE s = {1, 2}
    BY <1>2, <1>4, <2>4, Maxima, Subsets
  <2> QED BY <2>1, <2>2, <2>3, <2>4, Subsets
<1>6. SentSteps(base, <<x, y>>, w)
  BY <1>2, <1>3, <1>5 DEF SentSteps
<1>7. SentSteps(base, <<x, y>>, it)
  BY <1>1, <1>6
<1>8. /\ it[{}] = base /\ it[{1}] = SendDelta(it[{1} \ {Max({1})}], <<x, y>>[Max({1})])
      /\ it[{1, 2}] = SendDelta(it[{1, 2} \ {Max({1, 2})}], <<x, y>>[Max({1, 2})])
  <2>1. {} \in SUBSET {1, 2} /\ {1} \in SUBSET {1, 2} /\ {1, 2} \in SUBSET {1, 2}
       /\ {1} # {} /\ {1, 2} # {}
    OBVIOUS
  <2> QED BY <1>2, <1>7, <2>1 DEF SentSteps
<1>9. it[{1}] = SendDelta(base, x)
  BY <1>2, <1>8, Maxima, Subsets
<1>10. it[{1, 2}] = SendDelta(SendDelta(base, x), y)
  BY <1>2, <1>8, <1>9, Maxima, Subsets
<1> QED BY <1>1, <1>2, <1>10, SentUnfolded

-----------------------------------------------------------------------------
(* Events.                                                                 *)

ContentDeltas == {"text_delta", "thinking_delta", "input_json_delta"}
Deltas == ContentDeltas \cup {"signature_delta"}

LEMMA BlockBound == MaxBlocks \in Nat /\ MaxBlocks >= 1
<1>1. Cardinality(Calls) \in Nat
  BY CallsAssumption, FS_CardinalityType
<1> QED BY <1>1, BoundsAssumption DEF MaxBlocks

LEMMA DeltaNames ==
  /\ Sse!DeltaOf["text"] = "text_delta" /\ Sse!DeltaOf["thinking"] = "thinking_delta"
  /\ Sse!DeltaOf["tool_use"] = "input_json_delta"
BY DEF Sse!DeltaOf

LEMMA DeltaIsEvent ==
  ASSUME NEW i \in 0 .. MaxBlocks - 1, NEW k \in Deltas, NEW f \in Fragments \cup {None}
  PROVE  Sse!BlockDelta(i, k, f) \in Sse!Events
<1>1. k \in {Sse!DeltaOf[t] : t \in Sse!BlockTypes} \cup {"signature_delta"}
  BY DeltaNames DEF Deltas, ContentDeltas, Sse!BlockTypes
<1> QED BY <1>1 DEF Sse!BlockDelta, Sse!Events, Sse!Indices, MaxBlocks, Fragments

LEMMA StartIsEvent ==
  ASSUME NEW i \in 0 .. MaxBlocks - 1, NEW t \in Sse!BlockTypes, NEW tool \in Tools \cup {None}
  PROVE  Sse!BlockStart(i, t, tool) \in Sse!Events
BY DEF Sse!BlockStart, Sse!Events, Sse!Indices, MaxBlocks

LEMMA StopIsEvent ==
  ASSUME NEW i \in 0 .. MaxBlocks - 1
  PROVE  Sse!BlockStop(i) \in Sse!Events
BY DEF Sse!BlockStop, Sse!Events, Sse!Indices, MaxBlocks

LEMMA OtherEvents ==
  /\ Sse!MessageStart \in Sse!Events /\ Sse!Ping \in Sse!Events /\ Sse!MessageStop \in Sse!Events
  /\ Sse!Error \in Sse!Events
  /\ \A r \in Reasons : Sse!MessageDelta(r) \in Sse!Events
BY DEF Sse!MessageStart, Sse!Ping, Sse!MessageStop, Sse!Error, Sse!MessageDelta, Sse!Events, Reasons

-----------------------------------------------------------------------------
(* Runs: nothing pending, one event more at the end, one delivered.        *)

LEMMA RunsNothing ==
  ASSUME NEW c, NEW tidy \in BOOLEAN
  PROVE  Runs(c, <<>>, c, tidy)
<1>1. PICK p : p = [i \in {1} |-> c]
  OBVIOUS
<1> QED BY <1>1 DEF Runs

LEMMA RunsNowhere ==
  ASSUME NEW c, NEW d, NEW tidy \in BOOLEAN, Runs(c, <<>>, d, tidy)
  PROVE  d = c
BY DEF Runs

LEMMA RunsOn ==
  ASSUME NEW c, NEW d, NEW e, NEW tidy \in BOOLEAN, NEW E, NEW es \in Seq(E), Runs(c, es, d, tidy),
         d.phase \notin {"stopped", "failed"}, tidy => Sse!Legal(d, e)
  PROVE  Runs(c, Append(es, e), Sse!Apply(d, e), tidy)
<1>1. PICK p : /\ p[1] = c /\ p[Len(es) + 1] = d
               /\ \A i \in 1 .. Len(es) :
                     /\ p[i + 1] = Sse!Apply(p[i], es[i])
                     /\ p[i].phase \notin {"stopped", "failed"}
                     /\ tidy => Sse!Legal(p[i], es[i])
  BY DEF Runs
<1>2. PICK n \in Nat : n = Len(es)
  OBVIOUS
<1>3. PICK q : q = [i \in 1 .. n + 2 |-> IF i = n + 2 THEN Sse!Apply(d, e) ELSE p[i]]
  OBVIOUS
<1>4. PICK fs : fs = Append(es, e)
  OBVIOUS
<1>5. Len(fs) = n + 1 /\ fs[n + 1] = e /\ \A i \in 1 .. n : fs[i] = es[i]
  BY <1>2, <1>4
<1>6. q[1] = c /\ q[n + 2] = Sse!Apply(d, e) /\ q[n + 1] = d
  BY <1>1, <1>2, <1>3
<1>7. ASSUME NEW i \in 1 .. n + 1
      PROVE  /\ q[i + 1] = Sse!Apply(q[i], fs[i])
             /\ q[i].phase \notin {"stopped", "failed"}
             /\ tidy => Sse!Legal(q[i], fs[i])
  <2>1. CASE i = n + 1
    BY <1>5, <1>6, <2>1
  <2>2. CASE i \in 1 .. n
    <3>1. q[i] = p[i] /\ q[i + 1] = p[i + 1] /\ fs[i] = es[i]
      BY <1>3, <1>5, <2>2
    <3> QED BY <1>1, <1>2, <2>2, <3>1
  <2> QED BY <2>1, <2>2
<1>8. q[Len(fs) + 1] = Sse!Apply(d, e)
  BY <1>5, <1>6
<1>9. Runs(c, fs, Sse!Apply(d, e), tidy)
  BY <1>5, <1>6, <1>7, <1>8 DEF Runs
<1> QED BY <1>4, <1>9

LEMMA RunsFrom ==
  ASSUME NEW c, NEW d, NEW tidy \in BOOLEAN, NEW E, NEW es \in Seq(E), es # <<>>, Runs(c, es, d, tidy)
  PROVE  /\ Runs(Sse!Apply(c, Head(es)), Tail(es), d, tidy)
         /\ c.phase \notin {"stopped", "failed"}
         /\ tidy => Sse!Legal(c, Head(es))
<1>1. PICK p : /\ p[1] = c /\ p[Len(es) + 1] = d
               /\ \A i \in 1 .. Len(es) :
                     /\ p[i + 1] = Sse!Apply(p[i], es[i])
                     /\ p[i].phase \notin {"stopped", "failed"}
                     /\ tidy => Sse!Legal(p[i], es[i])
  BY DEF Runs
<1>2. PICK n \in Nat : Len(es) = n + 1
  <2>1. Len(es) \in Nat /\ Len(es) > 0
    OBVIOUS
  <2> QED BY <2>1
<1>3. PICK fs : fs = Tail(es)
  OBVIOUS
<1>4. Len(fs) = n /\ (\A i \in 1 .. n : fs[i] = es[i + 1]) /\ Head(es) = es[1]
  BY <1>2, <1>3
<1>5. PICK q : q = [i \in 1 .. n + 1 |-> p[i + 1]]
  OBVIOUS
<1>6. p[2] = Sse!Apply(c, Head(es)) /\ c.phase \notin {"stopped", "failed"}
      /\ (tidy => Sse!Legal(c, Head(es)))
  BY <1>1, <1>2, <1>4
<1>7. q[1] = Sse!Apply(c, Head(es)) /\ q[n + 1] = d
  BY <1>1, <1>2, <1>5, <1>6
<1>8. ASSUME NEW i \in 1 .. n
      PROVE  /\ q[i + 1] = Sse!Apply(q[i], fs[i])
             /\ q[i].phase \notin {"stopped", "failed"}
             /\ tidy => Sse!Legal(q[i], fs[i])
  <2>1. q[i] = p[i + 1] /\ q[i + 1] = p[(i + 1) + 1] /\ fs[i] = es[i + 1]
    BY <1>4, <1>5
  <2>2. i + 1 \in 1 .. Len(es)
    BY <1>2
  <2> QED BY <1>1, <2>1, <2>2
<1>9. Runs(Sse!Apply(c, Head(es)), fs, d, tidy)
  BY <1>4, <1>7, <1>8 DEF Runs
<1> QED BY <1>3, <1>6, <1>9

LEMMA RunsUntidy ==
  ASSUME NEW c, NEW d, NEW es, NEW tidy \in BOOLEAN, NEW less \in BOOLEAN, less => tidy, Runs(c, es, d, tidy)
  PROVE  Runs(c, es, d, less)
BY DEF Runs

-----------------------------------------------------------------------------
(* What the events of a block do to a client.                              *)

LEMMA GrowKeeps ==
  ASSUME NEW bs \in Seq(Blocks), NEW i \in Nat, NEW k \in Deltas, NEW f \in Fragments \cup {None}
  PROVE  LET gs == Sse!Grow(bs, Sse!BlockDelta(i, k, f)) IN
         /\ gs \in Seq(Blocks) /\ Len(gs) = Len(bs)
         /\ \A j \in DOMAIN bs : /\ gs[j].type = bs[j].type /\ gs[j].tool = bs[j].tool
                                 /\ k # "signature_delta" => gs[j].signed = bs[j].signed
<1>1. PICK e : e = Sse!BlockDelta(i, k, f)
  OBVIOUS
<1>2. e.index = i /\ e.delta = k /\ e.fragment = f
  BY <1>1 DEF Sse!BlockDelta
<1>3. PICK gs : gs = Sse!Grow(bs, e)
  OBVIOUS
<1>4. CASE gs = bs
  BY <1>1, <1>3, <1>4
<1>5. CASE i + 1 \in DOMAIN bs /\ k = "signature_delta"
  <2>1. PICK b : b = [bs[i + 1] EXCEPT !.signed = TRUE]
    OBVIOUS
  <2>2. b \in Blocks /\ b.type = bs[i + 1].type /\ b.tool = bs[i + 1].tool
    <3>1. bs[i + 1] \in Blocks
      BY <1>5
    <3> QED BY <2>1, <3>1 DEF Blocks
  <2>3. gs = [bs EXCEPT ![i + 1] = b]
    BY <1>2, <1>3, <1>5, <2>1 DEF Sse!Grow
  <2> QED BY <1>1, <1>3, <1>5, <2>2, <2>3
<1>6. CASE i + 1 \in DOMAIN bs /\ k # "signature_delta" /\ k = Sse!DeltaOf[bs[i + 1].type]
  <2>1. PICK b : b = [bs[i + 1] EXCEPT !.content = Append(bs[i + 1].content, f)]
    OBVIOUS
  <2>2. bs[i + 1] \in Blocks
    BY <1>6
  <2>3. Append(bs[i + 1].content, f) \in Seq(Fragments \cup {None})
    BY <2>2 DEF Blocks
  <2>4. b \in Blocks /\ b.type = bs[i + 1].type /\ b.tool = bs[i + 1].tool
        /\ b.signed = bs[i + 1].signed
    BY <2>1, <2>2, <2>3 DEF Blocks
  <2>5. gs = [bs EXCEPT ![i + 1] = b]
    BY <1>2, <1>3, <1>6, <2>1 DEF Sse!Grow
  <2> QED BY <1>1, <1>3, <1>6, <2>4, <2>5
<1> QED BY <1>2, <1>3, <1>4, <1>5, <1>6 DEF Sse!Grow

LEMMA AfterDelta ==
  ASSUME NEW d \in Clients, NEW i \in 0 .. MaxBlocks - 1, NEW k \in Deltas,
         NEW f \in Fragments \cup {None}
  PROVE  LET e == Sse!Apply(d, Sse!BlockDelta(i, k, f)) IN
         /\ e \in Clients /\ e.phase = d.phase /\ e.reason = d.reason /\ e.open = d.open
         /\ Len(e.blocks) = Len(d.blocks) /\ ToolsOf(e) = ToolsOf(d)
         /\ \A j \in DOMAIN d.blocks :
               /\ e.blocks[j].type = d.blocks[j].type
               /\ k # "signature_delta" => e.blocks[j].signed = d.blocks[j].signed
<1>1. PICK ev : ev = Sse!BlockDelta(i, k, f)
  OBVIOUS
<1>2. ev \in Sse!Events /\ ev.type = "content_block_delta"
  BY <1>1, DeltaIsEvent DEF Sse!BlockDelta
<1>3. PICK gs : gs = Sse!Grow(d.blocks, ev)
  OBVIOUS
<1>4. i \in Nat /\ d.blocks \in Seq(Blocks)
  BY BlockBound DEF Clients
<1>5. /\ gs \in Seq(Blocks) /\ Len(gs) = Len(d.blocks)
      /\ \A j \in DOMAIN d.blocks :
            /\ gs[j].type = d.blocks[j].type /\ gs[j].tool = d.blocks[j].tool
            /\ k # "signature_delta" => gs[j].signed = d.blocks[j].signed
  BY <1>1, <1>3, <1>4, GrowKeeps
<1>6. PICK e : e = Sse!Apply(d, ev)
  OBVIOUS
<1>7. e = [d EXCEPT !.last = ev, !.blocks = gs]
  BY <1>2, <1>3, <1>6 DEF Sse!Apply, Clients
<1>8. e \in Clients /\ e.phase = d.phase /\ e.reason = d.reason /\ e.open = d.open /\ e.blocks = gs
  BY <1>2, <1>5, <1>7 DEF Clients
<1>9. DOMAIN gs = DOMAIN d.blocks
  BY <1>4, <1>5
<1>10. ToolsOf(e) = ToolsOf(d)
  BY <1>5, <1>8, <1>9 DEF ToolsOf
<1> QED BY <1>1, <1>5, <1>6, <1>8, <1>10

LEMMA AfterStop ==
  ASSUME NEW d \in Clients, NEW i \in 0 .. MaxBlocks - 1
  PROVE  LET e == Sse!Apply(d, Sse!BlockStop(i)) IN
         /\ e \in Clients /\ e.phase = d.phase /\ e.reason = d.reason /\ e.open = None
         /\ e.blocks = d.blocks /\ ToolsOf(e) = ToolsOf(d)
<1>1. PICK ev : ev = Sse!BlockStop(i)
  OBVIOUS
<1>2. ev \in Sse!Events /\ ev.type = "content_block_stop"
  BY <1>1, StopIsEvent DEF Sse!BlockStop
<1>3. PICK e : e = Sse!Apply(d, ev)
  OBVIOUS
<1>4. e = [d EXCEPT !.last = ev, !.open = None]
  BY <1>2, <1>3 DEF Sse!Apply, Clients
<1>5. e \in Clients /\ e.phase = d.phase /\ e.reason = d.reason /\ e.open = None
      /\ e.blocks = d.blocks
  BY <1>2, <1>4 DEF Clients
<1> QED BY <1>1, <1>3, <1>5 DEF ToolsOf

LEMMA AfterStart ==
  ASSUME NEW d \in Clients, NEW i \in 0 .. MaxBlocks - 1, NEW t \in Sse!BlockTypes,
         NEW tool \in Tools \cup {None}, t = "tool_use" <=> tool # None
  PROVE  LET e == Sse!Apply(d, Sse!BlockStart(i, t, tool)) IN
         /\ e \in Clients /\ e.phase = d.phase /\ e.reason = d.reason /\ e.open = i
         /\ Len(e.blocks) = Len(d.blocks) + 1
         /\ e.blocks[Len(d.blocks) + 1].type = t /\ ~ e.blocks[Len(d.blocks) + 1].signed
         /\ ToolsOf(e) = ToolsOf(d) \cup (IF tool = None THEN {} ELSE {tool.id})
<1>1. PICK ev : ev = Sse!BlockStart(i, t, tool)
  OBVIOUS
<1>2. ev \in Sse!Events /\ ev.type = "content_block_start" /\ ev.index = i /\ ev.block = t
      /\ ev.tool = tool
  BY <1>1, StartIsEvent DEF Sse!BlockStart
<1>3. PICK b : b = [type |-> t, tool |-> tool, content |-> <<>>, signed |-> FALSE]
  OBVIOUS
<1>4. <<>> \in Seq(Fragments \cup {None})
  OBVIOUS
<1>5. b \in Blocks /\ b.type = t /\ b.tool = tool /\ ~ b.signed
  BY <1>3, <1>4 DEF Blocks
<1>6. PICK bs : bs = d.blocks
  OBVIOUS
<1>7. bs \in Seq(Blocks) /\ Len(bs) \in Nat
  BY <1>6 DEF Clients
<1>8. PICK gs : gs = Append(bs, b)
  OBVIOUS
<1>9. gs \in Seq(Blocks) /\ Len(gs) = Len(bs) + 1 /\ gs[Len(bs) + 1] = b
      /\ (\A j \in DOMAIN bs : gs[j] = bs[j]) /\ DOMAIN gs = DOMAIN bs \cup {Len(bs) + 1}
  BY <1>5, <1>7, <1>8
<1>10. PICK e : e = Sse!Apply(d, ev)
  OBVIOUS
<1>11. e = [d EXCEPT !.last = ev, !.open = i, !.blocks = gs]
  BY <1>2, <1>3, <1>6, <1>8, <1>10 DEF Sse!Apply, Clients
<1>12. i \in Nat
  BY BlockBound
<1>13. e \in Clients /\ e.phase = d.phase /\ e.reason = d.reason /\ e.open = i /\ e.blocks = gs
  BY <1>2, <1>9, <1>11, <1>12 DEF Clients
<1>14. ToolsOf(e) = ToolsOf(d) \cup (IF tool = None THEN {} ELSE {tool.id})
  <2>1. Len(bs) + 1 \notin DOMAIN bs
    BY <1>7
  <2>2. ToolsOf(d) = {bs[j].tool.id : j \in {m \in DOMAIN bs : bs[m].type = "tool_use"}}
    BY <1>6 DEF ToolsOf
  <2>3. ToolsOf(e) = {gs[j].tool.id : j \in {m \in DOMAIN gs : gs[m].type = "tool_use"}}
    BY <1>13 DEF ToolsOf
  <2>4. CASE t = "tool_use"
    <3>1. {m \in DOMAIN gs : gs[m].type = "tool_use"}
             = {m \in DOMAIN bs : bs[m].type = "tool_use"} \cup {Len(bs) + 1}
      BY <1>5, <1>9, <2>4
    <3>2. ToolsOf(e) = ToolsOf(d) \cup {tool.id}
      BY <1>5, <1>9, <2>2, <2>3, <3>1
    <3> QED BY <2>4, <3>2
  <2>5. CASE t # "tool_use"
    <3>1. {m \in DOMAIN gs : gs[m].type = "tool_use"} = {m \in DOMAIN bs : bs[m].type = "tool_use"}
      BY <1>5, <1>9, <2>5
    <3> QED BY <1>9, <2>2, <2>3, <2>5, <3>1
  <2> QED BY <2>4, <2>5
<1> QED BY <1>1, <1>5, <1>6, <1>9, <1>10, <1>13, <1>14

-----------------------------------------------------------------------------
(* The handlers' helpers.  Good: the pending events of s lead the client   *)
(* to an agreement with s, with the tool calls ids.                        *)

Good(c, s, tidy, ids) ==
    \E d : Runs(c, s.events, d, tidy) /\ Agree(s, d) /\ ToolsOf(d) = ids

(* Only the blocks and the events differ.                                  *)
Framed(s, r) ==
    /\ r.started = s.started /\ r.finalized = s.finalized
    /\ r.streamInterrupted = s.streamInterrupted
    /\ r.toolCallByIndex = s.toolCallByIndex /\ r.finishReason = s.finishReason
    /\ r.accumulatedText = s.accumulatedText
    /\ r.accumulatedReasoning = s.accumulatedReasoning

LEMMA GoodStays ==
  ASSUME NEW c, NEW s, NEW r, NEW tidy \in BOOLEAN, NEW less \in BOOLEAN, NEW ids, Good(c, s, tidy, ids), less => tidy,
         r.events = s.events, r.curBlockType = s.curBlockType, r.curBlockIndex = s.curBlockIndex,
         r.nextBlockIndex = s.nextBlockIndex
  PROVE  Good(c, r, less, ids)
<1>1. PICK d : Runs(c, s.events, d, tidy) /\ Agree(s, d) /\ ToolsOf(d) = ids
  BY DEF Good
<1>2. Runs(c, r.events, d, less)
  BY <1>1, RunsUntidy
<1>3. Agree(r, d)
  BY <1>1 DEF Agree
<1> QED BY <1>1, <1>2, <1>3 DEF Good

LEMMA Emitted ==
  ASSUME NEW s \in Converters, NEW e \in Sse!Events
  PROVE  /\ Emit(s, e) \in Converters /\ Framed(s, Emit(s, e))
         /\ Emit(s, e).events = Append(s.events, e)
         /\ Emit(s, e).curBlockType = s.curBlockType
         /\ Emit(s, e).curBlockIndex = s.curBlockIndex
         /\ Emit(s, e).nextBlockIndex = s.nextBlockIndex
         /\ Emit(s, e).thinkingBlockStopped = s.thinkingBlockStopped
<1>1. PICK es : es = Append(s.events, e)
  OBVIOUS
<1>2. es \in Seq(Sse!Events)
  BY <1>1 DEF Converters
<1>3. Emit(s, e) = [s EXCEPT !.events = es]
  BY <1>1 DEF Emit, Converters
<1> QED BY <1>1, <1>2, <1>3 DEF Converters, Framed

(* A delta for the open block, of its kind; an untidy stream may miss it.  *)
LEMMA Said ==
  ASSUME NEW s \in Converters, NEW c, NEW tidy \in BOOLEAN, NEW ids, Good(c, s, tidy, ids),
         NEW k \in ContentDeltas, NEW f \in Fragments,
         tidy => s.curBlockType # NoBlock /\ k = Sse!DeltaOf[s.curBlockType]
  PROVE  /\ Delta(s, k, f) \in Converters /\ Framed(s, Delta(s, k, f))
         /\ Good(c, Delta(s, k, f), tidy, ids)
         /\ Delta(s, k, f).curBlockType = s.curBlockType
         /\ Delta(s, k, f).curBlockIndex = s.curBlockIndex
         /\ Delta(s, k, f).nextBlockIndex = s.nextBlockIndex
         /\ Delta(s, k, f).thinkingBlockStopped = s.thinkingBlockStopped
<1>1. PICK d : Runs(c, s.events, d, tidy) /\ Agree(s, d) /\ ToolsOf(d) = ids
  BY DEF Good
<1>2. PICK i \in 0 .. MaxBlocks - 1 : i = s.curBlockIndex
  BY <1>1 DEF Agree
<1>3. PICK e : e = Sse!BlockDelta(i, k, f)
  OBVIOUS
<1>a. k \in Deltas /\ k # "signature_delta"
  BY DEF Deltas, ContentDeltas
<1>4. e \in Sse!Events
  BY <1>3, <1>a, DeltaIsEvent
<1>5. PICK r : r = Delta(s, k, f)
  OBVIOUS
<1>6. /\ r \in Converters /\ Framed(s, r) /\ r.events = Append(s.events, e)
      /\ r.curBlockType = s.curBlockType /\ r.curBlockIndex = s.curBlockIndex
      /\ r.nextBlockIndex = s.nextBlockIndex
      /\ r.thinkingBlockStopped = s.thinkingBlockStopped
  <2>1. r = Emit(s, e)
    BY <1>2, <1>3, <1>5 DEF Delta
  <2> QED BY <1>4, <2>1, Emitted
<1>7. d \in Clients /\ d.phase = "streaming"
  BY <1>1 DEF Agree
<1>8. tidy => Sse!Legal(d, e)
  <2> SUFFICES ASSUME tidy PROVE Sse!Legal(d, e)
    OBVIOUS
  <2>1. s.curBlockType # NoBlock /\ k = Sse!DeltaOf[s.curBlockType]
    OBVIOUS
  <2>2. /\ d.open = i /\ d.blocks[i + 1].type = s.curBlockType
        /\ ~ d.blocks[i + 1].signed
    BY <1>1, <1>2, <2>1 DEF Agree
  <2>3. e.type = "content_block_delta" /\ e.index = i /\ e.delta = k
    BY <1>3 DEF Sse!BlockDelta
  <2> QED BY <1>a, <1>7, <2>1, <2>2, <2>3 DEF Sse!Legal
<1>9. PICK x : x = Sse!Apply(d, e)
  OBVIOUS
<1>10. /\ x \in Clients /\ x.phase = d.phase /\ x.reason = d.reason /\ x.open = d.open
       /\ Len(x.blocks) = Len(d.blocks) /\ ToolsOf(x) = ToolsOf(d)
       /\ \A j \in DOMAIN d.blocks : /\ x.blocks[j].type = d.blocks[j].type
                                     /\ x.blocks[j].signed = d.blocks[j].signed
  BY <1>3, <1>7, <1>9, <1>a, AfterDelta
<1>11. Runs(c, r.events, x, tidy)
  <2>1. s.events \in Seq(Sse!Events)
    BY DEF Converters
  <2> QED BY <1>1, <1>6, <1>7, <1>8, <1>9, <2>1, RunsOn
<1>12. Agree(r, x)
  <2>1. s.curBlockType # NoBlock => i + 1 \in DOMAIN d.blocks
    <3>1. d.blocks \in Seq(Blocks)
      BY <1>7 DEF Clients
    <3>2. s.curBlockType # NoBlock => Len(d.blocks) = i + 1
      BY <1>1, <1>2 DEF Agree
    <3>3. i + 1 \in Nat /\ i + 1 >= 1
      BY BlockBound
    <3> QED BY <3>1, <3>2, <3>3
  <2> QED BY <1>1, <1>2, <1>6, <1>10, <2>1 DEF Agree
<1>13. ToolsOf(x) = ids
  BY <1>1, <1>10
<1> QED BY <1>5, <1>6, <1>11, <1>12, <1>13 DEF Good

LEMMA BlockNames ==
  /\ NoBlock \notin Sse!BlockTypes
  /\ {"text", "thinking", "tool_use"} = Sse!BlockTypes
BY Zenon DEF NoBlock, Sse!BlockTypes

(* StopBlock leaves no block open; a thinking block is signed first.       *)
LEMMA Stopped ==
  ASSUME NEW s \in Converters, NEW c, NEW tidy \in BOOLEAN, NEW ids, Good(c, s, tidy, ids)
  PROVE  LET r == StopBlock(s) IN
         /\ r \in Converters /\ Framed(s, r) /\ Good(c, r, tidy, ids)
         /\ r.curBlockType = NoBlock /\ r.nextBlockIndex = s.nextBlockIndex
<1>1. PICK d : Runs(c, s.events, d, tidy) /\ Agree(s, d) /\ ToolsOf(d) = ids
  BY DEF Good
<1>2. PICK i \in 0 .. MaxBlocks - 1 : i = s.curBlockIndex
  BY <1>1 DEF Agree
<1>3. CASE s.curBlockType = NoBlock
  <2>1. StopBlock(s) = s
    BY <1>3, BlockNames DEF StopBlock
  <2> QED BY <1>3, <2>1 DEF Framed
<1>4. CASE s.curBlockType # NoBlock
  <2>1. /\ d \in Clients /\ d.phase = "streaming" /\ d.reason = None /\ d.open = i
        /\ Len(d.blocks) = i + 1 /\ s.nextBlockIndex = i + 1
        /\ d.blocks[i + 1].type = s.curBlockType /\ ~ d.blocks[i + 1].signed
    BY <1>1, <1>2, <1>4 DEF Agree
  <2>2. i + 1 \in DOMAIN d.blocks /\ s.events \in Seq(Sse!Events) /\ i \in Nat
    <3>1. d.blocks \in Seq(Blocks) /\ s.events \in Seq(Sse!Events)
      BY <2>1 DEF Clients, Converters
    <3>2. i + 1 \in Nat /\ i + 1 >= 1 /\ i \in Nat
      BY BlockBound
    <3> QED BY <2>1, <3>1, <3>2
  <2>3. PICK stop : stop = Sse!BlockStop(i)
    OBVIOUS
  <2>4. stop \in Sse!Events /\ stop.type = "content_block_stop" /\ stop.index = i
    BY <2>3, StopIsEvent DEF Sse!BlockStop
  <2>5. CASE s.curBlockType # "thinking"
    <3>1. PICK r : r = StopBlock(s)
      OBVIOUS
    <3>2. r = [Emit(s, stop) EXCEPT !.curBlockType = NoBlock]
      BY <1>2, <1>4, <2>3, <2>5, <3>1 DEF StopBlock
    <3>3. /\ r \in Converters /\ Framed(s, r) /\ r.events = Append(s.events, stop)
          /\ r.curBlockType = NoBlock /\ r.nextBlockIndex = s.nextBlockIndex
          /\ r.curBlockIndex = s.curBlockIndex
      <4>1. PICK q : q = Emit(s, stop)
        OBVIOUS
      <4>2. /\ q \in Converters /\ Framed(s, q) /\ q.events = Append(s.events, stop)
            /\ q.nextBlockIndex = s.nextBlockIndex /\ q.curBlockIndex = s.curBlockIndex
        BY <2>4, <4>1, Emitted
      <4>3. r = [q EXCEPT !.curBlockType = NoBlock]
        BY <3>2, <4>1
      <4> QED BY <4>2, <4>3 DEF Converters, Framed
    <3>4. PICK x : x = Sse!Apply(d, stop)
      OBVIOUS
    <3>5. /\ x \in Clients /\ x.phase = d.phase /\ x.reason = d.reason /\ x.open = None
          /\ x.blocks = d.blocks /\ ToolsOf(x) = ToolsOf(d)
      BY <2>1, <2>3, <3>4, AfterStop
    <3>6. Sse!Legal(d, stop)
      BY <2>1, <2>4, <2>5 DEF Sse!Legal
    <3>7. Runs(c, r.events, x, tidy)
      BY <1>1, <2>1, <2>2, <3>3, <3>4, <3>6, RunsOn
    <3>8. Agree(r, x)
      BY <1>1, <3>3, <3>5 DEF Agree
    <3> QED BY <1>1, <3>1, <3>3, <3>5, <3>7, <3>8 DEF Good
  <2>6. CASE s.curBlockType = "thinking"
    <3>1. PICK sign : sign = Sse!BlockDelta(i, "signature_delta", None)
      OBVIOUS
    <3>2. /\ sign \in Sse!Events /\ sign.type = "content_block_delta" /\ sign.index = i
          /\ sign.delta = "signature_delta"
      BY <3>1, DeltaIsEvent DEF Deltas, Sse!BlockDelta
    <3>3. PICK y : y = Sse!Apply(d, sign)
      OBVIOUS
    <3>4. /\ y \in Clients /\ y.phase = d.phase /\ y.reason = d.reason /\ y.open = d.open
          /\ Len(y.blocks) = Len(d.blocks) /\ ToolsOf(y) = ToolsOf(d)
      <4>1. "signature_delta" \in Deltas /\ None \in Fragments \cup {None}
        BY DEF Deltas
      <4> QED BY <2>1, <3>1, <3>3, <4>1, AfterDelta
    <3>5. y.blocks[i + 1].signed
      <4>1. PICK bs : bs = d.blocks
        OBVIOUS
      <4>2. bs \in Seq(Blocks) /\ i + 1 \in DOMAIN bs /\ bs[i + 1] \in Blocks
        BY <2>1, <2>2, <4>1 DEF Clients
      <4>3. Sse!Grow(bs, sign) = [bs EXCEPT ![i + 1] = [bs[i + 1] EXCEPT !.signed = TRUE]]
        BY <3>2, <4>2 DEF Sse!Grow
      <4>4. Sse!Grow(bs, sign)[i + 1].signed
        BY <4>2, <4>3 DEF Blocks
      <4>5. y.blocks = Sse!Grow(bs, sign)
        BY <2>1, <3>2, <3>3, <4>1 DEF Sse!Apply, Clients
      <4> QED BY <4>4, <4>5
    <3>6. Sse!Legal(d, sign)
      BY <2>1, <2>6, <3>2 DEF Sse!Legal
    <3>7. PICK x : x = Sse!Apply(y, stop)
      OBVIOUS
    <3>8. /\ x \in Clients /\ x.phase = y.phase /\ x.reason = y.reason /\ x.open = None
          /\ x.blocks = y.blocks /\ ToolsOf(x) = ToolsOf(y)
      BY <2>3, <3>4, <3>7, AfterStop
    <3>9. Sse!Legal(y, stop)
      BY <2>1, <2>4, <3>4, <3>5 DEF Sse!Legal
    <3>10. PICK t : t = Emit(s, sign)
      OBVIOUS
    <3>11. t \in Converters /\ Framed(s, t) /\ t.events = Append(s.events, sign)
           /\ t.nextBlockIndex = s.nextBlockIndex /\ t.curBlockIndex = s.curBlockIndex
      BY <3>2, <3>10, Emitted
    <3>12. PICK r : r = StopBlock(s)
      OBVIOUS
    <3>13. r = [Emit(t, stop) EXCEPT !.curBlockType = NoBlock, !.thinkingBlockStopped = TRUE]
      BY <1>2, <1>4, <2>3, <2>6, <3>1, <3>10, <3>12 DEF StopBlock
    <3>14. /\ r \in Converters /\ Framed(t, r) /\ r.events = Append(t.events, stop)
           /\ r.curBlockType = NoBlock /\ r.nextBlockIndex = t.nextBlockIndex
           /\ r.curBlockIndex = t.curBlockIndex
      <4>1. PICK q : q = Emit(t, stop)
        OBVIOUS
      <4>2. /\ q \in Converters /\ Framed(t, q) /\ q.events = Append(t.events, stop)
            /\ q.nextBlockIndex = t.nextBlockIndex /\ q.curBlockIndex = t.curBlockIndex
        BY <2>4, <3>11, <4>1, Emitted
      <4>3. r = [q EXCEPT !.curBlockType = NoBlock, !.thinkingBlockStopped = TRUE]
        BY <3>13, <4>1
      <4> QED BY <4>2, <4>3 DEF Converters, Framed
    <3>15. t.events \in Seq(Sse!Events)
      BY <3>11 DEF Converters
    <3>16. Runs(c, t.events, y, tidy)
      BY <1>1, <2>1, <2>2, <3>3, <3>6, <3>11, RunsOn
    <3>17. Runs(c, r.events, x, tidy)
      BY <2>1, <3>4, <3>7, <3>9, <3>14, <3>15, <3>16, RunsOn
    <3>18. Agree(r, x)
      BY <1>1, <2>1, <3>4, <3>8, <3>11, <3>14 DEF Agree
    <3>19. Framed(s, r)
      BY <3>11, <3>14 DEF Framed
    <3> QED BY <1>1, <3>4, <3>8, <3>11, <3>12, <3>14, <3>17, <3>18, <3>19 DEF Good
  <2> QED BY <2>5, <2>6
<1> QED BY <1>3, <1>4

(* OpenBlock, when none is open.                                           *)
LEMMA Opened ==
  ASSUME NEW s \in Converters, NEW c, NEW tidy \in BOOLEAN, NEW ids, Good(c, s, tidy, ids),
         s.curBlockType = NoBlock, s.nextBlockIndex < MaxBlocks, NEW t \in Sse!BlockTypes,
         NEW tool \in Tools \cup {None}, t = "tool_use" <=> tool # None,
         NEW more, more = IF tool = None THEN {} ELSE {tool.id}
  PROVE  LET r == OpenBlock(s, t, tool) IN
         /\ r \in Converters /\ Framed(s, r)
         /\ Good(c, r, tidy, ids \cup more)
         /\ r.curBlockType = t /\ r.nextBlockIndex = s.nextBlockIndex + 1
<1>1. PICK d : Runs(c, s.events, d, tidy) /\ Agree(s, d) /\ ToolsOf(d) = ids
  BY DEF Good
<1>2. PICK i \in 0 .. MaxBlocks - 1 : i = s.nextBlockIndex
  <2>1. s.nextBlockIndex \in Nat
    BY DEF Converters
  <2> QED BY <2>1, BlockBound
<1>3. PICK e : e = Sse!BlockStart(i, t, tool)
  OBVIOUS
<1>4. e \in Sse!Events /\ e.type = "content_block_start" /\ e.index = i /\ e.block = t
      /\ e.tool = tool
  BY <1>3, StartIsEvent DEF Sse!BlockStart
<1>5. PICK r : r = OpenBlock(s, t, tool)
  OBVIOUS
<1>6. r = [Emit(s, e) EXCEPT !.curBlockType = t, !.curBlockIndex = i, !.nextBlockIndex = @ + 1]
  BY <1>2, <1>3, <1>5 DEF OpenBlock
<1>7. i \in Nat /\ i + 1 \in Nat
  BY BlockBound
<1>8. /\ r \in Converters /\ Framed(s, r) /\ r.events = Append(s.events, e)
      /\ r.curBlockType = t /\ r.curBlockIndex = i /\ r.nextBlockIndex = i + 1
  <2>1. PICK m : m = Emit(s, e)
    OBVIOUS
  <2>2. /\ m \in Converters /\ Framed(s, m) /\ m.events = Append(s.events, e)
        /\ m.nextBlockIndex = i
    BY <1>2, <1>4, <2>1, Emitted
  <2>3. r = [m EXCEPT !.curBlockType = t, !.curBlockIndex = i, !.nextBlockIndex = i + 1]
    BY <1>6, <2>1, <2>2
  <2> QED BY <1>7, <2>2, <2>3 DEF Converters, Framed
<1>9. /\ d \in Clients /\ d.phase = "streaming" /\ d.reason = None /\ d.open = None
      /\ Len(d.blocks) = i
  BY <1>1, <1>2 DEF Agree
<1>10. PICK x : x = Sse!Apply(d, e)
  OBVIOUS
<1>11. /\ x \in Clients /\ x.phase = d.phase /\ x.reason = d.reason /\ x.open = i
       /\ Len(x.blocks) = i + 1
       /\ x.blocks[i + 1].type = t /\ ~ x.blocks[i + 1].signed
       /\ ToolsOf(x) = ToolsOf(d) \cup (IF tool = None THEN {} ELSE {tool.id})
  BY <1>3, <1>9, <1>10, AfterStart
<1>12. Sse!Legal(d, e)
  BY <1>4, <1>9 DEF Sse!Legal
<1>13. s.events \in Seq(Sse!Events)
  BY DEF Converters
<1>14. Runs(c, r.events, x, tidy)
  BY <1>1, <1>8, <1>9, <1>10, <1>12, <1>13, RunsOn
<1>15. Agree(r, x)
  BY <1>8, <1>9, <1>11, BlockNames DEF Agree
<1> QED BY <1>1, <1>5, <1>8, <1>2, <1>11, <1>14, <1>15 DEF Good

LEMMA Ensured ==
  ASSUME NEW s \in Converters, NEW c, NEW tidy \in BOOLEAN, NEW ids, Good(c, s, tidy, ids),
         NEW t \in Sse!BlockTypes, t # "tool_use",
         s.curBlockType = t \/ s.nextBlockIndex < MaxBlocks
  PROVE  LET r == EnsureBlock(s, t) IN
         /\ r \in Converters /\ Framed(s, r) /\ Good(c, r, tidy, ids)
         /\ r.curBlockType = t
         /\ r.nextBlockIndex \in {s.nextBlockIndex, s.nextBlockIndex + 1} /\ r.nextBlockIndex > 0
<1>1. s.nextBlockIndex \in Nat
  BY DEF Converters
<1>2. CASE s.curBlockType = t
  <2>1. EnsureBlock(s, t) = s
    BY <1>2 DEF EnsureBlock
  <2>2. s.nextBlockIndex > 0
    <3>1. PICK d : Agree(s, d)
      BY DEF Good
    <3>2. s.nextBlockIndex = s.curBlockIndex + 1 /\ s.curBlockIndex \in Nat
      BY <1>2, <3>1, BlockNames DEF Agree, Converters
    <3> QED BY <3>2
  <2> QED BY <1>2, <2>1, <2>2 DEF Framed
<1>3. CASE s.curBlockType # t
  <2>1. PICK p : p = StopBlock(s)
    OBVIOUS
  <2>2. /\ p \in Converters /\ Framed(s, p) /\ Good(c, p, tidy, ids)
        /\ p.curBlockType = NoBlock /\ p.nextBlockIndex = s.nextBlockIndex
    BY <2>1, Stopped
  <2>3. PICK r : r = OpenBlock(p, t, None)
    OBVIOUS
  <2>4. PICK more : more = {}
    OBVIOUS
  <2>5. /\ r \in Converters /\ Framed(p, r) /\ Good(c, r, tidy, ids)
        /\ r.curBlockType = t /\ r.nextBlockIndex = p.nextBlockIndex + 1
    <3>1. PICK tool \in Tools \cup {None} : tool = None
      OBVIOUS
    <3>2. t = "tool_use" <=> tool # None
      BY <3>1
    <3>3. more = (IF tool = None THEN {} ELSE {tool.id}) /\ r = OpenBlock(p, t, tool)
      BY <2>3, <2>4, <3>1
    <3>5. p.nextBlockIndex < MaxBlocks /\ p \in Converters /\ Good(c, p, tidy, ids)
          /\ p.curBlockType = NoBlock
      BY <1>3, <2>2
    <3>6. /\ r \in Converters /\ Framed(p, r) /\ Good(c, r, tidy, ids \cup more)
          /\ r.curBlockType = t /\ r.nextBlockIndex = p.nextBlockIndex + 1
      BY <3>2, <3>3, <3>5, Opened, SMTT(30)
    <3>4. ids \cup more = ids
      BY <2>4
    <3> QED BY <3>4, <3>6
  <2>6. r = EnsureBlock(s, t)
    BY <1>3, <2>1, <2>3 DEF EnsureBlock
  <2>7. Framed(s, r)
    BY <2>2, <2>5 DEF Framed
  <2> QED BY <1>1, <2>2, <2>5, <2>6, <2>7
<1> QED BY <1>2, <1>3

-----------------------------------------------------------------------------
(* HandleContent and HandleReasoning.                                      *)

(* Only the blocks, the events, the text and the reasoning differ.         *)
Told(s, r) ==
    /\ r.started = s.started /\ r.finalized = s.finalized
    /\ r.streamInterrupted = s.streamInterrupted
    /\ r.toolCallByIndex = s.toolCallByIndex /\ r.finishReason = s.finishReason

LEMMA FragmentIn ==
  ASSUME NEW of \in Sources,
         NEW n \in 0 .. MaxFragments
  PROVE  Fragment(of, n) \in Fragments
BY DEF Fragment, Fragments

LEMMA BoundsNat == MaxChunks \in Nat /\ MaxEntries \in Nat /\ MaxFragments \in Nat
                   /\ MaxChunks <= MaxFragments /\ MaxEntries <= MaxFragments
                   /\ 1 \in 0 .. MaxFragments
BY BoundsAssumption DEF MaxFragments

LEMMA Content ==
  ASSUME NEW s \in Converters, NEW c, NEW tidy \in BOOLEAN, NEW ids, Good(c, s, tidy, ids),
         s.nextBlockIndex < MaxBlocks, NEW n \in 0 .. MaxChunks
  PROVE  LET r == HandleContent(s, n) IN
         /\ r \in Converters /\ Good(c, r, tidy, ids)
         /\ Told(s, r) /\ r.accumulatedReasoning = s.accumulatedReasoning
         /\ r.accumulatedText = IF n = 0 THEN s.accumulatedText ELSE n
         /\ r.nextBlockIndex \in {s.nextBlockIndex, s.nextBlockIndex + 1}
         /\ n # 0 => r.nextBlockIndex > 0
         /\ n = 0 => r.curBlockType = s.curBlockType
<1>1. s.nextBlockIndex \in Nat
  BY DEF Converters
<1>2. CASE n = 0
  BY <1>1, <1>2 DEF HandleContent, Told
<1>3. CASE n # 0
  <2>1. PICK p : p = [s EXCEPT !.accumulatedText = n]
    OBVIOUS
  <2>2. /\ p \in Converters /\ p.events = s.events /\ p.curBlockType = s.curBlockType
        /\ p.curBlockIndex = s.curBlockIndex /\ p.nextBlockIndex = s.nextBlockIndex
        /\ Told(s, p) /\ p.accumulatedText = n /\ p.accumulatedReasoning = s.accumulatedReasoning
    BY <2>1 DEF Converters, Told
  <2>3. PICK q : q = StopThinkingBlock(p)
    OBVIOUS
  <2>4. /\ q \in Converters /\ q.events = s.events /\ q.curBlockType = s.curBlockType
        /\ q.curBlockIndex = s.curBlockIndex /\ q.nextBlockIndex = s.nextBlockIndex
        /\ Told(s, q) /\ q.accumulatedText = n /\ q.accumulatedReasoning = s.accumulatedReasoning
    <3>1. PICK b \in BOOLEAN : b = (p.thinkingBlockStopped \/ p.curBlockType = "thinking")
      OBVIOUS
    <3>2. q = [p EXCEPT !.thinkingBlockStopped = b]
      BY <2>3, <3>1 DEF StopThinkingBlock
    <3> QED BY <2>2, <3>2 DEF Converters, Told
  <2>5. Good(c, q, tidy, ids)
    BY <2>4, GoodStays
  <2>6. PICK e : e = EnsureBlock(q, "text")
    OBVIOUS
  <2>7. /\ e \in Converters /\ Framed(q, e) /\ Good(c, e, tidy, ids)
        /\ e.curBlockType = "text" /\ e.nextBlockIndex > 0
        /\ e.nextBlockIndex \in {q.nextBlockIndex, q.nextBlockIndex + 1}
    <3>1. "text" \in Sse!BlockTypes /\ "text" # "tool_use"
      BY BlockNames
    <3> QED BY <2>4, <2>5, <2>6, <3>1, Ensured
  <2>8. PICK f \in Fragments : f = Fragment("text", n)
    <3>1. n \in 0 .. MaxFragments
      BY BoundsNat
    <3> QED BY <3>1, FragmentIn DEF Sources
  <2>9. PICK r : r = Delta(e, "text_delta", f)
    OBVIOUS
  <2>10. /\ r \in Converters /\ Framed(e, r) /\ Good(c, r, tidy, ids)
         /\ r.nextBlockIndex = e.nextBlockIndex
    <3>1. "text_delta" \in ContentDeltas /\ "text" # NoBlock
      BY BlockNames DEF ContentDeltas
    <3> QED BY <2>7, <2>9, <3>1, DeltaNames, Said
  <2>11. r = HandleContent(s, n)
    BY <1>3, <2>1, <2>3, <2>6, <2>8, <2>9 DEF HandleContent
  <2>12. Told(s, r) /\ r.accumulatedText = n /\ r.accumulatedReasoning = s.accumulatedReasoning
    BY <2>4, <2>7, <2>10 DEF Framed, Told
  <2> QED BY <1>1, <1>3, <2>4, <2>7, <2>10, <2>11, <2>12
<1> QED BY <1>2, <1>3

LEMMA Reasoning ==
  ASSUME NEW s \in Converters, NEW c, NEW tidy \in BOOLEAN, NEW ids, Good(c, s, tidy, ids),
         s.nextBlockIndex < MaxBlocks, NEW n \in 0 .. MaxChunks
  PROVE  LET r == HandleReasoning(s, n) IN
         /\ r \in Converters /\ Good(c, r, tidy, ids)
         /\ Told(s, r) /\ r.accumulatedText = s.accumulatedText
         /\ r.accumulatedReasoning = IF n = 0 THEN s.accumulatedReasoning ELSE n
         /\ r.nextBlockIndex \in {s.nextBlockIndex, s.nextBlockIndex + 1}
         /\ n = 0 => r.curBlockType = s.curBlockType
<1>1. s.nextBlockIndex \in Nat
  BY DEF Converters
<1>2. CASE n = 0
  BY <1>1, <1>2 DEF HandleReasoning, Told
<1>3. CASE n # 0
  <2>1. PICK p : p = [s EXCEPT !.accumulatedReasoning = n]
    OBVIOUS
  <2>2. /\ p \in Converters /\ p.events = s.events /\ p.curBlockType = s.curBlockType
        /\ p.curBlockIndex = s.curBlockIndex /\ p.nextBlockIndex = s.nextBlockIndex
        /\ Told(s, p) /\ p.accumulatedText = s.accumulatedText /\ p.accumulatedReasoning = n
    BY <2>1 DEF Converters, Told
  <2>3. Good(c, p, tidy, ids)
    BY <2>2, GoodStays
  <2>4. CASE s.thinkingBlockStopped
    <3>1. p = HandleReasoning(s, n)
      BY <1>3, <2>1, <2>4 DEF HandleReasoning
    <3> QED BY <1>1, <1>3, <2>2, <2>3, <3>1
  <2>5. CASE ~ s.thinkingBlockStopped
    <3>1. PICK e : e = EnsureBlock(p, "thinking")
      OBVIOUS
    <3>2. /\ e \in Converters /\ Framed(p, e) /\ Good(c, e, tidy, ids)
          /\ e.curBlockType = "thinking"
          /\ e.nextBlockIndex \in {p.nextBlockIndex, p.nextBlockIndex + 1}
      <4>1. "thinking" \in Sse!BlockTypes /\ "thinking" # "tool_use"
        BY BlockNames
      <4> QED BY <2>2, <2>3, <3>1, <4>1, Ensured
    <3>3. PICK f \in Fragments : f = Fragment("reasoning", n)
      <4>1. n \in 0 .. MaxFragments
        BY BoundsNat
      <4> QED BY <4>1, FragmentIn DEF Sources
    <3>4. PICK r : r = Delta(e, "thinking_delta", f)
      OBVIOUS
    <3>5. /\ r \in Converters /\ Framed(e, r) /\ Good(c, r, tidy, ids)
          /\ r.nextBlockIndex = e.nextBlockIndex
      <4>1. "thinking_delta" \in ContentDeltas /\ "thinking" # NoBlock
        BY BlockNames DEF ContentDeltas
      <4> QED BY <3>2, <3>4, <4>1, DeltaNames, Said
    <3>6. r = HandleReasoning(s, n)
      BY <1>3, <2>1, <2>5, <3>1, <3>3, <3>4 DEF HandleReasoning
    <3>7. Told(s, r) /\ r.accumulatedText = s.accumulatedText /\ r.accumulatedReasoning = n
      BY <2>2, <3>2, <3>5 DEF Framed, Told
    <3> QED BY <1>1, <1>3, <2>2, <3>2, <3>5, <3>6, <3>7
  <2> QED BY <2>4, <2>5
<1> QED BY <1>2, <1>3

-----------------------------------------------------------------------------
(* HandleToolCallDelta.                                                    *)

(* Only the blocks, the events and the calls differ.                       *)
Recalls(s, r, calls) ==
    /\ r.started = s.started /\ r.finalized = s.finalized
    /\ r.streamInterrupted = s.streamInterrupted /\ r.finishReason = s.finishReason
    /\ r.accumulatedText = s.accumulatedText
    /\ r.accumulatedReasoning = s.accumulatedReasoning
    /\ r.toolCallByIndex = calls

LEMMA NewCall ==
  ASSUME NEW s \in Converters, NEW c, NEW tidy \in BOOLEAN, Good(c, s, tidy, ToolsSeen(s)),
         NEW k \in Calls, s.toolCallByIndex[k] = None, NEW id \in ToolIds,
         NEW name \in Names \cup {None}, s.nextBlockIndex < MaxBlocks
  PROVE  LET r == OpenBlock([StopBlock(s) EXCEPT !.toolCallByIndex = [@ EXCEPT ![k] = id]],
                            "tool_use", [id |-> id, name |-> name])
         IN  /\ r \in Converters /\ Good(c, r, tidy, ToolsSeen(r))
             /\ Recalls(s, r, [s.toolCallByIndex EXCEPT ![k] = id])
             /\ r.curBlockType = "tool_use" /\ r.nextBlockIndex = s.nextBlockIndex + 1
             /\ OpenCalls(r) = OpenCalls(s) \cup {k}
<1>1. PICK p : p = StopBlock(s)
  OBVIOUS
<1>2. /\ p \in Converters /\ Framed(s, p) /\ Good(c, p, tidy, ToolsSeen(s))
      /\ p.curBlockType = NoBlock /\ p.nextBlockIndex = s.nextBlockIndex
  BY <1>1, Stopped
<1>3. PICK tc : tc = [s.toolCallByIndex EXCEPT ![k] = id]
  OBVIOUS
<1>4. tc \in [Calls -> ToolIds \cup {None}] /\ tc[k] = id
      /\ \A x \in Calls : x # k => tc[x] = s.toolCallByIndex[x]
  BY <1>3 DEF Converters
<1>5. PICK q : q = [p EXCEPT !.toolCallByIndex = tc]
  OBVIOUS
<1>6. /\ q \in Converters /\ Recalls(s, q, tc) /\ q.events = p.events
      /\ q.curBlockType = p.curBlockType /\ q.curBlockIndex = p.curBlockIndex
      /\ q.nextBlockIndex = p.nextBlockIndex
  BY <1>2, <1>4, <1>5 DEF Converters, Framed, Recalls
<1>7. Good(c, q, tidy, ToolsSeen(s))
  BY <1>2, <1>6, GoodStays
<1>8. PICK tool \in Tools : tool = [id |-> id, name |-> name]
  BY DEF Tools
<1>9. tool # None /\ tool.id = id /\ id # None
  BY <1>8, NoneAssumption
<1>10. PICK r : r = OpenBlock(q, "tool_use", tool)
  OBVIOUS
<1>11. /\ r \in Converters /\ Framed(q, r)
       /\ Good(c, r, tidy, ToolsSeen(s) \cup {id})
       /\ r.curBlockType = "tool_use" /\ r.nextBlockIndex = q.nextBlockIndex + 1
  <2>1. PICK t \in Sse!BlockTypes : t = "tool_use"
    BY BlockNames
  <2>2. t = "tool_use" <=> tool # None
    BY <1>9, <2>1
  <2>3. q.curBlockType = NoBlock /\ q.nextBlockIndex < MaxBlocks
    BY <1>2, <1>6
  <2>4. r = OpenBlock(q, t, tool)
    BY <1>10, <2>1
  <2>5. PICK more : more = {id}
    OBVIOUS
  <2>6. tool \in Tools \cup {None} /\ q \in Converters /\ more = IF tool = None THEN {} ELSE {tool.id}
    BY <1>6, <1>9, <2>5
  <2>7. PICK ids : ids = ToolsSeen(s)
    OBVIOUS
  <2>8. Good(c, q, tidy, ids)
    BY <1>7, <2>7
  <2>9. /\ r \in Converters /\ Framed(q, r) /\ Good(c, r, tidy, ids \cup more)
        /\ r.curBlockType = t /\ r.nextBlockIndex = q.nextBlockIndex + 1
    BY <2>2, <2>3, <2>4, <2>6, <2>8, Opened, SMTT(30)
  <2> QED BY <2>1, <2>5, <2>7, <2>9
<1>12. Recalls(s, r, tc)
  BY <1>6, <1>11 DEF Framed, Recalls
<1>13. ToolsSeen(r) = ToolsSeen(s) \cup {id}
  <2>1. r.toolCallByIndex = tc
    BY <1>12 DEF Recalls
  <2> QED BY <1>4, <1>9, <2>1 DEF ToolsSeen
<1>14. Good(c, r, tidy, ToolsSeen(r))
  BY <1>11, <1>13
<1>15. OpenCalls(r) = OpenCalls(s) \cup {k}
  <2>1. r.toolCallByIndex = tc
    BY <1>12 DEF Recalls
  <2> QED BY <1>4, <1>9, <2>1 DEF OpenCalls
<1>16. r = OpenBlock([StopBlock(s) EXCEPT !.toolCallByIndex = [@ EXCEPT ![k] = id]],
                     "tool_use", [id |-> id, name |-> name])
  <2>1. p.toolCallByIndex = s.toolCallByIndex
    BY <1>2 DEF Framed
  <2>2. q = [p EXCEPT !.toolCallByIndex = [@ EXCEPT ![k] = id]]
    BY <1>3, <1>5, <2>1
  <2> QED BY <1>1, <1>8, <1>10, <2>2
<1> QED BY <1>2, <1>3, <1>6, <1>11, <1>12, <1>14, <1>15, <1>16

LEMMA CountedCalls ==
  ASSUME NEW s \in Converters
  PROVE  /\ Cardinality(OpenCalls(s)) \in Nat /\ Cardinality(Calls) \in Nat
         /\ Cardinality(OpenCalls(s)) <= Cardinality(Calls)
         /\ \A k \in Calls : k \notin OpenCalls(s) =>
               Cardinality(OpenCalls(s) \cup {k}) = Cardinality(OpenCalls(s)) + 1
<1>1. PICK S : S = OpenCalls(s)
  OBVIOUS
<1>2. S \subseteq Calls
  BY <1>1 DEF OpenCalls
<1>3. IsFiniteSet(S) /\ Cardinality(S) <= Cardinality(Calls)
  BY <1>2, CallsAssumption, FS_Subset
<1>4. Cardinality(S) \in Nat /\ Cardinality(Calls) \in Nat
  BY <1>3, CallsAssumption, FS_CardinalityType
<1>5. \A k \in Calls : k \notin S => Cardinality(S \cup {k}) = Cardinality(S) + 1
  BY <1>3, FS_AddElement
<1> QED BY <1>1, <1>3, <1>4, <1>5

(* What is known of an entry, and what it adds to the history.             *)
LEMMA EntryFacts ==
  ASSUME NEW u \in Histories, NEW k \in Calls, NEW d \in NextDeltas(u, k)
  PROVE  /\ d.index = k /\ d.id \in BOOLEAN /\ d.name \in Names \cup {None}
         /\ d.args = 0 \/ d.args = u.args[k] + 1 \/ d.args = 1
         /\ u.name[k] = None <=> d.name # None
         /\ d.args = 1 /\ u.args[k] # 0 => u.name[k] = None
<1>1. CASE u.name[k] = None
  <2>1. PICK id \in BOOLEAN, name \in Names, n \in {0, 1} :
           d = [index |-> k, id |-> id, name |-> name, args |-> n]
    BY <1>1 DEF NextDeltas
  <2>2. name # None
    BY NoneAssumption
  <2> QED BY <1>1, <2>1, <2>2
<1>2. CASE u.name[k] # None
  <2>1. PICK n \in {0, u.args[k] + 1} : d = [index |-> k, id |-> FALSE, name |-> None, args |-> n]
    BY <1>2 DEF NextDeltas
  <2>2. u.args[k] \in Nat
    BY BoundsNat DEF Histories
  <2> QED BY <1>2, <2>1, <2>2
<1> QED BY <1>1, <1>2

LEMMA SendDeltaFacts ==
  ASSUME NEW u \in Histories, NEW k \in Calls, NEW d \in NextDeltas(u, k), u.entries < MaxEntries,
         \A c \in Calls : u.args[c] <= u.entries
  PROVE  LET v == SendDelta(u, d) IN
         /\ v \in Histories /\ v.entries = u.entries + 1
         /\ v.chunks = u.chunks /\ v.text = u.text /\ v.reasoning = u.reasoning
         /\ v.finish = u.finish /\ v.last = k
         /\ v.name[k] # None /\ \A c \in Calls : c # k => v.name[c] = u.name[c]
         /\ \A c \in Calls : v.args[c] <= v.entries
         /\ ~ v.mixed => (~ u.mixed /\ (u.name[k] = None \/ u.last = k))
<1>1. /\ d.index = k /\ d.name \in Names \cup {None}
      /\ d.args = 0 \/ d.args = u.args[k] + 1 \/ d.args = 1
      /\ u.name[k] = None <=> d.name # None
  BY EntryFacts
<1>2. u.entries \in Nat /\ u.entries + 1 \in 0 .. MaxEntries
  BY BoundsNat DEF Histories
<1>3. PICK args : args = [u.args EXCEPT ![k] = IF d.args = 0 THEN u.args[k] ELSE d.args]
  OBVIOUS
<1>4. /\ args \in [Calls -> 0 .. MaxEntries] /\ \A c \in Calls : args[c] <= u.entries + 1
  <2>1. u.args \in [Calls -> 0 .. MaxEntries] /\ u.args[k] \in 0 .. MaxEntries
        /\ u.args[k] <= u.entries
    BY DEF Histories
  <2>2. PICK n \in 0 .. MaxEntries :
           n = (IF d.args = 0 THEN u.args[k] ELSE d.args) /\ n <= u.entries + 1
    BY <1>1, <1>2, <2>1, BoundsNat
  <2>3. args = [u.args EXCEPT ![k] = n]
    BY <1>3, <2>2
  <2>4. \A c \in Calls : args[c] = IF c = k THEN n ELSE u.args[c]
    BY <2>1, <2>3
  <2>5. \A c \in Calls : u.args[c] \in Nat /\ u.args[c] <= u.entries
    BY <2>1, BoundsNat
  <2> QED BY <1>2, <2>1, <2>2, <2>3, <2>4, <2>5
<1>5. PICK name : name = [u.name EXCEPT ![k] = IF d.name = None THEN u.name[k] ELSE d.name]
  OBVIOUS
<1>6. /\ name \in [Calls -> Names \cup {None}] /\ name[k] # None
      /\ \A c \in Calls : c # k => name[c] = u.name[c]
  <2>1. u.name \in [Calls -> Names \cup {None}]
    BY DEF Histories
  <2> QED BY <1>1, <1>5, <2>1
<1>7. PICK mixed \in BOOLEAN : mixed = (u.mixed \/ (u.name[k] # None /\ u.last # k))
  OBVIOUS
<1>8. PICK v : v = SendDelta(u, d)
  OBVIOUS
<1>9. v = [u EXCEPT !.entries = u.entries + 1, !.args = args, !.name = name, !.mixed = mixed,
                    !.last = k]
  BY <1>1, <1>3, <1>5, <1>7, <1>8 DEF SendDelta
<1>10. v \in Histories
  BY <1>2, <1>4, <1>6, <1>7, <1>9 DEF Histories
<1>11. /\ v.entries = u.entries + 1 /\ v.chunks = u.chunks /\ v.text = u.text
       /\ v.reasoning = u.reasoning /\ v.finish = u.finish /\ v.last = k
       /\ v.name = name /\ v.args = args /\ v.mixed = mixed
  BY <1>9 DEF Histories
<1> QED BY <1>4, <1>6, <1>7, <1>8, <1>10, <1>11

LEMMA Argued ==
  ASSUME NEW s \in Converters, NEW c, NEW tidy \in BOOLEAN, Good(c, s, tidy, ToolsSeen(s)),
         NEW u \in Histories, NEW k \in Calls, NEW d \in NextDeltas(u, k), u.entries < MaxEntries,
         u.args[k] <= u.entries, tidy => s.curBlockType = "tool_use"
  PROVE  LET r == InputJSONDelta(s, d) IN
         /\ r \in Converters /\ Framed(s, r) /\ Good(c, r, tidy, ToolsSeen(r))
         /\ r.curBlockType = s.curBlockType /\ r.nextBlockIndex = s.nextBlockIndex
         /\ OpenCalls(r) = OpenCalls(s)
<1>1. d.index = k /\ (d.args = 0 \/ d.args = u.args[k] + 1 \/ d.args = 1)
  BY EntryFacts
<1>2. d.args \in 0 .. MaxFragments
  <2>1. u.entries \in Nat /\ u.args[k] \in Nat
    BY BoundsNat DEF Histories
  <2> QED BY <1>1, <2>1, BoundsNat
<1>3. PICK f \in Fragments : f = Fragment(d.index, d.args)
  <2>1. d.index \in {"text", "reasoning", "filler", "interrupted"} \cup Calls
    BY <1>1
  <2> QED BY <1>2, <2>1, FragmentIn DEF Sources
<1>4. PICK ids : ids = ToolsSeen(s)
  OBVIOUS
<1>5. PICK r : r = Delta(s, "input_json_delta", f)
  OBVIOUS
<1>6. PICK j \in ContentDeltas : j = "input_json_delta"
  BY DEF ContentDeltas
<1>7. tidy => s.curBlockType # NoBlock /\ j = Sse!DeltaOf[s.curBlockType]
  BY <1>6, BlockNames, DeltaNames
<1>8. /\ r \in Converters /\ Framed(s, r) /\ Good(c, r, tidy, ids)
      /\ r.curBlockType = s.curBlockType /\ r.nextBlockIndex = s.nextBlockIndex
  BY <1>4, <1>5, <1>6, <1>7, Said
<1>9. r = InputJSONDelta(s, d)
  BY <1>3, <1>5 DEF InputJSONDelta
<1>10. ToolsSeen(r) = ToolsSeen(s) /\ OpenCalls(r) = OpenCalls(s)
  BY <1>8 DEF Framed, ToolsSeen, OpenCalls
<1> QED BY <1>4, <1>8, <1>9, <1>10

LEMMA Entry ==
  ASSUME NEW s \in Converters, NEW c, NEW tidy \in BOOLEAN, Good(c, s, tidy, ToolsSeen(s)),
         NEW u \in Histories, Tracks(s, u), Follows(s, u),
         NEW k \in Calls, NEW d \in NextDeltas(u, k), u.entries < MaxEntries,
         tidy => ~ SendDelta(u, d).mixed
  PROVE  LET r == HandleToolCallDelta(s, d)
             v == SendDelta(u, d)
         IN  /\ r \in Converters /\ v \in Histories /\ Tracks(r, v) /\ Follows(r, v)
             /\ Good(c, r, tidy, ToolsSeen(r)) /\ Recalls(s, r, r.toolCallByIndex)
<1>1. /\ d.index = k /\ d.id \in BOOLEAN /\ d.name \in Names \cup {None}
      /\ u.name[k] = None <=> d.name # None
  BY EntryFacts
<1>2. \A x \in Calls : u.args[x] <= u.entries
  BY DEF Tracks
<1>3. PICK v : v = SendDelta(u, d)
  OBVIOUS
<1>4. /\ v \in Histories /\ v.chunks = u.chunks /\ v.text = u.text
      /\ v.reasoning = u.reasoning /\ v.last = k
      /\ v.name[k] # None /\ \A x \in Calls : x # k => v.name[x] = u.name[x]
      /\ \A x \in Calls : v.args[x] <= v.entries
      /\ ~ v.mixed => (~ u.mixed /\ (u.name[k] = None \/ u.last = k))
  BY <1>2, <1>3, SendDeltaFacts
<1>5. PICK id \in ToolIds : id = [call |-> k, given |-> d.id]
  BY <1>1 DEF ToolIds
<1>6. id # None /\ k # None
  BY NoneAssumption
<1>7. PICK r : r = HandleToolCallDelta(s, d)
  OBVIOUS
<1>8. SUFFICES /\ r \in Converters /\ Tracks(r, v) /\ Follows(r, v)
               /\ Good(c, r, tidy, ToolsSeen(r)) /\ Recalls(s, r, r.toolCallByIndex)
  BY <1>3, <1>4, <1>7
<1>9. CASE Undeclared(d)
  <2>1. r = s
    BY <1>7, <1>9 DEF HandleToolCallDelta
  <2>2. u.name[k] = None /\ s.toolCallByIndex[k] = None /\ Declared \notin {{}, Names}
    BY <1>1, <1>9 DEF Undeclared, Tracks
  <2>3. Tracks(r, v)
    <3>1. \A x \in Calls : v.name[x] = None => s.toolCallByIndex[x] = None
      BY <1>4, <2>2 DEF Tracks
    <3> QED BY <1>4, <2>1, <2>2, <3>1 DEF Tracks
  <2>4. Follows(r, v)
    BY <1>4, <1>6, <2>1, <2>2 DEF Follows
  <2> QED BY <2>1, <2>3, <2>4 DEF Recalls
<1>10. CASE ~ Undeclared(d) /\ s.toolCallByIndex[k] = None
  <2>1. PICK o : o = OpenBlock([StopBlock(s) EXCEPT !.toolCallByIndex = [@ EXCEPT ![k] = id]],
                               "tool_use", [id |-> id, name |-> d.name])
    OBVIOUS
  <2>2. s.nextBlockIndex < MaxBlocks /\ s.nextBlockIndex \in Nat /\ u.chunks \in Nat
    <3>1. s.nextBlockIndex \in Nat /\ u.chunks \in 0 .. MaxChunks
      BY DEF Converters, Histories
    <3>2. s.nextBlockIndex <= 2 * u.chunks + Cardinality(OpenCalls(s))
      BY DEF Follows
    <3> QED BY <3>1, <3>2, BoundsNat, CountedCalls DEF MaxBlocks
  <2>3. PICK calls : calls = [s.toolCallByIndex EXCEPT ![k] = id]
    OBVIOUS
  <2>4. /\ o \in Converters /\ Good(c, o, tidy, ToolsSeen(o)) /\ Recalls(s, o, calls)
        /\ o.curBlockType = "tool_use" /\ o.nextBlockIndex = s.nextBlockIndex + 1
        /\ OpenCalls(o) = OpenCalls(s) \cup {k}
    BY <1>1, <1>10, <2>1, <2>2, <2>3, NewCall
  <2>5. r = IF d.args = 0 THEN o ELSE InputJSONDelta(o, d)
    BY <1>1, <1>5, <1>7, <1>10, <2>1 DEF HandleToolCallDelta
  <2>6. /\ r \in Converters /\ Good(c, r, tidy, ToolsSeen(r)) /\ Recalls(s, r, calls)
        /\ r.curBlockType = "tool_use" /\ r.nextBlockIndex = s.nextBlockIndex + 1
        /\ OpenCalls(r) = OpenCalls(s) \cup {k}
    <3>1. CASE d.args = 0
      BY <2>4, <2>5, <3>1
    <3>2. CASE d.args # 0
      <4>1. r = InputJSONDelta(o, d)
        BY <2>5, <3>2
      <4>2. /\ r \in Converters /\ Framed(o, r) /\ Good(c, r, tidy, ToolsSeen(r))
            /\ r.curBlockType = o.curBlockType /\ r.nextBlockIndex = o.nextBlockIndex
            /\ OpenCalls(r) = OpenCalls(o)
        BY <1>2, <2>4, <4>1, Argued
      <4>3. Recalls(s, r, calls)
        BY <2>4, <4>2 DEF Framed, Recalls
      <4> QED BY <2>4, <4>2, <4>3
    <3> QED BY <3>1, <3>2
  <2>7. \A x \in Calls : calls[x] = IF x = k THEN id ELSE s.toolCallByIndex[x]
    BY <2>3 DEF Converters
  <2>8. r.toolCallByIndex = calls /\ r.accumulatedText = s.accumulatedText
        /\ r.accumulatedReasoning = s.accumulatedReasoning
    BY <2>6 DEF Recalls
  <2>9. Tracks(r, v)
    <3>1. \A x \in Calls : v.name[x] = None => calls[x] = None
      BY <1>4, <2>7 DEF Tracks
    <3>2. Declared \in {{}, Names} => \A x \in Calls : v.name[x] # None => calls[x] # None
      BY <1>4, <1>6, <2>7 DEF Tracks
    <3> QED BY <1>4, <2>8, <3>1, <3>2 DEF Tracks
  <2>10. Follows(r, v)
    <3>1. k \notin OpenCalls(s)
      BY <1>10 DEF OpenCalls
    <3>2. Cardinality(OpenCalls(r)) = Cardinality(OpenCalls(s)) + 1
          /\ Cardinality(OpenCalls(s)) \in Nat
      BY <2>6, <3>1, CountedCalls
    <3>3. s.nextBlockIndex <= 2 * u.chunks + Cardinality(OpenCalls(s))
      BY DEF Follows
    <3>4. r.nextBlockIndex <= 2 * v.chunks + Cardinality(OpenCalls(r))
      BY <1>4, <2>2, <2>6, <3>2, <3>3
    <3>5. r.nextBlockIndex > 0
      BY <2>2, <2>6
    <3> QED BY <1>4, <2>6, <3>4, <3>5 DEF Follows
  <2>11. Recalls(s, r, r.toolCallByIndex)
    BY <2>6, <2>8
  <2> QED BY <2>6, <2>9, <2>10, <2>11
<1>11. CASE ~ Undeclared(d) /\ s.toolCallByIndex[k] # None
  <2>1. r = InputJSONDelta(s, d)
    BY <1>1, <1>7, <1>11 DEF HandleToolCallDelta
  <2>2. u.name[k] # None
    BY <1>11 DEF Tracks
  <2>3. ~ v.mixed => ~ u.mixed /\ u.last = k /\ s.curBlockType = "tool_use"
    BY <1>4, <1>6, <1>11, <2>2 DEF Follows
  <2>4. tidy => s.curBlockType = "tool_use"
    BY <1>3, <2>3
  <2>5. /\ r \in Converters /\ Framed(s, r) /\ Good(c, r, tidy, ToolsSeen(r))
        /\ r.curBlockType = s.curBlockType /\ r.nextBlockIndex = s.nextBlockIndex
        /\ OpenCalls(r) = OpenCalls(s)
    BY <1>2, <2>1, <2>4, Argued
  <2>6. Tracks(r, v)
    <3>1. \A x \in Calls : v.name[x] = None <=> u.name[x] = None
      BY <1>4, <2>2
    <3> QED BY <1>4, <2>5, <3>1 DEF Tracks, Framed
  <2>7. Follows(r, v)
    <3>1. r.accumulatedText = s.accumulatedText
      BY <2>5 DEF Framed
    <3> QED BY <1>4, <2>3, <2>5, <3>1 DEF Follows
  <2>8. Recalls(s, r, r.toolCallByIndex)
    BY <2>5 DEF Framed, Recalls
  <2> QED BY <2>5, <2>6, <2>7, <2>8
<1> QED BY <1>9, <1>10, <1>11

-----------------------------------------------------------------------------
(* HandleChunk.                                                            *)

LEMMA EntrySequences ==
  ASSUME NEW u \in Histories, NEW ds \in DeltaSeqs(u)
  PROVE  \/ ds = <<>>
         \/ \E k \in Calls : \E d \in NextDeltas(u, k) : ds = <<d>> /\ u.entries < MaxEntries
         \/ \E k, m \in Calls : \E d \in NextDeltas(u, k) : \E e \in NextDeltas(SendDelta(u, d), m) :
               ds = <<d, e>> /\ u.entries + 1 < MaxEntries
<1>1. u.entries \in Nat
  BY BoundsNat DEF Histories
<1>2. u.entries + Len(ds) <= MaxEntries
  BY DEF DeltaSeqs
<1>3. CASE ds = <<>>
  BY <1>3
<1>4. CASE \E k \in Calls : \E d \in NextDeltas(u, k) : ds = <<d>>
  <2>1. PICK k \in Calls : \E d \in NextDeltas(u, k) : ds = <<d>>
    BY <1>4
  <2>0. PICK d \in NextDeltas(u, k) : ds = <<d>>
    BY <2>1
  <2>2. Len(ds) = 1
    BY <2>0
  <2>3. u.entries < MaxEntries
    BY <1>1, <1>2, <2>2, BoundsNat
  <2> QED BY <2>0, <2>3
<1>5. CASE \E k, m \in Calls : \E d \in NextDeltas(u, k) :
              \E e \in NextDeltas(SendDelta(u, d), m) : ds = <<d, e>>
  <2>1. PICK k \in Calls, m \in Calls : \E d \in NextDeltas(u, k) :
           \E e \in NextDeltas(SendDelta(u, d), m) : ds = <<d, e>>
    BY <1>5
  <2>0. PICK d \in NextDeltas(u, k) : \E e \in NextDeltas(SendDelta(u, d), m) : ds = <<d, e>>
    BY <2>1
  <2>2. PICK e \in NextDeltas(SendDelta(u, d), m) : ds = <<d, e>>
    BY <2>0
  <2>3. Len(ds) = 2
    BY <2>2
  <2>4. u.entries + 1 < MaxEntries
    BY <1>1, <1>2, <2>3, BoundsNat
  <2> QED BY <2>2, <2>4
<1> QED BY <1>3, <1>4, <1>5 DEF DeltaSeqs

LEMMA SendContentFacts ==
  ASSUME NEW u \in Histories, NEW content \in BOOLEAN, NEW reasoning \in BOOLEAN,
         u.chunks < MaxChunks, u.text <= u.chunks, u.reasoning <= u.chunks
  PROVE  LET v == SendContent(u, content, reasoning) IN
         /\ v \in Histories /\ v.chunks = u.chunks + 1
         /\ v.text = (IF content THEN u.text + 1 ELSE u.text) /\ v.text <= v.chunks
         /\ v.reasoning = (IF reasoning THEN u.reasoning + 1 ELSE u.reasoning)
         /\ v.reasoning <= v.chunks
         /\ v.last = (IF content \/ reasoning THEN None ELSE u.last)
         /\ v.entries = u.entries /\ v.args = u.args /\ v.name = u.name /\ v.mixed = u.mixed
         /\ v.finish = u.finish
<1>1. PICK n \in Nat : n = u.chunks
  BY BoundsNat DEF Histories
<1>2. PICK t \in Nat : t = u.text
  BY BoundsNat DEF Histories
<1>3. PICK r \in Nat : r = u.reasoning
  BY BoundsNat DEF Histories
<1>4. PICK t2 \in 0 .. MaxChunks : t2 = (IF content THEN t + 1 ELSE t) /\ t2 <= n + 1
  BY <1>1, <1>2, BoundsNat
<1>5. PICK r2 \in 0 .. MaxChunks : r2 = (IF reasoning THEN r + 1 ELSE r) /\ r2 <= n + 1
  BY <1>1, <1>3, BoundsNat
<1>6. PICK l \in Calls \cup {None} : l = IF content \/ reasoning THEN None ELSE u.last
  <2>1. u.last \in Calls \cup {None}
    BY DEF Histories
  <2> QED BY <2>1
<1>7. PICK v : v = SendContent(u, content, reasoning)
  OBVIOUS
<1>8. v = [u EXCEPT !.chunks = n + 1, !.text = t2, !.reasoning = r2, !.last = l]
  BY <1>1, <1>2, <1>3, <1>4, <1>5, <1>6, <1>7 DEF SendContent, Histories
<1>9. n + 1 \in 0 .. MaxChunks
  BY <1>1, BoundsNat
<1>10. v \in Histories /\ v.chunks = n + 1 /\ v.text = t2 /\ v.reasoning = r2 /\ v.last = l
       /\ v.entries = u.entries /\ v.args = u.args /\ v.name = u.name /\ v.mixed = u.mixed
       /\ v.finish = u.finish
  BY <1>8, <1>9 DEF Histories
<1> QED BY <1>1, <1>2, <1>3, <1>4, <1>5, <1>6, <1>7, <1>10

(* The entries of a chunk, one after the other.                            *)
LEMMA Entries ==
  ASSUME NEW s \in Converters, NEW c, NEW tidy \in BOOLEAN, Good(c, s, tidy, ToolsSeen(s)),
         NEW u \in Histories, Tracks(s, u), Follows(s, u), NEW ds \in DeltaSeqs(u),
         tidy => ~ AllSent(u, ds).mixed
  PROVE  LET r == AllHandled(s, ds)
             v == AllSent(u, ds)
         IN  /\ r \in Converters /\ v \in Histories /\ Tracks(r, v) /\ Follows(r, v)
             /\ Good(c, r, tidy, ToolsSeen(r)) /\ Recalls(s, r, r.toolCallByIndex)
             /\ v.text = u.text /\ v.reasoning = u.reasoning
<1>1. CASE ds = <<>>
  BY <1>1, HTDFolded0, SentFolded0 DEF Recalls
<1>2. CASE \E k \in Calls : \E d \in NextDeltas(u, k) : ds = <<d>> /\ u.entries < MaxEntries
  <2>0. PICK k \in Calls : \E d \in NextDeltas(u, k) : ds = <<d>> /\ u.entries < MaxEntries
    BY <1>2
  <2>1. PICK d \in NextDeltas(u, k) : ds = <<d>> /\ u.entries < MaxEntries
    BY <2>0
  <2>2. /\ AllHandled(s, ds) = HandleToolCallDelta(s, d)
        /\ AllSent(u, ds) = SendDelta(u, d)
    BY <2>1, HTDFolded1, SentFolded1
  <2>3. \A x \in Calls : u.args[x] <= u.entries
    BY DEF Tracks
  <2>4. PICK v : v = SendDelta(u, d)
    OBVIOUS
  <2>5. v.text = u.text /\ v.reasoning = u.reasoning
    BY <2>1, <2>3, <2>4, SendDeltaFacts
  <2>6. PICK r : r = HandleToolCallDelta(s, d)
    OBVIOUS
  <2>7. /\ r \in Converters /\ v \in Histories /\ Tracks(r, v) /\ Follows(r, v)
        /\ Good(c, r, tidy, ToolsSeen(r)) /\ Recalls(s, r, r.toolCallByIndex)
    BY <2>1, <2>2, <2>4, <2>6, Entry
  <2> QED BY <2>2, <2>4, <2>5, <2>6, <2>7
<1>3. CASE \E k, m \in Calls : \E d \in NextDeltas(u, k) :
              \E e \in NextDeltas(SendDelta(u, d), m) :
                 ds = <<d, e>> /\ u.entries + 1 < MaxEntries
  <2>0. PICK k \in Calls, m \in Calls : \E d \in NextDeltas(u, k) :
           \E e \in NextDeltas(SendDelta(u, d), m) : ds = <<d, e>> /\ u.entries + 1 < MaxEntries
    BY <1>3
  <2>1. PICK d \in NextDeltas(u, k) :
           \E e \in NextDeltas(SendDelta(u, d), m) : ds = <<d, e>> /\ u.entries + 1 < MaxEntries
    BY <2>0
  <2>2. PICK v : v = SendDelta(u, d)
    OBVIOUS
  <2>3. PICK e \in NextDeltas(v, m) : ds = <<d, e>> /\ u.entries + 1 < MaxEntries
    BY <2>1, <2>2
  <2>4. PICK r : r = HandleToolCallDelta(s, d)
    OBVIOUS
  <2>5. /\ AllHandled(s, ds) = HandleToolCallDelta(r, e)
        /\ AllSent(u, ds) = SendDelta(v, e)
    <3>1. ds = <<d, e>>
      BY <2>3
    <3>2. AllHandled(s, <<d, e>>) = HandleToolCallDelta(HandleToolCallDelta(s, d), e)
      BY HTDFolded2
    <3>3. AllSent(u, <<d, e>>) = SendDelta(SendDelta(u, d), e)
      BY SentFolded2
    <3> QED BY <2>2, <2>4, <3>1, <3>2, <3>3
  <2>6. u.entries \in Nat /\ u.entries < MaxEntries
    BY <2>3, BoundsNat DEF Histories
  <2>7. \A x \in Calls : u.args[x] <= u.entries
    BY DEF Tracks
  <2>8. /\ v \in Histories /\ v.text = u.text /\ v.reasoning = u.reasoning
        /\ v.entries = u.entries + 1 /\ \A x \in Calls : v.args[x] <= v.entries
    BY <2>2, <2>6, <2>7, SendDeltaFacts
  <2>9. v.entries < MaxEntries
    BY <2>3, <2>8
  <2>10. PICK w : w = SendDelta(v, e)
    OBVIOUS
  <2>11. w.text = v.text /\ w.reasoning = v.reasoning /\ (~ w.mixed => ~ v.mixed)
    BY <2>8, <2>9, <2>10, SendDeltaFacts
  <2>12. (tidy => ~ v.mixed) /\ (tidy => ~ w.mixed)
    BY <2>5, <2>10, <2>11
  <2>13. /\ r \in Converters /\ Tracks(r, v) /\ Follows(r, v)
         /\ Good(c, r, tidy, ToolsSeen(r)) /\ Recalls(s, r, r.toolCallByIndex)
    BY <2>2, <2>4, <2>6, <2>12, Entry
  <2>14. PICK q : q = HandleToolCallDelta(r, e)
    OBVIOUS
  <2>15. /\ q \in Converters /\ w \in Histories /\ Tracks(q, w) /\ Follows(q, w)
         /\ Good(c, q, tidy, ToolsSeen(q)) /\ Recalls(r, q, q.toolCallByIndex)
    BY <2>8, <2>9, <2>10, <2>12, <2>13, <2>14, Entry
  <2>16. Recalls(s, q, q.toolCallByIndex)
    BY <2>13, <2>15 DEF Recalls
  <2> QED BY <2>5, <2>8, <2>10, <2>11, <2>14, <2>15, <2>16
<1> QED BY <1>1, <1>2, <1>3, EntrySequences

(* What Content says, as one predicate of the states before and after.     *)
Voices(s, c, tidy, ids, n, r) ==
    /\ r \in Converters /\ Good(c, r, tidy, ids)
    /\ Told(s, r) /\ r.accumulatedReasoning = s.accumulatedReasoning
    /\ r.accumulatedText = IF n = 0 THEN s.accumulatedText ELSE n
    /\ r.nextBlockIndex \in {s.nextBlockIndex, s.nextBlockIndex + 1}
    /\ n # 0 => r.nextBlockIndex > 0
    /\ n = 0 => r.curBlockType = s.curBlockType

LEMMA ContentSpoken ==
  ASSUME NEW s \in Converters, NEW c, NEW tidy \in BOOLEAN, NEW ids, Good(c, s, tidy, ids),
         s.nextBlockIndex < MaxBlocks, NEW n \in 0 .. MaxChunks
  PROVE  Voices(s, c, tidy, ids, n, HandleContent(s, n))
<1>1. PICK r : r = HandleContent(s, n)
  OBVIOUS
<1> QED BY <1>1, Content DEF Voices

(* A chunk's content and reasoning: everything but its entries.            *)
Finished(s, finish) == [s EXCEPT !.finishReason = finish]
Part(given, n) == IF given THEN n ELSE 0

Begun(s, c, tidy, finish, n, m, s1, s2, s3, u0) ==
    /\ s1 \in Converters /\ s2 \in Converters /\ s3 \in Converters /\ u0 \in Histories
    /\ s1.nextBlockIndex < MaxBlocks /\ s2.nextBlockIndex < MaxBlocks
    /\ n \in 0 .. MaxChunks /\ m \in 0 .. MaxChunks
    /\ Tracks(s3, u0) /\ Follows(s3, u0)
    /\ Good(c, s3, tidy, ToolsSeen(s3))
    /\ s3.started = s.started /\ s3.finalized = s.finalized
    /\ s3.streamInterrupted = s.streamInterrupted
    /\ s3.toolCallByIndex = s.toolCallByIndex /\ s3.finishReason = finish

LEMMA ChunkBegun ==
  ASSUME NEW s \in Converters, NEW c, NEW u \in Histories, NEW tidy \in BOOLEAN,
         Good(c, s, tidy, ToolsSeen(s)), Tracks(s, u), Follows(s, u), u.chunks < MaxChunks,
         NEW content \in BOOLEAN, NEW reasoning \in BOOLEAN,
         NEW finish \in FinishReasons \cup {NoFinish},
         NEW u0, u0 = SendContent(u, content, reasoning),
         NEW n, n = Part(content, u0.text), NEW m, m = Part(reasoning, u0.reasoning),
         NEW s1, s1 = Finished(s, finish), NEW s2, s2 = HandleContent(s1, n),
         NEW s3, s3 = HandleReasoning(s2, m)
  PROVE  Begun(s, c, tidy, finish, n, m, s1, s2, s3, u0)
<1>5. /\ s1 \in Converters /\ s1.events = s.events /\ s1.curBlockType = s.curBlockType
      /\ s1.curBlockIndex = s.curBlockIndex /\ s1.nextBlockIndex = s.nextBlockIndex
      /\ s1.finishReason = finish /\ s1.started = s.started /\ s1.finalized = s.finalized
      /\ s1.streamInterrupted = s.streamInterrupted
      /\ s1.toolCallByIndex = s.toolCallByIndex
      /\ s1.accumulatedText = s.accumulatedText
      /\ s1.accumulatedReasoning = s.accumulatedReasoning
  BY DEF Converters, Finished
<1>6. PICK ids : ids = ToolsSeen(s)
  OBVIOUS
<1>7. Good(c, s1, tidy, ids)
  BY <1>5, <1>6, GoodStays
<1>9. /\ u0 \in Histories /\ u0.chunks = u.chunks + 1
      /\ u0.text = (IF content THEN u.text + 1 ELSE u.text) /\ u0.text <= u0.chunks
      /\ u0.reasoning = (IF reasoning THEN u.reasoning + 1 ELSE u.reasoning)
      /\ u0.reasoning <= u0.chunks
      /\ u0.last = (IF content \/ reasoning THEN None ELSE u.last)
      /\ u0.entries = u.entries /\ u0.args = u.args /\ u0.name = u.name /\ u0.mixed = u.mixed
  BY SendContentFacts DEF Tracks
<1>10. /\ u.text \in Nat /\ u.reasoning \in Nat /\ u.chunks \in Nat /\ s.nextBlockIndex \in Nat
       /\ u0.text \in 0 .. MaxChunks /\ u0.reasoning \in 0 .. MaxChunks
  <2>1. u.text \in 0 .. MaxChunks /\ u.reasoning \in 0 .. MaxChunks /\ u.chunks \in 0 .. MaxChunks
    BY DEF Histories
  <2>2. s.nextBlockIndex \in Nat /\ u0.text \in 0 .. MaxChunks /\ u0.reasoning \in 0 .. MaxChunks
    BY <1>9 DEF Converters, Histories
  <2> QED BY <2>1, <2>2, BoundsNat
<1>11. /\ s.nextBlockIndex <= 2 * u.chunks + Cardinality(OpenCalls(s))
       /\ Cardinality(OpenCalls(s)) \in Nat /\ s.nextBlockIndex + 1 < MaxBlocks
  <2>1. s.nextBlockIndex <= 2 * u.chunks + Cardinality(OpenCalls(s))
    BY DEF Follows
  <2> QED BY <1>10, <2>1, BoundsNat, CountedCalls DEF MaxBlocks
<1>12. n \in 0 .. MaxChunks
  BY <1>10, BoundsNat DEF Part
<1>13. m \in 0 .. MaxChunks
  BY <1>10, BoundsNat DEF Part
<1>15. /\ s2 \in Converters /\ Good(c, s2, tidy, ids)
       /\ Told(s1, s2) /\ s2.accumulatedReasoning = s1.accumulatedReasoning
       /\ s2.accumulatedText = IF n = 0 THEN s1.accumulatedText ELSE n
       /\ s2.nextBlockIndex \in {s.nextBlockIndex, s.nextBlockIndex + 1}
       /\ n # 0 => s2.nextBlockIndex > 0
       /\ n = 0 => s2.curBlockType = s.curBlockType
  <2>1. s1.nextBlockIndex < MaxBlocks
    BY <1>5, <1>10, <1>11, BlockBound
  <2>2. s1 \in Converters
    BY <1>5
  <2>3. /\ s2 \in Converters /\ Good(c, s2, tidy, ids)
        /\ Told(s1, s2) /\ s2.accumulatedReasoning = s1.accumulatedReasoning
        /\ s2.accumulatedText = IF n = 0 THEN s1.accumulatedText ELSE n
        /\ s2.nextBlockIndex \in {s1.nextBlockIndex, s1.nextBlockIndex + 1}
        /\ n # 0 => s2.nextBlockIndex > 0
        /\ n = 0 => s2.curBlockType = s1.curBlockType
    <3>1. PICK k \in 0 .. MaxChunks : k = n
      BY <1>12
    <3>2. Voices(s1, c, tidy, ids, k, HandleContent(s1, k))
      BY <1>7, <2>1, <2>2, ContentSpoken
    <3>3. Voices(s1, c, tidy, ids, n, s2)
      BY <3>1, <3>2
    <3> QED BY <3>3 DEF Voices
  <2> QED BY <1>5, <2>3
<1>16. s2.nextBlockIndex \in Nat /\ s2.nextBlockIndex < MaxBlocks
  <2>1. s2.nextBlockIndex \in Nat
    BY <1>15 DEF Converters
  <2> QED BY <1>10, <1>11, <1>15, <2>1, BlockBound
<1>18. /\ s3 \in Converters /\ Good(c, s3, tidy, ids)
       /\ Told(s2, s3) /\ s3.accumulatedText = s2.accumulatedText
       /\ s3.accumulatedReasoning = IF m = 0 THEN s2.accumulatedReasoning ELSE m
       /\ s3.nextBlockIndex \in {s2.nextBlockIndex, s2.nextBlockIndex + 1}
       /\ m = 0 => s3.curBlockType = s2.curBlockType
  BY <1>13, <1>15, <1>16, Reasoning
<1>19. /\ s3.started = s.started /\ s3.finalized = s.finalized
       /\ s3.streamInterrupted = s.streamInterrupted
       /\ s3.toolCallByIndex = s.toolCallByIndex /\ s3.finishReason = finish
       /\ s3.accumulatedText = u0.text /\ s3.accumulatedReasoning = u0.reasoning
  <2>1. /\ s3.started = s.started /\ s3.finalized = s.finalized
        /\ s3.streamInterrupted = s.streamInterrupted
        /\ s3.toolCallByIndex = s.toolCallByIndex /\ s3.finishReason = finish
        /\ s3.accumulatedText = (IF n = 0 THEN s.accumulatedText ELSE n)
        /\ s3.accumulatedReasoning = (IF m = 0 THEN s.accumulatedReasoning ELSE m)
    BY <1>5, <1>15, <1>18 DEF Told
  <2>2. s.accumulatedText = u.text /\ s.accumulatedReasoning = u.reasoning
    BY DEF Tracks
  <2>3. (IF n = 0 THEN u.text ELSE n) = u0.text
    BY <1>9, <1>10, <1>12 DEF Part
  <2>4. (IF m = 0 THEN u.reasoning ELSE m) = u0.reasoning
    BY <1>9, <1>10, <1>13 DEF Part
  <2> QED BY <2>1, <2>2, <2>3, <2>4
<1>20. Tracks(s3, u0)
  BY <1>9, <1>19 DEF Tracks
<1>21. Follows(s3, u0)
  <2>1. OpenCalls(s3) = OpenCalls(s)
    BY <1>19 DEF OpenCalls
  <2>2. s3.nextBlockIndex \in Nat
    BY <1>18 DEF Converters
  <2>3. s3.nextBlockIndex <= 2 * u0.chunks + Cardinality(OpenCalls(s3))
    BY <1>9, <1>10, <1>11, <1>15, <1>16, <1>18, <2>1, <2>2
  <2>6. s3.accumulatedText # 0 => s3.nextBlockIndex > 0
    <3>1. CASE n # 0
      BY <1>15, <1>16, <1>18, <2>2, <3>1
    <3>2. CASE n = 0
      <4>1. s3.accumulatedText = s.accumulatedText
        BY <1>5, <1>15, <1>18, <3>2 DEF Told
      <4>2. s.accumulatedText # 0 => s.nextBlockIndex > 0
        BY DEF Follows
      <4> QED BY <1>10, <1>15, <1>16, <1>18, <2>2, <4>1, <4>2
    <3> QED BY <3>1, <3>2
  <2>4. u0.last # None => ~ content /\ ~ reasoning /\ u0.last = u.last
    BY <1>9
  <2>5. ~ content /\ ~ reasoning => s3.curBlockType = s.curBlockType
    BY <1>12, <1>13, <1>15, <1>18 DEF Part
  <2> QED BY <1>9, <1>19, <2>3, <2>4, <2>5, <2>6 DEF Follows
<1>22. ToolsSeen(s3) = ids
  BY <1>6, <1>19 DEF ToolsSeen
<1>23. s1.nextBlockIndex < MaxBlocks
  BY <1>5, <1>10, <1>11, BlockBound
<1> QED BY <1>5, <1>9, <1>12, <1>13, <1>15, <1>16, <1>18, <1>19, <1>20, <1>21, <1>22, <1>23 DEF Begun

LEMMA ChunkIs ==
  ASSUME NEW s \in Converters, s.finishReason = NoFinish, NEW ds, NEW finish, NEW n, NEW m,
         NEW chunk, chunk = [content |-> n, reasoning |-> m, tools |-> ds, finish |-> finish]
  PROVE  HandleChunk(s, chunk) =
            AllHandled(HandleReasoning(HandleContent(Finished(s, finish), n), m), ds)
<1>1. chunk.content = n /\ chunk.reasoning = m /\ chunk.tools = ds /\ chunk.finish = finish
  OBVIOUS
<1>2. Finished(s, finish) = [s EXCEPT !.finishReason = IF chunk.finish = NoFinish THEN @ ELSE chunk.finish]
  BY <1>1 DEF Finished
<1> QED BY <1>1, <1>2 DEF HandleChunk, AllHandled

LEMMA ChunkHandled ==
  ASSUME NEW s \in Converters, NEW c, NEW u \in Histories, NEW tidy \in BOOLEAN,
         Good(c, s, tidy, ToolsSeen(s)), Tracks(s, u), Follows(s, u),
         s.finishReason = NoFinish, u.chunks < MaxChunks,
         NEW content \in BOOLEAN, NEW reasoning \in BOOLEAN,
         NEW ds \in DeltaSeqs(SendContent(u, content, reasoning)),
         NEW w, w = AllSent(SendContent(u, content, reasoning), ds),
         tidy => ~ w.mixed, NEW finish \in Finishes(w),
         NEW chunk, chunk = [content |-> IF content THEN w.text ELSE 0,
                             reasoning |-> IF reasoning THEN w.reasoning ELSE 0,
                             tools |-> ds, finish |-> finish]
  PROVE  LET r == HandleChunk(s, chunk)
             v == [w EXCEPT !.finish = finish]
         IN  /\ r \in Converters /\ v \in Histories /\ v.mixed = w.mixed
             /\ Good(c, r, tidy, ToolsSeen(r))
             /\ r.finishReason = v.finish /\ Tracks(r, v) /\ Follows(r, v)
             /\ v.finish = "tool_calls" => \E x \in Calls : v.name[x] # None
             /\ r.started = s.started /\ r.finalized = s.finalized
             /\ r.streamInterrupted = s.streamInterrupted
<1>1. finish \in FinishReasons \cup {NoFinish}
  BY DEF Finishes
<1>2. PICK u0 : u0 = SendContent(u, content, reasoning)
  OBVIOUS
<1>3. PICK n : n = Part(content, u0.text)
  OBVIOUS
<1>4. PICK m : m = Part(reasoning, u0.reasoning)
  OBVIOUS
<1>5. PICK s1 : s1 = Finished(s, finish)
  OBVIOUS
<1>6. PICK s2 : s2 = HandleContent(s1, n)
  OBVIOUS
<1>7. PICK s3 : s3 = HandleReasoning(s2, m)
  OBVIOUS
<1>8. /\ s3 \in Converters /\ u0 \in Histories
      /\ Tracks(s3, u0) /\ Follows(s3, u0) /\ Good(c, s3, tidy, ToolsSeen(s3))
      /\ s3.started = s.started /\ s3.finalized = s.finalized
      /\ s3.streamInterrupted = s.streamInterrupted /\ s3.finishReason = finish
  <2>1. Begun(s, c, tidy, finish, n, m, s1, s2, s3, u0)
    BY <1>1, <1>2, <1>3, <1>4, <1>5, <1>6, <1>7, ChunkBegun
  <2> QED BY <2>1 DEF Begun
<1>23. PICK r : r = AllHandled(s3, ds)
  OBVIOUS
<1>24. /\ r \in Converters /\ w \in Histories /\ Tracks(r, w) /\ Follows(r, w)
       /\ Good(c, r, tidy, ToolsSeen(r)) /\ Recalls(s3, r, r.toolCallByIndex)
       /\ w.text = u0.text /\ w.reasoning = u0.reasoning
  BY <1>2, <1>8, <1>23, Entries
<1>25. r = HandleChunk(s, chunk)
  <2>1. chunk = [content |-> n, reasoning |-> m, tools |-> ds, finish |-> finish]
    BY <1>3, <1>4, <1>24 DEF Part
  <2> QED BY <1>5, <1>6, <1>7, <1>23, <2>1, ChunkIs
<1>26. PICK v : v = [w EXCEPT !.finish = finish]
  OBVIOUS
<1>27. /\ v \in Histories /\ v.finish = finish /\ v.chunks = w.chunks /\ v.entries = w.entries
       /\ v.text = w.text /\ v.reasoning = w.reasoning /\ v.args = w.args /\ v.name = w.name
       /\ v.last = w.last /\ v.mixed = w.mixed
  BY <1>1, <1>24, <1>26 DEF Histories
<1>28. Tracks(r, v) /\ Follows(r, v)
  BY <1>24, <1>27 DEF Tracks, Follows
<1>29. v.finish = "tool_calls" => \E x \in Calls : v.name[x] # None
  <2>1. NoFinish # "tool_calls"
    BY Zenon DEF NoFinish
  <2> QED BY <1>27, <2>1 DEF Finishes
<1> QED BY <1>8, <1>24, <1>25, <1>26, <1>27, <1>28, <1>29 DEF Recalls

-----------------------------------------------------------------------------
(* HandleStreamEnd.                                                        *)

LEMMA FramedTwice ==
  ASSUME NEW s, NEW r, NEW t, Framed(s, r), Framed(r, t)
  PROVE  Framed(s, t)
BY DEF Framed

LEMMA FramedFacts ==
  ASSUME NEW s, NEW r, Framed(s, r)
  PROVE  /\ ToolsSeen(r) = ToolsSeen(s) /\ StopReason(r) = StopReason(s)
         /\ NothingSaid(r) = NothingSaid(s)
<1>1. ToolsSeen(r) = ToolsSeen(s)
  BY DEF Framed, ToolsSeen
<1> QED BY <1>1 DEF Framed, StopReason, NothingSaid

(* A text block with one fragment of the converter's own.                  *)
LEMMA Noted ==
  ASSUME NEW s \in Converters, NEW c, NEW tidy \in BOOLEAN, NEW ids, Good(c, s, tidy, ids),
         s.curBlockType = "text" \/ s.nextBlockIndex < MaxBlocks, NEW f \in Fragments
  PROVE  LET r == Delta(EnsureBlock(s, "text"), "text_delta", f) IN
         /\ r \in Converters /\ Framed(s, r) /\ Good(c, r, tidy, ids)
         /\ r.curBlockType = "text" /\ r.nextBlockIndex > 0
<1>1. PICK e : e = EnsureBlock(s, "text")
  OBVIOUS
<1>2. /\ e \in Converters /\ Framed(s, e) /\ Good(c, e, tidy, ids)
      /\ e.curBlockType = "text" /\ e.nextBlockIndex > 0
  <2>1. "text" \in Sse!BlockTypes /\ "text" # "tool_use"
    BY BlockNames
  <2> QED BY <1>1, <2>1, Ensured
<1>3. PICK r : r = Delta(e, "text_delta", f)
  OBVIOUS
<1>4. /\ r \in Converters /\ Framed(e, r) /\ Good(c, r, tidy, ids)
      /\ r.curBlockType = e.curBlockType /\ r.nextBlockIndex = e.nextBlockIndex
  <2>1. "text_delta" \in ContentDeltas /\ "text" # NoBlock
    BY BlockNames DEF ContentDeltas
  <2> QED BY <1>2, <1>3, <2>1, DeltaNames, Said
<1>5. Framed(s, r)
  BY <1>2, <1>4, FramedTwice
<1> QED BY <1>1, <1>2, <1>3, <1>4, <1>5

(* The last two events.                                                    *)
LEMMA Closed ==
  ASSUME NEW d \in Clients, d.phase = "streaming", NEW reason \in Reasons
  PROVE  LET x == Sse!Apply(d, Sse!MessageDelta(reason))
             y == Sse!Apply(x, Sse!MessageStop)
         IN  /\ x.phase = "closing" /\ y \in Clients /\ y.phase = "stopped"
             /\ y.reason = reason /\ ToolsOf(y) = ToolsOf(d) /\ y.blocks = d.blocks
             /\ Sse!Legal(x, Sse!MessageStop)
             /\ d.open = None /\ d.blocks # <<>> => Sse!Legal(d, Sse!MessageDelta(reason))
<1>1. PICK e : e = Sse!MessageDelta(reason)
  OBVIOUS
<1>2. e \in Sse!Events /\ e.type = "message_delta" /\ e.reason = reason
  BY <1>1, OtherEvents DEF Sse!MessageDelta
<1>3. PICK f : f = Sse!MessageStop
  OBVIOUS
<1>4. f \in Sse!Events /\ f.type = "message_stop"
  BY <1>3, OtherEvents DEF Sse!MessageStop
<1>5. PICK x : x = Sse!Apply(d, e)
  OBVIOUS
<1>6. x = [d EXCEPT !.last = e, !.phase = "closing", !.reason = reason]
  BY <1>2, <1>5 DEF Sse!Apply, Clients
<1>7. x \in Clients /\ x.phase = "closing" /\ x.reason = reason /\ x.blocks = d.blocks
  BY <1>2, <1>6 DEF Clients
<1>8. PICK y : y = Sse!Apply(x, f)
  OBVIOUS
<1>9. y = [x EXCEPT !.last = f, !.phase = "stopped"]
  BY <1>4, <1>7, <1>8 DEF Sse!Apply, Clients
<1>10. y \in Clients /\ y.phase = "stopped" /\ y.reason = reason /\ y.blocks = d.blocks
  BY <1>4, <1>7, <1>9 DEF Clients
<1>11. ToolsOf(y) = ToolsOf(d)
  BY <1>10 DEF ToolsOf
<1>12. Sse!Legal(x, f)
  BY <1>4, <1>7 DEF Sse!Legal
<1>13. d.open = None /\ d.blocks # <<>> => Sse!Legal(d, e)
  BY <1>2 DEF Sse!Legal
<1> QED BY <1>1, <1>3, <1>5, <1>7, <1>8, <1>10, <1>11, <1>12, <1>13

LEMMA EndHandled ==
  ASSUME NEW s \in Converters, NEW c, NEW tidy \in BOOLEAN, Good(c, s, tidy, ToolsSeen(s)),
         tidy => ~ s.streamInterrupted, s.nextBlockIndex < MaxBlocks,
         s.accumulatedText # 0 => s.nextBlockIndex > 0
  PROVE  LET r == HandleStreamEnd(s) IN
         /\ r \in Converters /\ Framed([s EXCEPT !.finalized = TRUE], r)
         /\ \E d : /\ Runs(c, r.events, d, tidy) /\ d \in Clients /\ d.phase = "stopped"
                   /\ d.reason = StopReason(r) /\ ToolsOf(d) = ToolsSeen(r)
<1>1. PICK s0 : s0 = [s EXCEPT !.finalized = TRUE]
  OBVIOUS
<1>2. /\ s0 \in Converters /\ s0.events = s.events /\ s0.curBlockType = s.curBlockType
      /\ s0.curBlockIndex = s.curBlockIndex /\ s0.nextBlockIndex = s.nextBlockIndex
      /\ s0.streamInterrupted = s.streamInterrupted /\ s0.accumulatedText = s.accumulatedText
      /\ s0.toolCallByIndex = s.toolCallByIndex
  BY <1>1 DEF Converters
<1>3. PICK ids : ids = ToolsSeen(s0)
  OBVIOUS
<1>4. ids = ToolsSeen(s)
  BY <1>2, <1>3 DEF ToolsSeen
<1>5. Good(c, s0, tidy, ids)
  BY <1>2, <1>4, GoodStays
<1>6. PICK s1 : s1 = StopBlock(s0)
  OBVIOUS
<1>7. /\ s1 \in Converters /\ Framed(s0, s1) /\ Good(c, s1, tidy, ids)
      /\ s1.curBlockType = NoBlock /\ s1.nextBlockIndex = s0.nextBlockIndex
  BY <1>2, <1>5, <1>6, Stopped
<1>8. PICK s2 : s2 = Interrupt(s1)
  OBVIOUS
<1>9. /\ s2 \in Converters /\ Framed(s0, s2) /\ Good(c, s2, tidy, ids)
      /\ \/ s2.curBlockType = "text" /\ s.streamInterrupted
         \/ s2.curBlockType = NoBlock /\ s2.nextBlockIndex = s.nextBlockIndex
  <2>1. s1.streamInterrupted = s.streamInterrupted
    BY <1>2, <1>7 DEF Framed
  <2>2. CASE ~ s.streamInterrupted
    <3>1. s2 = s1
      BY <1>8, <2>1, <2>2 DEF Interrupt
    <3> QED BY <1>2, <1>7, <3>1
  <2>3. CASE s.streamInterrupted
    <3>1. PICK f \in Fragments : f = Marker
      BY FragmentIn, BoundsNat DEF Marker, Sources
    <3>2. s2 = Delta(EnsureBlock(s1, "text"), "text_delta", f)
      BY <1>8, <2>1, <2>3, <3>1 DEF Interrupt
    <3>3. s1.nextBlockIndex < MaxBlocks
      BY <1>2, <1>7
    <3>4. s2 \in Converters /\ Framed(s1, s2) /\ Good(c, s2, tidy, ids) /\ s2.curBlockType = "text"
      BY <1>7, <3>2, <3>3, Noted
    <3>5. Framed(s0, s2)
      BY <1>7, <3>4, FramedTwice
    <3> QED BY <2>3, <3>4, <3>5
  <2> QED BY <2>2, <2>3
<1>10. PICK s3 : s3 = FillEmpty(s2)
  OBVIOUS
<1>11. NothingSaid(s2) = NothingSaid(s0)
  BY <1>9, FramedFacts
<1>12. /\ s3 \in Converters /\ Framed(s0, s3) /\ Good(c, s3, tidy, ids)
       /\ s.streamInterrupted \/ s3.curBlockType = NoBlock
       /\ s.streamInterrupted \/ ids # {} \/ s3.nextBlockIndex > 0
  <2>1. CASE ~ NothingSaid(s2)
    <3>1. s3 = s2
      BY <1>10, <2>1 DEF FillEmpty
    <3>2. s.accumulatedText # 0 \/ ids # {}
      BY <1>2, <1>3, <1>11, <2>1 DEF NothingSaid
    <3> QED BY <1>9, <3>1, <3>2
  <2>2. CASE NothingSaid(s2)
    <3>1. PICK f \in Fragments : f = Filler
      BY FragmentIn, BoundsNat DEF Filler, Sources
    <3>2. PICK t : t = Delta(EnsureBlock(s2, "text"), "text_delta", f)
      OBVIOUS
    <3>3. s2.curBlockType = "text" \/ s2.nextBlockIndex < MaxBlocks
      BY <1>9
    <3>4. t \in Converters /\ Framed(s2, t) /\ Good(c, t, tidy, ids) /\ t.nextBlockIndex > 0
      BY <1>9, <3>2, <3>3, Noted
    <3>5. s3 = StopBlock(t)
      BY <1>10, <2>2, <3>1, <3>2 DEF FillEmpty
    <3>6. /\ s3 \in Converters /\ Framed(t, s3) /\ Good(c, s3, tidy, ids)
          /\ s3.curBlockType = NoBlock /\ s3.nextBlockIndex = t.nextBlockIndex
      BY <3>4, <3>5, Stopped
    <3>7. Framed(s0, s3)
      BY <1>9, <3>4, <3>6, FramedTwice
    <3> QED BY <3>4, <3>6, <3>7
  <2> QED BY <2>1, <2>2
<1>13. PICK d : Runs(c, s3.events, d, tidy) /\ Agree(s3, d) /\ ToolsOf(d) = ids
  BY <1>12 DEF Good
<1>14. d \in Clients /\ d.phase = "streaming" /\ Len(d.blocks) = s3.nextBlockIndex
       /\ (s3.curBlockType = NoBlock => d.open = None)
  BY <1>13 DEF Agree
<1>15. PICK reason \in Reasons : reason = StopReason(s3)
  BY DEF StopReason, Reasons
<1>16. PICK x : x = Sse!Apply(d, Sse!MessageDelta(reason))
  OBVIOUS
<1>17. PICK y : y = Sse!Apply(x, Sse!MessageStop)
  OBVIOUS
<1>18. /\ x.phase = "closing" /\ y \in Clients /\ y.phase = "stopped"
       /\ y.reason = reason /\ ToolsOf(y) = ToolsOf(d)
       /\ Sse!Legal(x, Sse!MessageStop)
       /\ d.open = None /\ d.blocks # <<>> => Sse!Legal(d, Sse!MessageDelta(reason))
  BY <1>14, <1>16, <1>17, Closed
<1>19. tidy => Sse!Legal(d, Sse!MessageDelta(reason))
  <2> SUFFICES ASSUME tidy PROVE d.open = None /\ d.blocks # <<>>
    BY <1>18
  <2>1. s3.curBlockType = NoBlock /\ (ids # {} \/ s3.nextBlockIndex > 0)
    BY <1>12
  <2>2. CASE s3.nextBlockIndex > 0
    <3>1. Len(d.blocks) # 0
      BY <1>14, <2>2
    <3> QED BY <1>14, <2>1, <3>1
  <2>3. CASE ids # {}
    <3>1. d.blocks # <<>>
      BY <1>13, <2>3 DEF ToolsOf
    <3> QED BY <1>14, <2>1, <3>1
  <2> QED BY <2>1, <2>2, <2>3
<1>20. PICK t : t = Emit(s3, Sse!MessageDelta(reason))
  OBVIOUS
<1>21. t \in Converters /\ Framed(s3, t) /\ t.events = Append(s3.events, Sse!MessageDelta(reason))
  BY <1>12, <1>20, OtherEvents, Emitted
<1>22. PICK r : r = Emit(t, Sse!MessageStop)
  OBVIOUS
<1>23. r \in Converters /\ Framed(t, r) /\ r.events = Append(t.events, Sse!MessageStop)
  BY <1>21, <1>22, OtherEvents, Emitted
<1>24. Runs(c, t.events, x, tidy)
  <2>1. s3.events \in Seq(Sse!Events)
    BY <1>12 DEF Converters
  <2> QED BY <1>13, <1>14, <1>16, <1>19, <1>21, <2>1, RunsOn
<1>25. Runs(c, r.events, y, tidy)
  <2>1. t.events \in Seq(Sse!Events)
    BY <1>21 DEF Converters
  <2> QED BY <1>17, <1>18, <1>23, <1>24, <2>1, RunsOn
<1>26. Framed(s3, r) /\ Framed(s0, r)
  BY <1>12, <1>21, <1>23, FramedTwice
<1>27. ToolsSeen(r) = ids /\ StopReason(r) = reason
  BY <1>3, <1>15, <1>26, FramedFacts
<1>28. r = HandleStreamEnd(s)
  BY <1>1, <1>6, <1>8, <1>10, <1>15, <1>20, <1>22 DEF HandleStreamEnd
<1> QED BY <1>1, <1>13, <1>18, <1>23, <1>25, <1>26, <1>27, <1>28

-----------------------------------------------------------------------------
(* The invariant.                                                          *)

LEMMA BlockEventTyped ==
  ASSUME NEW d \in Clients, NEW e \in Sse!Events,
         e.type \in {"content_block_start", "content_block_delta", "content_block_stop"}
  PROVE  Sse!Apply(d, e) \in Clients /\ Sse!Apply(d, e).last = e
<1>1. CASE e.type = "content_block_start"
  <2>1. PICK i \in 0 .. MaxBlocks - 1, t \in Sse!BlockTypes, tool \in Tools \cup {None} :
           e = [type |-> "content_block_start", index |-> i, block |-> t, tool |-> tool]
    BY <1>1 DEF Sse!Events, Sse!Indices, MaxBlocks
  <2>2. PICK b : b = [type |-> t, tool |-> tool, content |-> <<>>, signed |-> FALSE]
    OBVIOUS
  <2>3. b \in Blocks
    <3>1. <<>> \in Seq(Fragments \cup {None})
      OBVIOUS
    <3> QED BY <2>2, <3>1 DEF Blocks
  <2>4. PICK bs : bs = Append(d.blocks, b)
    OBVIOUS
  <2>5. bs \in Seq(Blocks) /\ i \in Nat
    <3>1. d.blocks \in Seq(Blocks)
      BY DEF Clients
    <3> QED BY <2>3, <2>4, <3>1, BlockBound
  <2>6. Sse!Apply(d, e) = [d EXCEPT !.last = e, !.open = i, !.blocks = bs]
    BY <2>1, <2>2, <2>4 DEF Sse!Apply, Clients
  <2> QED BY <2>5, <2>6 DEF Clients
<1>2. CASE e.type = "content_block_delta"
  <2>1. PICK i \in 0 .. MaxBlocks - 1, k \in Deltas, f \in Fragments \cup {None} :
           e = [type |-> "content_block_delta", index |-> i, delta |-> k, fragment |-> f]
    <3>1. {Sse!DeltaOf[t] : t \in Sse!BlockTypes} \cup {"signature_delta"} \subseteq Deltas
      BY DeltaNames, BlockNames DEF Deltas, ContentDeltas
    <3> QED BY <1>2, <3>1 DEF Sse!Events, Sse!Indices, MaxBlocks, Fragments
  <2>2. PICK bs : bs = Sse!Grow(d.blocks, e)
    OBVIOUS
  <2>3. bs \in Seq(Blocks)
    <3>1. e = Sse!BlockDelta(i, k, f)
      BY <2>1 DEF Sse!BlockDelta
    <3>2. d.blocks \in Seq(Blocks) /\ i \in Nat
      BY BlockBound DEF Clients
    <3> QED BY <2>2, <3>1, <3>2, GrowKeeps
  <2>4. Sse!Apply(d, e) = [d EXCEPT !.last = e, !.blocks = bs]
    BY <1>2, <2>2 DEF Sse!Apply, Clients
  <2> QED BY <2>3, <2>4 DEF Clients
<1>3. CASE e.type = "content_block_stop"
  <2>1. Sse!Apply(d, e) = [d EXCEPT !.last = e, !.open = None]
    BY <1>3 DEF Sse!Apply, Clients
  <2> QED BY <2>1 DEF Clients
<1> QED BY <1>1, <1>2, <1>3

LEMMA NewClientTyped == Sse!NewClient \in Clients /\ ToolsOf(Sse!NewClient) = {}
<1>1. <<>> \in Seq(Blocks)
  OBVIOUS
<1>2. Sse!NewClient \in Clients
  BY <1>1 DEF Sse!NewClient, Clients
<1>3. Sse!NewClient.blocks = <<>>
  BY DEF Sse!NewClient
<1> QED BY <1>2, <1>3 DEF ToolsOf

LEMMA EventTyped ==
  ASSUME NEW d \in Clients, NEW e \in Sse!Events
  PROVE  Sse!Apply(d, e) \in Clients /\ Sse!Apply(d, e).last = e
<1>1. CASE e.type \in {"content_block_start", "content_block_delta", "content_block_stop"}
  BY <1>1, BlockEventTyped
<1>2. CASE e.type = "message_start"
  <2>1. Sse!Apply(d, e) = [Sse!NewClient EXCEPT !.phase = "streaming", !.last = e]
    BY <1>2 DEF Sse!Apply
  <2> QED BY <2>1, NewClientTyped DEF Clients
<1>3. CASE e.type = "message_delta"
  <2>1. e.reason \in Reasons
    BY <1>3 DEF Sse!Events, Reasons
  <2>2. Sse!Apply(d, e) = [d EXCEPT !.last = e, !.phase = "closing", !.reason = e.reason]
    BY <1>3 DEF Sse!Apply, Clients
  <2> QED BY <2>1, <2>2 DEF Clients
<1>4. CASE e.type \in {"ping", "message_stop", "error"}
  <2>1. PICK p \in {"idle", "streaming", "closing", "stopped", "failed"} :
           Sse!Apply(d, e) = [d EXCEPT !.last = e, !.phase = p]
    <3>1. CASE e.type = "ping"
      BY <3>1 DEF Sse!Apply, Clients
    <3>2. CASE e.type = "message_stop"
      BY <3>2 DEF Sse!Apply, Clients
    <3>3. CASE e.type = "error"
      BY <3>3 DEF Sse!Apply, Clients
    <3> QED BY <1>4, <3>1, <3>2, <3>3
  <2> QED BY <2>1 DEF Clients
<1>5. e.type \in {"message_start", "ping", "message_stop", "error", "content_block_start",
                  "content_block_delta", "content_block_stop", "message_delta"}
  BY DEF Sse!Events
<1> QED BY <1>1, <1>2, <1>3, <1>4, <1>5

LEMMA Initially ==
  ASSUME Init
  PROVE  IInv
<1>1. NewStreamConverter \in Converters
  <2>1. <<>> \in Seq(Sse!Events) /\ [c \in Calls |-> None] \in [Calls -> ToolIds \cup {None}]
    OBVIOUS
  <2> QED BY <2>1, BoundsNat DEF NewStreamConverter, Converters
<1>2. NothingSent \in Histories
  BY BoundsNat DEF NothingSent, Histories
<1>3. sc.events = <<>> /\ ~ sc.finalized /\ Runs(client, sc.events, client, Tidy)
  <2>1. sc.events = <<>> /\ ~ sc.finalized
    BY DEF Init, NewStreamConverter
  <2>2. PICK tidy \in BOOLEAN : tidy = Tidy
    BY DEF Tidy
  <2>3. Runs(client, <<>>, client, tidy)
    BY RunsNothing
  <2> QED BY <2>1, <2>2, <2>3
<1>4. Phased(sc, client)
  BY DEF Init, Phased
<1>5. Remembers(sc, sent)
  <2>1. Tracks(sc, sent)
    BY BoundsNat DEF Init, NewStreamConverter, NothingSent, Tracks
  <2>2. Follows(sc, sent)
    <3>1. sc.nextBlockIndex = 0 /\ sent.chunks = 0 /\ sent.last = None /\ sc.accumulatedText = 0
      BY DEF Init, NewStreamConverter, NothingSent
    <3>2. Cardinality(OpenCalls(sc)) \in Nat
      BY <1>1, CountedCalls DEF Init
    <3> QED BY <3>1, <3>2 DEF Follows
  <2>3. sc.finishReason = NoFinish /\ sent.finish = NoFinish /\ NoFinish # "tool_calls"
    <3>1. NoFinish # "tool_calls"
      BY Zenon DEF NoFinish
    <3> QED BY <3>1 DEF Init, NewStreamConverter, NothingSent
  <2> QED BY <2>1, <2>2, <2>3 DEF Remembers
<1> QED BY <1>1, <1>2, <1>3, <1>4, <1>5, NewClientTyped DEF Init, IInv

(* Between two handlers of a running stream, the client agrees.            *)
LEMMA Resting ==
  ASSUME IInv, Idle, Running, ~ sc.finalized
  PROVE  /\ Agree(sc, client) /\ ToolsOf(client) = ToolsSeen(sc)
         /\ Tracks(sc, sent) /\ Follows(sc, sent) /\ sc.finishReason = sent.finish
         /\ \A tidy \in BOOLEAN : Good(client, sc, tidy, ToolsSeen(sc))
<1>1. PICK d : Runs(client, sc.events, d, Tidy) /\ Phased(sc, d)
  BY DEF IInv
<1>2. d = client
  <2>1. PICK tidy \in BOOLEAN : tidy = Tidy
    BY DEF Tidy
  <2>2. Runs(client, <<>>, d, tidy)
    BY <1>1, <2>1 DEF Idle
  <2> QED BY <2>2, RunsNowhere
<1>3. sc # NewStreamConverter
  BY DEF Running, NewStreamConverter
<1>4. Agree(sc, client) /\ ToolsOf(client) = ToolsSeen(sc)
  BY <1>1, <1>2, <1>3 DEF Phased, Running
<1>5. ASSUME NEW tidy \in BOOLEAN PROVE Good(client, sc, tidy, ToolsSeen(sc))
  <2>1. Runs(client, sc.events, client, tidy)
    BY RunsNothing DEF Idle
  <2> QED BY <1>4, <2>1 DEF Good
<1> QED BY <1>4, <1>5 DEF IInv, Remembers

LEMMA StartStep ==
  ASSUME IInv, Start
  PROVE  IInv'
<1>1. PICK d : Runs(client, sc.events, d, Tidy) /\ Phased(sc, d)
  BY DEF IInv
<1>2. sc = NewStreamConverter /\ d = Sse!NewClient /\ sc.events = <<>>
  BY <1>1 DEF Phased, Start, NewStreamConverter
<1>3. PICK tidy \in BOOLEAN : tidy = Tidy
  BY DEF Tidy
<1>4. client = Sse!NewClient
  BY <1>1, <1>2, <1>3, RunsNowhere
<1>5. PICK s0 : s0 = [sc EXCEPT !.started = TRUE]
  OBVIOUS
<1>6. /\ s0 \in Converters /\ s0.started /\ s0.events = <<>> /\ s0.finalized = sc.finalized
      /\ s0.streamInterrupted = sc.streamInterrupted /\ s0.finishReason = sc.finishReason
      /\ s0.toolCallByIndex = sc.toolCallByIndex /\ s0.accumulatedText = sc.accumulatedText
      /\ s0.accumulatedReasoning = sc.accumulatedReasoning
      /\ s0.curBlockType = NoBlock /\ s0.curBlockIndex = 0 /\ s0.nextBlockIndex = 0
  BY <1>2, <1>5 DEF IInv, Converters, NewStreamConverter
<1>7. PICK s1 : s1 = Emit(s0, Sse!MessageStart)
  OBVIOUS
<1>8. /\ s1 \in Converters /\ Framed(s0, s1) /\ s1.events = Append(s0.events, Sse!MessageStart)
      /\ s1.curBlockType = NoBlock /\ s1.curBlockIndex = 0 /\ s1.nextBlockIndex = 0
  BY <1>6, <1>7, OtherEvents, Emitted
<1>9. PICK r : r = Emit(s1, Sse!Ping)
  OBVIOUS
<1>10. /\ r \in Converters /\ Framed(s1, r) /\ r.events = Append(s1.events, Sse!Ping)
       /\ r.curBlockType = NoBlock /\ r.curBlockIndex = 0 /\ r.nextBlockIndex = 0
  BY <1>8, <1>9, OtherEvents, Emitted
<1>11. sc' = r /\ sent' = sent /\ client' = client /\ cached' = cached
  BY <1>5, <1>7, <1>9 DEF Start
<1>12. Framed(s0, r)
  BY <1>8, <1>10, FramedTwice
<1>13. PICK x : x = Sse!Apply(client, Sse!MessageStart)
  OBVIOUS
<1>14. /\ x \in Clients /\ x.phase = "streaming" /\ x.blocks = <<>> /\ x.open = None
       /\ x.reason = None /\ Sse!Legal(client, Sse!MessageStart)
       /\ client.phase = "idle"
  <2>1. PICK e : e = Sse!MessageStart
    OBVIOUS
  <2>2. e.type = "message_start" /\ e \in Sse!Events
    BY <2>1, OtherEvents DEF Sse!MessageStart
  <2>3. x = [Sse!NewClient EXCEPT !.phase = "streaming", !.last = e]
    BY <1>13, <2>1, <2>2 DEF Sse!Apply
  <2>4. x \in Clients
    BY <1>4, <1>13, <2>1, <2>2, NewClientTyped, EventTyped
  <2>5. client.phase = "idle"
    BY <1>4 DEF Sse!NewClient
  <2>6. Sse!Legal(client, e)
    BY <2>2, <2>5 DEF Sse!Legal
  <2>7. x.phase = "streaming" /\ x.blocks = <<>> /\ x.open = None /\ x.reason = None
    BY <2>3 DEF Sse!NewClient
  <2> QED BY <2>1, <2>4, <2>5, <2>6, <2>7
<1>15. PICK y : y = Sse!Apply(x, Sse!Ping)
  OBVIOUS
<1>16. /\ y \in Clients /\ y.phase = "streaming" /\ y.blocks = <<>> /\ y.open = None
       /\ y.reason = None /\ Sse!Legal(x, Sse!Ping)
  <2>1. PICK e : e = Sse!Ping
    OBVIOUS
  <2>2. e.type = "ping" /\ e \in Sse!Events
    BY <2>1, OtherEvents DEF Sse!Ping
  <2>3. y = [x EXCEPT !.last = e]
    BY <1>14, <1>15, <2>1, <2>2 DEF Sse!Apply, Clients
  <2>4. Sse!Legal(x, e)
    BY <1>14, <2>2 DEF Sse!Legal
  <2>5. y \in Clients /\ y.phase = "streaming" /\ y.blocks = <<>> /\ y.open = None
        /\ y.reason = None
    BY <1>14, <2>2, <2>3 DEF Clients
  <2> QED BY <2>1, <2>4, <2>5
<1>17. Runs(client, s1.events, x, tidy)
  <2>1. Runs(client, <<>>, client, tidy)
    BY RunsNothing
  <2>2. <<>> \in Seq(Sse!Events)
    OBVIOUS
  <2> QED BY <1>6, <1>8, <1>13, <1>14, <2>1, <2>2, RunsOn
<1>18. Runs(client, r.events, y, tidy)
  <2>1. s1.events \in Seq(Sse!Events)
    BY <1>8 DEF Converters
  <2> QED BY <1>10, <1>14, <1>15, <1>16, <1>17, <2>1, RunsOn
<1>19. Phased(r, y)
  <2>1. r.started /\ ~ r.finalized
    BY <1>2, <1>6, <1>12 DEF Framed, NewStreamConverter
  <2>2. Agree(r, y)
    BY <1>10, <1>16, BlockBound DEF Agree
  <2>3. ToolsOf(y) = {}
    BY <1>16 DEF ToolsOf
  <2>4. ToolsSeen(r) = {}
    BY <1>2, <1>6, <1>12 DEF Framed, ToolsSeen, NewStreamConverter
  <2> QED BY <2>1, <2>2, <2>3, <2>4 DEF Phased
<1>20. Remembers(r, sent)
  <2>1. /\ r.finalized = sc.finalized /\ r.finishReason = sc.finishReason
        /\ r.toolCallByIndex = sc.toolCallByIndex /\ r.accumulatedText = sc.accumulatedText
        /\ r.accumulatedReasoning = sc.accumulatedReasoning
        /\ r.nextBlockIndex = sc.nextBlockIndex /\ r.curBlockType = sc.curBlockType
    BY <1>2, <1>6, <1>10, <1>12 DEF Framed, NewStreamConverter
  <2>2. Remembers(sc, sent)
    BY DEF IInv
  <2> QED BY <2>1, <2>2 DEF Remembers, Tracks, Follows, OpenCalls
<1>21. Tidy' = tidy
  BY <1>3, <1>6, <1>11, <1>12 DEF Tidy, Framed
<1>22. r.finalized = sc.finalized
  BY <1>6, <1>12 DEF Framed
<1>23. sc' \in Converters /\ sent' \in Histories /\ client' \in Clients
  BY <1>10, <1>11 DEF IInv
<1>24. Runs(client', (sc').events, y, Tidy') /\ Phased(sc', y) /\ Remembers(sc', sent')
  BY <1>11, <1>18, <1>19, <1>20, <1>21
<1>25. cached' = IF sc'.finalized THEN CacheAtEnd(sc') ELSE [tools |-> None, text |-> None]
  <2>1. ~ r.finalized /\ ~ sc.finalized
    BY <1>2, <1>22 DEF NewStreamConverter
  <2>2. cached = [tools |-> None, text |-> None]
    BY <2>1 DEF IInv
  <2> QED BY <1>11, <2>1, <2>2
<1> QED BY <1>23, <1>24, <1>25 DEF IInv

LEMMA Unbusy ==
  ASSUME NEW s \in Converters, NEW u \in Histories, Follows(s, u)
  PROVE  s.nextBlockIndex < MaxBlocks
<1>1. s.nextBlockIndex \in Nat /\ u.chunks \in 0 .. MaxChunks
  BY DEF Converters, Histories
<1>2. s.nextBlockIndex <= 2 * u.chunks + Cardinality(OpenCalls(s))
  BY DEF Follows
<1> QED BY <1>1, <1>2, BoundsNat, CountedCalls DEF MaxBlocks

LEMMA ChunkStep ==
  ASSUME IInv, Chunk
  PROVE  IInv'
<1>1. /\ Idle /\ Running /\ ~ sc.finalized /\ sent.finish = NoFinish /\ sent.chunks < MaxChunks
      /\ cached' = cached /\ client' = client
  BY DEF Chunk
<1>2. PICK content \in BOOLEAN, reasoning \in BOOLEAN :
         \E tools \in DeltaSeqs(SendContent(sent, content, reasoning)) :
            LET u == FoldLeft(SendDelta, SendContent(sent, content, reasoning), tools) IN
            \E finish \in Finishes(u) :
               /\ sent' = [u EXCEPT !.finish = finish]
               /\ sc' = HandleChunk(sc, [content |-> IF content THEN u.text ELSE 0,
                                         reasoning |-> IF reasoning THEN u.reasoning ELSE 0,
                                         tools |-> tools, finish |-> finish])
  BY DEF Chunk
<1>3. PICK ds \in DeltaSeqs(SendContent(sent, content, reasoning)) :
         LET u == FoldLeft(SendDelta, SendContent(sent, content, reasoning), ds) IN
         \E finish \in Finishes(u) :
            /\ sent' = [u EXCEPT !.finish = finish]
            /\ sc' = HandleChunk(sc, [content |-> IF content THEN u.text ELSE 0,
                                      reasoning |-> IF reasoning THEN u.reasoning ELSE 0,
                                      tools |-> ds, finish |-> finish])
  BY <1>2
<1>4. PICK w : w = AllSent(SendContent(sent, content, reasoning), ds)
  OBVIOUS
<1>5. PICK finish \in Finishes(w) :
         /\ sent' = [w EXCEPT !.finish = finish]
         /\ sc' = HandleChunk(sc, [content |-> IF content THEN w.text ELSE 0,
                                   reasoning |-> IF reasoning THEN w.reasoning ELSE 0,
                                   tools |-> ds, finish |-> finish])
  BY <1>3, <1>4 DEF AllSent
<1>6. PICK chunk : chunk = [content |-> IF content THEN w.text ELSE 0,
                            reasoning |-> IF reasoning THEN w.reasoning ELSE 0,
                            tools |-> ds, finish |-> finish]
  OBVIOUS
<1>7. PICK r : r = HandleChunk(sc, chunk)
  OBVIOUS
<1>8. PICK v : v = [w EXCEPT !.finish = finish]
  OBVIOUS
<1>9. sc' = r /\ sent' = v
  BY <1>5, <1>6, <1>7, <1>8
<1>10. PICK tidy \in BOOLEAN : tidy <=> (~ w.mixed /\ ~ r.streamInterrupted)
  OBVIOUS
<1>11. /\ Agree(sc, client) /\ Tracks(sc, sent) /\ Follows(sc, sent)
       /\ sc.finishReason = sent.finish /\ Good(client, sc, tidy, ToolsSeen(sc))
  BY <1>1, Resting
<1>12. sc \in Converters /\ sent \in Histories
  BY DEF IInv
<1>13. sc.finishReason = NoFinish /\ (tidy => ~ w.mixed)
  BY <1>1, <1>10, <1>11
<1>14. /\ r \in Converters /\ v \in Histories /\ v.mixed = w.mixed
       /\ Good(client, r, tidy, ToolsSeen(r))
       /\ r.finishReason = v.finish /\ Tracks(r, v) /\ Follows(r, v)
       /\ v.finish = "tool_calls" => \E x \in Calls : v.name[x] # None
       /\ r.started = sc.started /\ r.finalized = sc.finalized
       /\ r.streamInterrupted = sc.streamInterrupted
  BY <1>1, <1>4, <1>6, <1>7, <1>8, <1>11, <1>12, <1>13, ChunkHandled
<1>15. PICK d : Runs(client, r.events, d, tidy) /\ Agree(r, d) /\ ToolsOf(d) = ToolsSeen(r)
  BY <1>14 DEF Good
<1>16. Phased(r, d)
  BY <1>1, <1>14, <1>15 DEF Phased, Running
<1>17. Remembers(r, v)
  BY <1>14 DEF Remembers
<1>18. Tidy' <=> tidy
  BY <1>9, <1>10, <1>14 DEF Tidy
<1>19. Runs(client', (sc').events, d, Tidy')
  <2>1. Tidy' = tidy
    BY <1>18 DEF Tidy
  <2> QED BY <1>1, <1>9, <1>15, <2>1
<1>20. cached' = IF sc'.finalized THEN CacheAtEnd(sc') ELSE [tools |-> None, text |-> None]
  <2>1. ~ r.finalized
    BY <1>1, <1>14
  <2>2. cached = [tools |-> None, text |-> None]
    BY <1>1 DEF IInv
  <2> QED BY <1>1, <1>9, <2>1, <2>2
<1>21. sc' \in Converters /\ sent' \in Histories /\ client' \in Clients
  BY <1>1, <1>9, <1>14 DEF IInv
<1>22. Phased(sc', d) /\ Remembers(sc', sent')
  BY <1>9, <1>16, <1>17
<1> QED BY <1>19, <1>20, <1>21, <1>22 DEF IInv

LEMMA EndStep ==
  ASSUME IInv, End
  PROVE  IInv'
<1>1. /\ Idle /\ Running /\ ~ sc.finalized /\ sc' = HandleStreamEnd(sc) /\ cached' = CacheAtEnd(sc)
      /\ client' = client /\ sent' = sent
  BY DEF End
<1>2. PICK tidy \in BOOLEAN : tidy = Tidy
  BY DEF Tidy
<1>3. /\ Tracks(sc, sent) /\ Follows(sc, sent)
      /\ sc.finishReason = sent.finish /\ Good(client, sc, tidy, ToolsSeen(sc))
  BY <1>1, Resting
<1>4. sc \in Converters /\ sent \in Histories /\ Remembers(sc, sent)
  BY DEF IInv
<1>5. sc.nextBlockIndex < MaxBlocks
  BY <1>3, <1>4, Unbusy
<1>6. tidy => ~ sc.streamInterrupted
  BY <1>2 DEF Tidy
<1>7. sc.accumulatedText # 0 => sc.nextBlockIndex > 0
  BY <1>3 DEF Follows
<1>8. PICK r : r = HandleStreamEnd(sc)
  OBVIOUS
<1>9. PICK s0 : s0 = [sc EXCEPT !.finalized = TRUE]
  OBVIOUS
<1>10. /\ r \in Converters /\ Framed(s0, r)
       /\ \E d : /\ Runs(client, r.events, d, tidy) /\ d \in Clients /\ d.phase = "stopped"
                 /\ d.reason = StopReason(r) /\ ToolsOf(d) = ToolsSeen(r)
  BY <1>3, <1>4, <1>5, <1>6, <1>7, <1>8, <1>9, EndHandled
<1>11. PICK d : /\ Runs(client, r.events, d, tidy) /\ d \in Clients /\ d.phase = "stopped"
                /\ d.reason = StopReason(r) /\ ToolsOf(d) = ToolsSeen(r)
  BY <1>10
<1>12. /\ r.started = sc.started /\ r.finalized /\ r.streamInterrupted = sc.streamInterrupted
       /\ r.toolCallByIndex = sc.toolCallByIndex /\ r.finishReason = sc.finishReason
       /\ r.accumulatedText = sc.accumulatedText
       /\ r.accumulatedReasoning = sc.accumulatedReasoning
  BY <1>4, <1>9, <1>10 DEF Framed, Converters
<1>13. Phased(r, d)
  BY <1>1, <1>11, <1>12 DEF Phased, Running
<1>14. Remembers(r, sent)
  BY <1>4, <1>12 DEF Remembers, Tracks
<1>15. CacheAtEnd(r) = CacheAtEnd(sc)
  <2>1. ToolsSeen(r) = ToolsSeen(sc)
    BY <1>12 DEF ToolsSeen
  <2> QED BY <1>12, <2>1 DEF CacheAtEnd
<1>16. sc' = r
  BY <1>1, <1>8
<1>17. Tidy' = tidy
  BY <1>1, <1>2, <1>12, <1>16 DEF Tidy
<1>18. Runs(client', (sc').events, d, Tidy') /\ Phased(sc', d) /\ Remembers(sc', sent')
  BY <1>1, <1>11, <1>13, <1>14, <1>16, <1>17
<1>19. cached' = IF sc'.finalized THEN CacheAtEnd(sc') ELSE [tools |-> None, text |-> None]
  BY <1>1, <1>12, <1>15, <1>16
<1>20. sc' \in Converters /\ sent' \in Histories /\ client' \in Clients
  BY <1>1, <1>10, <1>16 DEF IInv
<1> QED BY <1>18, <1>19, <1>20 DEF IInv

LEMMA SetInterruptedStep ==
  ASSUME IInv, SetInterrupted
  PROVE  IInv'
<1>1. /\ Idle /\ Running /\ ~ sc.finalized /\ sc' = [sc EXCEPT !.streamInterrupted = TRUE]
      /\ client' = client /\ sent' = sent /\ cached' = cached
  BY DEF SetInterrupted
<1>2. PICK r : r = [sc EXCEPT !.streamInterrupted = TRUE]
  OBVIOUS
<1>3. /\ r \in Converters /\ r.started = sc.started /\ r.finalized = sc.finalized
      /\ r.streamInterrupted /\ r.events = sc.events
      /\ r.toolCallByIndex = sc.toolCallByIndex /\ r.finishReason = sc.finishReason
      /\ r.accumulatedText = sc.accumulatedText
      /\ r.accumulatedReasoning = sc.accumulatedReasoning
      /\ r.curBlockType = sc.curBlockType /\ r.curBlockIndex = sc.curBlockIndex
      /\ r.nextBlockIndex = sc.nextBlockIndex
  BY <1>2 DEF IInv, Converters
<1>4. PICK tidy \in BOOLEAN : tidy = Tidy'
  BY DEF Tidy
<1>5. Good(client, sc, tidy, ToolsSeen(sc))
  BY <1>1, Resting
<1>6. PICK d : Runs(client, sc.events, d, tidy) /\ Agree(sc, d) /\ ToolsOf(d) = ToolsSeen(sc)
  BY <1>5 DEF Good
<1>7. Agree(r, d) /\ ToolsSeen(r) = ToolsSeen(sc)
  BY <1>3, <1>6 DEF Agree, ToolsSeen
<1>8. Phased(r, d)
  BY <1>1, <1>3, <1>6, <1>7 DEF Phased, Running
<1>9. Remembers(r, sent)
  BY <1>3 DEF IInv, Remembers, Tracks, Follows, OpenCalls
<1>10. sc' = r
  BY <1>1, <1>2
<1>11. Runs(client', (sc').events, d, Tidy') /\ Phased(sc', d) /\ Remembers(sc', sent')
  BY <1>1, <1>3, <1>4, <1>6, <1>8, <1>9, <1>10
<1>12. cached' = IF sc'.finalized THEN CacheAtEnd(sc') ELSE [tools |-> None, text |-> None]
  BY <1>1, <1>3, <1>10 DEF IInv
<1>13. sc' \in Converters /\ sent' \in Histories /\ client' \in Clients
  BY <1>1, <1>3, <1>10 DEF IInv
<1> QED BY <1>11, <1>12, <1>13 DEF IInv

LEMMA EmitErrorStep ==
  ASSUME IInv, EmitError
  PROVE  IInv'
<1>1. /\ Idle /\ Running /\ ~ sc.finalized /\ sc' = Emit(sc, Sse!Error)
      /\ client' = client /\ sent' = sent /\ cached' = cached
  BY DEF EmitError
<1>2. PICK tidy \in BOOLEAN : tidy = Tidy'
  BY DEF Tidy
<1>3. Agree(sc, client)
  BY <1>1, Resting
<1>4. PICK r : r = Emit(sc, Sse!Error)
  OBVIOUS
<1>5. /\ r \in Converters /\ Framed(sc, r) /\ r.events = Append(sc.events, Sse!Error)
      /\ r.curBlockType = sc.curBlockType /\ r.curBlockIndex = sc.curBlockIndex
      /\ r.nextBlockIndex = sc.nextBlockIndex
  BY <1>4, OtherEvents, Emitted DEF IInv
<1>6. PICK e : e = Sse!Error
  OBVIOUS
<1>7. e.type = "error" /\ e \in Sse!Events
  BY <1>6, OtherEvents DEF Sse!Error
<1>8. client \in Clients /\ client.phase = "streaming"
  BY <1>3 DEF Agree
<1>9. PICK d : d = Sse!Apply(client, e)
  OBVIOUS
<1>10. d = [client EXCEPT !.last = e, !.phase = "failed"]
  BY <1>7, <1>8, <1>9 DEF Sse!Apply, Clients
<1>11. d \in Clients /\ d.phase = "failed" /\ Sse!Legal(client, e)
  BY <1>7, <1>8, <1>10 DEF Clients, Sse!Legal
<1>12. Runs(client, r.events, d, tidy)
  <2>1. Runs(client, <<>>, client, tidy)
    BY RunsNothing
  <2>2. sc.events = <<>> /\ <<>> \in Seq(Sse!Events)
    BY <1>1 DEF Idle
  <2> QED BY <1>5, <1>6, <1>8, <1>9, <1>11, <2>1, <2>2, RunsOn
<1>13. Phased(r, d)
  BY <1>1, <1>5, <1>11 DEF Phased, Framed, Running
<1>14. Remembers(r, sent)
  BY <1>5 DEF IInv, Remembers, Tracks, Follows, OpenCalls, Framed
<1>15. sc' = r
  BY <1>1, <1>4
<1>16. Runs(client', (sc').events, d, Tidy') /\ Phased(sc', d) /\ Remembers(sc', sent')
  BY <1>1, <1>2, <1>12, <1>13, <1>14, <1>15
<1>17. cached' = IF sc'.finalized THEN CacheAtEnd(sc') ELSE [tools |-> None, text |-> None]
  BY <1>1, <1>5, <1>15 DEF IInv, Framed
<1>18. sc' \in Converters /\ sent' \in Histories /\ client' \in Clients
  BY <1>1, <1>5, <1>15 DEF IInv
<1> QED BY <1>16, <1>17, <1>18 DEF IInv

(* What the next event is, and what it does: also what SseSpec asks.       *)
LEMMA Delivered ==
  ASSUME IInv, Deliver
  PROVE  /\ client' \in Clients /\ (client').last \in Sse!Events
         /\ client' = Sse!Apply(client, (client').last)
         /\ client.phase \notin {"stopped", "failed"}
         /\ Tidy => Sse!Legal(client, (client').last)
         /\ \A d : Runs(client, sc.events, d, Tidy) => Runs(client', Tail(sc.events), d, Tidy)
<1>1. /\ sc.events # <<>> /\ client' = Sse!Apply(client, Head(sc.events))
  BY DEF Deliver, Idle
<1>2. sc.events \in Seq(Sse!Events) /\ client \in Clients
  BY DEF IInv, Converters
<1>3. PICK e \in Sse!Events : e = Head(sc.events)
  BY <1>1, <1>2
<1>4. Sse!Apply(client, e) \in Clients /\ Sse!Apply(client, e).last = e
  BY <1>2, EventTyped
<1>5. client' \in Clients /\ (client').last = e /\ client' = Sse!Apply(client, e)
  BY <1>1, <1>3, <1>4
<1>6. PICK tidy \in BOOLEAN : tidy = Tidy
  BY DEF Tidy
<1>7. PICK d : Runs(client, sc.events, d, tidy)
  BY <1>6 DEF IInv
<1>8. client.phase \notin {"stopped", "failed"} /\ (tidy => Sse!Legal(client, e))
  BY <1>1, <1>2, <1>3, <1>7, RunsFrom
<1>9. ASSUME NEW x, Runs(client, sc.events, x, Tidy)
      PROVE  Runs(client', Tail(sc.events), x, Tidy)
  <2>1. Runs(Sse!Apply(client, Head(sc.events)), Tail(sc.events), x, tidy)
    BY <1>1, <1>2, <1>6, <1>9, RunsFrom
  <2> QED BY <1>1, <1>6, <2>1
<1> QED BY <1>5, <1>6, <1>8, <1>9

LEMMA DeliverStep ==
  ASSUME IInv, Deliver
  PROVE  IInv'
<1>1. /\ sc.events # <<>> /\ sc' = [sc EXCEPT !.events = Tail(sc.events)]
      /\ sent' = sent /\ cached' = cached
  BY DEF Deliver, Idle
<1>2. PICK es : es = Tail(sc.events)
  OBVIOUS
<1>3. es \in Seq(Sse!Events)
  BY <1>1, <1>2 DEF IInv, Converters
<1>4. PICK r : r = [sc EXCEPT !.events = es]
  OBVIOUS
<1>5. /\ r \in Converters /\ r.events = es /\ Framed(sc, r)
      /\ r.curBlockType = sc.curBlockType /\ r.curBlockIndex = sc.curBlockIndex
      /\ r.nextBlockIndex = sc.nextBlockIndex
  BY <1>3, <1>4 DEF IInv, Converters, Framed
<1>6. PICK d : Runs(client, sc.events, d, Tidy) /\ Phased(sc, d)
  BY DEF IInv
<1>7. Runs(client', es, d, Tidy) /\ client' \in Clients
  BY <1>2, <1>6, Delivered
<1>8. sc # NewStreamConverter
  BY <1>1 DEF NewStreamConverter
<1>9. Phased(r, d)
  <2>1. ToolsSeen(r) = ToolsSeen(sc) /\ StopReason(r) = StopReason(sc)
    BY <1>5, FramedFacts
  <2>2. Agree(sc, d) => Agree(r, d)
    BY <1>5 DEF Agree
  <2>3. r.started = sc.started /\ r.finalized = sc.finalized
    BY <1>5 DEF Framed
  <2> QED BY <1>6, <1>8, <2>1, <2>2, <2>3 DEF Phased
<1>10. Remembers(r, sent)
  BY <1>5 DEF IInv, Remembers, Tracks, Follows, OpenCalls, Framed
<1>11. sc' = r
  BY <1>1, <1>2, <1>4
<1>12. Tidy' = Tidy
  BY <1>1, <1>5, <1>11 DEF Tidy, Framed
<1>13. Runs(client', (sc').events, d, Tidy') /\ Phased(sc', d) /\ Remembers(sc', sent')
  BY <1>1, <1>5, <1>7, <1>9, <1>10, <1>11, <1>12
<1>14. cached' = IF sc'.finalized THEN CacheAtEnd(sc') ELSE [tools |-> None, text |-> None]
  <2>1. r.finalized = sc.finalized /\ CacheAtEnd(r) = CacheAtEnd(sc)
    <3>1. ToolsSeen(r) = ToolsSeen(sc)
      BY <1>5, FramedFacts
    <3> QED BY <1>5, <3>1 DEF Framed, CacheAtEnd
  <2> QED BY <1>1, <1>11, <2>1 DEF IInv
<1>15. sc' \in Converters /\ sent' \in Histories /\ client' \in Clients
  BY <1>1, <1>5, <1>7, <1>11 DEF IInv
<1> QED BY <1>13, <1>14, <1>15 DEF IInv

-----------------------------------------------------------------------------
(* The theorems.                                                           *)

LEMMA Stutter ==
  ASSUME IInv, UNCHANGED vars
  PROVE  IInv'
<1>1. sc' = sc /\ cached' = cached /\ client' = client /\ sent' = sent
  BY DEF vars
<1>2. Tidy' = Tidy
  BY <1>1 DEF Tidy
<1>3. PICK d : Runs(client, sc.events, d, Tidy) /\ Phased(sc, d)
  BY DEF IInv
<1>4. Runs(client', (sc').events, d, Tidy') /\ Phased(sc', d) /\ Remembers(sc', sent')
  BY <1>1, <1>2, <1>3 DEF IInv
<1>5. cached' = IF sc'.finalized THEN CacheAtEnd(sc') ELSE [tools |-> None, text |-> None]
  BY <1>1 DEF IInv
<1>6. sc' \in Converters /\ sent' \in Histories /\ client' \in Clients
  BY <1>1 DEF IInv
<1> QED BY <1>4, <1>5, <1>6 DEF IInv

LEMMA Invariance == Spec => []IInv
<1>1. Init => IInv
  BY Initially
<1>2. IInv /\ [Next]_vars => IInv'
  <2> SUFFICES ASSUME IInv, [Next]_vars
               PROVE  IInv'
    OBVIOUS
  <2>1. CASE Start
    BY <2>1, StartStep
  <2>2. CASE Chunk
    BY <2>2, ChunkStep
  <2>3. CASE End
    BY <2>3, EndStep
  <2>4. CASE SetInterrupted
    BY <2>4, SetInterruptedStep
  <2>5. CASE EmitError
    BY <2>5, EmitErrorStep
  <2>6. CASE Deliver
    BY <2>6, DeliverStep
  <2>7. CASE UNCHANGED vars
    BY <2>7, Stutter
  <2> QED BY <2>1, <2>2, <2>3, <2>4, <2>5, <2>6, <2>7 DEF Next
<1> QED BY <1>1, <1>2, PTL DEF Spec

(* What the end of a stream puts in the cache.                             *)
LEMMA CacheTyped ==
  ASSUME NEW s \in Converters
  PROVE  LET e == CacheAtEnd(s) IN
         /\ e.tools = None \/ e.tools \in [ids : SUBSET ToolIds, reasoning : 1..MaxChunks]
         /\ e.text = None \/ e.text \in [said : 1..MaxChunks, reasoning : 1..MaxChunks]
<1>1. /\ s.accumulatedReasoning \in 0 .. MaxChunks /\ s.accumulatedText \in 0 .. MaxChunks
      /\ s.toolCallByIndex \in [Calls -> ToolIds \cup {None}]
  BY DEF Converters
<1>2. ToolsSeen(s) \subseteq ToolIds
  BY <1>1 DEF ToolsSeen
<1>3. /\ s.accumulatedReasoning > 0 => s.accumulatedReasoning \in 1 .. MaxChunks
      /\ s.accumulatedText > 0 => s.accumulatedText \in 1 .. MaxChunks
  BY <1>1, BoundsNat
<1> QED BY <1>2, <1>3 DEF CacheAtEnd

(* The converter's state, its pending events and what it caches stay in    *)
(* their types: block indices, fragments and events of convert/stream.go   *)
(* within the bounds, for any number of chunks, entries and calls.         *)
THEOREM TypeCorrect == Spec => []TypeOK
<1>1. IInv => TypeOK
  <2> SUFFICES ASSUME IInv
               PROVE  TypeOK
    OBVIOUS
  <2>1. sc \in Converters
    BY DEF IInv
  <2>2. /\ sc.curBlockType \in Sse!BlockTypes \cup {NoBlock}
        /\ {sc.curBlockIndex, sc.nextBlockIndex} \subseteq Nat
        /\ {sc.started, sc.thinkingBlockStopped, sc.finalized, sc.streamInterrupted}
              \subseteq BOOLEAN
        /\ sc.toolCallByIndex \in [Calls -> ToolIds \cup {None}]
        /\ sc.finishReason \in FinishReasons \cup {NoFinish}
        /\ {sc.accumulatedText, sc.accumulatedReasoning} \subseteq 0..MaxChunks
    BY <2>1 DEF Converters
  <2>3. \A i \in DOMAIN sc.events : sc.events[i] \in Sse!Events
    BY <2>1 DEF Converters
  <2>4. /\ cached.tools = None \/ cached.tools \in [ids : SUBSET ToolIds, reasoning : 1..MaxChunks]
        /\ cached.text = None \/ cached.text \in [said : 1..MaxChunks, reasoning : 1..MaxChunks]
    <3>1. CASE sc.finalized
      BY <2>1, <3>1, CacheTyped DEF IInv
    <3>2. CASE ~ sc.finalized
      BY <3>2 DEF IInv
    <3> QED BY <3>1, <3>2
  <2> QED BY <2>2, <2>3, <2>4 DEF TypeOK
<1> QED BY <1>1, Invariance, PTL

(* However many chunks, calls and entries, in whatever order, the handlers *)
(* of convert/stream.go emit what AnthropicSSE allows: the converter       *)
(* implements the protocol as long as the stream is tidy.                  *)
THEOREM LegalStream == Spec => SseSpec
<1>1. Init => Sse!Init
  BY DEF Init, Sse!Init
<1>2. IInv /\ [Next]_vars => [Tidy => Sse!Next]_client
  <2> SUFFICES ASSUME IInv, [Next]_vars, client' # client, Tidy
               PROVE  Sse!Next
    OBVIOUS
  <2>1. Deliver
    BY DEF Next, vars, Start, Chunk, End, SetInterrupted, EmitError
  <2>2. /\ (client').last \in Sse!Events /\ client' = Sse!Apply(client, (client').last)
        /\ Sse!Legal(client, (client').last)
    BY <2>1, Delivered
  <2> QED BY <2>2 DEF Sse!Next, Sse!Accept
<1> QED BY <1>1, <1>2, Invariance, PTL DEF Spec, SseSpec

(* Once message_stop has arrived nothing is pending, and the client agrees *)
(* with the converter on the tool calls and on why the message ended.      *)
LEMMA AtTheEnd ==
  ASSUME IInv, Ended
  PROVE  /\ sc.finalized /\ client.reason = StopReason(sc) /\ ToolsOf(client) = ToolsSeen(sc)
         /\ Idle
<1>1. PICK d : Runs(client, sc.events, d, Tidy) /\ Phased(sc, d)
  BY DEF IInv
<1>2. PICK tidy \in BOOLEAN : tidy = Tidy
  BY DEF Tidy
<1>3. sc.events \in Seq(Sse!Events) /\ client.phase = "stopped"
  BY DEF IInv, Converters, Ended
<1>4. sc.events = <<>>
  BY <1>1, <1>2, <1>3, RunsFrom
<1>5. d = client
  BY <1>1, <1>2, <1>4, RunsNowhere
<1> QED BY <1>1, <1>3, <1>4, <1>5 DEF Phased, Agree, Sse!NewClient, Idle

(* If no call can be dropped for its name, the client of a stream that has *)
(* ended is told to run tools exactly when it has been given some and the  *)
(* upstream has finished with "tool_calls" or "stop", and that the message *)
(* was cut exactly when the limit has cut it.  A stream without any finish *)
(* reason asks for nothing, even after tool calls.  (A call with an        *)
(* undeclared name is dropped by handleToolCallDelta, and the finish reason*)
(* "tool_calls" still announces it: without the hypothesis this is false.) *)
THEOREM ToolsAnnounced ==
  ASSUME Declared \in {{}, Names}
  PROVE  Spec => []ToolUseAnnounced
<1>1. IInv => ToolUseAnnounced
  <2> SUFFICES ASSUME IInv, Ended
               PROVE  /\ client.reason = "tool_use"
                            <=> ToolBlocks # {} /\ sent.finish \in {"stop", "tool_calls"}
                      /\ client.reason = "max_tokens" <=> sent.finish = "length"
    BY DEF ToolUseAnnounced
  <2>1. client.reason = StopReason(sc) /\ ToolsOf(client) = ToolsSeen(sc)
    BY AtTheEnd
  <2>2. sc.finishReason = sent.finish /\ Tracks(sc, sent)
        /\ (sent.finish = "tool_calls" => \E c \in Calls : sent.name[c] # None)
    BY DEF IInv, Remembers
  <2>3. ToolBlocks # {} <=> ToolsSeen(sc) # {}
    BY <2>1 DEF ToolBlocks, ToolsOf
  <2>4. sent.finish \in {"stop", "tool_calls", "length", NoFinish}
    BY <2>2 DEF IInv, Converters, FinishReasons
  <2>5. "stop" # NoFinish /\ "tool_calls" # NoFinish /\ "length" # NoFinish
    BY Zenon DEF NoFinish
  <2>6. CASE sent.finish = "stop"
    BY <2>1, <2>2, <2>3, <2>5, <2>6 DEF StopReason
  <2>7. CASE sent.finish = "tool_calls"
    <3>1. PICK c \in Calls : sent.name[c] # None
      BY <2>2, <2>7
    <3>2. sc.toolCallByIndex[c] # None
      BY <2>2, <3>1 DEF Tracks
    <3>3. ToolsSeen(sc) # {}
      BY <3>2 DEF ToolsSeen
    <3>4. StopReason(sc) = "tool_use"
      BY <2>2, <2>5, <2>7 DEF StopReason
    <3> QED BY <2>1, <2>3, <2>7, <3>3, <3>4
  <2>8. CASE sent.finish = "length"
    <3>1. StopReason(sc) = "max_tokens"
      BY <2>2, <2>5, <2>8 DEF StopReason
    <3> QED BY <2>1, <2>8, <3>1
  <2>9. CASE sent.finish = NoFinish
    <3>1. StopReason(sc) = "end_turn"
      BY <2>2, <2>5, <2>9 DEF StopReason
    <3> QED BY <2>1, <2>5, <2>9, <3>1
  <2> QED BY <2>4, <2>6, <2>7, <2>8, <2>9
<1> QED BY <1>1, Invariance, PTL

-----------------------------------------------------------------------------
(* What the client holds.  The blocks of a client are concatenated with    *)
(* FlattenSeq, which is followed one element at a time.                    *)

(* Induction over the natural numbers, for a set: < is well-founded.        *)
Less == {p \in Nat \X Nat : p[1] < p[2]}

LEMMA LeastNumber ==
  ASSUME NEW T \in SUBSET Nat, T # {}
  PROVE  \E n \in T : \A m \in T : n <= m
<1>1. IsWellFoundedOn(Less, Nat)
  BY NatLessThanWellFounded DEF OpToRel, Less
<1>2. \E x \in T : \A y \in T : ~ (<<y, x>> \in Less)
  BY <1>1, WFMin
<1>3. PICK x \in T : \A y \in T : ~ (<<y, x>> \in Less)
  BY <1>2
<1>4. ASSUME NEW y \in T PROVE x <= y
  <2>1. <<y, x>> \in Nat \X Nat /\ <<y, x>>[1] = y /\ <<y, x>>[2] = x
    OBVIOUS
  <2>2. ~ (y < x)
    BY <1>3, <2>1 DEF Less
  <2> QED BY <2>2
<1> QED BY <1>4

LEMMA Induction ==
  ASSUME NEW T, 0 \in T, \A n \in Nat : n \in T => n + 1 \in T
  PROVE  Nat \subseteq T
<1>1. SUFFICES ASSUME Nat \ T # {} PROVE FALSE
  OBVIOUS
<1>2. PICK n \in Nat \ T : \A m \in Nat \ T : n <= m
  BY <1>1, LeastNumber
<1>3. n # 0 /\ n - 1 \in Nat
  BY <1>2
<1>4. n - 1 \in T
  BY <1>2, <1>3
<1> QED BY <1>2, <1>3, <1>4

(* FlattenSeq, one element at a time.                                      *)
FlatSteps(s, k, f) == f = [i \in 1 .. k |-> IF i = 1 THEN s[i] ELSE f[i - 1] \o s[i]]

LEMMA FlatUnfolded ==
  ASSUME NEW s, Len(s) # 0
  PROVE  FlattenSeq(s) = (CHOOSE f : FlatSteps(s, Len(s), f))[Len(s)]
BY DEF FlattenSeq, FlatSteps

LEMMA FlatExists ==
  ASSUME NEW s, NEW k \in Nat
  PROVE  \E f : FlatSteps(s, k, f)
<1>1. PICK T : T = {n \in Nat : \E f : FlatSteps(s, n, f)}
  OBVIOUS
<1>2. 0 \in T
  <2>1. PICK f : f = [i \in 1 .. 0 |-> 0]
    OBVIOUS
  <2>2. FlatSteps(s, 0, f)
    BY <2>1 DEF FlatSteps
  <2> QED BY <1>1, <2>2
<1>3. ASSUME NEW n \in Nat, n \in T
      PROVE  n + 1 \in T
  <2>1. PICK f : FlatSteps(s, n, f)
    BY <1>1, <1>3
  <2>2. PICK g : g = [i \in 1 .. n + 1 |-> IF i \in 1 .. n THEN f[i]
                                           ELSE IF i = 1 THEN s[i] ELSE f[i - 1] \o s[i]]
    OBVIOUS
  <2>3. ASSUME NEW i \in 1 .. n + 1
        PROVE  g[i] = IF i = 1 THEN s[i] ELSE g[i - 1] \o s[i]
    <3>1. i # 1 => i - 1 \in 1 .. n /\ g[i - 1] = f[i - 1]
      BY <2>2
    <3>2. CASE i \in 1 .. n
      BY <2>1, <2>2, <3>1, <3>2 DEF FlatSteps
    <3>3. CASE i \notin 1 .. n
      BY <2>2, <3>1, <3>3
    <3> QED BY <3>2, <3>3
  <2>4. DOMAIN g = 1 .. n + 1
    BY <2>2
  <2>5. FlatSteps(s, n + 1, g)
    <3>1. g = [i \in 1 .. n + 1 |-> g[i]]
      BY <2>2
    <3>2. [i \in 1 .. n + 1 |-> g[i]] = [i \in 1 .. n + 1 |-> IF i = 1 THEN s[i] ELSE g[i - 1] \o s[i]]
      BY <2>3, Zenon
    <3> QED BY <3>1, <3>2, Zenon DEF FlatSteps
  <2> QED BY <1>1, <2>5
<1>4. Nat \subseteq T
  BY <1>2, <1>3, Induction
<1> QED BY <1>1, <1>4

LEMMA FlatStep ==
  ASSUME NEW s, NEW k \in Nat, NEW f, FlatSteps(s, k, f), NEW i \in 1 .. k
  PROVE  (i = 1 => f[i] = s[i]) /\ (i # 1 => f[i] = f[i - 1] \o s[i])
BY DEF FlatSteps

LEMMA FlattenEmpty == FlattenSeq(<<>>) = <<>>
BY DEF FlattenSeq

LEMMA FlattenSnoc ==
  ASSUME NEW X, NEW s \in Seq(Seq(X)), NEW x \in Seq(X)
  PROVE  FlattenSeq(s) \in Seq(X) /\ FlattenSeq(Append(s, x)) = FlattenSeq(s) \o x
<1>1. PICK n \in Nat : n = Len(s)
  OBVIOUS
<1>2. PICK t : t = Append(s, x)
  OBVIOUS
<1>3. t \in Seq(Seq(X)) /\ Len(t) = n + 1 /\ t[n + 1] = x /\ \A i \in 1 .. n : t[i] = s[i] /\ s[i] \in Seq(X)
  BY <1>1, <1>2
<1>4. PICK f : f = CHOOSE h : FlatSteps(s, n, h)
  OBVIOUS
<1>0. PICK m \in Nat : m = n + 1
  OBVIOUS
<1>5. PICK g : g = CHOOSE h : FlatSteps(t, m, h)
  OBVIOUS
<1>6. FlatSteps(s, n, f)
  BY <1>4, FlatExists
<1>7. FlatSteps(t, m, g)
  BY <1>5, FlatExists
<1>8. PICK T : T = {k \in Nat : k \in 1 .. n => f[k] \in Seq(X) /\ g[k] = f[k]}
  OBVIOUS
<1>9. 0 \in T
  BY <1>8
<1>10. ASSUME NEW k \in Nat, k \in T
       PROVE  k + 1 \in T
  <2>1. SUFFICES ASSUME k + 1 \in 1 .. n
                 PROVE  f[k + 1] \in Seq(X) /\ g[k + 1] = f[k + 1]
    BY <1>8
  <2>3. PICK j \in Nat : j = k + 1
    OBVIOUS
  <2>7. j \in 1 .. n /\ j \in 1 .. m /\ j - 1 = k
    BY <1>0, <2>1, <2>3
  <2>2. (j = 1 => f[j] = s[j]) /\ (j # 1 => f[j] = f[j - 1] \o s[j])
    BY <1>6, <2>7, FlatStep, ZenonT(30)
  <2>6. (j = 1 => g[j] = t[j]) /\ (j # 1 => g[j] = g[j - 1] \o t[j])
    BY <1>7, <2>7, FlatStep, ZenonT(30)
  <2>4. CASE k = 0
    BY <1>3, <2>1, <2>2, <2>3, <2>4, <2>6
  <2>5. CASE k # 0
    <3>1. f[k] \in Seq(X) /\ g[k] = f[k]
      BY <1>8, <1>10, <2>1, <2>5
    <3>2. f[j] = f[j - 1] \o s[j] /\ g[j] = g[j - 1] \o t[j]
      <4>1. j # 1
        BY <2>3, <2>5
      <4> QED BY <2>2, <2>6, <4>1
    <3>3. t[j] = s[j] /\ s[j] \in Seq(X)
      BY <1>3, <2>7
    <3>4. f[j] \in Seq(X) /\ g[j] = f[j]
      <4>1. f[j - 1] \in Seq(X) /\ g[j - 1] = f[j - 1]
        BY <2>7, <3>1
      <4>2. f[j - 1] \o s[j] \in Seq(X)
        BY <3>3, <4>1
      <4>3. g[j - 1] \o t[j] = f[j - 1] \o s[j]
        BY <3>3, <4>1
      <4> QED BY <3>2, <4>2, <4>3
    <3> QED BY <2>3, <3>4
  <2> QED BY <2>4, <2>5
<1>11. Nat \subseteq T
  BY <1>9, <1>10, Induction
<1>12. FlattenSeq(t) = g[n + 1]
  <2>1. Len(t) = m /\ m # 0
    BY <1>0, <1>3
  <2> QED BY <1>0, <1>5, <2>1, FlatUnfolded
<1>13. (n = 0 => g[n + 1] = x) /\ (n # 0 => g[n + 1] = g[n] \o x)
  <2>1. m \in 1 .. m /\ m - 1 = n
    BY <1>0
  <2>2. (m = 1 => g[m] = t[m]) /\ (m # 1 => g[m] = g[m - 1] \o t[m])
    BY <1>7, <2>1, FlatStep
  <2> QED BY <1>0, <1>3, <2>1, <2>2
<1>14. CASE n = 0
  <2>1. s = <<>> /\ FlattenSeq(s) = <<>>
    BY <1>1, <1>14, FlattenEmpty, EmptySeq
  <2>2. <<>> \o x = x /\ <<>> \in Seq(X)
    OBVIOUS
  <2> QED BY <1>2, <1>12, <1>13, <1>14, <2>1, <2>2
<1>15. CASE n # 0
  <2>1. FlattenSeq(s) = f[n]
    BY <1>1, <1>4, <1>15, FlatUnfolded
  <2>2. n \in 1 .. n
    BY <1>15
  <2>3. f[n] \in Seq(X) /\ g[n] = f[n]
    BY <1>8, <1>11, <2>2
  <2> QED BY <1>2, <1>12, <1>13, <1>15, <2>1, <2>3
<1> QED BY <1>14, <1>15

Pieces == Fragments \cup {None}
Marks(q, S) == [i \in DOMAIN q |-> IF q[i] \in S THEN <<q[i]>> ELSE <<>>]
Picks(bs, S) == [i \in DOMAIN bs |-> Picked(bs[i].content, S)]
More(q, f, S) == IF f \in S THEN Append(q, f) ELSE q

LEMMA PickedNothing ==
  ASSUME NEW S
  PROVE  Picked(<<>>, S) = <<>>
<1>1. Marks(<<>>, S) = <<>>
  BY DEF Marks
<1> QED BY <1>1, FlattenEmpty DEF Picked, Marks

LEMMA PickedMore ==
  ASSUME NEW q \in Seq(Pieces), NEW f \in Pieces, NEW S
  PROVE  /\ Picked(q, S) \in Seq(Pieces)
         /\ Picked(Append(q, f), S) = More(Picked(q, S), f, S)
<1>1. PICK m : m = Marks(q, S)
  OBVIOUS
<1>2. PICK x \in Seq(Pieces) : x = IF f \in S THEN <<f>> ELSE <<>>
  <2>1. <<f>> \in Seq(Pieces) /\ <<>> \in Seq(Pieces)
    OBVIOUS
  <2> QED BY <2>1
<1>3. m \in Seq(Seq(Pieces))
  <2>1. \A i \in 1 .. Len(q) : (IF q[i] \in S THEN <<q[i]>> ELSE <<>>) \in Seq(Pieces)
    OBVIOUS
  <2>2. m = [i \in 1 .. Len(q) |-> IF q[i] \in S THEN <<q[i]>> ELSE <<>>]
    BY <1>1 DEF Marks
  <2>3. m \in [1 .. Len(q) -> Seq(Pieces)] /\ Len(q) \in Nat
    BY <2>1, <2>2
  <2> QED BY <2>3
<1>4. Marks(Append(q, f), S) = Append(m, x)
  <2>1. PICK p : p = Append(q, f)
    OBVIOUS
  <2>2. p \in Seq(Pieces) /\ Len(p) = Len(q) + 1 /\ p[Len(q) + 1] = f
        /\ \A i \in 1 .. Len(q) : p[i] = q[i]
    BY <2>1
  <2>3. PICK w : w = Marks(p, S)
    OBVIOUS
  <2>4. DOMAIN p = 1 .. Len(q) + 1 /\ DOMAIN q = 1 .. Len(q)
    BY <2>2
  <2>5. w = [i \in 1 .. Len(q) + 1 |-> IF p[i] \in S THEN <<p[i]>> ELSE <<>>]
    BY <2>3, <2>4 DEF Marks
  <2>6. m = [i \in 1 .. Len(q) |-> IF q[i] \in S THEN <<q[i]>> ELSE <<>>]
    BY <1>1, <2>4 DEF Marks
  <2>7. Len(m) = Len(q) /\ Len(q) \in Nat
    BY <2>6
  <2>8. PICK a : a = Append(m, x)
    OBVIOUS
  <2>9. /\ a = [i \in 1 .. Len(q) + 1 |-> a[i]]
        /\ \A i \in 1 .. Len(q) + 1 : a[i] = IF i = Len(q) + 1 THEN x ELSE m[i]
    <3>1. a \in Seq(Seq(Pieces)) /\ Len(a) = Len(m) + 1 /\ a[Len(m) + 1] = x
          /\ \A i \in 1 .. Len(m) : a[i] = m[i]
      BY <1>3, <2>8
    <3>2. a = [i \in 1 .. Len(a) |-> a[i]]
      BY <3>1
    <3>3. ASSUME NEW i \in 1 .. Len(q) + 1
          PROVE  a[i] = IF i = Len(q) + 1 THEN x ELSE m[i]
      BY <2>7, <3>1
    <3> QED BY <2>7, <3>1, <3>2, <3>3
  <2>10. ASSUME NEW i \in 1 .. Len(q) + 1
         PROVE  w[i] = a[i]
    <3>1. w[i] = (IF p[i] \in S THEN <<p[i]>> ELSE <<>>) /\ a[i] = IF i = Len(q) + 1 THEN x ELSE m[i]
      BY <2>5, <2>9
    <3>2. CASE i = Len(q) + 1
      BY <1>2, <2>2, <3>1, <3>2
    <3>3. CASE i # Len(q) + 1
      <4>1. i \in 1 .. Len(q)
        BY <2>7, <3>3
      <4>2. p[i] = q[i] /\ m[i] = IF q[i] \in S THEN <<q[i]>> ELSE <<>>
        BY <2>2, <2>6, <4>1
      <4> QED BY <3>1, <3>3, <4>2
    <3> QED BY <3>2, <3>3
  <2>11. w = [i \in 1 .. Len(q) + 1 |-> w[i]]
    BY <2>5
  <2>12. w = a
    BY <2>9, <2>10, <2>11, Zenon
  <2> QED BY <2>1, <2>3, <2>8, <2>12
<1>5. FlattenSeq(m) \in Seq(Pieces) /\ FlattenSeq(Append(m, x)) = FlattenSeq(m) \o x
  BY <1>3, FlattenSnoc
<1>6. FlattenSeq(m) = Picked(q, S) /\ FlattenSeq(Append(m, x)) = Picked(Append(q, f), S)
  BY <1>1, <1>4 DEF Picked, Marks
<1>7. PICK y \in Seq(Pieces) : y = Picked(q, S)
  BY <1>5, <1>6
<1>8. y \o x = More(y, f, S)
  <2>1. y \o <<f>> = Append(y, f) /\ y \o <<>> = y
    OBVIOUS
  <2> QED BY <1>2, <2>1 DEF More
<1> QED BY <1>5, <1>6, <1>7, <1>8

LEMMA PicksTyped ==
  ASSUME NEW bs \in Seq(Blocks), NEW S
  PROVE  Picks(bs, S) \in Seq(Seq(Pieces)) /\ Len(Picks(bs, S)) = Len(bs)
         /\ \A i \in DOMAIN bs : Picks(bs, S)[i] = Picked(bs[i].content, S)
<1>1. PICK w : w = Picks(bs, S)
  OBVIOUS
<1>2. Len(bs) \in Nat /\ DOMAIN bs = 1 .. Len(bs)
  OBVIOUS
<1>3. w = [i \in 1 .. Len(bs) |-> Picked(bs[i].content, S)]
  BY <1>1, <1>2 DEF Picks
<1>4. ASSUME NEW i \in 1 .. Len(bs)
      PROVE  Picked(bs[i].content, S) \in Seq(Pieces)
  <2>0. bs[i] \in Blocks
    OBVIOUS
  <2>1. PICK q \in Seq(Pieces) : q = bs[i].content
    BY <2>0 DEF Blocks, Pieces
  <2>2. PICK f \in Pieces : f = None
    BY DEF Pieces
  <2>3. Picked(q, S) \in Seq(Pieces)
    BY <2>2, PickedMore
  <2> QED BY <2>1, <2>3
<1>5. w \in [1 .. Len(bs) -> Seq(Pieces)]
  BY <1>3, <1>4
<1> QED BY <1>1, <1>2, <1>3, <1>5

(* All the blocks but the last, and the last.                              *)
LEMMA PickedApart ==
  ASSUME NEW bs \in Seq(Blocks), NEW S, NEW n \in Nat, Len(bs) = n + 1,
         NEW fs, fs = [i \in 1 .. n |-> Picked(bs[i].content, S)]
  PROVE  /\ FlattenSeq(fs) \in Seq(Pieces) /\ Picked(bs[n + 1].content, S) \in Seq(Pieces)
         /\ PickedFrom(bs, S) = FlattenSeq(fs) \o Picked(bs[n + 1].content, S)
<1>1. PICK w : w = Picks(bs, S)
  OBVIOUS
<1>2. w \in Seq(Seq(Pieces)) /\ Len(w) = n + 1
      /\ \A i \in 1 .. n + 1 : w[i] = Picked(bs[i].content, S)
  BY <1>1, PicksTyped
<1>3. PICK x \in Seq(Pieces) : x = Picked(bs[n + 1].content, S)
  BY <1>2
<1>4. fs \in Seq(Seq(Pieces)) /\ Len(fs) = n
  <2>1. \A i \in 1 .. n : Picked(bs[i].content, S) \in Seq(Pieces)
    <3> SUFFICES ASSUME NEW i \in 1 .. n PROVE Picked(bs[i].content, S) \in Seq(Pieces)
      OBVIOUS
    <3>1. i \in 1 .. n + 1 /\ w[i] = Picked(bs[i].content, S)
      BY <1>2
    <3> QED BY <1>2, <3>1
  <2>2. fs \in [1 .. n -> Seq(Pieces)]
    BY <2>1
  <2> QED BY <2>2
<1>5. Append(fs, x) = w
  <2>1. PICK a : a = Append(fs, x)
    OBVIOUS
  <2>2. a \in Seq(Seq(Pieces)) /\ Len(a) = n + 1 /\ a[n + 1] = x /\ \A i \in 1 .. n : a[i] = fs[i]
    BY <1>4, <2>1
  <2>3. ASSUME NEW i \in 1 .. n + 1
        PROVE  a[i] = w[i]
    <3>1. CASE i = n + 1
      BY <1>2, <1>3, <2>2, <3>1
    <3>2. CASE i # n + 1
      <4>1. i \in 1 .. n
        BY <3>2
      <4> QED BY <1>2, <2>2, <4>1
    <3> QED BY <3>1, <3>2
  <2>4. a = [i \in 1 .. n + 1 |-> a[i]] /\ w = [i \in 1 .. n + 1 |-> w[i]]
    BY <1>2, <2>2
  <2>5. a = w
    BY <2>3, <2>4, Zenon
  <2> QED BY <2>1, <2>5
<1>6. FlattenSeq(fs) \in Seq(Pieces) /\ FlattenSeq(Append(fs, x)) = FlattenSeq(fs) \o x
  BY <1>4, FlattenSnoc
<1>7. PickedFrom(bs, S) = FlattenSeq(w)
  BY <1>1 DEF PickedFrom, Picks
<1> QED BY <1>3, <1>5, <1>6, <1>7

(* Blocks of which the same is picked.                                     *)
LEMMA PickedAlike ==
  ASSUME NEW bs \in Seq(Blocks), NEW gs \in Seq(Blocks), NEW S, Len(gs) = Len(bs),
         \A i \in DOMAIN bs : Picked(gs[i].content, S) = Picked(bs[i].content, S)
  PROVE  PickedFrom(gs, S) = PickedFrom(bs, S)
<1>1. DOMAIN bs = DOMAIN gs
  OBVIOUS
<1>2. [i \in DOMAIN gs |-> Picked(gs[i].content, S)] = [i \in DOMAIN bs |-> Picked(bs[i].content, S)]
  BY <1>1, Zenon
<1> QED BY <1>2 DEF PickedFrom

(* A new block, and a fragment more in the last one.                       *)
LEMMA PickedOpened ==
  ASSUME NEW bs \in Seq(Blocks), NEW gs \in Seq(Blocks), NEW S, Len(gs) = Len(bs) + 1,
         \A i \in DOMAIN bs : gs[i].content = bs[i].content, gs[Len(gs)].content = <<>>
  PROVE  PickedFrom(gs, S) = PickedFrom(bs, S)
<1>1. PICK n \in Nat : n = Len(bs)
  OBVIOUS
<1>2. PICK fs : fs = [i \in 1 .. n |-> Picked(gs[i].content, S)]
  OBVIOUS
<1>3. /\ FlattenSeq(fs) \in Seq(Pieces)
      /\ PickedFrom(gs, S) = FlattenSeq(fs) \o Picked(gs[n + 1].content, S)
  BY <1>1, <1>2, PickedApart
<1>4. Picked(gs[n + 1].content, S) = <<>>
  BY <1>1, PickedNothing
<1>5. PickedFrom(bs, S) = FlattenSeq(fs)
  <2>1. DOMAIN bs = 1 .. n /\ \A i \in 1 .. n : gs[i].content = bs[i].content
    BY <1>1
  <2>2. fs = [i \in DOMAIN bs |-> Picked(bs[i].content, S)]
    BY <1>2, <2>1, Zenon
  <2> QED BY <2>2 DEF PickedFrom
<1> QED BY <1>3, <1>4, <1>5

LEMMA PickedSaid ==
  ASSUME NEW bs \in Seq(Blocks), NEW gs \in Seq(Blocks), NEW S, Len(gs) = Len(bs), NEW f \in Pieces,
         Len(bs) > 0, \A i \in DOMAIN bs : i # Len(bs) => gs[i].content = bs[i].content,
         gs[Len(bs)].content = Append(bs[Len(bs)].content, f)
  PROVE  PickedFrom(gs, S) = More(PickedFrom(bs, S), f, S)
<1>1. PICK n \in Nat : n + 1 = Len(bs)
  <2>1. Len(bs) \in Nat /\ Len(bs) - 1 \in Nat /\ (Len(bs) - 1) + 1 = Len(bs)
    OBVIOUS
  <2> QED BY <2>1
<1>2. PICK fs : fs = [i \in 1 .. n |-> Picked(bs[i].content, S)]
  OBVIOUS
<1>3. /\ FlattenSeq(fs) \in Seq(Pieces) /\ Picked(bs[n + 1].content, S) \in Seq(Pieces)
      /\ PickedFrom(bs, S) = FlattenSeq(fs) \o Picked(bs[n + 1].content, S)
  BY <1>1, <1>2, PickedApart
<1>4. fs = [i \in 1 .. n |-> Picked(gs[i].content, S)]
  <2>1. \A i \in 1 .. n : gs[i].content = bs[i].content
    BY <1>1
  <2> QED BY <1>2, <2>1, Zenon
<1>5. PickedFrom(gs, S) = FlattenSeq(fs) \o Picked(gs[n + 1].content, S)
  BY <1>1, <1>4, PickedApart
<1>6. PICK q \in Seq(Pieces) : q = bs[n + 1].content
  <2>1. bs[n + 1] \in Blocks
    BY <1>1
  <2> QED BY <2>1 DEF Blocks, Pieces
<1>7. Picked(gs[n + 1].content, S) = More(Picked(q, S), f, S)
  <2>1. gs[n + 1].content = Append(q, f)
    BY <1>1, <1>6
  <2>2. Picked(Append(q, f), S) = More(Picked(q, S), f, S)
    BY PickedMore
  <2> QED BY <2>1, <2>2
<1>8. PICK x \in Seq(Pieces), y \in Seq(Pieces) : x = FlattenSeq(fs) /\ y = Picked(q, S)
  BY <1>3, <1>6
<1>9. x \o More(y, f, S) = More(x \o y, f, S)
  <2>1. x \o Append(y, f) = Append(x \o y, f)
    OBVIOUS
  <2> QED BY <2>1 DEF More
<1> QED BY <1>3, <1>5, <1>6, <1>7, <1>8, <1>9

(* The same messages, with the same blocks and perhaps new, empty ones; and*)
(* with a fragment more in the last block.                                 *)
Keeps(bs, gs) ==
    /\ Len(bs) <= Len(gs)
    /\ \A i \in DOMAIN bs :
          /\ gs[i].type = bs[i].type /\ gs[i].tool = bs[i].tool
          /\ gs[i].content = bs[i].content
    /\ \A S : PickedFrom(gs, S) = PickedFrom(bs, S)

Says(bs, gs, f) ==
    /\ Len(gs) = Len(bs) /\ Len(bs) > 0
    /\ \A i \in DOMAIN bs :
          /\ gs[i].type = bs[i].type /\ gs[i].tool = bs[i].tool
          /\ i # Len(bs) => gs[i].content = bs[i].content
    /\ gs[Len(bs)].content = Append(bs[Len(bs)].content, f)
    /\ \A S : PickedFrom(gs, S) = More(PickedFrom(bs, S), f, S)

LEMMA KeepsTwice ==
  ASSUME NEW bs \in Seq(Blocks), NEW gs \in Seq(Blocks), NEW hs \in Seq(Blocks),
         Keeps(bs, gs), Keeps(gs, hs)
  PROVE  Keeps(bs, hs)
<1>1. Len(bs) \in Nat /\ Len(gs) \in Nat /\ Len(hs) \in Nat /\ DOMAIN bs \subseteq DOMAIN gs
  BY DEF Keeps
<1> QED BY <1>1 DEF Keeps

(* A delta of its kind is added to the last block; another one of the same *)
(* index at most puts its own fragment somewhere.                          *)
LEMMA GrowSays ==
  ASSUME NEW bs \in Seq(Blocks), NEW i \in Nat, i + 1 = Len(bs), NEW k \in ContentDeltas,
         NEW f \in Fragments, k = Sse!DeltaOf[bs[i + 1].type],
         NEW gs, gs = Sse!Grow(bs, Sse!BlockDelta(i, k, f))
  PROVE  Says(bs, gs, f)
<1>1. PICK e : e = Sse!BlockDelta(i, k, f)
  OBVIOUS
<1>2. e.index = i /\ e.delta = k /\ e.fragment = f
  BY <1>1 DEF Sse!BlockDelta
<1>3. i + 1 \in DOMAIN bs /\ bs[i + 1] \in Blocks /\ k # "signature_delta" /\ k \in Deltas
  BY DEF ContentDeltas, Deltas
<1>4. PICK b : b = [bs[i + 1] EXCEPT !.content = Append(bs[i + 1].content, f)]
  OBVIOUS
<1>5. /\ b.type = bs[i + 1].type /\ b.tool = bs[i + 1].tool
      /\ b.content = Append(bs[i + 1].content, f)
  BY <1>3, <1>4 DEF Blocks
<1>6. gs = [bs EXCEPT ![i + 1] = b]
  BY <1>1, <1>2, <1>3, <1>4 DEF Sse!Grow
<1>7. gs \in Seq(Blocks) /\ Len(gs) = Len(bs)
  BY <1>3, GrowKeeps
<1>8. \A j \in DOMAIN bs : gs[j] = IF j = i + 1 THEN b ELSE bs[j]
  BY <1>6
<1>9. /\ \A j \in DOMAIN bs : j # Len(bs) => gs[j].content = bs[j].content
      /\ gs[Len(bs)].content = Append(bs[Len(bs)].content, f)
      /\ \A j \in DOMAIN bs : gs[j].type = bs[j].type /\ gs[j].tool = bs[j].tool
  BY <1>3, <1>5, <1>8
<1>10. f \in Pieces /\ Len(bs) > 0
  BY DEF Pieces
<1>11. ASSUME NEW S PROVE PickedFrom(gs, S) = More(PickedFrom(bs, S), f, S)
  BY <1>7, <1>9, <1>10, PickedSaid, ZenonT(40)
<1> QED BY <1>7, <1>9, <1>10, <1>11 DEF Says

LEMMA GrowElsewhere ==
  ASSUME NEW bs \in Seq(Blocks), NEW i \in Nat, NEW k \in ContentDeltas,
         NEW f \in Fragments, NEW S, f \notin S,
         NEW gs, gs = Sse!Grow(bs, Sse!BlockDelta(i, k, f))
  PROVE  PickedFrom(gs, S) = PickedFrom(bs, S)
<1>1. PICK e : e = Sse!BlockDelta(i, k, f)
  OBVIOUS
<1>2. e.index = i /\ e.delta = k /\ e.fragment = f
  BY <1>1 DEF Sse!BlockDelta
<1>3. k # "signature_delta" /\ k \in Deltas
  BY DEF ContentDeltas, Deltas
<1>4. gs \in Seq(Blocks) /\ Len(gs) = Len(bs)
  BY <1>3, GrowKeeps
<1>5. CASE gs = bs
  BY <1>5
<1>6. CASE i + 1 \in DOMAIN bs /\ gs # bs
  <2>1. PICK q \in Seq(Pieces) : q = bs[i + 1].content
    <3>1. bs[i + 1] \in Blocks
      BY <1>6
    <3> QED BY <3>1 DEF Blocks, Pieces
  <2>2. PICK b : b = [bs[i + 1] EXCEPT !.content = Append(q, f)]
    OBVIOUS
  <2>3. gs = [bs EXCEPT ![i + 1] = b]
    BY <1>1, <1>2, <1>3, <1>6, <2>1, <2>2 DEF Sse!Grow
  <2>4. b.content = Append(q, f)
    <3>1. bs[i + 1] \in Blocks
      BY <1>6
    <3> QED BY <2>2, <3>1 DEF Blocks
  <2>5. Picked(Append(q, f), S) = Picked(q, S)
    <3>1. f \in Pieces
      BY DEF Pieces
    <3> QED BY <3>1, PickedMore DEF More
  <2>6. ASSUME NEW j \in DOMAIN bs
        PROVE  Picked(gs[j].content, S) = Picked(bs[j].content, S)
    <3>1. CASE j = i + 1
      <4>1. gs[j].content = Append(q, f) /\ bs[j].content = q
        BY <2>1, <2>3, <2>4, <3>1
      <4> QED BY <2>5, <4>1
    <3>2. CASE j # i + 1
      BY <2>3, <3>2
    <3> QED BY <3>1, <3>2
  <2> QED BY <1>4, <2>6, PickedAlike
<1> QED BY <1>1, <1>2, <1>5, <1>6 DEF Sse!Grow

LEMMA SignKeeps ==
  ASSUME NEW bs \in Seq(Blocks), NEW i \in Nat,
         NEW gs, gs = Sse!Grow(bs, Sse!BlockDelta(i, "signature_delta", None))
  PROVE  Keeps(bs, gs)
<1>1. PICK e : e = Sse!BlockDelta(i, "signature_delta", None)
  OBVIOUS
<1>2. e.index = i /\ e.delta = "signature_delta"
  BY <1>1 DEF Sse!BlockDelta
<1>3. "signature_delta" \in Deltas /\ None \in Fragments \cup {None}
  BY DEF Deltas
<1>4. gs \in Seq(Blocks) /\ Len(gs) = Len(bs)
      /\ \A j \in DOMAIN bs : gs[j].type = bs[j].type /\ gs[j].tool = bs[j].tool
  BY <1>3, GrowKeeps
<1>5. \A j \in DOMAIN bs : gs[j].content = bs[j].content
  <2>1. CASE gs = bs
    BY <2>1
  <2>2. CASE i + 1 \in DOMAIN bs
    <3>1. PICK b : b = [bs[i + 1] EXCEPT !.signed = TRUE]
      OBVIOUS
    <3>2. b.content = bs[i + 1].content
      <4>1. bs[i + 1] \in Blocks
        BY <2>2
      <4> QED BY <3>1, <4>1 DEF Blocks
    <3>3. gs = [bs EXCEPT ![i + 1] = b]
      BY <1>1, <1>2, <2>2, <3>1 DEF Sse!Grow
    <3> QED BY <3>2, <3>3
  <2> QED BY <1>1, <1>2, <2>1, <2>2 DEF Sse!Grow
<1>6. ASSUME NEW S PROVE PickedFrom(gs, S) = PickedFrom(bs, S)
  <2>1. \A j \in DOMAIN bs : Picked(gs[j].content, S) = Picked(bs[j].content, S)
    BY <1>5
  <2> QED BY <1>4, <2>1, PickedAlike
<1>7. Len(bs) <= Len(gs)
  BY <1>4
<1> QED BY <1>4, <1>5, <1>6, <1>7 DEF Keeps

LEMMA OpenKeeps ==
  ASSUME NEW bs \in Seq(Blocks), NEW b \in Blocks, b.content = <<>>, NEW gs, gs = Append(bs, b)
  PROVE  Keeps(bs, gs)
<1>1. gs \in Seq(Blocks) /\ Len(gs) = Len(bs) + 1 /\ gs[Len(gs)] = b
      /\ \A i \in DOMAIN bs : gs[i] = bs[i]
  OBVIOUS
<1>2. ASSUME NEW S PROVE PickedFrom(gs, S) = PickedFrom(bs, S)
  <2>1. (\A i \in DOMAIN bs : gs[i].content = bs[i].content) /\ gs[Len(gs)].content = <<>>
    BY <1>1
  <2> QED BY <1>1, <2>1, PickedOpened
<1>3. Len(bs) <= Len(gs)
  BY <1>1
<1> QED BY <1>1, <1>2, <1>3 DEF Keeps

(* The events determine where they take a client.                          *)
LEMMA RunsOnce ==
  ASSUME NEW c, NEW d, NEW e, NEW tidy \in BOOLEAN, NEW less \in BOOLEAN, NEW E, NEW es \in Seq(E),
         Runs(c, es, d, tidy), Runs(c, es, e, less)
  PROVE  d = e
<1>1. PICK n \in Nat : n = Len(es)
  OBVIOUS
<1>2. PICK p : /\ p[1] = c /\ p[n + 1] = d
               /\ \A i \in 1 .. n : p[i + 1] = Sse!Apply(p[i], es[i])
  BY <1>1 DEF Runs
<1>3. PICK q : /\ q[1] = c /\ q[n + 1] = e
               /\ \A i \in 1 .. n : q[i + 1] = Sse!Apply(q[i], es[i])
  BY <1>1 DEF Runs
<1>4. PICK T : T = {k \in Nat : k <= n => p[k + 1] = q[k + 1]}
  OBVIOUS
<1>5. 0 \in T
  BY <1>2, <1>3, <1>4
<1>6. ASSUME NEW k \in Nat, k \in T PROVE k + 1 \in T
  <2>1. SUFFICES ASSUME k + 1 <= n PROVE p[(k + 1) + 1] = q[(k + 1) + 1]
    BY <1>4
  <2>2. PICK j \in 1 .. n : j = k + 1
    BY <2>1
  <2>3. p[j] = q[j]
    BY <1>4, <1>6, <2>2
  <2>4. p[j + 1] = q[j + 1]
    BY <1>2, <1>3, <2>3
  <2> QED BY <2>2, <2>4
<1>7. Nat \subseteq T
  BY <1>5, <1>6, Induction
<1>8. n \in T
  BY <1>7
<1>9. p[n + 1] = q[n + 1]
  BY <1>4, <1>8
<1> QED BY <1>2, <1>3, <1>9

-----------------------------------------------------------------------------
(* What the helpers of the handlers do to the blocks of the client the     *)
(* pending events of s lead to.                                            *)
At(c, s, d) == Runs(c, s.events, d, FALSE) /\ Agree(s, d)

LEMMA AtGood ==
  ASSUME NEW c, NEW s, NEW d, At(c, s, d)
  PROVE  Good(c, s, FALSE, ToolsOf(d)) /\ d \in Clients /\ d.blocks \in Seq(Blocks)
         /\ d.phase = "streaming" /\ s.curBlockIndex \in Nat
<1>1. s.curBlockIndex \in 0 .. MaxBlocks - 1 /\ d \in Clients
  BY DEF At, Agree
<1>2. d.blocks \in Seq(Blocks) /\ s.curBlockIndex \in Nat
  BY <1>1, BlockBound DEF Clients
<1> QED BY <1>1, <1>2 DEF At, Good, Agree

(* One event more.                                                         *)
LEMMA EventAt ==
  ASSUME NEW c, NEW s \in Converters, NEW d, At(c, s, d), NEW e,
         NEW r, r.events = Append(s.events, e), NEW ids, Good(c, r, FALSE, ids)
  PROVE  At(c, r, Sse!Apply(d, e))
<1>1. PICK x : Runs(c, r.events, x, FALSE) /\ Agree(r, x)
  BY DEF Good
<1>2. PICK tidy \in BOOLEAN : tidy = FALSE
  OBVIOUS
<1>3. s.events \in Seq(Sse!Events) /\ d.phase \notin {"stopped", "failed"}
  BY DEF Converters, At, Agree
<1>4. PICK y : y = Sse!Apply(d, e)
  OBVIOUS
<1>5. Runs(c, Append(s.events, e), y, tidy)
  BY <1>2, <1>3, <1>4, RunsOn DEF At
<1>6. y = x
  <2>2. Runs(c, r.events, y, tidy) /\ Runs(c, r.events, x, tidy)
    BY <1>1, <1>2, <1>5
  <2>3. PICK es : es = r.events
    OBVIOUS
  <2>4. PICK E : E = Sse!Events \cup {e}
    OBVIOUS
  <2>5. es \in Seq(E)
    <3>1. s.events \in Seq(E) /\ e \in E
      <4>1. Sse!Events \subseteq E
        BY <2>4
      <4> QED BY <1>3, <2>4, <4>1
    <3> QED BY <2>3, <3>1
  <2> QED BY <2>2, <2>3, <2>5, RunsOnce
<1> QED BY <1>1, <1>4, <1>6 DEF At

(* A delta.                                                                *)
LEMMA SaidAt ==
  ASSUME NEW c, NEW s \in Converters, NEW d, At(c, s, d), NEW k \in ContentDeltas,
         NEW f \in Fragments, NEW r, r = Delta(s, k, f)
  PROVE  /\ \E x : /\ At(c, r, x)
                   /\ x.blocks = Sse!Grow(d.blocks, Sse!BlockDelta(s.curBlockIndex, k, f))
         /\ r.thinkingBlockStopped = s.thinkingBlockStopped
<1>1. PICK ids : ids = ToolsOf(d)
  OBVIOUS
<1>2. PICK tidy \in BOOLEAN : tidy = FALSE
  OBVIOUS
<1>3. Good(c, s, tidy, ids)
  BY <1>1, <1>2, AtGood
<1>4. Good(c, r, tidy, ids) /\ r.thinkingBlockStopped = s.thinkingBlockStopped
  BY <1>2, <1>3, Said
<1>5. PICK i \in 0 .. MaxBlocks - 1 : i = s.curBlockIndex
  BY DEF At, Agree
<1>6. PICK e : e = Sse!BlockDelta(i, k, f)
  OBVIOUS
<1>7. k \in Deltas /\ f \in Fragments \cup {None}
  BY DEF Deltas
<1>8. e \in Sse!Events /\ e.type = "content_block_delta"
  BY <1>6, <1>7, DeltaIsEvent DEF Sse!BlockDelta
<1>9. r.events = Append(s.events, e)
  <2>1. r = Emit(s, e)
    BY <1>5, <1>6 DEF Delta
  <2> QED BY <1>8, <2>1, Emitted
<1>10. PICK x : x = Sse!Apply(d, e)
  OBVIOUS
<1>11. At(c, r, x)
  BY <1>2, <1>4, <1>9, <1>10, EventAt
<1>12. x.blocks = Sse!Grow(d.blocks, e)
  <2>1. d \in Clients
    BY AtGood
  <2> QED BY <1>8, <1>10, <2>1 DEF Sse!Apply, Clients
<1> QED BY <1>4, <1>5, <1>6, <1>11, <1>12

(* The open block is the last.                                             *)
LEMMA OpenIsLast ==
  ASSUME NEW c, NEW s, NEW d, At(c, s, d), s.curBlockType # NoBlock
  PROVE  /\ s.curBlockIndex + 1 = Len(d.blocks)
         /\ d.blocks[s.curBlockIndex + 1].type = s.curBlockType
         /\ d.blocks[Len(d.blocks)].type = s.curBlockType
BY DEF At, Agree

LEMMA SaidToLast ==
  ASSUME NEW c, NEW s \in Converters, NEW d, At(c, s, d), NEW k \in ContentDeltas,
         NEW f \in Fragments, NEW r, r = Delta(s, k, f), s.curBlockType # NoBlock,
         k = Sse!DeltaOf[s.curBlockType]
  PROVE  /\ \E x : At(c, r, x) /\ Says(d.blocks, x.blocks, f)
         /\ r.thinkingBlockStopped = s.thinkingBlockStopped
<1>1. PICK x : /\ At(c, r, x)
               /\ x.blocks = Sse!Grow(d.blocks, Sse!BlockDelta(s.curBlockIndex, k, f))
  BY SaidAt
<1>2. PICK i \in Nat : i = s.curBlockIndex
  BY AtGood
<1>3. d.blocks \in Seq(Blocks)
  BY AtGood
<1>4. PICK bs \in Seq(Blocks) : bs = d.blocks
  BY <1>3
<1>5. i + 1 = Len(bs) /\ k = Sse!DeltaOf[bs[i + 1].type]
  BY <1>2, <1>4, OpenIsLast
<1>6. PICK gs : gs = x.blocks
  OBVIOUS
<1>7. gs = Sse!Grow(bs, Sse!BlockDelta(i, k, f))
  BY <1>1, <1>2, <1>4, <1>6
<1>8. Says(bs, gs, f)
  BY <1>5, <1>7, GrowSays
<1>9. r.thinkingBlockStopped = s.thinkingBlockStopped
  BY SaidAt
<1> QED BY <1>1, <1>4, <1>6, <1>8, <1>9

LEMMA KeepsItself ==
  ASSUME NEW bs \in Seq(Blocks)
  PROVE  Keeps(bs, bs)
BY DEF Keeps

LEMMA StoppedAt ==
  ASSUME NEW c, NEW s \in Converters, NEW d, At(c, s, d), NEW r, r = StopBlock(s)
  PROVE  /\ \E x : At(c, r, x) /\ Keeps(d.blocks, x.blocks)
         /\ s.thinkingBlockStopped => r.thinkingBlockStopped
<1>1. PICK ids : ids = ToolsOf(d)
  OBVIOUS
<1>2. PICK tidy \in BOOLEAN : tidy = FALSE
  OBVIOUS
<1>3. Good(c, s, tidy, ids)
  BY <1>1, <1>2, AtGood
<1>4. Good(c, r, tidy, ids)
  BY <1>2, <1>3, Stopped
<1>5. d \in Clients /\ d.blocks \in Seq(Blocks) /\ d.phase = "streaming"
  BY AtGood
<1>6. PICK i \in 0 .. MaxBlocks - 1 : i = s.curBlockIndex
  BY DEF At, Agree
<1>7. i \in Nat
  BY BlockBound
<1>8. CASE s.curBlockType = NoBlock
  <2>1. r = s
    BY <1>8, BlockNames DEF StopBlock
  <2> QED BY <1>5, <2>1, KeepsItself
<1>9. CASE s.curBlockType # NoBlock
  <2>1. PICK stop : stop = Sse!BlockStop(i)
    OBVIOUS
  <2>2. stop \in Sse!Events /\ stop.type = "content_block_stop" /\ stop.index = i
    BY <2>1, StopIsEvent DEF Sse!BlockStop
  <2>3. CASE s.curBlockType # "thinking"
    <3>1. r = [Emit(s, stop) EXCEPT !.curBlockType = NoBlock]
      BY <1>6, <1>9, <2>1, <2>3 DEF StopBlock
    <3>2. PICK m : m = Emit(s, stop)
      OBVIOUS
    <3>3. m \in Converters /\ m.events = Append(s.events, stop)
          /\ m.thinkingBlockStopped = s.thinkingBlockStopped
      BY <2>2, <3>2, Emitted
    <3>4. r.events = Append(s.events, stop) /\ r.thinkingBlockStopped = s.thinkingBlockStopped
      BY <3>1, <3>2, <3>3 DEF Converters
    <3>5. PICK x : x = Sse!Apply(d, stop)
      OBVIOUS
    <3>6. At(c, r, x)
      BY <1>2, <1>4, <3>4, <3>5, EventAt
    <3>7. x.blocks = d.blocks
      BY <1>5, <2>1, <3>5, AfterStop
    <3> QED BY <1>5, <3>4, <3>6, <3>7, KeepsItself
  <2>4. CASE s.curBlockType = "thinking"
    <3>1. PICK sign : sign = Sse!BlockDelta(i, "signature_delta", None)
      OBVIOUS
    <3>2. /\ sign \in Sse!Events /\ sign.type = "content_block_delta" /\ sign.index = i
          /\ sign.delta = "signature_delta"
      BY <3>1, DeltaIsEvent DEF Deltas, Sse!BlockDelta
    <3>3. PICK y : y = Sse!Apply(d, sign)
      OBVIOUS
    <3>4. y \in Clients /\ y.phase = "streaming"
      <4>1. "signature_delta" \in Deltas /\ None \in Fragments \cup {None}
        BY DEF Deltas
      <4> QED BY <1>5, <3>1, <3>3, <4>1, AfterDelta
    <3>5. PICK bs \in Seq(Blocks) : bs = d.blocks
      BY <1>5
    <3>6. y.blocks = Sse!Grow(bs, sign)
      BY <1>5, <3>2, <3>3, <3>5 DEF Sse!Apply, Clients
    <3>7. PICK gs : gs = y.blocks
      OBVIOUS
    <3>8. Keeps(bs, gs)
      BY <1>7, <3>1, <3>6, <3>7, SignKeeps
    <3>9. PICK t : t = Emit(s, sign)
      OBVIOUS
    <3>10. t \in Converters /\ t.events = Append(s.events, sign)
      BY <3>2, <3>9, Emitted
    <3>11. PICK m : m = Emit(t, stop)
      OBVIOUS
    <3>12. m \in Converters /\ m.events = Append(t.events, stop)
      BY <2>2, <3>10, <3>11, Emitted
    <3>13. r = [m EXCEPT !.curBlockType = NoBlock, !.thinkingBlockStopped = TRUE]
      BY <1>6, <1>9, <2>1, <2>4, <3>1, <3>9, <3>11 DEF StopBlock
    <3>14. r.events = Append(t.events, stop) /\ r.thinkingBlockStopped
      BY <3>12, <3>13 DEF Converters
    <3>15. PICK x : x = Sse!Apply(y, stop)
      OBVIOUS
    <3>16. x.blocks = y.blocks
      BY <2>1, <3>4, <3>15, AfterStop
    <3>17. At(c, r, x)
      <4>1. s.events \in Seq(Sse!Events) /\ t.events \in Seq(Sse!Events)
        BY <3>10 DEF Converters
      <4>2. d.phase \notin {"stopped", "failed"} /\ y.phase \notin {"stopped", "failed"}
        BY <1>5, <3>4
      <4>3. Runs(c, s.events, d, tidy)
        BY <1>2 DEF At
      <4>4. Runs(c, t.events, y, tidy)
        BY <1>2, <3>3, <3>10, <4>1, <4>2, <4>3, RunsOn
      <4>5. Runs(c, r.events, x, tidy)
        BY <1>2, <3>14, <3>15, <4>1, <4>2, <4>4, RunsOn
      <4>6. PICK z : Runs(c, r.events, z, tidy) /\ Agree(r, z)
        BY <1>4 DEF Good
      <4>7. PICK es \in Seq(Sse!Events) : es = r.events
        <5>1. Append(t.events, stop) \in Seq(Sse!Events)
          BY <2>2, <4>1
        <5> QED BY <3>14, <5>1
      <4>9. Runs(c, es, x, tidy) /\ Runs(c, es, z, tidy)
        BY <4>5, <4>6, <4>7
      <4>8. x = z
        BY <4>9, RunsOnce
      <4> QED BY <1>2, <4>6, <4>8 DEF At
    <3> QED BY <3>5, <3>7, <3>8, <3>14, <3>16, <3>17
  <2> QED BY <2>3, <2>4
<1> QED BY <1>8, <1>9

(* A new block, the last.                                                  *)
LEMMA OpenedAt ==
  ASSUME NEW c, NEW s \in Converters, NEW d, At(c, s, d), s.curBlockType = NoBlock,
         s.nextBlockIndex < MaxBlocks, NEW t \in Sse!BlockTypes, NEW tool \in Tools \cup {None},
         t = "tool_use" <=> tool # None, NEW r, r = OpenBlock(s, t, tool)
  PROVE  /\ \E x : /\ At(c, r, x) /\ Keeps(d.blocks, x.blocks)
                   /\ Len(x.blocks) = Len(d.blocks) + 1
                   /\ x.blocks[Len(x.blocks)].type = t /\ x.blocks[Len(x.blocks)].tool = tool
                   /\ x.blocks[Len(x.blocks)].content = <<>>
         /\ r.thinkingBlockStopped = s.thinkingBlockStopped
         /\ r \in Converters /\ Framed(s, r) /\ r.curBlockType = t
<1>1. PICK ids : ids = ToolsOf(d)
  OBVIOUS
<1>2. PICK tidy \in BOOLEAN : tidy = FALSE
  OBVIOUS
<1>3. Good(c, s, tidy, ids)
  BY <1>1, <1>2, AtGood
<1>4. PICK more : more = IF tool = None THEN {} ELSE {tool.id}
  OBVIOUS
<1>5. Good(c, r, tidy, ids \cup more)
  BY <1>2, <1>3, <1>4, Opened
<1>6. d \in Clients /\ d.blocks \in Seq(Blocks)
  BY AtGood
<1>7. PICK i \in 0 .. MaxBlocks - 1 : i = s.nextBlockIndex
  <2>1. s.nextBlockIndex \in Nat
    BY DEF Converters
  <2> QED BY <2>1, BlockBound
<1>8. PICK e : e = Sse!BlockStart(i, t, tool)
  OBVIOUS
<1>9. e \in Sse!Events /\ e.type = "content_block_start" /\ e.index = i /\ e.block = t
      /\ e.tool = tool
  BY <1>8, StartIsEvent DEF Sse!BlockStart
<1>10. PICK m : m = Emit(s, e)
  OBVIOUS
<1>11. /\ m \in Converters /\ Framed(s, m) /\ m.events = Append(s.events, e)
       /\ m.thinkingBlockStopped = s.thinkingBlockStopped
  BY <1>9, <1>10, Emitted
<1>12. r = [m EXCEPT !.curBlockType = t, !.curBlockIndex = s.nextBlockIndex, !.nextBlockIndex = @ + 1]
  BY <1>7, <1>8, <1>10 DEF OpenBlock
<1>13. r.events = Append(s.events, e) /\ r.thinkingBlockStopped = s.thinkingBlockStopped
  BY <1>11, <1>12 DEF Converters
<1>23. r \in Converters /\ Framed(s, r) /\ r.curBlockType = t
  <2>1. i \in Nat /\ m.nextBlockIndex + 1 \in Nat
    BY <1>11, BlockBound DEF Converters
  <2>2. r = [m EXCEPT !.curBlockType = t, !.curBlockIndex = i, !.nextBlockIndex = m.nextBlockIndex + 1]
    BY <1>7, <1>12
  <2>3. r \in Converters /\ r.curBlockType = t
    BY <1>11, <2>1, <2>2 DEF Converters
  <2>4. Framed(m, r)
    BY <1>11, <2>2 DEF Converters, Framed
  <2>5. Framed(s, r)
    BY <1>11, <2>4 DEF Framed
  <2> QED BY <2>3, <2>5
<1>14. PICK x : x = Sse!Apply(d, e)
  OBVIOUS
<1>15. At(c, r, x)
  BY <1>2, <1>5, <1>13, <1>14, EventAt
<1>16. PICK b : b = [type |-> t, tool |-> tool, content |-> <<>>, signed |-> FALSE]
  OBVIOUS
<1>17. b \in Blocks /\ b.content = <<>> /\ b.type = t /\ b.tool = tool
  <2>1. <<>> \in Seq(Fragments \cup {None})
    OBVIOUS
  <2> QED BY <1>16, <2>1 DEF Blocks
<1>18. PICK bs \in Seq(Blocks) : bs = d.blocks
  BY <1>6
<1>19. PICK gs : gs = Append(bs, b)
  OBVIOUS
<1>20. x.blocks = gs
  BY <1>6, <1>9, <1>14, <1>16, <1>18, <1>19 DEF Sse!Apply, Clients
<1>21. Keeps(bs, gs)
  BY <1>17, <1>19, OpenKeeps
<1>22. Len(gs) = Len(bs) + 1 /\ gs[Len(gs)] = b
  BY <1>17, <1>19
<1> QED BY <1>13, <1>15, <1>17, <1>18, <1>20, <1>21, <1>22, <1>23

LEMMA EnsuredAt ==
  ASSUME NEW c, NEW s \in Converters, NEW d, At(c, s, d), NEW t \in Sse!BlockTypes,
         t # "tool_use", s.curBlockType = t \/ s.nextBlockIndex < MaxBlocks,
         NEW r, r = EnsureBlock(s, t)
  PROVE  /\ \E x : At(c, r, x) /\ Keeps(d.blocks, x.blocks)
         /\ r \in Converters /\ r.curBlockType = t
         /\ s.thinkingBlockStopped => r.thinkingBlockStopped
<1>1. PICK ids : ids = ToolsOf(d)
  OBVIOUS
<1>2. PICK tidy \in BOOLEAN : tidy = FALSE
  OBVIOUS
<1>3. Good(c, s, tidy, ids) /\ d.blocks \in Seq(Blocks)
  BY <1>1, <1>2, AtGood
<1>4. r \in Converters /\ r.curBlockType = t
  BY <1>3, Ensured
<1>5. CASE s.curBlockType = t
  <2>1. r = s
    BY <1>5 DEF EnsureBlock
  <2> QED BY <1>3, <1>4, <2>1, KeepsItself
<1>6. CASE s.curBlockType # t
  <2>1. PICK p : p = StopBlock(s)
    OBVIOUS
  <2>2. /\ p \in Converters /\ p.curBlockType = NoBlock /\ p.nextBlockIndex = s.nextBlockIndex
    BY <1>3, <2>1, Stopped
  <2>3. PICK y : At(c, p, y) /\ Keeps(d.blocks, y.blocks)
    BY <2>1, StoppedAt
  <2>4. s.thinkingBlockStopped => p.thinkingBlockStopped
    BY <2>1, StoppedAt
  <2>5. PICK tool \in Tools \cup {None} : tool = None
    OBVIOUS
  <2>6. r = OpenBlock(p, t, tool)
    BY <1>6, <2>1, <2>5 DEF EnsureBlock
  <2>7. p.nextBlockIndex < MaxBlocks /\ (t = "tool_use" <=> tool # None)
    BY <1>6, <2>2, <2>5
  <2>8. /\ \E x : At(c, r, x) /\ Keeps(y.blocks, x.blocks)
        /\ r.thinkingBlockStopped = p.thinkingBlockStopped
    BY <2>2, <2>3, <2>6, <2>7, OpenedAt
  <2>9. PICK x : At(c, r, x) /\ Keeps(y.blocks, x.blocks)
    BY <2>8
  <2>10. y.blocks \in Seq(Blocks) /\ x.blocks \in Seq(Blocks)
    BY <2>3, <2>9, AtGood
  <2>11. Keeps(d.blocks, x.blocks)
    BY <1>3, <2>3, <2>9, <2>10, KeepsTwice
  <2> QED BY <1>4, <2>4, <2>8, <2>9, <2>11
<1> QED BY <1>5, <1>6

-----------------------------------------------------------------------------
(* What the client has of a call: the block at i, and all of its arguments.*)
Voiced == UNION {Spoken(of) : of \in Sources}

Block(bs, call, name, n, i) ==
    /\ i \in DOMAIN bs /\ bs[i].type = "tool_use"
    /\ bs[i].tool.id.call = call /\ bs[i].tool.name = name
    /\ Picked(bs[i].content, Voiced) = InOrder(n, call)

(* A fragment more, in no block of a call.                                 *)
Retains(bs, gs) == \A call, name, n, i : Block(bs, call, name, n, i) => Block(gs, call, name, n, i)

Adds(bs, gs, f) ==
    /\ \A S : PickedFrom(gs, S) = More(PickedFrom(bs, S), f, S)
    /\ Retains(bs, gs)

LEMMA KeepsBlock ==
  ASSUME NEW bs \in Seq(Blocks), NEW gs \in Seq(Blocks), Keeps(bs, gs),
         NEW call, NEW name, NEW n, NEW i, Block(bs, call, name, n, i)
  PROVE  Block(gs, call, name, n, i)
<1>1. i \in DOMAIN gs
  BY DEF Keeps, Block
<1>2. gs[i].type = bs[i].type /\ gs[i].tool = bs[i].tool /\ gs[i].content = bs[i].content
  BY DEF Keeps, Block
<1> QED BY <1>1, <1>2 DEF Block

LEMMA SaysBlock ==
  ASSUME NEW bs \in Seq(Blocks), NEW gs \in Seq(Blocks), NEW f, Says(bs, gs, f),
         NEW call, NEW name, NEW n, NEW i, Block(bs, call, name, n, i), i # Len(bs)
  PROVE  Block(gs, call, name, n, i)
<1>1. i \in DOMAIN gs
  BY DEF Says, Block
<1>2. gs[i].type = bs[i].type /\ gs[i].tool = bs[i].tool /\ gs[i].content = bs[i].content
  BY DEF Says, Block
<1> QED BY <1>1, <1>2 DEF Block

(* A fragment of text or of thinking, in a block of its kind.              *)
LEMMA SpokenAt ==
  ASSUME NEW c, NEW s \in Converters, NEW d, At(c, s, d), NEW t \in {"text", "thinking"},
         s.curBlockType = t \/ s.nextBlockIndex < MaxBlocks, NEW f \in Fragments,
         NEW k, k = Sse!DeltaOf[t], NEW r, r = Delta(EnsureBlock(s, t), k, f)
  PROVE  /\ \E x : At(c, r, x) /\ Adds(d.blocks, x.blocks, f)
         /\ s.thinkingBlockStopped => r.thinkingBlockStopped
<1>1. PICK e : e = EnsureBlock(s, t)
  OBVIOUS
<1>2. t \in Sse!BlockTypes /\ t # "tool_use" /\ t # NoBlock
  BY BlockNames
<1>3. PICK y : At(c, e, y) /\ Keeps(d.blocks, y.blocks)
  BY <1>1, <1>2, EnsuredAt
<1>4. e \in Converters /\ e.curBlockType = t /\ (s.thinkingBlockStopped => e.thinkingBlockStopped)
  BY <1>1, <1>2, EnsuredAt
<1>5. k \in ContentDeltas
  BY DeltaNames DEF ContentDeltas
<1>6. r = Delta(e, k, f) /\ e.curBlockType # NoBlock /\ k = Sse!DeltaOf[e.curBlockType]
  BY <1>1, <1>2, <1>4
<1>7. PICK x : At(c, r, x) /\ Says(y.blocks, x.blocks, f)
  BY <1>3, <1>4, <1>5, <1>6, SaidToLast
<1>8. r.thinkingBlockStopped = e.thinkingBlockStopped
  BY <1>3, <1>4, <1>5, <1>6, SaidToLast
<1>9. PICK bs \in Seq(Blocks) : bs = d.blocks
  BY AtGood
<1>10. PICK hs \in Seq(Blocks) : hs = y.blocks
  BY <1>3, AtGood
<1>11. PICK gs \in Seq(Blocks) : gs = x.blocks
  BY <1>7, AtGood
<1>12. Keeps(bs, hs) /\ Says(hs, gs, f)
  BY <1>3, <1>7, <1>9, <1>10, <1>11
<1>13. \A S : PickedFrom(gs, S) = More(PickedFrom(bs, S), f, S)
  BY <1>12 DEF Keeps, Says
<1>14. ASSUME NEW call, NEW name, NEW n, NEW i, Block(bs, call, name, n, i)
       PROVE  Block(gs, call, name, n, i)
  <2>1. Block(hs, call, name, n, i)
    BY <1>12, <1>14, KeepsBlock
  <2>2. hs[Len(hs)].type = t
    BY <1>3, <1>4, <1>6, <1>10, OpenIsLast
  <2>3. i # Len(hs)
    BY <1>2, <2>1, <2>2 DEF Block
  <2> QED BY <1>12, <2>1, <2>3, SaysBlock
<1>15. Adds(bs, gs, f)
  BY <1>13, <1>14 DEF Adds, Retains
<1> QED BY <1>4, <1>7, <1>8, <1>9, <1>11, <1>15

-----------------------------------------------------------------------------
(* Fragments.                                                              *)
LEMMA FragmentOf ==
  ASSUME NEW of, NEW n
  PROVE  Fragment(of, n).of = of /\ Fragment(of, n).n = n
BY DEF Fragment

LEMMA SpokenBy ==
  ASSUME NEW of \in Sources, NEW n \in 1 .. MaxFragments, NEW f, f = Fragment(of, n)
  PROVE  f \in Spoken(of) /\ f \in Voiced
<1>1. f \in Spoken(of)
  BY DEF Spoken
<1> QED BY <1>1 DEF Voiced

LEMMA SpokenByNobody ==
  ASSUME NEW of, NEW by, NEW n, NEW f, f = Fragment(of, n), of # by \/ n = 0
  PROVE  f \notin Spoken(by)
<1>1. f.of = of /\ f.n = n
  BY FragmentOf
<1>2. ASSUME f \in Spoken(by) PROVE FALSE
  <2>1. PICK m \in 1 .. MaxFragments : f = Fragment(by, m)
    BY <1>2 DEF Spoken
  <2>2. f.of = by /\ f.n = m
    BY <2>1, FragmentOf
  <2>3. m # 0
    BY BoundsNat
  <2> QED BY <1>1, <2>2, <2>3
<1> QED BY <1>2

LEMMA SilentIsUnvoiced ==
  ASSUME NEW of, NEW f, f = Fragment(of, 0)
  PROVE  f \notin Voiced
<1>1. ASSUME NEW by \in Sources PROVE f \notin Spoken(by)
  BY SpokenByNobody
<1> QED BY <1>1 DEF Voiced

LEMMA InOrderMore ==
  ASSUME NEW of, NEW n \in Nat, NEW m \in Nat, m = n + 1
  PROVE  Append(InOrder(n, of), Fragment(of, m)) = InOrder(m, of)
<1>1. PICK E : E = {Fragment(of, i) : i \in Nat}
  OBVIOUS
<1>2. PICK q : q = InOrder(n, of)
  OBVIOUS
<1>3. q = [i \in 1 .. n |-> Fragment(of, i)]
  BY <1>2 DEF InOrder
<1>4. q \in Seq(E) /\ Len(q) = n /\ \A i \in 1 .. n : q[i] = Fragment(of, i)
  <2>1. q \in [1 .. n -> E]
    BY <1>1, <1>3
  <2> QED BY <1>3, <2>1
<1>5. PICK x \in E : x = Fragment(of, m)
  BY <1>1
<1>6. PICK a : a = Append(q, x)
  OBVIOUS
<1>7. a \in Seq(E) /\ Len(a) = m /\ a[m] = x /\ \A i \in 1 .. n : a[i] = q[i]
  BY <1>4, <1>6
<1>8. ASSUME NEW i \in 1 .. m PROVE a[i] = Fragment(of, i)
  <2>1. CASE i = m
    BY <1>5, <1>7, <2>1
  <2>2. CASE i # m
    <3>1. i \in 1 .. n
      BY <2>2
    <3> QED BY <1>4, <1>7, <3>1
  <2> QED BY <2>1, <2>2
<1>9. a = [i \in 1 .. m |-> a[i]]
  BY <1>7
<1>10. [i \in 1 .. m |-> a[i]] = [i \in 1 .. m |-> Fragment(of, i)]
  BY <1>8, Zenon
<1> QED BY <1>2, <1>5, <1>6, <1>9, <1>10 DEF InOrder

LEMMA InOrderNothing ==
  ASSUME NEW of
  PROVE  InOrder(0, of) = <<>>
BY DEF InOrder

-----------------------------------------------------------------------------
(* What the client d has of n fragments of text, of n of reasoning and of  *)
(* the calls of u; last is the call whose block is the last.               *)
Hears(d, n) == PickedFrom(d.blocks, Spoken("text")) = InOrder(n, "text")

Thinks(s, d, n) ==
    \E k \in 0 .. n :
       /\ PickedFrom(d.blocks, Spoken("reasoning")) = InOrder(k, "reasoning")
       /\ ~ s.thinkingBlockStopped => k = n

Holds(calls, d, u, last) ==
    Declared \in {{}, Names} /\ ~ u.mixed =>
       \A k \in Calls : calls[k] # None =>
          \E i : /\ Block(d.blocks, k, u.name[k], u.args[k], i)
                 /\ last = k => i = Len(d.blocks)

LEMMA HoldsStill ==
  ASSUME NEW calls, NEW d, NEW x, NEW u, NEW last, Holds(calls, d, u, last),
         Retains(d.blocks, x.blocks)
  PROVE  Holds(calls, x, u, None)
<1> SUFFICES ASSUME Declared \in {{}, Names}, ~ u.mixed, NEW k \in Calls, calls[k] # None
             PROVE  \E i : /\ Block(x.blocks, k, u.name[k], u.args[k], i)
                           /\ None = k => i = Len(x.blocks)
  BY DEF Holds
<1>1. PICK i : Block(d.blocks, k, u.name[k], u.args[k], i)
  BY DEF Holds
<1>2. Block(x.blocks, k, u.name[k], u.args[k], i)
  BY <1>1 DEF Retains
<1>3. k # None
  BY NoneAssumption
<1> QED BY <1>2, <1>3

(* HandleContent.                                                          *)
LEMMA ContentAt ==
  ASSUME NEW c, NEW s \in Converters, NEW d, At(c, s, d), s.nextBlockIndex < MaxBlocks,
         NEW m \in Nat, NEW n \in 0 .. MaxChunks, n = 0 \/ n = m + 1, NEW g \in Nat,
         Hears(d, m), Thinks(s, d, g),
         NEW calls, NEW u, NEW last, Holds(calls, d, u, last), NEW r, r = HandleContent(s, n)
  PROVE  \E x : /\ At(c, r, x) /\ Hears(x, IF n = 0 THEN m ELSE n) /\ Thinks(r, x, g)
                /\ Holds(calls, x, u, IF n = 0 THEN last ELSE None)
<1>1. CASE n = 0
  <2>1. r = s
    BY <1>1 DEF HandleContent
  <2> QED BY <1>1, <2>1
<1>2. CASE n # 0
  <2>1. PICK p : p = [s EXCEPT !.accumulatedText = n]
    OBVIOUS
  <2>2. PICK b \in BOOLEAN : b = (s.thinkingBlockStopped \/ s.curBlockType = "thinking")
    OBVIOUS
  <2>3. /\ p \in Converters /\ p.thinkingBlockStopped = s.thinkingBlockStopped
        /\ p.curBlockType = s.curBlockType /\ p.events = s.events
        /\ p.curBlockIndex = s.curBlockIndex /\ p.nextBlockIndex = s.nextBlockIndex
    BY <2>1 DEF Converters
  <2>4. PICK q : q = StopThinkingBlock(p)
    OBVIOUS
  <2>5. q = [p EXCEPT !.thinkingBlockStopped = b]
    BY <2>2, <2>3, <2>4 DEF StopThinkingBlock
  <2>6. /\ q \in Converters /\ q.events = s.events /\ q.curBlockType = s.curBlockType
        /\ q.curBlockIndex = s.curBlockIndex /\ q.nextBlockIndex = s.nextBlockIndex
        /\ s.thinkingBlockStopped => q.thinkingBlockStopped
    BY <2>2, <2>3, <2>5 DEF Converters
  <2>7. At(c, q, d)
    BY <2>6 DEF At, Agree
  <2>8. n \in 1 .. MaxFragments /\ "text" \in Sources
    BY <1>2, BoundsNat DEF Sources
  <2>9. PICK f \in Fragments : f = Fragment("text", n)
    <3>1. n \in 0 .. MaxFragments
      BY <2>8
    <3> QED BY <2>8, <3>1, FragmentIn
  <2>10. r = Delta(EnsureBlock(q, "text"), "text_delta", f)
    BY <1>2, <2>1, <2>4, <2>9 DEF HandleContent
  <2>11. PICK t \in {"text", "thinking"} : t = "text"
    OBVIOUS
  <2>12. PICK k : k = Sse!DeltaOf[t]
    OBVIOUS
  <2>13. r = Delta(EnsureBlock(q, t), k, f)
    BY <2>10, <2>11, <2>12, DeltaNames
  <2>14. /\ \E x : At(c, r, x) /\ Adds(d.blocks, x.blocks, f)
         /\ q.thinkingBlockStopped => r.thinkingBlockStopped
    BY <2>6, <2>7, <2>12, <2>13, SpokenAt
  <2>15. PICK x : At(c, r, x) /\ Adds(d.blocks, x.blocks, f)
    BY <2>14
  <2>16. Hears(x, n)
    <3>1. PickedFrom(x.blocks, Spoken("text")) = More(PickedFrom(d.blocks, Spoken("text")), f, Spoken("text"))
      BY <2>15 DEF Adds
    <3>2. f \in Spoken("text")
      BY <2>8, <2>9, SpokenBy
    <3>3. PickedFrom(x.blocks, Spoken("text")) = Append(InOrder(m, "text"), Fragment("text", n))
      BY <2>9, <3>1, <3>2 DEF Hears, More
    <3>4. n \in Nat /\ n = m + 1
      BY <1>2, BoundsNat
    <3> QED BY <3>3, <3>4, InOrderMore DEF Hears
  <2>17. Thinks(r, x, g)
    <3>1. f \notin Spoken("reasoning")
      BY <2>9, SpokenByNobody
    <3>2. PickedFrom(x.blocks, Spoken("reasoning")) = PickedFrom(d.blocks, Spoken("reasoning"))
      BY <2>15, <3>1 DEF Adds, More
    <3>3. ~ r.thinkingBlockStopped => ~ s.thinkingBlockStopped
      BY <2>6, <2>14
    <3> QED BY <3>2, <3>3 DEF Thinks
  <2>18. Holds(calls, x, u, None)
    BY <2>15, HoldsStill DEF Adds
  <2> QED BY <1>2, <2>15, <2>16, <2>17, <2>18
<1> QED BY <1>1, <1>2

(* HandleReasoning.                                                        *)
LEMMA ReasoningAt ==
  ASSUME NEW c, NEW s \in Converters, NEW d, At(c, s, d), s.nextBlockIndex < MaxBlocks,
         NEW m \in Nat, NEW n \in 0 .. MaxChunks, n = 0 \/ n = m + 1, NEW g \in Nat,
         Hears(d, g), Thinks(s, d, m),
         NEW calls, NEW u, NEW last, Holds(calls, d, u, last), NEW r, r = HandleReasoning(s, n)
  PROVE  \E x : /\ At(c, r, x) /\ Hears(x, g) /\ Thinks(r, x, IF n = 0 THEN m ELSE n)
                /\ Holds(calls, x, u, IF n = 0 THEN last ELSE None)
<1>1. CASE n = 0
  <2>1. r = s
    BY <1>1 DEF HandleReasoning
  <2> QED BY <1>1, <2>1
<1>2. CASE n # 0
  <2>0. n = m + 1 /\ n \in Nat
    BY <1>2, BoundsNat
  <2>1. PICK p : p = [s EXCEPT !.accumulatedReasoning = n]
    OBVIOUS
  <2>2. /\ p \in Converters /\ p.thinkingBlockStopped = s.thinkingBlockStopped
        /\ p.curBlockType = s.curBlockType /\ p.events = s.events
        /\ p.curBlockIndex = s.curBlockIndex /\ p.nextBlockIndex = s.nextBlockIndex
    BY <2>1 DEF Converters
  <2>3. At(c, p, d)
    BY <2>2 DEF At, Agree
  <2>4. PICK k \in 0 .. m :
           /\ PickedFrom(d.blocks, Spoken("reasoning")) = InOrder(k, "reasoning")
           /\ ~ s.thinkingBlockStopped => k = m
    BY DEF Thinks
  <2>5. CASE s.thinkingBlockStopped
    <3>1. r = p
      BY <1>2, <2>1, <2>5 DEF HandleReasoning
    <3>2. Thinks(r, d, n)
      <4>1. k \in 0 .. n
        BY <2>0
      <4> QED BY <2>2, <2>4, <2>5, <3>1, <4>1 DEF Thinks
    <3>3. Holds(calls, d, u, None)
      BY HoldsStill DEF Retains
    <3> QED BY <1>2, <2>3, <3>1, <3>2, <3>3
  <2>6. CASE ~ s.thinkingBlockStopped
    <3>1. n \in 1 .. MaxFragments /\ "reasoning" \in Sources
      BY <1>2, BoundsNat DEF Sources
    <3>2. PICK f \in Fragments : f = Fragment("reasoning", n)
      <4>1. n \in 0 .. MaxFragments
        BY <3>1
      <4> QED BY <3>1, <4>1, FragmentIn
    <3>3. r = Delta(EnsureBlock(p, "thinking"), "thinking_delta", f)
      BY <1>2, <2>1, <2>6, <3>2 DEF HandleReasoning
    <3>4. PICK t \in {"text", "thinking"} : t = "thinking"
      OBVIOUS
    <3>5. PICK j : j = Sse!DeltaOf[t]
      OBVIOUS
    <3>6. r = Delta(EnsureBlock(p, t), j, f)
      BY <3>3, <3>4, <3>5, DeltaNames
    <3>7. \E x : At(c, r, x) /\ Adds(d.blocks, x.blocks, f)
      BY <2>2, <2>3, <3>5, <3>6, SpokenAt
    <3>8. PICK x : At(c, r, x) /\ Adds(d.blocks, x.blocks, f)
      BY <3>7
    <3>9. Hears(x, g)
      <4>1. f \notin Spoken("text")
        BY <3>2, SpokenByNobody
      <4>2. PickedFrom(x.blocks, Spoken("text")) = PickedFrom(d.blocks, Spoken("text"))
        BY <3>8, <4>1 DEF Adds, More
      <4> QED BY <4>2 DEF Hears
    <3>10. Thinks(r, x, n)
      <4>1. f \in Spoken("reasoning")
        BY <3>1, <3>2, SpokenBy
      <4>2. PickedFrom(x.blocks, Spoken("reasoning")) = Append(InOrder(m, "reasoning"), Fragment("reasoning", n))
        BY <2>4, <2>6, <3>2, <3>8, <4>1 DEF Adds, More
      <4>3. PickedFrom(x.blocks, Spoken("reasoning")) = InOrder(n, "reasoning")
        BY <2>0, <4>2, InOrderMore
      <4>4. n \in 0 .. n
        BY <2>0
      <4> QED BY <4>3, <4>4 DEF Thinks
    <3>11. Holds(calls, x, u, None)
      BY <3>8, HoldsStill DEF Adds
    <3> QED BY <1>2, <3>8, <3>9, <3>10, <3>11
  <2> QED BY <2>5, <2>6
<1> QED BY <1>1, <1>2

-----------------------------------------------------------------------------
(* HandleToolCallDelta.                                                    *)
Named(u) == \A k \in Calls : u.name[k] = None => u.args[k] = 0

LEMMA SendDeltaMore ==
  ASSUME NEW u \in Histories, NEW k \in Calls, NEW e \in NextDeltas(u, k),
         NEW v, v = SendDelta(u, e)
  PROVE  /\ v.args[k] = (IF e.args = 0 THEN u.args[k] ELSE e.args)
         /\ v.name[k] = (IF e.name = None THEN u.name[k] ELSE e.name)
         /\ \A j \in Calls : j # k => v.args[j] = u.args[j] /\ v.name[j] = u.name[j]
<1>1. e.index = k
  BY EntryFacts
<1>2. PICK args : args = [u.args EXCEPT ![k] = IF e.args = 0 THEN u.args[k] ELSE e.args]
  OBVIOUS
<1>3. PICK name : name = [u.name EXCEPT ![k] = IF e.name = None THEN u.name[k] ELSE e.name]
  OBVIOUS
<1>4. v.args = args /\ v.name = name
  BY <1>1, <1>2, <1>3 DEF SendDelta, Histories
<1>5. u.args \in [Calls -> 0 .. MaxEntries] /\ u.name \in [Calls -> Names \cup {None}]
  BY DEF Histories
<1> QED BY <1>2, <1>3, <1>4, <1>5

CallOpened(s, k, id, name) ==
    OpenBlock([StopBlock(s) EXCEPT !.toolCallByIndex = [@ EXCEPT ![k] = id]],
              "tool_use", [id |-> id, name |-> name])

(* No other call has been opened.                                          *)
Others(s, r, k) == \A j \in Calls : j # k => r.toolCallByIndex[j] = s.toolCallByIndex[j]

LEMMA NewCallAt ==
  ASSUME NEW c, NEW s \in Converters, NEW d, At(c, s, d), NEW k \in Calls,
         s.toolCallByIndex[k] = None, NEW id \in ToolIds, NEW name \in Names \cup {None},
         s.nextBlockIndex < MaxBlocks, NEW r, r = CallOpened(s, k, id, name)
  PROVE  /\ \E x : /\ At(c, r, x) /\ Keeps(d.blocks, x.blocks)
                   /\ Len(x.blocks) = Len(d.blocks) + 1
                   /\ x.blocks[Len(x.blocks)].type = "tool_use"
                   /\ x.blocks[Len(x.blocks)].tool = [id |-> id, name |-> name]
                   /\ x.blocks[Len(x.blocks)].content = <<>>
         /\ s.thinkingBlockStopped => r.thinkingBlockStopped
         /\ r \in Converters /\ r.curBlockType = "tool_use"
         /\ Others(s, r, k)
<1>1. PICK ids : ids = ToolsOf(d)
  OBVIOUS
<1>2. PICK tidy \in BOOLEAN : tidy = FALSE
  OBVIOUS
<1>3. Good(c, s, tidy, ids) /\ d.blocks \in Seq(Blocks)
  BY <1>1, <1>2, AtGood
<1>4. PICK p : p = StopBlock(s)
  OBVIOUS
<1>5. /\ p \in Converters /\ Framed(s, p) /\ p.curBlockType = NoBlock
      /\ p.nextBlockIndex = s.nextBlockIndex
  BY <1>3, <1>4, Stopped
<1>6. PICK y : At(c, p, y) /\ Keeps(d.blocks, y.blocks)
  BY <1>4, StoppedAt
<1>7. s.thinkingBlockStopped => p.thinkingBlockStopped
  BY <1>4, StoppedAt
<1>8. PICK tc : tc = [s.toolCallByIndex EXCEPT ![k] = id]
  OBVIOUS
<1>9. tc \in [Calls -> ToolIds \cup {None}]
  BY <1>8 DEF Converters
<1>10. PICK q : q = [p EXCEPT !.toolCallByIndex = tc]
  OBVIOUS
<1>11. /\ q \in Converters /\ q.events = p.events /\ q.curBlockType = p.curBlockType
       /\ q.curBlockIndex = p.curBlockIndex /\ q.nextBlockIndex = p.nextBlockIndex
       /\ q.thinkingBlockStopped = p.thinkingBlockStopped /\ q.toolCallByIndex = tc
  BY <1>5, <1>9, <1>10 DEF Converters
<1>12. At(c, q, y)
  BY <1>6, <1>11 DEF At, Agree
<1>13. q = [StopBlock(s) EXCEPT !.toolCallByIndex = [@ EXCEPT ![k] = id]]
  <2>1. p.toolCallByIndex = s.toolCallByIndex
    BY <1>5 DEF Framed
  <2> QED BY <1>4, <1>8, <1>10, <2>1
<1>14. PICK tool \in Tools \cup {None} : tool = [id |-> id, name |-> name] /\ tool # None
  <2>1. [id |-> id, name |-> name] \in Tools
    BY DEF Tools
  <2> QED BY <2>1, NoneAssumption
<1>15. PICK t \in Sse!BlockTypes : t = "tool_use"
  BY BlockNames
<1>16. r = OpenBlock(q, t, tool) /\ (t = "tool_use" <=> tool # None)
       /\ q.curBlockType = NoBlock /\ q.nextBlockIndex < MaxBlocks
  BY <1>5, <1>11, <1>13, <1>14, <1>15 DEF CallOpened
<1>17. /\ \E x : /\ At(c, r, x) /\ Keeps(y.blocks, x.blocks)
                 /\ Len(x.blocks) = Len(y.blocks) + 1
                 /\ x.blocks[Len(x.blocks)].type = t /\ x.blocks[Len(x.blocks)].tool = tool
                 /\ x.blocks[Len(x.blocks)].content = <<>>
       /\ r.thinkingBlockStopped = q.thinkingBlockStopped
       /\ r \in Converters /\ Framed(q, r) /\ r.curBlockType = t
  BY <1>11, <1>12, <1>16, OpenedAt
<1>18. PICK x : /\ At(c, r, x) /\ Keeps(y.blocks, x.blocks)
                /\ Len(x.blocks) = Len(y.blocks) + 1
                /\ x.blocks[Len(x.blocks)].type = t /\ x.blocks[Len(x.blocks)].tool = tool
                /\ x.blocks[Len(x.blocks)].content = <<>>
  BY <1>17
<1>19. y.blocks \in Seq(Blocks) /\ x.blocks \in Seq(Blocks)
  BY <1>6, <1>18, AtGood
<1>20. Keeps(d.blocks, x.blocks)
  BY <1>3, <1>6, <1>18, <1>19, KeepsTwice
<1>21. Len(y.blocks) = Len(d.blocks)
  <2>1. Len(y.blocks) = p.nextBlockIndex /\ Len(d.blocks) = s.nextBlockIndex
    BY <1>6 DEF At, Agree
  <2> QED BY <1>5, <2>1
<1>22. s.thinkingBlockStopped => r.thinkingBlockStopped
  BY <1>7, <1>11, <1>17
<1>23. Others(s, r, k)
  <2>1. r.toolCallByIndex = tc
    BY <1>11, <1>17 DEF Framed
  <2>2. s.toolCallByIndex \in [Calls -> ToolIds \cup {None}]
    BY DEF Converters
  <2> QED BY <1>8, <2>1, <2>2 DEF Others
<1> QED BY <1>14, <1>15, <1>17, <1>18, <1>20, <1>21, <1>22, <1>23

LEMMA NotACall ==
  ASSUME NEW k \in Calls
  PROVE  k # "text" /\ k # "reasoning" /\ k \in Sources
BY CallsAssumption DEF Sources

(* Nothing of the text or of the reasoning.                                *)
Unheard(bs, gs) ==
    /\ PickedFrom(gs, Spoken("text")) = PickedFrom(bs, Spoken("text"))
    /\ PickedFrom(gs, Spoken("reasoning")) = PickedFrom(bs, Spoken("reasoning"))

(* A fragment more in the last block, which is the block of the call.      *)
LEMMA SaysCall ==
  ASSUME NEW bs \in Seq(Blocks), NEW gs \in Seq(Blocks), NEW k \in Calls, NEW n \in 0 .. MaxFragments,
         NEW f \in Fragments, f = Fragment(k, n), Says(bs, gs, f), NEW name, NEW m \in Nat,
         Block(bs, k, name, m, Len(bs)), n = 0 \/ n = m + 1
  PROVE  /\ Block(gs, k, name, IF n = 0 THEN m ELSE n, Len(gs))
         /\ Unheard(bs, gs)
<1>1. PICK l : l = Len(bs)
  OBVIOUS
<1>2. /\ l \in DOMAIN bs /\ Len(gs) = l /\ l \in DOMAIN gs
      /\ gs[l].type = bs[l].type /\ gs[l].tool = bs[l].tool
      /\ gs[l].content = Append(bs[l].content, f)
  BY <1>1 DEF Block, Says
<1>3. PICK q \in Seq(Pieces) : q = bs[l].content
  <2>1. bs[l] \in Blocks
    BY <1>2
  <2> QED BY <2>1 DEF Blocks, Pieces
<1>4. f \in Pieces
  BY DEF Pieces
<1>5. Picked(gs[l].content, Voiced) = More(Picked(q, Voiced), f, Voiced)
  BY <1>2, <1>3, <1>4, PickedMore
<1>6. Picked(q, Voiced) = InOrder(m, k)
  BY <1>1, <1>3 DEF Block
<1>7. PICK j : j = IF n = 0 THEN m ELSE n
  OBVIOUS
<1>8. Picked(gs[l].content, Voiced) = InOrder(j, k)
  <2>1. CASE n = 0
    <3>1. f \notin Voiced
      BY <2>1, SilentIsUnvoiced
    <3> QED BY <1>5, <1>6, <1>7, <2>1, <3>1 DEF More
  <2>2. CASE n # 0
    <3>1. n \in 1 .. MaxFragments /\ k \in Sources /\ n \in Nat
      BY <2>2, BoundsNat, NotACall
    <3>2. f \in Voiced
      BY <3>1, SpokenBy
    <3>3. Picked(gs[l].content, Voiced) = Append(InOrder(m, k), Fragment(k, n))
      BY <1>5, <1>6, <3>2 DEF More
    <3> QED BY <1>7, <2>2, <3>1, <3>3, InOrderMore
  <2> QED BY <2>1, <2>2
<1>9. Block(gs, k, name, j, l)
  BY <1>1, <1>2, <1>8 DEF Block
<1>10. Unheard(bs, gs)
  <2>1. f \notin Spoken("text") /\ f \notin Spoken("reasoning")
    BY NotACall, SpokenByNobody
  <2> QED BY <2>1 DEF Unheard, Says, More
<1> QED BY <1>2, <1>7, <1>9, <1>10

(* The first entry of a call.                                              *)
LEMMA FirstEntryAt ==
  ASSUME NEW c, NEW s \in Converters, NEW d, At(c, s, d), NEW u \in Histories, NEW k \in Calls,
         NEW e \in NextDeltas(u, k), s.toolCallByIndex[k] = None, s.nextBlockIndex < MaxBlocks,
         u.entries < MaxEntries, u.args[k] <= u.entries, ~ Undeclared(e),
         NEW r, r = HandleToolCallDelta(s, e)
  PROVE  /\ \E x : /\ At(c, r, x) /\ Unheard(d.blocks, x.blocks)
                   /\ Retains(d.blocks, x.blocks)
                   /\ u.args[k] = 0 => Block(x.blocks, k, e.name, e.args, Len(x.blocks))
         /\ s.thinkingBlockStopped => r.thinkingBlockStopped
         /\ Others(s, r, k)
<1>1. /\ e.index = k /\ e.id \in BOOLEAN /\ e.name \in Names \cup {None}
      /\ e.args = 0 \/ e.args = u.args[k] + 1 \/ e.args = 1
  BY EntryFacts
<1>2. PICK id \in ToolIds : id = [call |-> k, given |-> e.id]
  BY <1>1 DEF ToolIds
<1>3. PICK name \in Names \cup {None} : name = e.name
  BY <1>1
<1>4. PICK o : o = CallOpened(s, k, id, name)
  OBVIOUS
<1>5. r = IF e.args = 0 THEN o ELSE InputJSONDelta(o, e)
  BY <1>1, <1>2, <1>3, <1>4 DEF HandleToolCallDelta, CallOpened
<1>6. PICK y : /\ At(c, o, y) /\ Keeps(d.blocks, y.blocks)
               /\ Len(y.blocks) = Len(d.blocks) + 1
               /\ y.blocks[Len(y.blocks)].type = "tool_use"
               /\ y.blocks[Len(y.blocks)].tool = [id |-> id, name |-> name]
               /\ y.blocks[Len(y.blocks)].content = <<>>
  BY <1>4, NewCallAt
<1>7. /\ s.thinkingBlockStopped => o.thinkingBlockStopped
      /\ o \in Converters /\ o.curBlockType = "tool_use"
      /\ Others(s, o, k)
  BY <1>4, NewCallAt, ZenonT(40)
<1>8. PICK bs \in Seq(Blocks) : bs = d.blocks
  BY AtGood
<1>9. PICK hs \in Seq(Blocks) : hs = y.blocks
  BY <1>6, AtGood
<1>10. Keeps(bs, hs) /\ Len(hs) = Len(bs) + 1
  BY <1>6, <1>8, <1>9
<1>11. Unheard(bs, hs)
  BY <1>10 DEF Unheard, Keeps
<1>12. Retains(bs, hs)
  BY <1>10, KeepsBlock DEF Retains
<1>13. Block(hs, k, name, 0, Len(hs))
  <2>1. Len(hs) \in DOMAIN hs
    BY <1>10
  <2>2. Picked(hs[Len(hs)].content, Voiced) = <<>>
    BY <1>6, <1>9, PickedNothing
  <2>3. hs[Len(hs)].tool.id.call = k /\ hs[Len(hs)].tool.name = name /\ hs[Len(hs)].type = "tool_use"
    BY <1>2, <1>6, <1>9
  <2> QED BY <2>1, <2>2, <2>3, InOrderNothing DEF Block
<1>14. CASE e.args = 0
  <2>1. r = o
    BY <1>5, <1>14
  <2> QED BY <1>3, <1>6, <1>7, <1>8, <1>9, <1>11, <1>12, <1>13, <1>14, <2>1
<1>15. CASE e.args # 0
  <2>1. PICK n \in 0 .. MaxFragments : n = e.args
    <3>1. u.entries \in Nat /\ u.args[k] \in Nat
      BY BoundsNat DEF Histories
    <3> QED BY <1>1, <3>1, BoundsNat
  <2>2. PICK f \in Fragments : f = Fragment(k, n)
    BY NotACall, FragmentIn
  <2>3. PICK j \in ContentDeltas : j = "input_json_delta"
    BY DEF ContentDeltas
  <2>4. r = Delta(o, j, f)
    BY <1>1, <1>5, <1>15, <2>1, <2>2, <2>3 DEF InputJSONDelta
  <2>5. o.curBlockType # NoBlock /\ j = Sse!DeltaOf[o.curBlockType]
    BY <1>7, <2>3, BlockNames, DeltaNames
  <2>6. PICK x : At(c, r, x) /\ Says(y.blocks, x.blocks, f)
    BY <1>6, <1>7, <2>4, <2>5, SaidToLast
  <2>7. r.thinkingBlockStopped = o.thinkingBlockStopped
    BY <1>6, <1>7, <2>4, <2>5, SaidToLast
  <2>8. PICK gs \in Seq(Blocks) : gs = x.blocks
    BY <2>6, AtGood
  <2>9. Says(hs, gs, f)
    BY <1>9, <2>6, <2>8
  <2>10. Unheard(bs, gs)
    <3>1. f \notin Spoken("text") /\ f \notin Spoken("reasoning")
      BY <2>2, NotACall, SpokenByNobody
    <3> QED BY <1>11, <2>9, <3>1 DEF Unheard, Says, More
  <2>11. Retains(bs, gs)
    <3> SUFFICES ASSUME NEW call, NEW nm, NEW m, NEW i, Block(bs, call, nm, m, i)
                 PROVE  Block(gs, call, nm, m, i)
      BY DEF Retains
    <3>1. Block(hs, call, nm, m, i)
      BY <1>12 DEF Retains
    <3>2. i # Len(hs)
      BY <1>10 DEF Block
    <3> QED BY <2>9, <3>1, <3>2, SaysBlock
  <2>12. u.args[k] = 0 => Block(gs, k, name, n, Len(gs))
    <3> SUFFICES ASSUME u.args[k] = 0 PROVE Block(gs, k, name, n, Len(gs))
      OBVIOUS
    <3>1. n = 0 + 1 /\ 0 \in Nat
      BY <1>1, <1>15, <2>1
    <3>2. PICK m \in Nat : m = 0
      OBVIOUS
    <3>3. Block(hs, k, name, m, Len(hs)) /\ n = m + 1 /\ n # 0
      BY <1>13, <3>1, <3>2
    <3> QED BY <2>2, <2>9, <3>3, SaysCall
  <2>13. s.thinkingBlockStopped => r.thinkingBlockStopped
    BY <1>7, <2>7
  <2>14. r.toolCallByIndex = o.toolCallByIndex
    BY <1>7, <2>4 DEF Delta, Emit, Converters
  <2>15. Others(s, r, k)
    BY <1>7, <2>14 DEF Others
  <2> QED BY <1>3, <1>7, <1>8, <2>1, <2>6, <2>8, <2>10, <2>11, <2>12, <2>13, <2>15
<1> QED BY <1>14, <1>15

(* What the client has of the history u once the pending events of s have  *)
(* arrived, while a chunk is handled.                                      *)
Carries(c, s, x, u, m, g) ==
    /\ At(c, s, x) /\ Hears(x, m) /\ Thinks(s, x, g)
    /\ Holds(s.toolCallByIndex, x, u, u.last) /\ Named(u)

(* One entry.                                                              *)
LEMMA EntryCarries ==
  ASSUME NEW c, NEW s \in Converters, NEW d, NEW u \in Histories, Tracks(s, u), Follows(s, u),
         NEW k \in Calls, NEW e \in NextDeltas(u, k), u.entries < MaxEntries,
         NEW m \in Nat, NEW g \in Nat, Carries(c, s, d, u, m, g),
         NEW r, r = HandleToolCallDelta(s, e), NEW v, v = SendDelta(u, e)
  PROVE  \E x : Carries(c, r, x, v, m, g)
<1> SUFFICES ASSUME At(c, s, d), Hears(d, m), Thinks(s, d, g), Named(u),
                    Holds(s.toolCallByIndex, d, u, u.last)
             PROVE  Named(v) /\ \E x : /\ At(c, r, x) /\ Hears(x, m) /\ Thinks(r, x, g)
                                       /\ Holds(r.toolCallByIndex, x, v, v.last)
  BY DEF Carries
<1>1. /\ e.index = k /\ e.name \in Names \cup {None}
      /\ e.args = 0 \/ e.args = u.args[k] + 1 \/ e.args = 1
      /\ u.name[k] = None <=> e.name # None
      /\ e.args = 1 /\ u.args[k] # 0 => u.name[k] = None
  BY EntryFacts
<1>2. \A j \in Calls : u.args[j] <= u.entries
  BY DEF Tracks
<1>3. /\ v.last = k /\ v.name[k] # None
      /\ ~ v.mixed => (~ u.mixed /\ (u.name[k] = None \/ u.last = k))
  BY <1>2, SendDeltaFacts
<1>4. /\ v.args[k] = (IF e.args = 0 THEN u.args[k] ELSE e.args)
      /\ v.name[k] = (IF e.name = None THEN u.name[k] ELSE e.name)
      /\ \A j \in Calls : j # k => v.args[j] = u.args[j] /\ v.name[j] = u.name[j]
  BY SendDeltaMore
<1>5. Named(v)
  BY <1>3, <1>4 DEF Named
<1>6. u.entries \in Nat /\ u.args[k] \in Nat
  BY BoundsNat DEF Histories
<1>7. s.nextBlockIndex < MaxBlocks
  BY Unbusy
<1>8. CASE Undeclared(e)
  <2>1. r = s
    BY <1>8 DEF HandleToolCallDelta
  <2>2. Declared \notin {{}, Names}
    BY <1>1, <1>8 DEF Undeclared
  <2> QED BY <1>5, <2>1, <2>2 DEF Holds
<1>9. CASE ~ Undeclared(e) /\ s.toolCallByIndex[k] = None
  <2>1. PICK x : /\ At(c, r, x) /\ Unheard(d.blocks, x.blocks)
                 /\ Retains(d.blocks, x.blocks)
                 /\ u.args[k] = 0 => Block(x.blocks, k, e.name, e.args, Len(x.blocks))
    BY <1>2, <1>7, <1>9, FirstEntryAt
  <2>2. s.thinkingBlockStopped => r.thinkingBlockStopped
    BY <1>2, <1>7, <1>9, FirstEntryAt
  <2>3. Hears(x, m) /\ Thinks(r, x, g)
    BY <2>1, <2>2 DEF Unheard, Hears, Thinks
  <2>4. Others(s, r, k)
    BY <1>2, <1>7, <1>9, FirstEntryAt
  <2>5. Holds(r.toolCallByIndex, x, v, v.last)
    <3> SUFFICES ASSUME Declared \in {{}, Names}, ~ v.mixed, NEW j \in Calls,
                        r.toolCallByIndex[j] # None
                 PROVE  \E i : /\ Block(x.blocks, j, v.name[j], v.args[j], i)
                               /\ k = j => i = Len(x.blocks)
      BY <1>3 DEF Holds
    <3>1. ~ u.mixed
      BY <1>3
    <3>2. CASE j = k
      <4>1. u.name[k] = None
        BY <1>9 DEF Tracks
      <4>2. u.args[k] = 0 /\ v.name[k] = e.name /\ v.args[k] = e.args
        BY <1>1, <1>4, <4>1 DEF Named
      <4> QED BY <2>1, <3>2, <4>2
    <3>3. CASE j # k
      <4>1. PICK i : Block(d.blocks, j, u.name[j], u.args[j], i)
        BY <2>4, <3>1, <3>3 DEF Holds, Others
      <4> QED BY <1>4, <2>1, <3>3, <4>1 DEF Retains
    <3> QED BY <3>2, <3>3
  <2> QED BY <1>5, <2>1, <2>3, <2>5
<1>10. CASE ~ Undeclared(e) /\ s.toolCallByIndex[k] # None
  <2>1. r = InputJSONDelta(s, e) /\ u.name[k] # None
    BY <1>1, <1>10 DEF HandleToolCallDelta, Tracks
  <2>2. PICK n \in 0 .. MaxFragments : n = e.args /\ (n = 0 \/ n = u.args[k] + 1)
    BY <1>1, <1>2, <1>6, <2>1, BoundsNat
  <2>3. PICK f \in Fragments : f = Fragment(k, n)
    BY NotACall, FragmentIn
  <2>4. PICK j \in ContentDeltas : j = "input_json_delta"
    BY DEF ContentDeltas
  <2>5. r = Delta(s, j, f)
    BY <1>1, <2>1, <2>2, <2>3, <2>4 DEF InputJSONDelta
  <2>6. PICK x : /\ At(c, r, x)
                 /\ x.blocks = Sse!Grow(d.blocks, Sse!BlockDelta(s.curBlockIndex, j, f))
    BY <2>5, SaidAt
  <2>7. r.thinkingBlockStopped = s.thinkingBlockStopped
    BY <2>5, SaidAt
  <2>8. PICK h \in Nat : h = s.curBlockIndex
    BY AtGood
  <2>9. PICK bs \in Seq(Blocks) : bs = d.blocks
    BY AtGood
  <2>10. PICK gs \in Seq(Blocks) : gs = x.blocks
    BY <2>6, AtGood
  <2>11. gs = Sse!Grow(bs, Sse!BlockDelta(h, j, f))
    BY <2>6, <2>8, <2>9, <2>10
  <2>12. Unheard(bs, gs)
    <3>1. f \notin Spoken("text") /\ f \notin Spoken("reasoning")
      BY <2>3, NotACall, SpokenByNobody
    <3> QED BY <2>11, <3>1, GrowElsewhere DEF Unheard
  <2>13. Hears(x, m) /\ Thinks(r, x, g)
    BY <2>7, <2>9, <2>10, <2>12 DEF Unheard, Hears, Thinks
  <2>14. r.toolCallByIndex = s.toolCallByIndex
    BY <2>5 DEF Delta, Emit, Converters
  <2>15. Holds(r.toolCallByIndex, x, v, v.last)
    <3> SUFFICES ASSUME Declared \in {{}, Names}, ~ v.mixed, NEW l \in Calls,
                        s.toolCallByIndex[l] # None
                 PROVE  \E i : /\ Block(gs, l, v.name[l], v.args[l], i)
                               /\ k = l => i = Len(gs)
      BY <1>3, <2>10, <2>14 DEF Holds
    <3>1. ~ u.mixed /\ u.last = k
      BY <1>3, <2>1
    <3>2. s.curBlockType = "tool_use"
      <4>1. k # None
        BY NoneAssumption
      <4> QED BY <1>10, <3>1, <4>1 DEF Follows
    <3>3. s.curBlockType # NoBlock /\ j = Sse!DeltaOf[s.curBlockType]
      BY <2>4, <3>2, BlockNames, DeltaNames
    <3>4. h + 1 = Len(bs) /\ bs[h + 1].type = s.curBlockType
      BY <2>8, <2>9, <3>3, OpenIsLast
    <3>5. Says(bs, gs, f)
      BY <2>11, <3>3, <3>4, GrowSays
    <3>6. PICK i : /\ Block(bs, l, u.name[l], u.args[l], i)
                   /\ u.last = l => i = Len(bs)
      BY <2>9, <3>1 DEF Holds
    <3>7. CASE l = k
      <4>1. Block(bs, k, u.name[k], u.args[k], Len(bs))
        BY <3>1, <3>6, <3>7
      <4>2. Block(gs, k, u.name[k], IF n = 0 THEN u.args[k] ELSE n, Len(gs))
        BY <1>6, <2>2, <2>3, <3>5, <4>1, SaysCall
      <4>3. v.name[k] = u.name[k] /\ v.args[k] = IF n = 0 THEN u.args[k] ELSE n
        BY <1>1, <1>4, <2>1, <2>2
      <4> QED BY <3>7, <4>2, <4>3
    <3>8. CASE l # k
      <4>1. PICK i2 : Block(bs, k, u.name[k], u.args[k], i2) /\ i2 = Len(bs)
        BY <1>10, <2>9, <3>1 DEF Holds
      <4>2. i # Len(bs)
        BY <3>6, <3>8, <4>1 DEF Block
      <4>3. Block(gs, l, u.name[l], u.args[l], i)
        BY <3>5, <3>6, <4>2, SaysBlock
      <4> QED BY <1>4, <3>8, <4>3
    <3> QED BY <3>7, <3>8
  <2> QED BY <1>5, <2>6, <2>13, <2>15
<1> QED BY <1>8, <1>9, <1>10

(* The entries of a chunk.                                                 *)
Ready(c, s, u) ==
    /\ s \in Converters /\ u \in Histories /\ Tracks(s, u) /\ Follows(s, u)
    /\ Good(c, s, FALSE, ToolsSeen(s))

Carried(c, r, w, m, g) == \E x : Carries(c, r, x, w, m, g)

LEMMA EntriesAt ==
  ASSUME NEW c, NEW s, NEW d, NEW u, Ready(c, s, u), NEW ds, ds \in DeltaSeqs(u),
         NEW m \in Nat, NEW g \in Nat, Carries(c, s, d, u, m, g)
  PROVE  Carried(c, AllHandled(s, ds), AllSent(u, ds), m, g)
<1>4. PICK r : r = AllHandled(s, ds)
  OBVIOUS
<1>5. PICK w : w = AllSent(u, ds)
  OBVIOUS
<1>6. PICK tidy \in BOOLEAN : tidy = FALSE
  OBVIOUS
<1> SUFFICES \E x : Carries(c, r, x, w, m, g)
  BY <1>4, <1>5 DEF Carried
<1> /\ s \in Converters /\ u \in Histories /\ Good(c, s, tidy, ToolsSeen(s))
    /\ Tracks(s, u) /\ Follows(s, u)
  BY <1>6 DEF Ready
<1>0. \A k \in Calls : u.args[k] <= u.entries
  BY DEF Tracks
<1>1. CASE ds = <<>>
  <2>1. r = s /\ w = u
    BY <1>1, <1>4, <1>5, HTDFolded0, SentFolded0
  <2> QED BY <2>1
<1>2. CASE \E k \in Calls : \E e \in NextDeltas(u, k) : ds = <<e>> /\ u.entries < MaxEntries
  <2>0. PICK k \in Calls : \E e \in NextDeltas(u, k) : ds = <<e>> /\ u.entries < MaxEntries
    BY <1>2
  <2>1. PICK e \in NextDeltas(u, k) : ds = <<e>> /\ u.entries < MaxEntries
    BY <2>0
  <2>2. r = HandleToolCallDelta(s, e) /\ w = SendDelta(u, e)
    BY <1>4, <1>5, <2>1, HTDFolded1, SentFolded1
  <2> QED BY <2>1, <2>2, EntryCarries
<1>3. CASE \E k, l \in Calls : \E e \in NextDeltas(u, k) : \E f \in NextDeltas(SendDelta(u, e), l) :
              ds = <<e, f>> /\ u.entries + 1 < MaxEntries
  <2>0. PICK k \in Calls, l \in Calls : \E e \in NextDeltas(u, k) :
           \E f \in NextDeltas(SendDelta(u, e), l) : ds = <<e, f>> /\ u.entries + 1 < MaxEntries
    BY <1>3
  <2>1. PICK e \in NextDeltas(u, k) :
           \E f \in NextDeltas(SendDelta(u, e), l) : ds = <<e, f>> /\ u.entries + 1 < MaxEntries
    BY <2>0
  <2>2. PICK v : v = SendDelta(u, e)
    OBVIOUS
  <2>3. PICK f \in NextDeltas(v, l) : ds = <<e, f>> /\ u.entries + 1 < MaxEntries
    BY <2>1, <2>2
  <2>4. PICK q : q = HandleToolCallDelta(s, e)
    OBVIOUS
  <2>5. r = HandleToolCallDelta(q, f) /\ w = SendDelta(v, f)
    <3>2. AllHandled(s, <<e, f>>) = HandleToolCallDelta(HandleToolCallDelta(s, e), f)
      BY HTDFolded2
    <3>3. AllSent(u, <<e, f>>) = SendDelta(SendDelta(u, e), f)
      BY SentFolded2
    <3> QED BY <1>4, <1>5, <2>2, <2>3, <2>4, <3>2, <3>3
  <2>6. u.entries \in Nat /\ u.entries < MaxEntries
    BY <2>3, BoundsNat DEF Histories
  <2>7. v \in Histories /\ v.entries = u.entries + 1
    BY <1>0, <2>2, <2>6, SendDeltaFacts
  <2>8. v.entries < MaxEntries
    BY <2>3, <2>7
  <2>9. tidy => ~ v.mixed
    BY <1>6
  <2>10. /\ q \in Converters /\ Tracks(q, v) /\ Follows(q, v) /\ Good(c, q, tidy, ToolsSeen(q))
    BY <2>2, <2>4, <2>6, <2>9, Entry
  <2>11. PICK y : Carries(c, q, y, v, m, g)
    BY <2>2, <2>4, <2>6, EntryCarries
  <2> QED BY <2>5, <2>7, <2>8, <2>10, <2>11, EntryCarries
<1> QED BY <1>1, <1>2, <1>3, EntrySequences

(* HandleChunk.                                                            *)
LEMMA ChunkAt ==
  ASSUME NEW s, NEW c, NEW d, NEW u, Ready(c, s, u), s.finishReason = NoFinish,
         u.chunks < MaxChunks,
         NEW content \in BOOLEAN, NEW reasoning \in BOOLEAN,
         NEW ds \in DeltaSeqs(SendContent(u, content, reasoning)),
         NEW w, w = AllSent(SendContent(u, content, reasoning), ds), NEW finish \in Finishes(w),
         NEW chunk, chunk = [content |-> IF content THEN w.text ELSE 0,
                             reasoning |-> IF reasoning THEN w.reasoning ELSE 0,
                             tools |-> ds, finish |-> finish],
         Carries(c, s, d, u, u.text, u.reasoning)
  PROVE  w \in Histories /\ Carried(c, HandleChunk(s, chunk), w, w.text, w.reasoning)
<1>0. PICK r : r = HandleChunk(s, chunk)
  OBVIOUS
<1> SUFFICES w \in Histories /\ Carried(c, r, w, w.text, w.reasoning)
  BY <1>0
<1>a. PICK tidy \in BOOLEAN : tidy = FALSE
  OBVIOUS
<1> /\ s \in Converters /\ u \in Histories /\ Good(c, s, tidy, ToolsSeen(s))
    /\ Tracks(s, u) /\ Follows(s, u)
  BY <1>a DEF Ready
<1>1. finish \in FinishReasons \cup {NoFinish}
  BY DEF Finishes
<1>2. PICK u0 : u0 = SendContent(u, content, reasoning)
  OBVIOUS
<1>3. PICK n : n = Part(content, u0.text)
  OBVIOUS
<1>4. PICK m : m = Part(reasoning, u0.reasoning)
  OBVIOUS
<1>5. PICK s1 : s1 = Finished(s, finish)
  OBVIOUS
<1>6. PICK s2 : s2 = HandleContent(s1, n)
  OBVIOUS
<1>7. PICK s3 : s3 = HandleReasoning(s2, m)
  OBVIOUS
<1>8. Begun(s, c, tidy, finish, n, m, s1, s2, s3, u0)
  BY <1>1, <1>2, <1>3, <1>4, <1>5, <1>6, <1>7, ChunkBegun
<1>9. /\ s1 \in Converters /\ s2 \in Converters /\ s3 \in Converters /\ u0 \in Histories
      /\ s1.nextBlockIndex < MaxBlocks /\ s2.nextBlockIndex < MaxBlocks
      /\ n \in 0 .. MaxChunks /\ m \in 0 .. MaxChunks
      /\ Tracks(s3, u0) /\ Follows(s3, u0) /\ Good(c, s3, tidy, ToolsSeen(s3))
      /\ s3.toolCallByIndex = s.toolCallByIndex
  BY <1>8 DEF Begun
<1>10. /\ u0.text = (IF content THEN u.text + 1 ELSE u.text)
       /\ u0.reasoning = (IF reasoning THEN u.reasoning + 1 ELSE u.reasoning)
       /\ u0.last = (IF content \/ reasoning THEN None ELSE u.last)
       /\ u0.args = u.args /\ u0.name = u.name /\ u0.mixed = u.mixed
  BY <1>2, SendContentFacts DEF Tracks
<1>11. PICK a \in Nat : a = u.text
  BY BoundsNat DEF Histories
<1>12. PICK g \in Nat : g = u.reasoning
  BY BoundsNat DEF Histories
<1>13. /\ n = 0 \/ n = a + 1
       /\ (IF n = 0 THEN a ELSE n) = u0.text
       /\ n = 0 <=> ~ content
  BY <1>3, <1>10, <1>11 DEF Part
<1>14. /\ m = 0 \/ m = g + 1
       /\ (IF m = 0 THEN g ELSE m) = u0.reasoning
       /\ m = 0 <=> ~ reasoning
  BY <1>4, <1>10, <1>12 DEF Part
<1>15. /\ At(c, s, d) /\ Hears(d, a) /\ Thinks(s, d, g) /\ Named(u)
       /\ Holds(s.toolCallByIndex, d, u, u.last)
  BY <1>11, <1>12 DEF Carries
<1>16. At(c, s1, d) /\ Thinks(s1, d, g)
  <2>1. /\ s1.events = s.events /\ s1.curBlockType = s.curBlockType
        /\ s1.curBlockIndex = s.curBlockIndex /\ s1.nextBlockIndex = s.nextBlockIndex
        /\ s1.thinkingBlockStopped = s.thinkingBlockStopped
    BY <1>5 DEF Finished, Converters
  <2> QED BY <1>15, <2>1 DEF At, Agree, Thinks
<1>17. PICK calls : calls = s.toolCallByIndex
  OBVIOUS
<1>18. Holds(calls, d, u0, u.last)
  BY <1>10, <1>15, <1>17 DEF Holds
<1>19. PICK x : /\ At(c, s2, x) /\ Hears(x, IF n = 0 THEN a ELSE n) /\ Thinks(s2, x, g)
                /\ Holds(calls, x, u0, IF n = 0 THEN u.last ELSE None)
  BY <1>6, <1>9, <1>13, <1>15, <1>16, <1>18, ContentAt
<1>20. PICK b \in Nat : b = u0.text
  BY <1>9, BoundsNat DEF Histories
<1>21. PICK last : last = IF n = 0 THEN u.last ELSE None
  OBVIOUS
<1>22. Hears(x, b) /\ Holds(calls, x, u0, last)
  BY <1>13, <1>19, <1>20, <1>21
<1>23. PICK y : /\ At(c, s3, y) /\ Hears(y, b) /\ Thinks(s3, y, IF m = 0 THEN g ELSE m)
                /\ Holds(calls, y, u0, IF m = 0 THEN last ELSE None)
  BY <1>7, <1>9, <1>14, <1>19, <1>22, ReasoningAt
<1>24. PICK h \in Nat : h = u0.reasoning
  BY <1>9, BoundsNat DEF Histories
<1>25. Thinks(s3, y, h) /\ Holds(calls, y, u0, u0.last)
  BY <1>10, <1>13, <1>14, <1>21, <1>23, <1>24
<1>26. Carries(c, s3, y, u0, b, h)
  BY <1>9, <1>10, <1>15, <1>17, <1>23, <1>25 DEF Carries, Named
<1>27. PICK q : q = AllHandled(s3, ds)
  OBVIOUS
<1>28. Carried(c, q, w, b, h)
  <2>1. w = AllSent(u0, ds) /\ ds \in DeltaSeqs(u0)
    BY <1>2
  <2>2. Ready(c, s3, u0)
    BY <1>9, <1>a DEF Ready
  <2> QED BY <1>26, <1>27, <2>1, <2>2, EntriesAt
<1>29. w.text = b /\ w.reasoning = h /\ w \in Histories
  <2>1. tidy => ~ w.mixed
    BY <1>a
  <2>2. w = AllSent(u0, ds) /\ ds \in DeltaSeqs(u0)
    BY <1>2
  <2>3. /\ q \in Converters /\ w \in Histories /\ Tracks(q, w) /\ Follows(q, w)
        /\ Good(c, q, tidy, ToolsSeen(q)) /\ Recalls(s3, q, q.toolCallByIndex)
        /\ w.text = u0.text /\ w.reasoning = u0.reasoning
    BY <1>9, <1>27, <2>1, <2>2, Entries
  <2> QED BY <1>20, <1>24, <2>3
<1>30. r = q
  <2>1. chunk = [content |-> n, reasoning |-> m, tools |-> ds, finish |-> finish]
    BY <1>3, <1>4, <1>20, <1>24, <1>29 DEF Part
  <2>2. HandleChunk(s, chunk) = q
    BY <1>5, <1>6, <1>7, <1>27, <2>1, ChunkIs
  <2> QED BY <1>0, <2>2
<1> QED BY <1>28, <1>29, <1>30

-----------------------------------------------------------------------------
(* HandleStreamEnd.                                                        *)
Tale(c, s, x, u, calls, m, g) ==
    At(c, s, x) /\ Hears(x, m) /\ Thinks(s, x, g) /\ Holds(calls, x, u, None)

LEMMA StoppedStill ==
  ASSUME NEW c, NEW s \in Converters, NEW d, NEW u, NEW calls, NEW m \in Nat, NEW g \in Nat,
         Tale(c, s, d, u, calls, m, g), NEW r, r = StopBlock(s)
  PROVE  /\ \E x : Tale(c, r, x, u, calls, m, g)
         /\ r \in Converters /\ Framed(s, r) /\ r.curBlockType = NoBlock
         /\ r.nextBlockIndex = s.nextBlockIndex
<1>1. At(c, s, d) /\ Hears(d, m) /\ Thinks(s, d, g) /\ Holds(calls, d, u, None)
  BY DEF Tale
<1>2. PICK x : At(c, r, x) /\ Keeps(d.blocks, x.blocks)
  BY <1>1, StoppedAt
<1>3. s.thinkingBlockStopped => r.thinkingBlockStopped
  BY <1>1, StoppedAt
<1>4. d.blocks \in Seq(Blocks) /\ x.blocks \in Seq(Blocks)
  BY <1>1, <1>2, AtGood
<1>5. Retains(d.blocks, x.blocks)
  BY <1>2, <1>4, KeepsBlock DEF Retains
<1>6. Holds(calls, x, u, None)
  BY <1>1, <1>5, HoldsStill
<1>7. Hears(x, m) /\ Thinks(r, x, g)
  BY <1>1, <1>2, <1>3 DEF Keeps, Hears, Thinks
<1>8. PICK ids : ids = ToolsOf(d)
  OBVIOUS
<1>9. PICK tidy \in BOOLEAN : tidy = FALSE
  OBVIOUS
<1>10. Good(c, s, tidy, ids)
  BY <1>1, <1>8, <1>9, AtGood
<1>11. /\ r \in Converters /\ Framed(s, r) /\ r.curBlockType = NoBlock
       /\ r.nextBlockIndex = s.nextBlockIndex
  BY <1>10, Stopped
<1> QED BY <1>2, <1>6, <1>7, <1>11 DEF Tale

(* A fragment of the converter's own is no part of the answer.             *)
LEMMA NotedStill ==
  ASSUME NEW c, NEW s \in Converters, NEW d, NEW u, NEW calls, NEW m \in Nat, NEW g \in Nat,
         Tale(c, s, d, u, calls, m, g), s.curBlockType = "text" \/ s.nextBlockIndex < MaxBlocks,
         NEW by \in {"filler", "interrupted"}, NEW f \in Fragments, f = Fragment(by, 1),
         NEW r, r = Delta(EnsureBlock(s, "text"), "text_delta", f)
  PROVE  /\ \E x : Tale(c, r, x, u, calls, m, g)
         /\ r \in Converters /\ Framed(s, r) /\ r.curBlockType = "text"
<1>1. At(c, s, d) /\ Hears(d, m) /\ Thinks(s, d, g) /\ Holds(calls, d, u, None)
  BY DEF Tale
<1>2. PICK t \in {"text", "thinking"} : t = "text"
  OBVIOUS
<1>3. PICK k : k = Sse!DeltaOf[t]
  OBVIOUS
<1>4. r = Delta(EnsureBlock(s, t), k, f) /\ (s.curBlockType = t \/ s.nextBlockIndex < MaxBlocks)
  BY <1>2, <1>3, DeltaNames
<1>5. PICK x : At(c, r, x) /\ Adds(d.blocks, x.blocks, f)
  BY <1>1, <1>3, <1>4, SpokenAt
<1>6. s.thinkingBlockStopped => r.thinkingBlockStopped
  BY <1>1, <1>3, <1>4, SpokenAt
<1>7. f \notin Spoken("text") /\ f \notin Spoken("reasoning")
  <2>1. by # "text" /\ by # "reasoning"
    OBVIOUS
  <2> QED BY <2>1, SpokenByNobody
<1>8. Hears(x, m) /\ Thinks(r, x, g)
  BY <1>1, <1>5, <1>6, <1>7 DEF Adds, More, Hears, Thinks
<1>9. Holds(calls, x, u, None)
  BY <1>1, <1>5, HoldsStill DEF Adds
<1>10. PICK ids : ids = ToolsOf(d)
  OBVIOUS
<1>11. PICK tidy \in BOOLEAN : tidy = FALSE
  OBVIOUS
<1>12. Good(c, s, tidy, ids)
  BY <1>1, <1>10, <1>11, AtGood
<1>13. /\ r \in Converters /\ Framed(s, r) /\ Good(c, r, tidy, ids)
       /\ r.curBlockType = "text" /\ r.nextBlockIndex > 0
  BY <1>12, Noted
<1> QED BY <1>5, <1>8, <1>9, <1>13 DEF Tale

LEMMA EndAt ==
  ASSUME NEW c, NEW s \in Converters, NEW d, s.nextBlockIndex < MaxBlocks, NEW u,
         NEW m \in Nat, NEW g \in Nat, Carries(c, s, d, u, m, g), NEW r, r = HandleStreamEnd(s)
  PROVE  \E y : /\ Runs(c, r.events, y, FALSE) /\ Hears(y, m) /\ Thinks(r, y, g)
                /\ Holds(s.toolCallByIndex, y, u, None)
<1>1. PICK calls : calls = s.toolCallByIndex
  OBVIOUS
<1>2. PICK s0 : s0 = [s EXCEPT !.finalized = TRUE]
  OBVIOUS
<1>3. /\ s0 \in Converters /\ s0.events = s.events /\ s0.curBlockType = s.curBlockType
      /\ s0.curBlockIndex = s.curBlockIndex /\ s0.nextBlockIndex = s.nextBlockIndex
      /\ s0.thinkingBlockStopped = s.thinkingBlockStopped
  BY <1>2 DEF Converters
<1>4. Tale(c, s0, d, u, calls, m, g)
  <2>1. At(c, s0, d) /\ Thinks(s0, d, g) /\ Hears(d, m)
    BY <1>3 DEF Carries, At, Agree, Thinks
  <2>2. Holds(calls, d, u, u.last) /\ Retains(d.blocks, d.blocks)
    BY <1>1 DEF Carries, Retains
  <2>3. Holds(calls, d, u, None)
    BY <2>2, HoldsStill
  <2> QED BY <2>1, <2>3 DEF Tale
<1>5. PICK s1 : s1 = StopBlock(s0)
  OBVIOUS
<1>6. /\ \E x : Tale(c, s1, x, u, calls, m, g)
      /\ s1 \in Converters /\ Framed(s0, s1) /\ s1.curBlockType = NoBlock
      /\ s1.nextBlockIndex = s0.nextBlockIndex
  BY <1>3, <1>4, <1>5, StoppedStill
<1>7. PICK s2 : s2 = Interrupt(s1)
  OBVIOUS
<1>8. /\ \E x : Tale(c, s2, x, u, calls, m, g)
      /\ s2 \in Converters /\ (s2.curBlockType = "text" \/ s2.nextBlockIndex < MaxBlocks)
  <2>1. s1.nextBlockIndex < MaxBlocks
    BY <1>3, <1>6
  <2>2. CASE ~ s1.streamInterrupted
    <3>1. s2 = s1
      BY <1>7, <2>2 DEF Interrupt
    <3> QED BY <1>6, <2>1, <3>1
  <2>3. CASE s1.streamInterrupted
    <3>1. PICK by \in {"filler", "interrupted"} : by = "interrupted"
      OBVIOUS
    <3>2. PICK f \in Fragments : f = Fragment(by, 1)
      BY FragmentIn, BoundsNat DEF Sources
    <3>3. s2 = Delta(EnsureBlock(s1, "text"), "text_delta", f)
      BY <1>7, <2>3, <3>1, <3>2 DEF Interrupt, Marker
    <3>4. PICK x : Tale(c, s1, x, u, calls, m, g)
      BY <1>6
    <3>5. /\ \E z : Tale(c, s2, z, u, calls, m, g)
          /\ s2 \in Converters /\ Framed(s1, s2) /\ s2.curBlockType = "text"
      BY <1>6, <2>1, <3>2, <3>3, <3>4, NotedStill
    <3> QED BY <3>5
  <2> QED BY <2>2, <2>3
<1>9. PICK s3 : s3 = FillEmpty(s2)
  OBVIOUS
<1>10. /\ \E x : Tale(c, s3, x, u, calls, m, g)
       /\ s3 \in Converters
  <2>1. PICK x : Tale(c, s2, x, u, calls, m, g)
    BY <1>8
  <2>2. CASE ~ NothingSaid(s2)
    <3>1. s3 = s2
      BY <1>9, <2>2 DEF FillEmpty
    <3> QED BY <1>8, <3>1
  <2>3. CASE NothingSaid(s2)
    <3>1. PICK by \in {"filler", "interrupted"} : by = "filler"
      OBVIOUS
    <3>2. PICK f \in Fragments : f = Fragment(by, 1)
      BY FragmentIn, BoundsNat DEF Sources
    <3>3. PICK t : t = Delta(EnsureBlock(s2, "text"), "text_delta", f)
      OBVIOUS
    <3>4. s3 = StopBlock(t)
      BY <1>9, <2>3, <3>1, <3>2, <3>3 DEF FillEmpty, Filler
    <3>5. /\ \E z : Tale(c, t, z, u, calls, m, g)
          /\ t \in Converters /\ Framed(s2, t) /\ t.curBlockType = "text"
      BY <1>8, <2>1, <3>2, <3>3, NotedStill
    <3>6. PICK z : Tale(c, t, z, u, calls, m, g)
      BY <3>5
    <3>7. /\ \E y : Tale(c, s3, y, u, calls, m, g)
          /\ s3 \in Converters /\ Framed(t, s3) /\ s3.curBlockType = NoBlock
          /\ s3.nextBlockIndex = t.nextBlockIndex
      BY <3>4, <3>5, <3>6, StoppedStill
    <3> QED BY <3>7
  <2> QED BY <2>2, <2>3
<1>11. PICK x : Tale(c, s3, x, u, calls, m, g)
  BY <1>10
<1>12. At(c, s3, x) /\ x \in Clients /\ x.phase = "streaming"
  BY <1>11, AtGood DEF Tale
<1>13. PICK reason \in Reasons : reason = StopReason(s3)
  BY DEF StopReason, Reasons
<1>14. PICK z : z = Sse!Apply(x, Sse!MessageDelta(reason))
  OBVIOUS
<1>15. PICK y : y = Sse!Apply(z, Sse!MessageStop)
  OBVIOUS
<1>16. z.phase = "closing" /\ y.blocks = x.blocks
  BY <1>12, <1>14, <1>15, Closed
<1>17. PICK t : t = Emit(s3, Sse!MessageDelta(reason))
  OBVIOUS
<1>18. /\ t \in Converters /\ t.events = Append(s3.events, Sse!MessageDelta(reason))
       /\ t.thinkingBlockStopped = s3.thinkingBlockStopped
  BY <1>10, <1>17, OtherEvents, Emitted
<1>19. r = Emit(t, Sse!MessageStop)
  BY <1>2, <1>5, <1>7, <1>9, <1>13, <1>17 DEF HandleStreamEnd
<1>20. /\ r.events = Append(t.events, Sse!MessageStop)
       /\ r.thinkingBlockStopped = t.thinkingBlockStopped
  <2>1. PICK q : q = Emit(t, Sse!MessageStop)
    OBVIOUS
  <2>2. /\ q.events = Append(t.events, Sse!MessageStop)
        /\ q.thinkingBlockStopped = t.thinkingBlockStopped
    BY <1>18, <2>1, OtherEvents, Emitted
  <2> QED BY <1>19, <2>1, <2>2
<1>21. PICK tidy \in BOOLEAN : tidy = FALSE
  OBVIOUS
<1>22. Runs(c, t.events, z, tidy)
  <2>1. s3.events \in Seq(Sse!Events)
    BY <1>10 DEF Converters
  <2> QED BY <1>12, <1>14, <1>18, <1>21, <2>1, RunsOn DEF At
<1>23. Runs(c, r.events, y, tidy)
  <2>1. t.events \in Seq(Sse!Events)
    BY <1>18 DEF Converters
  <2> QED BY <1>15, <1>16, <1>20, <1>21, <1>22, <2>1, RunsOn
<1>24. Hears(y, m) /\ Thinks(r, y, g) /\ Holds(calls, y, u, None)
  BY <1>11, <1>16, <1>18, <1>20 DEF Tale, Hears, Thinks, Holds
<1> QED BY <1>1, <1>21, <1>23, <1>24

-----------------------------------------------------------------------------
(* What the client the pending events lead to has of what the model sent:  *)
(* the text it has heard; of the reasoning all that came before the answer *)
(* began; and each call in a block with its own arguments, the call whose  *)
(* entry came last in the last block.                                      *)
Tells(s, d, u) ==
    /\ Hears(d, u.text) /\ Thinks(s, d, u.reasoning) /\ Named(u)
    /\ Holds(s.toolCallByIndex, d, u, IF s.finalized THEN None ELSE u.last)

Whole == \E d : Runs(client, sc.events, d, FALSE) /\ Tells(sc, d, sent)

LEMMA TellsStill ==
  ASSUME NEW s, NEW r, NEW d, NEW x, NEW u, Tells(s, d, u), x.blocks = d.blocks,
         r.thinkingBlockStopped = s.thinkingBlockStopped,
         r.toolCallByIndex = s.toolCallByIndex, r.finalized = s.finalized
  PROVE  Tells(r, x, u)
<1>1. Hears(x, u.text) /\ Thinks(r, x, u.reasoning) /\ Named(u)
  BY DEF Tells, Hears, Thinks
<1>2. PICK last : last = IF s.finalized THEN None ELSE u.last
  OBVIOUS
<1>3. Holds(s.toolCallByIndex, d, u, last)
  BY <1>2 DEF Tells
<1>4. Holds(r.toolCallByIndex, x, u, last)
  BY <1>3 DEF Holds
<1> QED BY <1>1, <1>2, <1>4 DEF Tells

(* Between two handlers, the client has it.                                *)
LEMMA Complete ==
  ASSUME Whole, Idle
  PROVE  Tells(sc, client, sent)
<1>1. PICK tidy \in BOOLEAN : tidy = FALSE
  OBVIOUS
<1>2. PICK d : Runs(client, <<>>, d, tidy) /\ Tells(sc, d, sent)
  BY <1>1 DEF Whole, Idle
<1> QED BY <1>2, RunsNowhere

LEMMA WholeInit ==
  ASSUME Init
  PROVE  Whole
<1>1. sc.events = <<>> /\ ~ sc.thinkingBlockStopped /\ \A k \in Calls : sc.toolCallByIndex[k] = None
  BY DEF Init, NewStreamConverter
<1>2. sent.text = 0 /\ sent.reasoning = 0 /\ \A k \in Calls : sent.args[k] = 0
  BY DEF Init, NothingSent
<1>3. client.blocks = <<>>
  BY DEF Init, Sse!NewClient
<1>4. ASSUME NEW S PROVE PickedFrom(client.blocks, S) = <<>>
  <2>1. PICK bs : bs = client.blocks
    OBVIOUS
  <2>2. [i \in DOMAIN bs |-> Picked(bs[i].content, S)] = <<>>
    BY <1>3, <2>1
  <2> QED BY <2>1, <2>2, FlattenEmpty DEF PickedFrom
<1>5. Hears(client, sent.text) /\ Thinks(sc, client, sent.reasoning)
  BY <1>2, <1>4, InOrderNothing DEF Hears, Thinks
<1>6. Holds(sc.toolCallByIndex, client, sent, IF sc.finalized THEN None ELSE sent.last)
  BY <1>1 DEF Holds
<1>7. PICK tidy \in BOOLEAN : tidy = FALSE
  OBVIOUS
<1>8. Runs(client, sc.events, client, tidy)
  BY <1>1, RunsNothing
<1> QED BY <1>2, <1>5, <1>6, <1>7, <1>8 DEF Whole, Tells, Named

LEMMA WholeStart ==
  ASSUME IInv, Whole, Start
  PROVE  Whole'
<1>1. PICK d0 : Runs(client, sc.events, d0, Tidy) /\ Phased(sc, d0)
  BY DEF IInv
<1>2. sc = NewStreamConverter /\ d0 = Sse!NewClient /\ sc.events = <<>>
  BY <1>1 DEF Phased, Start, NewStreamConverter
<1>3. PICK tidied \in BOOLEAN : tidied = Tidy
  BY DEF Tidy
<1>4. client = Sse!NewClient
  BY <1>1, <1>2, <1>3, RunsNowhere
<1>5. PICK tidy \in BOOLEAN : tidy = FALSE
  OBVIOUS
<1>6. PICK s0 : s0 = [sc EXCEPT !.started = TRUE]
  OBVIOUS
<1>7. /\ s0 \in Converters /\ s0.events = <<>> /\ s0.finalized = sc.finalized
      /\ s0.toolCallByIndex = sc.toolCallByIndex
      /\ s0.thinkingBlockStopped = sc.thinkingBlockStopped
  BY <1>2, <1>6 DEF IInv, Converters
<1>8. PICK s1 : s1 = Emit(s0, Sse!MessageStart)
  OBVIOUS
<1>9. /\ s1 \in Converters /\ Framed(s0, s1) /\ s1.events = Append(s0.events, Sse!MessageStart)
      /\ s1.thinkingBlockStopped = s0.thinkingBlockStopped
  BY <1>7, <1>8, OtherEvents, Emitted
<1>10. PICK r : r = Emit(s1, Sse!Ping)
  OBVIOUS
<1>11. /\ r \in Converters /\ Framed(s1, r) /\ r.events = Append(s1.events, Sse!Ping)
       /\ r.thinkingBlockStopped = s1.thinkingBlockStopped
  BY <1>9, <1>10, OtherEvents, Emitted
<1>12. sc' = r /\ sent' = sent /\ client' = client
  BY <1>6, <1>8, <1>10 DEF Start
<1>13. PICK x : x = Sse!Apply(client, Sse!MessageStart)
  OBVIOUS
<1>14. x \in Clients /\ x.phase = "streaming" /\ x.blocks = client.blocks /\ client.phase = "idle"
  <2>1. PICK e : e = Sse!MessageStart
    OBVIOUS
  <2>2. e.type = "message_start" /\ e \in Sse!Events
    BY <2>1, OtherEvents DEF Sse!MessageStart
  <2>3. x = [Sse!NewClient EXCEPT !.phase = "streaming", !.last = e]
    BY <1>13, <2>1, <2>2 DEF Sse!Apply
  <2>4. x \in Clients
    BY <1>4, <1>13, <2>1, <2>2, NewClientTyped, EventTyped
  <2>5. client.phase = "idle" /\ client.blocks = <<>>
    BY <1>4 DEF Sse!NewClient
  <2>6. x.phase = "streaming" /\ x.blocks = <<>>
    BY <2>3 DEF Sse!NewClient
  <2> QED BY <2>4, <2>5, <2>6
<1>15. PICK y : y = Sse!Apply(x, Sse!Ping)
  OBVIOUS
<1>16. y.blocks = client.blocks
  <2>1. PICK e : e = Sse!Ping
    OBVIOUS
  <2>2. e.type = "ping"
    BY <2>1 DEF Sse!Ping
  <2>3. y = [x EXCEPT !.last = e]
    BY <1>14, <1>15, <2>1, <2>2 DEF Sse!Apply, Clients
  <2> QED BY <1>14, <2>3 DEF Clients
<1>17. Runs(client, s1.events, x, tidy)
  <2>1. Runs(client, <<>>, client, tidy)
    BY RunsNothing
  <2>2. <<>> \in Seq(Sse!Events)
    OBVIOUS
  <2> QED BY <1>5, <1>7, <1>9, <1>13, <1>14, <2>1, <2>2, RunsOn
<1>18. Runs(client, r.events, y, tidy)
  <2>1. s1.events \in Seq(Sse!Events)
    BY <1>9 DEF Converters
  <2> QED BY <1>5, <1>11, <1>14, <1>15, <1>17, <2>1, RunsOn
<1>19. Tells(sc, client, sent)
  BY <1>2, Complete DEF Idle
<1>20. /\ r.toolCallByIndex = sc.toolCallByIndex /\ r.finalized = sc.finalized
       /\ r.thinkingBlockStopped = sc.thinkingBlockStopped
  BY <1>7, <1>9, <1>11 DEF Framed
<1>21. Tells(r, y, sent)
  BY <1>16, <1>19, <1>20, TellsStill
<1> QED BY <1>5, <1>12, <1>18, <1>21 DEF Whole

LEMMA WholeChunk ==
  ASSUME IInv, Whole, Chunk
  PROVE  Whole'
<1>1. /\ Idle /\ Running /\ ~ sc.finalized /\ sent.finish = NoFinish /\ sent.chunks < MaxChunks
      /\ client' = client
  BY DEF Chunk
<1>2. PICK content \in BOOLEAN, reasoning \in BOOLEAN :
         \E tools \in DeltaSeqs(SendContent(sent, content, reasoning)) :
            LET u == FoldLeft(SendDelta, SendContent(sent, content, reasoning), tools) IN
            \E finish \in Finishes(u) :
               /\ sent' = [u EXCEPT !.finish = finish]
               /\ sc' = HandleChunk(sc, [content |-> IF content THEN u.text ELSE 0,
                                         reasoning |-> IF reasoning THEN u.reasoning ELSE 0,
                                         tools |-> tools, finish |-> finish])
  BY DEF Chunk
<1>3. PICK ds \in DeltaSeqs(SendContent(sent, content, reasoning)) :
         LET u == FoldLeft(SendDelta, SendContent(sent, content, reasoning), ds) IN
         \E finish \in Finishes(u) :
            /\ sent' = [u EXCEPT !.finish = finish]
            /\ sc' = HandleChunk(sc, [content |-> IF content THEN u.text ELSE 0,
                                      reasoning |-> IF reasoning THEN u.reasoning ELSE 0,
                                      tools |-> ds, finish |-> finish])
  BY <1>2
<1>4. PICK w : w = AllSent(SendContent(sent, content, reasoning), ds)
  OBVIOUS
<1>5. PICK finish \in Finishes(w) :
         /\ sent' = [w EXCEPT !.finish = finish]
         /\ sc' = HandleChunk(sc, [content |-> IF content THEN w.text ELSE 0,
                                   reasoning |-> IF reasoning THEN w.reasoning ELSE 0,
                                   tools |-> ds, finish |-> finish])
  BY <1>3, <1>4 DEF AllSent
<1>6. PICK chunk : chunk = [content |-> IF content THEN w.text ELSE 0,
                            reasoning |-> IF reasoning THEN w.reasoning ELSE 0,
                            tools |-> ds, finish |-> finish]
  OBVIOUS
<1>7. PICK r : r = HandleChunk(sc, chunk)
  OBVIOUS
<1>8. PICK v : v = [w EXCEPT !.finish = finish]
  OBVIOUS
<1>9. sc' = r /\ sent' = v
  BY <1>5, <1>6, <1>7, <1>8
<1>10. PICK tidy \in BOOLEAN : tidy = FALSE
  OBVIOUS
<1>11. /\ Agree(sc, client) /\ Tracks(sc, sent) /\ Follows(sc, sent)
       /\ sc.finishReason = sent.finish /\ Good(client, sc, tidy, ToolsSeen(sc))
  BY <1>1, Resting
<1>12. sc \in Converters /\ sent \in Histories
  BY DEF IInv
<1>13. sc.finishReason = NoFinish /\ (tidy => ~ w.mixed)
  BY <1>1, <1>10, <1>11
<1>14. /\ r \in Converters /\ v \in Histories /\ v.mixed = w.mixed
       /\ Good(client, r, tidy, ToolsSeen(r))
       /\ r.finishReason = v.finish /\ Tracks(r, v) /\ Follows(r, v)
       /\ v.finish = "tool_calls" => \E x \in Calls : v.name[x] # None
       /\ r.started = sc.started /\ r.finalized = sc.finalized
       /\ r.streamInterrupted = sc.streamInterrupted
  BY <1>1, <1>4, <1>6, <1>7, <1>8, <1>11, <1>12, <1>13, ChunkHandled
<1>15. Carries(client, sc, client, sent, sent.text, sent.reasoning)
  <2>1. Tells(sc, client, sent)
    BY <1>1, Complete
  <2>2. Holds(sc.toolCallByIndex, client, sent, sent.last)
    BY <1>1, <2>1 DEF Tells
  <2>3. Runs(client, sc.events, client, tidy)
    BY <1>1, RunsNothing DEF Idle
  <2>4. At(client, sc, client)
    BY <1>10, <1>11, <2>3 DEF At
  <2> QED BY <2>1, <2>2, <2>4 DEF Tells, Carries
<1>16. w \in Histories /\ Carried(client, r, w, w.text, w.reasoning)
  <2>1. Ready(client, sc, sent)
    BY <1>10, <1>11, <1>12 DEF Ready
  <2>2. w \in Histories /\ Carried(client, HandleChunk(sc, chunk), w, w.text, w.reasoning)
    BY <1>1, <1>4, <1>6, <1>13, <1>15, <2>1, ChunkAt
  <2> QED BY <1>7, <2>2
<1>17. PICK x : Carries(client, r, x, w, w.text, w.reasoning)
  BY <1>16 DEF Carried
<1>18. /\ v.text = w.text /\ v.reasoning = w.reasoning /\ v.args = w.args /\ v.name = w.name
       /\ v.last = w.last
  BY <1>8, <1>16 DEF Histories
<1>19. /\ Runs(client, r.events, x, FALSE) /\ Hears(x, w.text) /\ Thinks(r, x, w.reasoning)
       /\ Named(w) /\ Holds(r.toolCallByIndex, x, w, w.last)
  BY <1>17 DEF Carries, At
<1>20. Named(v) /\ Holds(r.toolCallByIndex, x, v, v.last)
  BY <1>14, <1>18, <1>19 DEF Named, Holds
<1>21. Tells(r, x, v)
  BY <1>1, <1>14, <1>18, <1>19, <1>20 DEF Tells
<1> QED BY <1>1, <1>9, <1>19, <1>21 DEF Whole

LEMMA WholeEnd ==
  ASSUME IInv, Whole, End
  PROVE  Whole'
<1>1. /\ Idle /\ Running /\ ~ sc.finalized /\ sc' = HandleStreamEnd(sc)
      /\ client' = client /\ sent' = sent
  BY DEF End
<1>2. PICK tidy \in BOOLEAN : tidy = FALSE
  OBVIOUS
<1>3. /\ Agree(sc, client) /\ Tracks(sc, sent) /\ Follows(sc, sent)
      /\ Good(client, sc, tidy, ToolsSeen(sc))
  BY <1>1, Resting
<1>4. sc \in Converters /\ sent \in Histories
  BY DEF IInv
<1>5. sc.nextBlockIndex < MaxBlocks
  BY <1>3, <1>4, Unbusy
<1>6. sc.accumulatedText # 0 => sc.nextBlockIndex > 0
  BY <1>3 DEF Follows
<1>7. PICK r : r = HandleStreamEnd(sc)
  OBVIOUS
<1>8. PICK s0 : s0 = [sc EXCEPT !.finalized = TRUE]
  OBVIOUS
<1>9. /\ r \in Converters /\ Framed(s0, r)
      /\ \E d : /\ Runs(client, r.events, d, tidy) /\ d \in Clients /\ d.phase = "stopped"
                /\ d.reason = StopReason(r) /\ ToolsOf(d) = ToolsSeen(r)
  BY <1>2, <1>3, <1>4, <1>5, <1>6, <1>7, <1>8, EndHandled
<1>10. r.finalized /\ r.toolCallByIndex = sc.toolCallByIndex
  BY <1>4, <1>8, <1>9 DEF Framed, Converters
<1>11. PICK m \in Nat : m = sent.text
  BY <1>4, BoundsNat DEF Histories
<1>12. PICK g \in Nat : g = sent.reasoning
  BY <1>4, BoundsNat DEF Histories
<1>13. Carries(client, sc, client, sent, m, g) /\ Named(sent)
  <2>1. Tells(sc, client, sent)
    BY <1>1, Complete
  <2>2. Holds(sc.toolCallByIndex, client, sent, sent.last)
    BY <1>1, <2>1 DEF Tells
  <2>3. Runs(client, sc.events, client, tidy)
    BY <1>1, RunsNothing DEF Idle
  <2>4. At(client, sc, client)
    BY <1>2, <1>3, <2>3 DEF At
  <2> QED BY <1>11, <1>12, <2>1, <2>2, <2>4 DEF Tells, Carries
<1>14. PICK y : /\ Runs(client, r.events, y, FALSE) /\ Hears(y, m) /\ Thinks(r, y, g)
                /\ Holds(sc.toolCallByIndex, y, sent, None)
  BY <1>4, <1>5, <1>7, <1>13, EndAt
<1>15. Tells(r, y, sent)
  BY <1>10, <1>11, <1>12, <1>13, <1>14 DEF Tells
<1>16. sc' = r
  BY <1>1, <1>7
<1> QED BY <1>1, <1>14, <1>15, <1>16 DEF Whole

LEMMA WholeSetInterrupted ==
  ASSUME IInv, Whole, SetInterrupted
  PROVE  Whole'
<1>1. /\ sc' = [sc EXCEPT !.streamInterrupted = TRUE] /\ client' = client /\ sent' = sent
  BY DEF SetInterrupted
<1>2. PICK r : r = [sc EXCEPT !.streamInterrupted = TRUE]
  OBVIOUS
<1>3. /\ r.events = sc.events /\ r.toolCallByIndex = sc.toolCallByIndex
      /\ r.finalized = sc.finalized /\ r.thinkingBlockStopped = sc.thinkingBlockStopped
  BY <1>2 DEF IInv, Converters
<1>4. PICK d : Runs(client, sc.events, d, FALSE) /\ Tells(sc, d, sent)
  BY DEF Whole
<1>5. Tells(r, d, sent)
  BY <1>3, <1>4, TellsStill
<1> QED BY <1>1, <1>2, <1>3, <1>4, <1>5 DEF Whole

LEMMA WholeEmitError ==
  ASSUME IInv, Whole, EmitError
  PROVE  Whole'
<1>1. /\ Idle /\ Running /\ ~ sc.finalized /\ sc' = Emit(sc, Sse!Error)
      /\ client' = client /\ sent' = sent
  BY DEF EmitError
<1>2. PICK tidy \in BOOLEAN : tidy = FALSE
  OBVIOUS
<1>3. client \in Clients /\ client.phase = "streaming"
  BY <1>1, Resting DEF Agree
<1>4. PICK r : r = Emit(sc, Sse!Error)
  OBVIOUS
<1>5. /\ r \in Converters /\ Framed(sc, r) /\ r.events = Append(sc.events, Sse!Error)
      /\ r.thinkingBlockStopped = sc.thinkingBlockStopped
  BY <1>4, OtherEvents, Emitted DEF IInv
<1>6. PICK e : e = Sse!Error
  OBVIOUS
<1>7. e.type = "error"
  BY <1>6 DEF Sse!Error
<1>8. PICK d : d = Sse!Apply(client, e)
  OBVIOUS
<1>9. d = [client EXCEPT !.last = e, !.phase = "failed"]
  BY <1>3, <1>7, <1>8 DEF Sse!Apply, Clients
<1>10. d.blocks = client.blocks
  BY <1>3, <1>9 DEF Clients
<1>11. Runs(client, r.events, d, tidy)
  <2>1. Runs(client, <<>>, client, tidy)
    BY RunsNothing
  <2>2. sc.events = <<>> /\ <<>> \in Seq(Sse!Events)
    BY <1>1 DEF Idle
  <2> QED BY <1>2, <1>3, <1>5, <1>6, <1>8, <2>1, <2>2, RunsOn
<1>12. Tells(sc, client, sent)
  BY <1>1, Complete
<1>13. Tells(r, d, sent)
  BY <1>5, <1>10, <1>12, TellsStill DEF Framed
<1> QED BY <1>1, <1>2, <1>4, <1>11, <1>13 DEF Whole

LEMMA WholeDeliver ==
  ASSUME IInv, Whole, Deliver
  PROVE  Whole'
<1>1. /\ sc.events # <<>> /\ sc' = [sc EXCEPT !.events = Tail(sc.events)] /\ sent' = sent
      /\ client' = Sse!Apply(client, Head(sc.events))
  BY DEF Deliver, Idle
<1>2. PICK tidy \in BOOLEAN : tidy = FALSE
  OBVIOUS
<1>3. PICK d : Runs(client, sc.events, d, tidy) /\ Tells(sc, d, sent)
  BY <1>2 DEF Whole
<1>4. PICK es : es = Tail(sc.events)
  OBVIOUS
<1>5. Runs(client', es, d, tidy)
  <2>1. sc.events \in Seq(Sse!Events)
    BY DEF IInv, Converters
  <2>2. Runs(Sse!Apply(client, Head(sc.events)), Tail(sc.events), d, tidy)
    BY <1>1, <1>3, <2>1, RunsFrom
  <2> QED BY <1>1, <1>4, <2>2
<1>6. PICK r : r = [sc EXCEPT !.events = es]
  OBVIOUS
<1>7. /\ r.events = es /\ r.toolCallByIndex = sc.toolCallByIndex
      /\ r.finalized = sc.finalized /\ r.thinkingBlockStopped = sc.thinkingBlockStopped
  BY <1>6 DEF IInv, Converters
<1>8. Tells(r, d, sent)
  BY <1>3, <1>7, TellsStill
<1>9. sc' = r
  BY <1>1, <1>4, <1>6
<1> QED BY <1>1, <1>2, <1>5, <1>7, <1>8, <1>9 DEF Whole

LEMMA Wholly == Spec => [](IInv /\ Whole)
<1>1. Init => Whole
  BY WholeInit
<1>2. IInv /\ Whole /\ [Next]_vars => Whole'
  <2> SUFFICES ASSUME IInv, Whole, [Next]_vars
               PROVE  Whole'
    OBVIOUS
  <2>1. CASE Start
    BY <2>1, WholeStart
  <2>2. CASE Chunk
    BY <2>2, WholeChunk
  <2>3. CASE End
    BY <2>3, WholeEnd
  <2>4. CASE SetInterrupted
    BY <2>4, WholeSetInterrupted
  <2>5. CASE EmitError
    BY <2>5, WholeEmitError
  <2>6. CASE Deliver
    BY <2>6, WholeDeliver
  <2>7. CASE UNCHANGED vars
    BY <2>7 DEF vars, Whole
  <2> QED BY <2>1, <2>2, <2>3, <2>4, <2>5, <2>6, <2>7 DEF Next
<1> QED BY <1>1, <1>2, Invariance, PTL DEF Spec

(* However text, reasoning and the entries of tool calls follow one another*)
(* in however many chunks, the client has, between two handlers, all of the*)
(* text in order, a prefix of the reasoning and, unless the upstream mixes *)
(* the entries of two calls, every call in a block of its own with exactly *)
(* its arguments.  (handleToolCallDelta drops a call whose name has not    *)
(* been declared: the hypothesis is that none can be dropped.)             *)
THEOREM ContentArrives ==
  ASSUME Declared \in {{}, Names}
  PROVE  Spec => []ContentComplete
<1>1. IInv /\ Whole => ContentComplete
  <2> SUFFICES ASSUME IInv, Whole, Idle
               PROVE  /\ Received("text") = InOrder(sent.text, "text")
                      /\ IsPrefix(Received("reasoning"), InOrder(sent.reasoning, "reasoning"))
                      /\ ~ sent.mixed => \A c \in Calls : sent.name[c] # None => CallComplete(c)
    BY DEF ContentComplete
  <2>1. Tells(sc, client, sent)
    BY Complete
  <2>2. Received("text") = InOrder(sent.text, "text")
    BY <2>1 DEF Tells, Hears, Received
  <2>3. IsPrefix(Received("reasoning"), InOrder(sent.reasoning, "reasoning"))
    <3>1. PICK n \in Nat : n = sent.reasoning
      BY BoundsNat DEF IInv, Histories
    <3>2. PICK k \in 0 .. n : Received("reasoning") = InOrder(k, "reasoning")
      BY <2>1, <3>1 DEF Tells, Thinks, Received
    <3>3. PICK a : a = InOrder(k, "reasoning")
      OBVIOUS
    <3>4. PICK b : b = InOrder(n, "reasoning")
      OBVIOUS
    <3>5. /\ Len(a) = k /\ Len(b) = n /\ k \in Nat /\ k <= n
          /\ \A i \in 1 .. k : a[i] = b[i]
      BY <3>3, <3>4 DEF InOrder
    <3>6. PICK S : a \in Seq(S) /\ b \in Seq(S)
      <4>1. PICK S : S = {Fragment("reasoning", i) : i \in Nat}
        OBVIOUS
      <4>2. a \in Seq(S) /\ b \in Seq(S)
        BY <3>3, <3>4, <3>5, <4>1 DEF InOrder
      <4> QED BY <4>2
    <3>7. SubSeq(a, 1, Len(a)) = SubSeq(b, 1, Len(a))
      <4>1. PICK x : x = SubSeq(a, 1, k)
        OBVIOUS
      <4>2. PICK y : y = SubSeq(b, 1, k)
        OBVIOUS
      <4>3. /\ x \in Seq(S) /\ y \in Seq(S) /\ Len(x) = k /\ Len(y) = k
            /\ \A i \in 1 .. k : x[i] = a[i] /\ y[i] = b[i]
        BY <3>5, <3>6, <4>1, <4>2
      <4>4. x = [i \in 1 .. k |-> x[i]] /\ y = [i \in 1 .. k |-> y[i]]
        BY <4>3
      <4>5. \A i \in 1 .. k : x[i] = y[i]
        BY <3>5, <4>3
      <4>6. x = y
        BY <4>4, <4>5, Zenon
      <4> QED BY <3>5, <4>1, <4>2, <4>6
    <3>8. IsPrefix(a, b)
      BY <3>5, <3>7 DEF IsPrefix
    <3> QED BY <3>1, <3>2, <3>3, <3>4, <3>8
  <2>4. ASSUME NEW c \in Calls, ~ sent.mixed, sent.name[c] # None
        PROVE  CallComplete(c)
    <3>1. sc.toolCallByIndex[c] # None
      BY <2>4 DEF IInv, Remembers, Tracks
    <3>2. PICK i : Block(client.blocks, c, sent.name[c], sent.args[c], i)
      BY <2>1, <2>4, <3>1 DEF Tells, Holds
    <3> QED BY <3>2 DEF Block, CallComplete, ToolBlocks, Voiced
  <2> QED BY <2>2, <2>3, <2>4
<1> QED BY <1>1, Wholly, PTL

(* Whatever the names of the calls, the reasoning of a stream that has     *)
(* ended is cached whole, by finalizeStream, under exactly what the client *)
(* will send back: the ids of the tool_use blocks it has assembled, and the*)
(* text it has received.                                                   *)
THEOREM ReplayServed == Spec => []CacheServesReplay
<1>1. IInv /\ Whole => CacheServesReplay
  <2> SUFFICES ASSUME IInv, Whole, Ended, sent.reasoning > 0
               PROVE  /\ ToolBlocks # {} =>
                           cached.tools = [ids |-> {client.blocks[i].tool.id : i \in ToolBlocks},
                                           reasoning |-> sent.reasoning]
                      /\ Received("text") # <<>> =>
                           cached.text = [said |-> Len(Received("text")),
                                          reasoning |-> sent.reasoning]
    BY DEF CacheServesReplay
  <2>1. sc.finalized /\ ToolsOf(client) = ToolsSeen(sc) /\ Idle
    BY AtTheEnd
  <2>2. ToolsOf(client) = {client.blocks[i].tool.id : i \in ToolBlocks}
    BY DEF ToolsOf, ToolBlocks
  <2>3. sc.accumulatedReasoning = sent.reasoning /\ sc.accumulatedText = sent.text
    BY DEF IInv, Remembers, Tracks
  <2>4. cached = CacheAtEnd(sc)
    BY <2>1 DEF IInv
  <2>5. ASSUME ToolBlocks # {}
        PROVE  cached.tools = [ids |-> {client.blocks[i].tool.id : i \in ToolBlocks},
                               reasoning |-> sent.reasoning]
    <3>1. ToolsSeen(sc) # {}
      BY <2>1, <2>2, <2>5
    <3>2. cached.tools = [ids |-> ToolsSeen(sc), reasoning |-> sent.reasoning]
      BY <2>3, <2>4, <3>1 DEF CacheAtEnd
    <3> QED BY <2>1, <2>2, <3>2
  <2>6. ASSUME Received("text") # <<>>
        PROVE  cached.text = [said |-> Len(Received("text")), reasoning |-> sent.reasoning]
    <3>1. PICK n \in Nat : n = sent.text
      BY BoundsNat DEF IInv, Histories
    <3>2. Received("text") = InOrder(n, "text")
      BY <2>1, <3>1, Complete DEF Tells, Hears, Received
    <3>3. n # 0
      BY <2>6, <3>2, InOrderNothing
    <3>4. Len(Received("text")) = n
      BY <3>2 DEF InOrder
    <3>5. cached.text = [said |-> n, reasoning |-> sent.reasoning]
      BY <2>3, <2>4, <3>1, <3>3 DEF CacheAtEnd
    <3> QED BY <3>4, <3>5
  <2> QED BY <2>5, <2>6
<1> QED BY <1>1, Wholly, PTL
=============================================================================
