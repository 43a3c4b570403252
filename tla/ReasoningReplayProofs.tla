----------------------- MODULE ReasoningReplayProofs -----------------------
(***************************************************************************)
(* Proofs about the reasoning an Anthropic client's history is completed   *)
(* with, for any number of turns, edits and losses of the cache: an entry  *)
(* of the cache tells whose reasoning it is, and a message whose turn it   *)
(* is from, whatever the client has done to the history.  The request made *)
(* of the history is well formed and has every result once.                *)
(***************************************************************************)
EXTENDS ReasoningReplay, FiniteSetTheorems, SequenceTheorems, FunctionTheorems,
        WellFoundedInduction, TLAPS

(* No call is made twice in a turn, and the turns share none.              *)
CallOrders == {s \in SeqsUpTo2(Calls) : IsInjective(s)}

Maybe(S) == {<<>>} \cup {<<x>> : x \in S}

TurnsApart ==
    /\ turns \in Seq([reasoning : Maybe(1 .. Len(turns)), text : Maybe(Texts),
                      calls : CallOrders])
    /\ \A n \in DOMAIN turns : turns[n].reasoning \in {<<>>, <<n>>}
    /\ \A m, n \in DOMAIN turns : m # n =>
          ToSet(turns[m].calls) \cap ToSet(turns[n].calls) = {}
    /\ split \cup forgotten \subseteq DOMAIN turns

(* A message of the assistant is what is left of its turn.                 *)
OfItsTurn(msg) ==
    /\ msg.of \in DOMAIN turns
    /\ msg.thinking \in {<<>>, <<msg.of>>}
    /\ ToSet(msg.calls) \subseteq ToSet(turns[msg.of].calls)
    /\ msg.of \notin split => msg.calls = turns[msg.of].calls
    /\ msg.calls # <<>> => msg.text \in {<<>>, turns[msg.of].text}

Messages ==
    [role : {"user", "assistant"}, thinking : Maybe(1 .. Len(turns)),
     text : Maybe(Texts \cup {Ask, Blank}), calls : CallOrders,
     results : Seq([id : Calls, n : Seq(Nat)]), of : 0 .. Len(turns)]

Kept ==
    {msg \in Messages :
       IF msg.role = "user" THEN msg.calls = <<>> /\ msg.thinking = <<>> ELSE OfItsTurn(msg)}

(* An entry is the reasoning of a turn that made these calls, or said this *)
(* text, and the calls of a turn have theirs until it is forgotten.        *)
TierIsOwn ==
    /\ DOMAIN toolStore = CacheKeys
    /\ \A ids \in CacheKeys : toolStore[ids] # <<>> =>
          \E n \in DOMAIN turns : toolStore[ids] = <<n>> /\ ToSet(turns[n].calls) = ids
    /\ \A n \in DOMAIN turns \ forgotten :
          turns[n].calls # <<>> /\ turns[n].reasoning # <<>> =>
             toolStore[ToSet(turns[n].calls)] = <<n>>

TextTierIsOwn ==
    /\ DOMAIN textStore = Texts \cup {Blank}
    /\ \A t \in Texts \cup {Blank} : textStore[t] # <<>> =>
          \E n \in DOMAIN turns : textStore[t] = <<n>> /\ turns[n].text = <<t>>

(* The inductive invariant.  ReplayIsExact alone says nothing of the turns *)
(* that have left the history, whose calls may come back in no other.      *)
IInv ==
    /\ TurnsApart
    /\ history \in Seq(Kept)
    /\ TierIsOwn /\ TextTierIsOwn

-----------------------------------------------------------------------------
(* Facts about calls and sequences.                                        *)

LEMMA OrderShape ==
  ASSUME NEW s \in CallOrders, s # <<>>
  PROVE  \/ \E a \in Calls : Len(s) = 1 /\ s = <<a>> /\ ToSet(s) = {a}
         \/ \E a, b \in Calls : Len(s) = 2 /\ a # b /\ s = <<a, b>> /\ ToSet(s) = {a, b}
<1>1. s \in [1 .. 1 -> Calls] \/ s \in [1 .. 2 -> Calls]
  BY DEF CallOrders, SeqsUpTo2
<1>2. CASE s \in [1 .. 1 -> Calls]
  <2>1. DOMAIN s = {1} /\ s[1] \in Calls /\ Len(s) = 1
    BY <1>2
  <2>2. s = <<s[1]>>
    BY <1>2
  <2>3. ToSet(s) = {s[1]}
    BY <2>1 DEF ToSet
  <2> QED BY <2>1, <2>2, <2>3
<1>3. CASE s \in [1 .. 2 -> Calls]
  <2>1. DOMAIN s = {1, 2} /\ s[1] \in Calls /\ s[2] \in Calls /\ Len(s) = 2
    BY <1>3
  <2>2. s = <<s[1], s[2]>>
    BY <1>3
  <2>3. ToSet(s) = {s[1], s[2]}
    BY <2>1 DEF ToSet
  <2>4. s[1] # s[2]
    BY <2>1 DEF CallOrders, IsInjective
  <2> QED BY <2>1, <2>2, <2>3, <2>4
<1> QED BY <1>1, <1>2, <1>3

LEMMA OrderKey ==
  ASSUME NEW s \in CallOrders, s # <<>>
  PROVE  CacheKey(s) \in CacheKeys /\ ToSet(s) \in CacheKeys /\ ToSet(s) # {}
<1>1. \/ \E a \in Calls : ToSet(s) = {a}
      \/ \E a, b \in Calls : a # b /\ ToSet(s) = {a, b}
  BY OrderShape
<1>2. ASSUME NEW a \in Calls
      PROVE  {a} \in CacheKeys
  <2>1. Cardinality({a}) = 1 /\ {a} \in SUBSET Calls
    BY FS_Singleton
  <2> QED BY <2>1 DEF CacheKeys
<1>3. ASSUME NEW a \in Calls, NEW b \in Calls, a # b
      PROVE  {a, b} \in CacheKeys
  <2>1. IsFiniteSet({a}) /\ Cardinality({a}) = 1
    BY FS_Singleton
  <2>2. Cardinality({a} \cup {b}) = IF b \in {a} THEN Cardinality({a}) ELSE Cardinality({a}) + 1
    BY <2>1, FS_AddElement, Zenon
  <2>3. {a} \cup {b} = {a, b} /\ b \notin {a}
    BY <1>3
  <2>4. Cardinality({a, b}) = 2
    <3>1. Cardinality({a} \cup {b}) = Cardinality({a}) + 1
      BY <2>2, <2>3, Zenon
    <3>2. Cardinality({a, b}) = Cardinality({a}) + 1
      BY <2>3, <3>1, Zenon
    <3>3. PICK k : k = Cardinality({a})
      OBVIOUS
    <3>4. k = 1 /\ Cardinality({a, b}) = k + 1
      BY <2>1, <3>2, <3>3, Zenon
    <3> QED BY <3>4
  <2>5. {a, b} \in SUBSET Calls
    OBVIOUS
  <2> QED BY <2>4, <2>5 DEF CacheKeys
<1> QED BY <1>1, <1>2, <1>3 DEF CacheKey

LEMMA OneCall ==
  ASSUME NEW a \in Calls
  PROVE  <<a>> \in CallOrders /\ <<a>> # <<>> /\ ToSet(<<a>>) = {a}
<1>1. <<a>> \in [1 .. 1 -> Calls] /\ DOMAIN <<a>> = {1}
  OBVIOUS
<1>2. IsInjective(<<a>>)
  BY <1>1 DEF IsInjective
<1>3. ToSet(<<a>>) = {a}
  BY <1>1 DEF ToSet
<1> QED BY <1>1, <1>2, <1>3 DEF CallOrders, SeqsUpTo2

LEMMA NoCall == <<>> \in CallOrders /\ ToSet(<<>>) = {}
<1>1. DOMAIN <<>> = {}
  OBVIOUS
<1> QED BY <1>1 DEF CallOrders, SeqsUpTo2, IsInjective, ToSet

LEMMA InsertIn ==
  ASSUME NEW S, NEW s \in Seq(S), NEW i \in 1 .. Len(s) + 1, NEW e \in S
  PROVE  InsertAt(s, i, e) \in Seq(S)
<1>1. Len(s) \in Nat /\ \A j \in 1 .. Len(s) : s[j] \in S
  BY LenProperties, ElementOfSeq
<1>2. SubSeq(s, 1, i - 1) \in Seq(S) /\ SubSeq(s, i, Len(s)) \in Seq(S)
  BY <1>1, SubSeqProperties
<1>3. <<e>> \in Seq(S)
  OBVIOUS
<1>4. SubSeq(s, 1, i - 1) \o <<e>> \in Seq(S)
  BY <1>2, <1>3, ConcatProperties
<1> QED BY <1>2, <1>4, ConcatProperties DEF InsertAt

LEMMA RemoveIn ==
  ASSUME NEW S, NEW s \in Seq(S), NEW i \in 1 .. Len(s)
  PROVE  RemoveAt(s, i) \in Seq(S)
<1>1. Len(s) \in Nat /\ \A j \in 1 .. Len(s) : s[j] \in S
  BY LenProperties, ElementOfSeq
<1>2. SubSeq(s, 1, i - 1) \in Seq(S) /\ SubSeq(s, i + 1, Len(s)) \in Seq(S)
  BY <1>1, SubSeqProperties
<1> QED BY <1>2, ConcatProperties DEF RemoveAt

-----------------------------------------------------------------------------
(* Messages and turns.                                                     *)

TurnsOf(n) == [reasoning : Maybe(1 .. n), text : Maybe(Texts), calls : CallOrders]

LEMMA TurnShape ==
  ASSUME TurnsApart
  PROVE  /\ Len(turns) \in Nat /\ DOMAIN turns = 1 .. Len(turns)
         /\ \A n \in DOMAIN turns : turns[n] \in TurnsOf(Len(turns))
<1>1. turns \in Seq(TurnsOf(Len(turns)))
  BY DEF TurnsApart, TurnsOf
<1>2. Len(turns) \in Nat /\ DOMAIN turns = 1 .. Len(turns)
  BY <1>1, LenProperties
<1> QED BY <1>1, <1>2, ElementOfSeq

LEMMA HistoryShape ==
  ASSUME history \in Seq(Kept)
  PROVE  /\ Len(history) \in Nat /\ DOMAIN history = 1 .. Len(history)
         /\ \A i \in DOMAIN history : history[i] \in Kept
         /\ ToSet(history) \subseteq Kept
<1>1. /\ Len(history) \in Nat /\ DOMAIN history = 1 .. Len(history)
      /\ \A i \in DOMAIN history : history[i] \in Kept
  BY LenProperties, ElementOfSeq
<1> QED BY <1>1 DEF ToSet

(* Nothing is taken from the turns, and no split is undone.                *)
Grows ==
    /\ Len(turns) <= Len(turns')
    /\ \A n \in DOMAIN turns : turns'[n] = turns[n]
    /\ split \subseteq split'

(* Whatever was said and left in the history stays that of its turn.       *)
LEMMA KeptGrows ==
  ASSUME TurnsApart, TurnsApart', Grows
  PROVE  Kept \subseteq Kept'
<1>1. /\ Len(turns) \in Nat /\ DOMAIN turns = 1 .. Len(turns)
      /\ Len(turns') \in Nat /\ DOMAIN turns' = 1 .. Len(turns')
      /\ Len(turns) <= Len(turns')
      /\ \A n \in DOMAIN turns : n \in DOMAIN turns' /\ turns'[n] = turns[n]
  <2>1. Len(turns') \in Nat /\ DOMAIN turns' = 1 .. Len(turns')
    BY LenProperties DEF TurnsApart
  <2> QED BY <2>1, TurnShape DEF Grows
<1> SUFFICES ASSUME NEW msg \in Kept
             PROVE  msg \in Kept'
  OBVIOUS
<1>2. msg \in Messages'
  <2>1. msg \in Messages
    BY DEF Kept
  <2>2. Maybe(1 .. Len(turns)) \subseteq Maybe(1 .. Len(turns'))
    BY <1>1 DEF Maybe
  <2>3. 0 .. Len(turns) \subseteq 0 .. Len(turns')
    BY <1>1
  <2> QED BY <2>1, <2>2, <2>3 DEF Messages
<1>3. OfItsTurn(msg) => OfItsTurn(msg)'
  BY <1>1 DEF OfItsTurn, Grows
<1> QED BY <1>2, <1>3 DEF Kept

(* An answer of the upstream asks for calls no turn has asked for.         *)
LEMMA NewTurn ==
  ASSUME TurnsApart, UNCHANGED <<split, forgotten>>,
         NEW calls \in CallSeqs, NEW text \in Maybe(Texts),
         NEW reasoning \in {<<>>, <<Len(turns) + 1>>},
         turns' = Append(turns, [reasoning |-> reasoning, text |-> text, calls |-> calls])
  PROVE  /\ TurnsApart' /\ Grows
         /\ Len(turns') = Len(turns) + 1 /\ DOMAIN turns' = 1 .. Len(turns) + 1
         /\ turns'[Len(turns) + 1] = [reasoning |-> reasoning, text |-> text, calls |-> calls]
         /\ calls \in CallOrders
         /\ \A n \in DOMAIN turns : ToSet(turns[n].calls) \cap ToSet(calls) = {}
<1> DEFINE turn == [reasoning |-> reasoning, text |-> text, calls |-> calls]
           n == Len(turns) + 1
<1>1. /\ Len(turns) \in Nat /\ DOMAIN turns = 1 .. Len(turns)
      /\ \A m \in DOMAIN turns : turns[m] \in TurnsOf(Len(turns))
  BY TurnShape
<1>2. calls \in CallOrders
  <2>1. calls \in SeqsUpTo2(Calls \ UsedCalls) /\ IsInjective(calls)
    BY DEF CallSeqs
  <2>2. calls \in SeqsUpTo2(Calls)
    BY <2>1 DEF SeqsUpTo2
  <2> QED BY <2>1, <2>2 DEF CallOrders
<1>3. ToSet(calls) \subseteq Calls \ UsedCalls
  <2>1. calls \in SeqsUpTo2(Calls \ UsedCalls)
    BY DEF CallSeqs
  <2>2. CASE calls = <<>>
    BY <2>2, NoCall
  <2>3. CASE calls # <<>>
    <3>1. calls \in [1 .. 1 -> Calls \ UsedCalls] \/ calls \in [1 .. 2 -> Calls \ UsedCalls]
      BY <2>1, <2>3 DEF SeqsUpTo2
    <3> QED BY <3>1 DEF ToSet
  <2> QED BY <2>2, <2>3
<1>4. \A m \in DOMAIN turns : ToSet(turns[m].calls) \cap ToSet(calls) = {}
  BY <1>3 DEF UsedCalls
<1>5. TurnsOf(Len(turns)) \subseteq TurnsOf(n) /\ turn \in TurnsOf(n)
  BY <1>1, <1>2 DEF TurnsOf, Maybe
<1>6. turns \in Seq(TurnsOf(n))
  BY <1>5, SeqMonotonic DEF TurnsApart, TurnsOf
<1>7. /\ turns' \in Seq(TurnsOf(n)) /\ Len(turns') = n
      /\ \A m \in 1 .. Len(turns) : turns'[m] = turns[m]
      /\ turns'[n] = turn
  BY <1>5, <1>6, AppendProperties
<1>8. DOMAIN turns' = 1 .. n
  BY <1>7, LenProperties
<1>9. Grows
  BY <1>1, <1>7 DEF Grows
<1>10. TurnsApart'
  <2>1. (turns \in Seq([reasoning : Maybe(1 .. Len(turns)), text : Maybe(Texts),
                        calls : CallOrders]))'
    BY <1>7 DEF TurnsOf
  <2>2. \A m \in DOMAIN turns' : turns'[m].reasoning \in {<<>>, <<m>>}
    BY <1>1, <1>7, <1>8 DEF TurnsApart
  <2>3. ASSUME NEW l \in DOMAIN turns', NEW m \in DOMAIN turns', l # m
        PROVE  ToSet(turns'[l].calls) \cap ToSet(turns'[m].calls) = {}
    <3>1. /\ (l \in DOMAIN turns /\ turns'[l] = turns[l]) \/ (l = n /\ turns'[l] = turn)
          /\ (m \in DOMAIN turns /\ turns'[m] = turns[m]) \/ (m = n /\ turns'[m] = turn)
      BY <1>1, <1>7, <1>8
    <3>2. turn.calls = calls
      OBVIOUS
    <3>3. \A i, j \in DOMAIN turns : i # j =>
             ToSet(turns[i].calls) \cap ToSet(turns[j].calls) = {}
      BY DEF TurnsApart
    <3> HIDE DEF turn, n
    <3> QED BY <3>1, <3>2, <3>3, <1>4, <2>3
  <2>4. split' \cup forgotten' \subseteq DOMAIN turns'
    BY <1>1, <1>8 DEF TurnsApart
  <2> QED BY <2>1, <2>2, <2>3, <2>4 DEF TurnsApart
<1> QED BY <1>2, <1>4, <1>7, <1>8, <1>9, <1>10

-----------------------------------------------------------------------------
(* The steps.                                                              *)

LEMMA IInvInit == Init => IInv
<1> SUFFICES ASSUME Init PROVE IInv
  OBVIOUS
<1>1. TurnsApart
  BY DEF Init, TurnsApart
<1>2. UserMessage(<<>>, <<Ask>>) \in Kept
  <2>1. <<>> \in CallOrders
    BY NoCall
  <2>2. Len(turns) = 0
    BY DEF Init
  <2> QED BY <2>1, <2>2 DEF UserMessage, Kept, Messages, Maybe
<1>3. history \in Seq(Kept)
  BY <1>2 DEF Init
<1>4. TierIsOwn
  BY DEF Init, TierIsOwn
<1>5. TextTierIsOwn
  BY DEF Init, TextTierIsOwn
<1> QED BY <1>1, <1>3, <1>4, <1>5 DEF IInv

LEMMA RespondStep ==
  ASSUME IInv, Respond
  PROVE  IInv'
<1>1. PICK n : n = Len(turns) + 1
  OBVIOUS
<1>2. PICK calls \in CallSeqs, text \in Maybe(Texts), reasoning \in {<<>>, <<n>>} :
         /\ toolStore' = Put(toolStore, calls, reasoning)
         /\ textStore' = PutText(textStore, text, reasoning)
         /\ history' = Append(history, ConvertOpenAIMessage(n, reasoning, text, calls))
         /\ turns' = Append(turns, [reasoning |-> reasoning, text |-> text, calls |-> calls])
         /\ UNCHANGED <<split, forgotten>>
  BY <1>1 DEF Respond, Maybe
<1> DEFINE turn == [reasoning |-> reasoning, text |-> text, calls |-> calls]
<1>3. /\ TurnsApart /\ history \in Seq(Kept) /\ TierIsOwn /\ TextTierIsOwn
      /\ Len(turns) \in Nat /\ DOMAIN turns = 1 .. Len(turns)
      /\ \A m \in DOMAIN turns : turns[m] \in TurnsOf(Len(turns))
  BY TurnShape DEF IInv
<1>4. /\ TurnsApart' /\ Grows
      /\ Len(turns') = n /\ DOMAIN turns' = 1 .. n /\ turns'[n] = turn
      /\ calls \in CallOrders
      /\ \A m \in DOMAIN turns : ToSet(turns[m].calls) \cap ToSet(calls) = {}
  BY <1>1, <1>2, <1>3, NewTurn
<1>5. \A m \in DOMAIN turns : turns'[m] = turns[m] /\ m \in DOMAIN turns' /\ m # n
  BY <1>1, <1>3, <1>4 DEF Grows
<1>6. history' \in Seq(Kept')
  <2>1. PICK msg : msg = ConvertOpenAIMessage(n, reasoning, text, calls)
    OBVIOUS
  <2>2. msg \in Messages'
    <3>1. reasoning \in Maybe(1 .. n) /\ n \in 0 .. n
      BY <1>1, <1>3 DEF Maybe
    <3>2. (IF text = <<>> /\ calls = <<>> THEN <<Blank>> ELSE text) \in Maybe(Texts \cup {Ask, Blank})
      BY DEF Maybe
    <3> QED BY <2>1, <3>1, <3>2, <1>4 DEF ConvertOpenAIMessage, AssistantMessage, Messages
  <2>3. OfItsTurn(msg)'
    <3>1. /\ msg.of = n /\ msg.thinking = reasoning /\ msg.calls = calls
          /\ calls # <<>> => msg.text = text
      BY <2>1 DEF ConvertOpenAIMessage, AssistantMessage
    <3>2. /\ turns'[n].calls = calls /\ turns'[n].text = text /\ n \in DOMAIN turns'
      BY <1>1, <1>3, <1>4
    <3> QED BY <3>1, <3>2 DEF OfItsTurn
  <2>4. msg \in Kept'
    <3>1. msg.role = "assistant"
      BY <2>1 DEF ConvertOpenAIMessage, AssistantMessage
    <3> QED BY <3>1, <2>2, <2>3 DEF Kept
  <2>5. history \in Seq(Kept')
    BY <1>3, <1>4, KeptGrows, SeqMonotonic
  <2> QED BY <1>2, <2>1, <2>4, <2>5, AppendProperties
<1>7. TierIsOwn'
  <2>1. CASE reasoning = <<>> \/ calls = <<>>
    <3>1. toolStore' = toolStore
      BY <1>2, <2>1 DEF Put
    <3>2. \A m \in DOMAIN turns' : m \in DOMAIN turns \/ m = n
      BY <1>1, <1>3, <1>4
    <3>3. turns'[n].calls = <<>> \/ turns'[n].reasoning = <<>>
      BY <1>4, <2>1
    <3>4. forgotten' = forgotten
      BY <1>2
    <3> HIDE DEF turn
    <3>5. \A ids \in CacheKeys : toolStore'[ids] # <<>> =>
             \E m \in DOMAIN turns' : toolStore'[ids] = <<m>> /\ ToSet(turns'[m].calls) = ids
      BY <3>1, <1>3, <1>5 DEF TierIsOwn
    <3>6. \A m \in DOMAIN turns' \ forgotten' :
             turns'[m].calls # <<>> /\ turns'[m].reasoning # <<>> =>
                toolStore'[ToSet(turns'[m].calls)] = <<m>>
      BY <3>1, <3>2, <3>3, <3>4, <1>3, <1>5 DEF TierIsOwn
    <3> QED BY <3>1, <3>5, <3>6, <1>3 DEF TierIsOwn
  <2>2. CASE reasoning # <<>> /\ calls # <<>>
    <3>1. /\ ToSet(calls) \in CacheKeys /\ reasoning = <<n>>
          /\ toolStore' = [toolStore EXCEPT ![ToSet(calls)] = <<n>>]
      BY <1>2, <1>4, <2>2, OrderKey DEF Put, CacheKey
    <3>2. /\ DOMAIN toolStore' = CacheKeys /\ toolStore'[ToSet(calls)] = <<n>>
          /\ \A ids \in CacheKeys \ {ToSet(calls)} : toolStore'[ids] = toolStore[ids]
      BY <3>1, <1>3 DEF TierIsOwn
    <3>3. turns'[n].calls = calls /\ n \in DOMAIN turns'
      BY <1>1, <1>3, <1>4
    <3>4. ASSUME NEW ids \in CacheKeys, toolStore'[ids] # <<>>
          PROVE  \E m \in DOMAIN turns' : toolStore'[ids] = <<m>> /\ ToSet(turns'[m].calls) = ids
      <4>1. CASE ids = ToSet(calls)
        BY <4>1, <3>2, <3>3
      <4>2. CASE ids # ToSet(calls)
        BY <4>2, <3>2, <3>4, <1>3, <1>5 DEF TierIsOwn
      <4> QED BY <4>1, <4>2
    <3>5. ASSUME NEW m \in DOMAIN turns' \ forgotten',
                 turns'[m].calls # <<>>, turns'[m].reasoning # <<>>
          PROVE  toolStore'[ToSet(turns'[m].calls)] = <<m>>
      <4>1. CASE m = n
        BY <4>1, <3>2, <3>3
      <4>2. CASE m # n
        <5>1. m \in DOMAIN turns \ forgotten /\ turns'[m] = turns[m]
          BY <4>2, <1>1, <1>2, <1>3, <1>4, <1>5
        <5>2. turns[m].calls \in CallOrders
          BY <5>1, <1>3 DEF TurnsOf
        <5>3. ToSet(turns[m].calls) \in CacheKeys /\ ToSet(turns[m].calls) # {}
          BY <5>1, <5>2, <3>5, OrderKey
        <5>4. ToSet(turns[m].calls) # ToSet(calls)
          BY <5>1, <5>3, <1>4
        <5>5. toolStore[ToSet(turns[m].calls)] = <<m>>
          BY <5>1, <3>5, <1>3 DEF TierIsOwn
        <5> QED BY <5>1, <5>3, <5>4, <5>5, <3>2
      <4> QED BY <4>1, <4>2
    <3> QED BY <3>2, <3>4, <3>5 DEF TierIsOwn
  <2> QED BY <2>1, <2>2
<1>8. TextTierIsOwn'
  <2>1. CASE reasoning = <<>> \/ text = <<>>
    <3>1. textStore' = textStore
      BY <1>2, <2>1 DEF PutText
    <3> QED BY <3>1, <1>3, <1>5 DEF TextTierIsOwn
  <2>2. CASE reasoning # <<>> /\ text # <<>>
    <3>1. PICK t \in Texts : text = <<t>>
      BY <2>2 DEF Maybe
    <3>2. textStore' = [textStore EXCEPT ![t] = <<n>>]
      BY <1>2, <2>2, <3>1 DEF PutText
    <3>3. /\ DOMAIN textStore' = Texts \cup {Blank} /\ textStore'[t] = <<n>>
          /\ \A u \in (Texts \cup {Blank}) \ {t} : textStore'[u] = textStore[u]
      BY <3>1, <3>2, <1>3 DEF TextTierIsOwn
    <3>4. turns'[n].text = <<t>> /\ n \in DOMAIN turns'
      BY <1>1, <1>3, <1>4, <3>1
    <3> HIDE DEF turn
    <3>5. ASSUME NEW u \in Texts \cup {Blank}, textStore'[u] # <<>>
          PROVE  \E m \in DOMAIN turns' : textStore'[u] = <<m>> /\ turns'[m].text = <<u>>
      <4>1. CASE u = t
        BY <4>1, <3>3, <3>4
      <4>2. CASE u # t
        BY <4>2, <3>3, <3>5, <1>3, <1>5 DEF TextTierIsOwn
      <4> QED BY <4>1, <4>2
    <3> QED BY <3>3, <3>5 DEF TextTierIsOwn
  <2> QED BY <2>1, <2>2
<1> QED BY <1>4, <1>6, <1>7, <1>8 DEF IInv

(* The turns and the tiers are left alone, and no split is undone.         *)
LEMMA HistoryStep ==
  ASSUME IInv, UNCHANGED <<toolStore, textStore, turns, forgotten>>,
         split \subseteq split', split' \subseteq DOMAIN turns
  PROVE  /\ Kept \subseteq Kept'
         /\ history' \in Seq(Kept') => IInv'
<1>1. TurnsApart' /\ Grows
  <2>1. Len(turns) \in Nat
    BY TurnShape DEF IInv
  <2>2. turns' = turns /\ forgotten' = forgotten
    OBVIOUS
  <2>3. TurnsApart'
    BY <2>2 DEF IInv, TurnsApart
  <2> QED BY <2>1, <2>2, <2>3 DEF Grows
<1>2. TierIsOwn' /\ TextTierIsOwn'
  BY DEF IInv, TierIsOwn, TextTierIsOwn
<1>3. Kept \subseteq Kept'
  BY <1>1, KeptGrows DEF IInv
<1> QED BY <1>1, <1>2, <1>3 DEF IInv

LEMMA AnswerStep ==
  ASSUME IInv, Answer
  PROVE  IInv'
<1>1. /\ Kept \subseteq Kept'
      /\ history' \in Seq(Kept') => IInv'
  <2>1. /\ UNCHANGED <<toolStore, textStore, turns, forgotten>> /\ split' = split
        /\ split' \subseteq DOMAIN turns
    BY DEF Answer, IInv, TurnsApart
  <2> QED BY <2>1, HistoryStep
<1>2. PICK ids \in SeqsUpTo2(UsedCalls), text \in {<<>>, <<Ask>>} :
         history' = Append(history, UserMessage([i \in DOMAIN ids |->
                              [id |-> ids[i], n |-> <<Len(turns), i>>]], text))
  BY DEF Answer
<1>3. UsedCalls \subseteq Calls /\ Len(turns) \in Nat
  <2>1. \A n \in DOMAIN turns : ToSet(turns[n].calls) \subseteq Calls
    <3>1. \A n \in DOMAIN turns : turns[n].calls \in CallOrders
      BY TurnShape DEF IInv, TurnsOf
    <3> QED BY <3>1, NoCall, OrderShape
  <2> QED BY <2>1, TurnShape DEF UsedCalls, IInv
<1> DEFINE Result == [id : Calls, n : Seq(Nat)]
           results == [i \in DOMAIN ids |-> [id |-> ids[i], n |-> <<Len(turns), i>>]]
<1>4. results \in Seq(Result)
  <2>1. PICK k \in 0 .. 2 : DOMAIN ids = 1 .. k /\ \A i \in 1 .. k : ids[i] \in Calls
    <3>1. CASE ids = <<>>
      BY <3>1
    <3>2. CASE ids \in [1 .. 1 -> UsedCalls]
      BY <3>2, <1>3
    <3>3. CASE ids \in [1 .. 2 -> UsedCalls]
      BY <3>3, <1>3
    <3> QED BY <3>1, <3>2, <3>3 DEF SeqsUpTo2
  <2>2. ASSUME NEW i \in 1 .. k
        PROVE  [id |-> ids[i], n |-> <<Len(turns), i>>] \in Result
    <3>1. <<Len(turns), i>> \in Seq(Nat) /\ ids[i] \in Calls
      BY <2>1, <1>3
    <3> QED BY <3>1
  <2>3. results \in [1 .. k -> Result]
    BY <2>1, <2>2
  <2> QED BY <2>3, SeqDef
<1>5. UserMessage(results, text) \in Kept
  <2> HIDE DEF results
  <2>1. <<>> \in CallOrders
    BY NoCall
  <2>2. text \in Maybe(Texts \cup {Ask, Blank}) /\ 0 \in 0 .. Len(turns)
    BY <1>3 DEF Maybe
  <2> QED BY <1>4, <2>1, <2>2 DEF UserMessage, Kept, Messages, Maybe
<1>6. history \in Seq(Kept') /\ UserMessage(results, text) \in Kept'
  BY <1>1, <1>5, SeqMonotonic DEF IInv
<1>7. history' \in Seq(Kept')
  BY <1>2, <1>6, AppendProperties
<1> QED BY <1>1, <1>7

LEMMA DropThinkingStep ==
  ASSUME IInv, DropThinking
  PROVE  IInv'
<1>1. /\ Kept \subseteq Kept'
      /\ history' \in Seq(Kept') => IInv'
  <2>1. /\ UNCHANGED <<toolStore, textStore, turns, forgotten>> /\ split' = split
        /\ split' \subseteq DOMAIN turns
    BY DEF DropThinking, IInv, TurnsApart
  <2> QED BY <2>1, HistoryStep
<1>2. PICK i \in DOMAIN history : history' = [history EXCEPT ![i].thinking = <<>>]
  BY DEF DropThinking
<1>3. i \in 1 .. Len(history) /\ history[i] \in Kept
  BY HistoryShape DEF IInv
<1>4. PICK msg : msg = [history[i] EXCEPT !.thinking = <<>>]
  OBVIOUS
<1>5. msg \in Kept
  <2>1. history[i] \in Messages
    BY <1>3 DEF Kept
  <2>2. /\ msg \in Messages /\ msg.thinking = <<>> /\ msg.of = history[i].of
        /\ msg.calls = history[i].calls /\ msg.text = history[i].text
        /\ msg.role = history[i].role
    BY <2>1, <1>4 DEF Messages, Maybe
  <2> QED BY <2>2, <1>3 DEF Kept, OfItsTurn
<1>6. history \in Seq(Kept') /\ msg \in Kept'
  BY <1>1, <1>5, SeqMonotonic DEF IInv
<1>7. history' = [history EXCEPT ![i] = msg]
  BY <1>2, <1>4
<1>8. history' \in Seq(Kept')
  BY <1>3, <1>6, <1>7, ExceptSeq
<1> QED BY <1>1, <1>8

LEMMA DropMessageStep ==
  ASSUME IInv, DropMessage
  PROVE  IInv'
<1>1. /\ Kept \subseteq Kept'
      /\ history' \in Seq(Kept') => IInv'
  <2>1. /\ UNCHANGED <<toolStore, textStore, turns, forgotten>> /\ split' = split
        /\ split' \subseteq DOMAIN turns
    BY DEF DropMessage, IInv, TurnsApart
  <2> QED BY <2>1, HistoryStep
<1>2. PICK i \in 1 .. Len(history) : history' = RemoveAt(history, i)
  BY HistoryShape DEF DropMessage, IInv
<1>3. history \in Seq(Kept')
  BY <1>1, SeqMonotonic DEF IInv
<1> QED BY <1>1, <1>2, <1>3, RemoveIn

(* Each half has a call of the turn, and the turn is marked as split.      *)
LEMMA SplitMessageStep ==
  ASSUME IInv, SplitMessage
  PROVE  IInv'
<1>1. PICK i \in DOMAIN history :
         /\ Len(history[i].calls) = 2
         /\ history' = InsertAt([history EXCEPT ![i].calls = <<history[i].calls[1]>>], i + 1,
                                AssistantMessage(history[i].of, <<>>, <<>>, <<history[i].calls[2]>>))
         /\ split' = split \cup {history[i].of}
         /\ UNCHANGED <<toolStore, textStore, turns, forgotten>>
  BY DEF SplitMessage
<1>2. PICK msg : msg = history[i]
  OBVIOUS
<1>3. i \in 1 .. Len(history) /\ Len(history) \in Nat /\ msg \in Kept /\ msg \in Messages
  BY <1>2, HistoryShape DEF IInv, Kept
<1>4. msg.calls \in CallOrders /\ msg.calls # <<>>
  <2>1. msg.calls \in CallOrders /\ Len(msg.calls) = 2
    BY <1>1, <1>2, <1>3 DEF Messages
  <2>2. ASSUME msg.calls = <<>>
        PROVE  Len(msg.calls) = 0
    BY <2>2
  <2> QED BY <2>1, <2>2
<1>5. OfItsTurn(msg)
  BY <1>3, <1>4 DEF Kept
<1>6. PICK a \in Calls, b \in Calls : msg.calls = <<a, b>> /\ ToSet(msg.calls) = {a, b}
  <2>1. ASSUME NEW c \in Calls, msg.calls = <<c>>, Len(msg.calls) = 1
        PROVE  FALSE
    BY <1>1, <1>2, <2>1
  <2> QED BY <2>1, <1>4, OrderShape
<1>7. /\ Kept \subseteq Kept'
      /\ history' \in Seq(Kept') => IInv'
  <2>1. msg.of \in DOMAIN turns
    BY <1>5 DEF OfItsTurn
  <2>2. split \subseteq split' /\ split' \subseteq DOMAIN turns
    BY <1>1, <1>2, <2>1 DEF IInv, TurnsApart
  <2> QED BY <1>1, <2>2, HistoryStep
<1>8. PICK first : first = [msg EXCEPT !.calls = <<a>>]
  OBVIOUS
<1>9. PICK second : second = AssistantMessage(msg.of, <<>>, <<>>, <<b>>)
  OBVIOUS
<1>10. msg.of \in split' /\ turns' = turns
  BY <1>1, <1>2
<1>11. first \in Kept'
  <2>1. /\ first \in Messages /\ first.calls = <<a>> /\ first.of = msg.of
        /\ first.thinking = msg.thinking /\ first.text = msg.text /\ first.role = msg.role
    BY <1>3, <1>8, OneCall DEF Messages
  <2>2. first \in Messages'
    BY <2>1, <1>10 DEF Messages
  <2>3. ToSet(first.calls) = {a}
    BY <2>1, OneCall
  <2>4. OfItsTurn(first)'
    BY <1>4, <1>5, <1>6, <1>10, <2>1, <2>3 DEF OfItsTurn
  <2>5. first.role # "user"
    BY <1>3, <1>4, <2>1 DEF Kept
  <2> QED BY <2>2, <2>4, <2>5 DEF Kept
<1>12. second \in Kept'
  <2>1. /\ second.calls = <<b>> /\ second.of = msg.of /\ second.thinking = <<>>
        /\ second.text = <<>> /\ second.role = "assistant"
    BY <1>9 DEF AssistantMessage
  <2>2. second \in Messages'
    <3>1. msg.of \in 0 .. Len(turns)
      BY <1>3 DEF Messages
    <3> QED BY <3>1, <1>9, <1>10, OneCall DEF AssistantMessage, Messages, Maybe
  <2>3. ToSet(second.calls) = {b}
    BY <2>1, OneCall
  <2>4. OfItsTurn(second)'
    BY <1>5, <1>6, <1>10, <2>1, <2>3 DEF OfItsTurn
  <2> QED BY <2>1, <2>2, <2>4 DEF Kept
<1>13. history \in Seq(Kept')
  BY <1>7, SeqMonotonic DEF IInv
<1>14. PICK h : h = [history EXCEPT ![i] = first]
  OBVIOUS
<1>15. h \in Seq(Kept') /\ Len(h) = Len(history)
  BY <1>3, <1>11, <1>13, <1>14, ExceptSeq
<1>16. history' = InsertAt(h, i + 1, second)
  <2>1. history[i].calls[1] = a /\ history[i].calls[2] = b
    BY <1>2, <1>6
  <2>2. h = [history EXCEPT ![i].calls = <<a>>]
    BY <1>2, <1>8, <1>14
  <2> QED BY <1>1, <1>2, <1>9, <2>1, <2>2
<1>17. i + 1 \in 1 .. Len(h) + 1
  BY <1>3, <1>15
<1>18. history' \in Seq(Kept')
  BY <1>12, <1>15, <1>16, <1>17, InsertIn
<1> QED BY <1>7, <1>18

(* The turn the entry was for is marked as forgotten.                      *)
LEMMA ForgetToolStep ==
  ASSUME IInv, ForgetTool
  PROVE  IInv'
<1>1. PICK ids \in CacheKeys :
         /\ toolStore[ids] # <<>>
         /\ toolStore' = [toolStore EXCEPT ![ids] = <<>>]
         /\ forgotten' = forgotten \cup ToSet(toolStore[ids])
         /\ UNCHANGED <<history, textStore, turns, split>>
  BY DEF ForgetTool
<1>2. PICK n \in DOMAIN turns : toolStore[ids] = <<n>> /\ ToSet(turns[n].calls) = ids
  BY <1>1 DEF IInv, TierIsOwn
<1>3. forgotten' = forgotten \cup {n}
  BY <1>1, <1>2 DEF ToSet
<1>4. TurnsApart'
  <2>1. split' \cup forgotten' \subseteq DOMAIN turns
    BY <1>1, <1>3 DEF IInv, TurnsApart
  <2>2. turns' = turns
    BY <1>1
  <2> QED BY <2>1, <2>2 DEF IInv, TurnsApart
<1>5. history' \in Seq(Kept')
  <2>1. Grows
    BY <1>1, TurnShape DEF Grows, IInv
  <2> QED BY <1>1, <1>4, <2>1, KeptGrows, SeqMonotonic DEF IInv
<1>6. TierIsOwn'
  <2>1. /\ DOMAIN toolStore' = CacheKeys /\ toolStore'[ids] = <<>>
        /\ \A k \in CacheKeys \ {ids} : toolStore'[k] = toolStore[k]
    BY <1>1 DEF IInv, TierIsOwn
  <2>2. ASSUME NEW k \in CacheKeys, toolStore'[k] # <<>>
        PROVE  \E m \in DOMAIN turns' : toolStore'[k] = <<m>> /\ ToSet(turns'[m].calls) = k
    BY <1>1, <2>1, <2>2 DEF IInv, TierIsOwn
  <2>3. ASSUME NEW m \in DOMAIN turns' \ forgotten',
               turns'[m].calls # <<>>, turns'[m].reasoning # <<>>
        PROVE  toolStore'[ToSet(turns'[m].calls)] = <<m>>
    <3>1. turns' = turns /\ m # n /\ m \in DOMAIN turns \ forgotten
      BY <1>1, <1>3, <2>3
    <3>2. ToSet(turns[m].calls) \in CacheKeys /\ ToSet(turns[m].calls) # {}
      <4>1. turns[m].calls \in CallOrders
        BY <3>1, TurnShape DEF IInv, TurnsOf
      <4> QED BY <4>1, <3>1, <2>3, OrderKey
    <3>3. ToSet(turns[m].calls) \cap ToSet(turns[n].calls) = {}
      BY <3>1 DEF IInv, TurnsApart
    <3>4. toolStore[ToSet(turns[m].calls)] = <<m>>
      BY <3>1, <2>3 DEF IInv, TierIsOwn
    <3> QED BY <1>2, <2>1, <3>1, <3>2, <3>3, <3>4
  <2> QED BY <2>1, <2>2, <2>3 DEF TierIsOwn
<1>7. TextTierIsOwn'
  BY <1>1 DEF IInv, TextTierIsOwn
<1> QED BY <1>4, <1>5, <1>6, <1>7 DEF IInv

LEMMA ForgetTextStep ==
  ASSUME IInv, ForgetText
  PROVE  IInv'
<1>1. PICK t \in Texts :
         /\ textStore' = [textStore EXCEPT ![t] = <<>>]
         /\ UNCHANGED <<history, toolStore, turns, split, forgotten>>
  BY DEF ForgetText
<1>2. TurnsApart' /\ TierIsOwn'
  BY <1>1 DEF IInv, TurnsApart, TierIsOwn
<1>3. history' \in Seq(Kept')
  <2>1. Grows
    BY <1>1, TurnShape DEF Grows, IInv
  <2> QED BY <1>1, <1>2, <2>1, KeptGrows, SeqMonotonic DEF IInv
<1>4. TextTierIsOwn'
  <2>1. /\ DOMAIN textStore' = Texts \cup {Blank} /\ textStore'[t] = <<>>
        /\ \A u \in (Texts \cup {Blank}) \ {t} : textStore'[u] = textStore[u]
    BY <1>1 DEF IInv, TextTierIsOwn
  <2> QED BY <2>1, <1>1 DEF IInv, TextTierIsOwn
<1> QED BY <1>2, <1>3, <1>4 DEF IInv

LEMMA IInvStep == IInv /\ [Next]_vars => IInv'
<1> SUFFICES ASSUME IInv, [Next]_vars PROVE IInv'
  OBVIOUS
<1>1. CASE UNCHANGED vars
  <2>1. split \subseteq split' /\ split' \subseteq DOMAIN turns
    BY <1>1 DEF vars, IInv, TurnsApart
  <2>2. Kept \subseteq Kept' /\ (history' \in Seq(Kept') => IInv')
    BY <1>1, <2>1, HistoryStep DEF vars
  <2>3. history' = history
    BY <1>1 DEF vars
  <2> QED BY <2>2, <2>3, SeqMonotonic DEF IInv
<1> QED BY <1>1, RespondStep, AnswerStep, DropThinkingStep, DropMessageStep,
           SplitMessageStep, ForgetToolStep, ForgetTextStep DEF Next

LEMMA Inductive == Spec => []IInv
<1> QED BY IInvInit, IInvStep, PTL DEF Spec

-----------------------------------------------------------------------------
(* What the invariant says of the histories and the requests.              *)

(* What the upstream is sent with a message that has calls: the thinking   *)
(* that is still there, or the entry for its calls, which no other turn has*)
(* made, or the one for its text, or the placeholder.                      *)
LEMMA SentWithCalls ==
  ASSUME IInv, NEW msg \in ToSet(history), msg.calls # <<>>
  PROVE  /\ OfItsTurn(msg) /\ CacheKey(msg.calls) \in CacheKeys
         /\ msg.thinking # <<>> => ReasoningSent(msg) = <<msg.of>>
         /\ msg.thinking = <<>> =>
               ReasoningSent(msg) = IF GetBest(msg.calls, msg.text) # <<>>
                                    THEN GetBest(msg.calls, msg.text) ELSE <<Placeholder>>
<1>1. msg \in Kept
  BY HistoryShape DEF IInv
<1>2. OfItsTurn(msg)
  BY <1>1 DEF Kept
<1>3. CacheKey(msg.calls) \in CacheKeys
  BY <1>1, OrderKey DEF Kept, Messages
<1>4. msg.thinking # <<>> => msg.thinking = <<msg.of>>
  BY <1>2 DEF OfItsTurn
<1> QED BY <1>2, <1>3, <1>4 DEF ReasoningSent, ConvertAssistantMessage, Assistant

(* The calls of a message tell its turn.                                   *)
LEMMA CallsTellTurn ==
  ASSUME IInv, NEW msg \in ToSet(history), msg.calls # <<>>,
         NEW n \in DOMAIN turns, ToSet(turns[n].calls) = ToSet(msg.calls)
  PROVE  n = msg.of
<1>1. OfItsTurn(msg)
  BY SentWithCalls
<1>2. ToSet(msg.calls) # {}
  BY HistoryShape, OrderKey DEF IInv, Kept, Messages
<1>3. ToSet(msg.calls) \subseteq ToSet(turns[msg.of].calls) /\ msg.of \in DOMAIN turns
  BY <1>1 DEF OfItsTurn
<1> QED BY <1>2, <1>3 DEF IInv, TurnsApart

LEMMA IInvTypeOK == IInv => TypeOK
<1> SUFFICES ASSUME IInv PROVE TypeOK
  OBVIOUS
<1>1. ASSUME NEW ids \in CacheKeys, NEW n \in ToSet(toolStore[ids])
      PROVE  ToSet(turns[n].calls) = ids
  <2>1. toolStore[ids] # <<>>
    BY NoCall
  <2>2. PICK m \in DOMAIN turns : toolStore[ids] = <<m>> /\ ToSet(turns[m].calls) = ids
    BY <2>1 DEF IInv, TierIsOwn
  <2>3. n = m
    BY <2>2 DEF ToSet
  <2> QED BY <2>2, <2>3
<1>2. ASSUME NEW t \in Texts, NEW n \in ToSet(textStore[t])
      PROVE  turns[n].text = <<t>>
  <2>1. textStore[t] # <<>>
    BY NoCall
  <2>2. PICK m \in DOMAIN turns : textStore[t] = <<m>> /\ turns[m].text = <<t>>
    BY <2>1 DEF IInv, TextTierIsOwn
  <2>3. n = m
    BY <2>2 DEF ToSet
  <2> QED BY <2>2, <2>3
<1>3. split \cup forgotten \subseteq DOMAIN turns
  BY DEF IInv, TurnsApart
<1>4. ASSUME NEW i \in DOMAIN history
      PROVE  /\ history[i].role \in {"user", "assistant"}
             /\ history[i].role = "assistant" =>
                   /\ ToSet(history[i].thinking) \subseteq {history[i].of}
                   /\ ToSet(history[i].calls) \subseteq ToSet(turns[history[i].of].calls)
  <2>1. history[i] \in Kept
    BY HistoryShape DEF IInv
  <2>2. history[i].role \in {"user", "assistant"}
    BY <2>1 DEF Kept, Messages
  <2>3. history[i].role = "assistant" => OfItsTurn(history[i])
    BY <2>1 DEF Kept
  <2>4. OfItsTurn(history[i]) => ToSet(history[i].thinking) \subseteq {history[i].of}
    <3>1. ToSet(<<history[i].of>>) = {history[i].of}
      BY DEF ToSet
    <3> QED BY <3>1, NoCall DEF OfItsTurn
  <2> QED BY <2>2, <2>3, <2>4 DEF OfItsTurn
<1> QED BY <1>1, <1>2, <1>3, <1>4 DEF TypeOK

(* Every entry of the cache is the reasoning of a turn that made the calls *)
(* or said the text it is filed under, and what is left of a message has   *)
(* the calls and the thinking of its turn (reasoning_cache.go, Put).       *)
THEOREM TypeCorrect == Spec => []TypeOK
<1> QED BY Inductive, IInvTypeOK, PTL

LEMMA IInvOwn == IInv => ReasoningIsOwn
<1> SUFFICES ASSUME IInv, NEW msg \in ToSet(history), msg.calls # <<>>
             PROVE  /\ ReasoningSent(msg) # <<>>
                    /\ SaidOnce(msg.of) => ReasoningSent(msg) \in {<<msg.of>>, <<Placeholder>>}
  BY DEF ReasoningIsOwn, MessagesWithCalls
<1>1. /\ OfItsTurn(msg) /\ CacheKey(msg.calls) \in CacheKeys
      /\ msg.thinking # <<>> => ReasoningSent(msg) = <<msg.of>>
      /\ msg.thinking = <<>> =>
            ReasoningSent(msg) = IF GetBest(msg.calls, msg.text) # <<>>
                                 THEN GetBest(msg.calls, msg.text) ELSE <<Placeholder>>
  BY SentWithCalls
<1>2. toolStore[CacheKey(msg.calls)] \in {<<>>, <<msg.of>>}
  <2> SUFFICES ASSUME toolStore[CacheKey(msg.calls)] # <<>>
               PROVE  toolStore[CacheKey(msg.calls)] = <<msg.of>>
    OBVIOUS
  <2>1. PICK n \in DOMAIN turns : /\ toolStore[CacheKey(msg.calls)] = <<n>>
                                  /\ ToSet(turns[n].calls) = CacheKey(msg.calls)
    BY <1>1 DEF IInv, TierIsOwn
  <2> QED BY <2>1, CallsTellTurn DEF CacheKey
<1>3. ASSUME msg.text # <<>>, SaidOnce(msg.of)
      PROVE  textStore[msg.text[1]] \in {<<>>, <<msg.of>>}
  <2>1. msg.text = turns[msg.of].text /\ msg.of \in DOMAIN turns
    BY <1>1, <1>3 DEF OfItsTurn
  <2>2. PICK t \in Texts : msg.text = <<t>>
    BY <1>3, <2>1, TurnShape DEF IInv, TurnsOf, Maybe
  <2> SUFFICES ASSUME textStore[t] # <<>>
               PROVE  textStore[t] = <<msg.of>>
    <3>1. msg.text[1] = t
      BY <2>2
    <3> QED BY <3>1
  <2>3. PICK n \in DOMAIN turns : textStore[t] = <<n>> /\ turns[n].text = <<t>>
    BY DEF IInv, TextTierIsOwn
  <2>4. n = msg.of
    BY <1>3, <2>1, <2>2, <2>3 DEF SaidOnce
  <2> QED BY <2>3, <2>4
<1>4. ReasoningSent(msg) # <<>>
  <2>1. <<msg.of>> # <<>> /\ <<Placeholder>> # <<>>
    OBVIOUS
  <2> QED BY <1>1, <2>1, Zenon
<1>5. SaidOnce(msg.of) => ReasoningSent(msg) \in {<<msg.of>>, <<Placeholder>>}
  BY <1>1, <1>2, <1>3 DEF GetBest
<1> QED BY <1>4, <1>5

(* The upstream never gets a message with calls without a reasoning, and   *)
(* with that of another turn only if two turns have said the same text     *)
(* (convert/anthropic_to_openai.go, convertAnthropicRequestToOpenAI).      *)
THEOREM OwnReasoning == Spec => []ReasoningIsOwn
<1> QED BY Inductive, IInvOwn, PTL

LEMMA IInvExact == IInv => ReplayIsExact
<1> SUFFICES ASSUME IInv, NEW msg \in ToSet(history), msg.calls # <<>>,
                    msg.of \notin split \cup forgotten, turns[msg.of].reasoning # <<>>
             PROVE  ReasoningSent(msg) = <<msg.of>>
  BY DEF ReplayIsExact, MessagesWithCalls
<1>1. /\ OfItsTurn(msg)
      /\ msg.thinking # <<>> => ReasoningSent(msg) = <<msg.of>>
      /\ msg.thinking = <<>> =>
            ReasoningSent(msg) = IF GetBest(msg.calls, msg.text) # <<>>
                                 THEN GetBest(msg.calls, msg.text) ELSE <<Placeholder>>
  BY SentWithCalls
<1>2. msg.of \in DOMAIN turns \ forgotten /\ msg.calls = turns[msg.of].calls
  BY <1>1 DEF OfItsTurn
<1>3. toolStore[CacheKey(msg.calls)] = <<msg.of>>
  BY <1>2 DEF IInv, TierIsOwn, CacheKey
<1> QED BY <1>1, <1>3 DEF GetBest

(* A message in one piece whose entry is still cached goes out with the    *)
(* very reasoning the upstream gave for its calls, even when its text has  *)
(* been said again since (reasoning_cache.go, GetBest).                    *)
THEOREM ExactReplay == Spec => []ReplayIsExact
<1> QED BY Inductive, IInvExact, PTL

-----------------------------------------------------------------------------
(* Induction over the natural numbers, for a set: < is well-founded.        *)
Less == {p \in Nat \X Nat : p[1] < p[2]}

LEMMA LeastNumber ==
  ASSUME NEW T \in SUBSET Nat, T # {}
  PROVE  \E n \in T : \A m \in T : n <= m
<1>1. IsWellFoundedOn(Less, Nat)
  BY NatLessThanWellFounded DEF OpToRel, Less
<1>2. \E x \in T : \A y \in T : ~ (<<y, x>> \in Less)
  BY <1>1, WFMin
<1>3. PICK x \in T : \A y \in T : ~ (<<y, x>> \in Less)
  BY <1>2
<1>4. ASSUME NEW y \in T PROVE x <= y
  <2>1. <<y, x>> \in Nat \X Nat /\ <<y, x>>[1] = y /\ <<y, x>>[2] = x
    OBVIOUS
  <2>2. ~ (y < x)
    BY <1>3, <2>1 DEF Less
  <2> QED BY <2>2
<1> QED BY <1>4

LEMMA GreatestNumber ==
  ASSUME NEW n \in Nat, NEW T \in SUBSET (1 .. n), T # {}
  PROVE  \E k \in T : \A i \in T : i <= k
<1>1. PICK S : S = {m \in Nat : n - m \in T}
  OBVIOUS
<1>2. S \in SUBSET Nat
  BY <1>1
<1>3. ASSUME NEW i \in T PROVE n - i \in S
  <2>1. i \in 1 .. n /\ n - i \in Nat /\ n - (n - i) = i
    OBVIOUS
  <2> QED BY <1>1, <2>1
<1>4. S # {}
  BY <1>3
<1>5. PICK m \in S : \A j \in S : m <= j
  BY <1>2, <1>4, LeastNumber
<1>6. m \in Nat /\ n - m \in T
  BY <1>1, <1>5
<1>7. ASSUME NEW i \in T PROVE i <= n - m
  <2>1. m <= n - i
    BY <1>3, <1>5
  <2>2. i \in 1 .. n
    OBVIOUS
  <2> QED BY <1>6, <2>1, <2>2
<1> QED BY <1>6, <1>7

LEMMA Induction ==
  ASSUME NEW T, 0 \in T, \A n \in Nat : n \in T => n + 1 \in T
  PROVE  Nat \subseteq T
<1>1. SUFFICES ASSUME Nat \ T # {} PROVE FALSE
  OBVIOUS
<1>2. PICK n \in Nat \ T : \A m \in Nat \ T : n <= m
  BY <1>1, LeastNumber
<1>3. n # 0 /\ n - 1 \in Nat
  BY <1>2
<1>4. n - 1 \in T
  BY <1>2, <1>3
<1> QED BY <1>2, <1>3, <1>4

Regroups(q, r, v) == (q \o r) \o v = q \o (r \o v)

LEMMA Regrouped ==
  ASSUME NEW X, NEW q \in Seq(X), NEW r \in Seq(X), NEW v \in Seq(X)
  PROVE  Regroups(q, r, v)
BY DEF Regroups

(* FlattenSeq, one element at a time.                                      *)
FlatSteps(s, k, f) == f = [i \in 1 .. k |-> IF i = 1 THEN s[i] ELSE f[i - 1] \o s[i]]

LEMMA FlatUnfolded ==
  ASSUME NEW s, Len(s) # 0
  PROVE  FlattenSeq(s) = (CHOOSE f : FlatSteps(s, Len(s), f))[Len(s)]
BY DEF FlattenSeq, FlatSteps

LEMMA FlatExists ==
  ASSUME NEW s, NEW k \in Nat
  PROVE  \E f : FlatSteps(s, k, f)
<1>1. PICK T : T = {n \in Nat : \E f : FlatSteps(s, n, f)}
  OBVIOUS
<1>2. 0 \in T
  <2>1. PICK f : f = [i \in 1 .. 0 |-> 0]
    OBVIOUS
  <2>2. FlatSteps(s, 0, f)
    BY <2>1 DEF FlatSteps
  <2> QED BY <1>1, <2>2
<1>3. ASSUME NEW n \in Nat, n \in T
      PROVE  n + 1 \in T
  <2>1. PICK f : FlatSteps(s, n, f)
    BY <1>1, <1>3
  <2>2. PICK g : g = [i \in 1 .. n + 1 |-> IF i \in 1 .. n THEN f[i]
                                           ELSE IF i = 1 THEN s[i] ELSE f[i - 1] \o s[i]]
    OBVIOUS
  <2>3. ASSUME NEW i \in 1 .. n + 1
        PROVE  g[i] = IF i = 1 THEN s[i] ELSE g[i - 1] \o s[i]
    <3>1. i # 1 => i - 1 \in 1 .. n /\ g[i - 1] = f[i - 1]
      BY <2>2
    <3>2. CASE i \in 1 .. n
      BY <2>1, <2>2, <3>1, <3>2 DEF FlatSteps
    <3>3. CASE i \notin 1 .. n
      BY <2>2, <3>1, <3>3
    <3> QED BY <3>2, <3>3
  <2>4. DOMAIN g = 1 .. n + 1
    BY <2>2
  <2>5. FlatSteps(s, n + 1, g)
    <3>1. g = [i \in 1 .. n + 1 |-> g[i]]
      BY <2>2
    <3>2. [i \in 1 .. n + 1 |-> g[i]] = [i \in 1 .. n + 1 |-> IF i = 1 THEN s[i] ELSE g[i - 1] \o s[i]]
      BY <2>3, Zenon
    <3> QED BY <3>1, <3>2, Zenon DEF FlatSteps
  <2> QED BY <1>1, <2>5
<1>4. Nat \subseteq T
  BY <1>2, <1>3, Induction
<1> QED BY <1>1, <1>4

LEMMA FlatStep ==
  ASSUME NEW s, NEW k \in Nat, NEW f, FlatSteps(s, k, f), NEW i \in 1 .. k
  PROVE  (i = 1 => f[i] = s[i]) /\ (i # 1 => f[i] = f[i - 1] \o s[i])
BY DEF FlatSteps

LEMMA FlattenEmpty == FlattenSeq(<<>>) = <<>>
BY DEF FlattenSeq

LEMMA FlattenSnoc ==
  ASSUME NEW X, NEW s \in Seq(Seq(X)), NEW x \in Seq(X)
  PROVE  FlattenSeq(s) \in Seq(X) /\ FlattenSeq(Append(s, x)) = FlattenSeq(s) \o x
<1>1. PICK n \in Nat : n = Len(s)
  OBVIOUS
<1>2. PICK t : t = Append(s, x)
  OBVIOUS
<1>3. t \in Seq(Seq(X)) /\ Len(t) = n + 1 /\ t[n + 1] = x /\ \A i \in 1 .. n : t[i] = s[i] /\ s[i] \in Seq(X)
  BY <1>1, <1>2
<1>4. PICK f : f = CHOOSE h : FlatSteps(s, n, h)
  OBVIOUS
<1>5. PICK m \in Nat : m = n + 1
  OBVIOUS
<1>6. PICK g : g = CHOOSE h : FlatSteps(t, m, h)
  OBVIOUS
<1>7. FlatSteps(s, n, f)
  BY <1>4, FlatExists
<1>8. FlatSteps(t, m, g)
  BY <1>6, FlatExists
<1>9. PICK T : T = {k \in Nat : k \in 1 .. n => f[k] \in Seq(X) /\ g[k] = f[k]}
  OBVIOUS
<1>10. 0 \in T
  BY <1>9
<1>11. ASSUME NEW k \in Nat, k \in T
       PROVE  k + 1 \in T
  <2>1. SUFFICES ASSUME k + 1 \in 1 .. n
                 PROVE  f[k + 1] \in Seq(X) /\ g[k + 1] = f[k + 1]
    BY <1>9
  <2>2. PICK j \in Nat : j = k + 1
    OBVIOUS
  <2>3. j \in 1 .. n /\ j \in 1 .. m /\ j - 1 = k
    BY <1>5, <2>1, <2>2
  <2>4. (j = 1 => f[j] = s[j]) /\ (j # 1 => f[j] = f[j - 1] \o s[j])
    BY <1>7, <2>3, FlatStep, ZenonT(30)
  <2>5. (j = 1 => g[j] = t[j]) /\ (j # 1 => g[j] = g[j - 1] \o t[j])
    BY <1>8, <2>3, FlatStep, ZenonT(30)
  <2>6. CASE k = 0
    BY <1>3, <2>1, <2>4, <2>2, <2>6, <2>5
  <2>7. CASE k # 0
    <3>1. f[k] \in Seq(X) /\ g[k] = f[k]
      BY <1>9, <1>11, <2>1, <2>7
    <3>2. f[j] = f[j - 1] \o s[j] /\ g[j] = g[j - 1] \o t[j]
      <4>1. j # 1
        BY <2>2, <2>7
      <4> QED BY <2>4, <2>5, <4>1
    <3>3. t[j] = s[j] /\ s[j] \in Seq(X)
      BY <1>3, <2>3
    <3>4. f[j] \in Seq(X) /\ g[j] = f[j]
      <4>1. f[j - 1] \in Seq(X) /\ g[j - 1] = f[j - 1]
        BY <2>3, <3>1
      <4>2. f[j - 1] \o s[j] \in Seq(X)
        BY <3>3, <4>1
      <4>3. g[j - 1] \o t[j] = f[j - 1] \o s[j]
        BY <3>3, <4>1
      <4> QED BY <3>2, <4>2, <4>3
    <3> QED BY <2>2, <3>4
  <2> QED BY <2>6, <2>7
<1>12. Nat \subseteq T
  BY <1>10, <1>11, Induction
<1>13. FlattenSeq(t) = g[n + 1]
  <2>1. Len(t) = m /\ m # 0
    BY <1>5, <1>3
  <2> QED BY <1>5, <1>6, <2>1, FlatUnfolded
<1>14. (n = 0 => g[n + 1] = x) /\ (n # 0 => g[n + 1] = g[n] \o x)
  <2>1. m \in 1 .. m /\ m - 1 = n
    BY <1>5
  <2>2. (m = 1 => g[m] = t[m]) /\ (m # 1 => g[m] = g[m - 1] \o t[m])
    BY <1>8, <2>1, FlatStep
  <2> QED BY <1>5, <1>3, <2>1, <2>2
<1>15. CASE n = 0
  <2>1. s = <<>> /\ FlattenSeq(s) = <<>>
    BY <1>1, <1>15, FlattenEmpty, EmptySeq
  <2>2. <<>> \o x = x /\ <<>> \in Seq(X)
    OBVIOUS
  <2> QED BY <1>2, <1>13, <1>14, <1>15, <2>1, <2>2
<1>16. CASE n # 0
  <2>1. FlattenSeq(s) = f[n]
    BY <1>1, <1>4, <1>16, FlatUnfolded
  <2>2. n \in 1 .. n
    BY <1>16
  <2>3. f[n] \in Seq(X) /\ g[n] = f[n]
    BY <1>9, <1>12, <2>2
  <2> QED BY <1>2, <1>13, <1>14, <1>16, <2>1, <2>3
<1> QED BY <1>15, <1>16

(* What is picked from a sequence.                                         *)
LEMMA GreatestOf ==
  ASSUME NEW n \in Nat, NEW s \in SUBSET (1 .. n), s # {}
  PROVE  Max(s) \in s /\ \A i \in s : i <= Max(s)
<1>1. PICK k \in s : \A i \in s : i <= k
  BY GreatestNumber
<1>2. \E x \in s : \A y \in s : x >= y
  BY <1>1
<1>3. Max(s) \in s /\ \A y \in s : Max(s) >= y
  BY <1>2 DEF Max
<1> QED BY <1>3

-----------------------------------------------------------------------------
(* Coalesce, one message at a time.                                        *)
CoSteps(seq, n, it) ==
    it = [s \in SUBSET (1 .. n) |->
            IF s = {} THEN <<>> ELSE CoalesceNext(it[s \ {Max(s)}], seq[Max(s)])]

LEMMA CoUnfolded ==
  ASSUME NEW X, NEW seq \in Seq(X)
  PROVE  Coalesce(seq) = (CHOOSE it : CoSteps(seq, Len(seq), it))[1 .. Len(seq)]
<1>1. DOMAIN seq = 1 .. Len(seq)
  OBVIOUS
<1> QED BY <1>1 DEF Coalesce, FoldLeft, MapThenFoldSet, CoSteps

LEMMA CoStep ==
  ASSUME NEW seq, NEW n, NEW it, CoSteps(seq, n, it), NEW s \in SUBSET (1 .. n)
  PROVE  it[s] = IF s = {} THEN <<>> ELSE CoalesceNext(it[s \ {Max(s)}], seq[Max(s)])
BY Zenon DEF CoSteps

CoPart(s, n, k, r) == s \in SUBSET (1 .. n) /\ s # {} /\ k = Max(s) /\ r = s \ {k}

LEMMA CoNext ==
  ASSUME NEW seq, NEW n, NEW it, CoSteps(seq, n, it), NEW s, NEW k, NEW r, CoPart(s, n, k, r)
  PROVE  it[s] = CoalesceNext(it[r], seq[k])
<1>1. s \in SUBSET (1 .. n) /\ s # {} /\ k = Max(s) /\ r = s \ {k}
  BY DEF CoPart
<1>2. it[s] = IF s = {} THEN <<>> ELSE CoalesceNext(it[s \ {Max(s)}], seq[Max(s)])
  BY Zenon, <1>1 DEF CoSteps
<1> QED BY <1>1, <1>2

LEMMA CoExists ==
  ASSUME NEW seq, NEW m \in Nat
  PROVE  \E it : CoSteps(seq, m, it)
<1>1. PICK T : T = {n \in Nat : \E it : CoSteps(seq, n, it)}
  OBVIOUS
<1>2. 0 \in T
  <2>1. PICK it : it = [s \in SUBSET (1 .. 0) |-> <<>>]
    OBVIOUS
  <2>2. ASSUME NEW s \in SUBSET (1 .. 0)
        PROVE  it[s] = IF s = {} THEN <<>> ELSE CoalesceNext(it[s \ {Max(s)}], seq[Max(s)])
    <3>1. s = {}
      OBVIOUS
    <3> QED BY <2>1, <3>1
  <2>3. it = [s \in SUBSET (1 .. 0) |-> it[s]]
    BY <2>1
  <2>4. CoSteps(seq, 0, it)
    BY <2>2, <2>3, Zenon DEF CoSteps
  <2> QED BY <1>1, <2>4
<1>3. ASSUME NEW n \in Nat, n \in T
      PROVE  n + 1 \in T
  <2>1. PICK f : CoSteps(seq, n, f)
    BY <1>1, <1>3
  <2>2. PICK k \in Nat : k = n + 1
    OBVIOUS
  <2>3. PICK g : g = [s \in SUBSET (1 .. k) |-> IF k \in s THEN CoalesceNext(f[s \ {k}], seq[k]) ELSE f[s]]
    OBVIOUS
  <2>4. ASSUME NEW s \in SUBSET (1 .. k)
        PROVE  g[s] = IF s = {} THEN <<>> ELSE CoalesceNext(g[s \ {Max(s)}], seq[Max(s)])
    <3>1. CASE s = {}
      <4>1. k \notin s /\ s \in SUBSET (1 .. n)
        BY <3>1
      <4>2. g[s] = f[s]
        BY <2>3, <4>1
      <4> QED BY <2>1, <3>1, <4>1, <4>2, CoStep
    <3>2. CASE s # {}
      <4>1. Max(s) \in s /\ \A i \in s : i <= Max(s)
        BY <3>2, GreatestOf
      <4>2. CASE k \in s
        <5>1. Max(s) \in 1 .. k /\ k <= Max(s)
          BY <4>1, <4>2
        <5>2. Max(s) = k
          BY <5>1
        <5>3. s \ {k} \in SUBSET (1 .. k) /\ k \notin s \ {k}
          OBVIOUS
        <5>4. g[s \ {k}] = f[s \ {k}] /\ g[s] = CoalesceNext(f[s \ {k}], seq[k])
          BY <2>3, <4>2, <5>3
        <5> QED BY <3>2, <5>2, <5>4
      <4>3. CASE k \notin s
        <5>1. ASSUME NEW i \in s PROVE i \in 1 .. n
          <6>1. i \in 1 .. k /\ i # k
            BY <4>3
          <6> QED BY <2>2, <6>1
        <5>2. s \in SUBSET (1 .. n) /\ s \ {Max(s)} \in SUBSET (1 .. k) /\ k \notin s \ {Max(s)}
          BY <4>3, <5>1
        <5>3. g[s] = f[s] /\ g[s \ {Max(s)}] = f[s \ {Max(s)}]
          BY <2>3, <4>3, <5>2
        <5>4. f[s] = CoalesceNext(f[s \ {Max(s)}], seq[Max(s)])
          <6>1. PICK j, r : j = Max(s) /\ r = s \ {j}
            OBVIOUS
          <6>2. CoPart(s, n, j, r)
            BY <3>2, <5>2, <6>1 DEF CoPart
          <6>3. f[s] = CoalesceNext(f[r], seq[j])
            BY <2>1, <6>2, CoNext
          <6> QED BY <6>1, <6>3
        <5> QED BY <3>2, <5>3, <5>4
      <4> QED BY <4>2, <4>3
    <3> QED BY <3>1, <3>2
  <2>5. g = [s \in SUBSET (1 .. k) |-> g[s]]
    BY <2>3
  <2>6. CoSteps(seq, k, g)
    BY <2>4, <2>5, Zenon DEF CoSteps
  <2> QED BY <1>1, <2>2, <2>6
<1>4. Nat \subseteq T
  BY <1>2, <1>3, Induction
<1> QED BY <1>1, <1>4

LEMMA CoalesceEmpty == Coalesce(<<>>) = <<>>
<1>1. PICK f : f = CHOOSE it : CoSteps(<<>>, 0, it)
  OBVIOUS
<1>2. CoSteps(<<>>, 0, f)
  BY <1>1, CoExists
<1>3. 1 .. 0 = {} /\ {} \in SUBSET (1 .. 0) /\ Len(<<>>) = 0 /\ <<>> \in Seq({})
  OBVIOUS
<1>4. f[{}] = <<>>
  BY <1>2, <1>3, CoStep
<1>5. Coalesce(<<>>) = f[1 .. 0]
  BY <1>1, <1>3, CoUnfolded
<1> QED BY <1>3, <1>4, <1>5

LEMMA CoalesceSnoc ==
  ASSUME NEW X, NEW seq \in Seq(X), NEW x \in X
  PROVE  Coalesce(Append(seq, x)) = CoalesceNext(Coalesce(seq), x)
<1>1. PICK n \in Nat, m \in Nat : n = Len(seq) /\ m = n + 1
  OBVIOUS
<1>2. PICK t \in Seq(X) : t = Append(seq, x)
  <2>1. Append(seq, x) \in Seq(X)
    OBVIOUS
  <2> QED BY <2>1
<1>3. Len(t) = m /\ t[m] = x /\ \A i \in 1 .. n : t[i] = seq[i]
  BY <1>1, <1>2
<1>4. PICK f : f = CHOOSE it : CoSteps(seq, n, it)
  OBVIOUS
<1>5. PICK g : g = CHOOSE it : CoSteps(t, m, it)
  OBVIOUS
<1>6. CoSteps(seq, n, f)
  BY <1>4, CoExists
<1>7. CoSteps(t, m, g)
  BY <1>5, CoExists
<1>8. PICK T : T = {k \in Nat : k <= n => g[1 .. k] = f[1 .. k]}
  OBVIOUS
<1>9. ASSUME NEW k \in Nat, k # 0
      PROVE  1 .. k # {} /\ Max(1 .. k) = k /\ (1 .. k) \ {k} = 1 .. k - 1
  <2>1. PICK s : s = 1 .. k
    OBVIOUS
  <2>2. s \in SUBSET (1 .. k) /\ k \in s
    BY <1>9, <2>1
  <2>3. Max(s) \in s /\ \A i \in s : i <= Max(s)
    BY <2>2, GreatestOf
  <2>4. Max(s) = k
    BY <2>1, <2>2, <2>3
  <2>5. (1 .. k) \ {k} = 1 .. k - 1
    OBVIOUS
  <2> QED BY <2>1, <2>2, <2>4, <2>5
<1>10. 0 \in T
  <2>1. 1 .. 0 = {} /\ {} \in SUBSET (1 .. n) /\ {} \in SUBSET (1 .. m)
    OBVIOUS
  <2>2. f[{}] = <<>>
    BY <1>6, <2>1, CoStep
  <2>3. g[{}] = <<>>
    BY <1>7, <2>1, CoStep
  <2> QED BY <1>8, <2>1, <2>2, <2>3
<1>11. ASSUME NEW k \in Nat, k \in T
       PROVE  k + 1 \in T
  <2>1. SUFFICES ASSUME k + 1 <= n
                 PROVE  g[1 .. k + 1] = f[1 .. k + 1]
    BY <1>8
  <2>2. PICK j \in Nat : j = k + 1
    OBVIOUS
  <2>3. j # 0 /\ j - 1 = k /\ j \in 1 .. n /\ 1 .. j \in SUBSET (1 .. n) /\ 1 .. j \in SUBSET (1 .. m)
    BY <1>1, <2>1, <2>2
  <2>4. 1 .. j # {} /\ Max(1 .. j) = j /\ (1 .. j) \ {j} = 1 .. k
    BY <1>9, <2>3
  <2>5. f[1 .. j] = CoalesceNext(f[1 .. k], seq[j])
    <3>1. PICK w, r : w = 1 .. j /\ r = 1 .. k
      OBVIOUS
    <3>2. CoPart(w, n, j, r)
      BY <2>3, <2>4, <3>1 DEF CoPart
    <3>3. f[w] = CoalesceNext(f[r], seq[j])
      BY <1>6, <3>2, CoNext
    <3> QED BY <3>1, <3>3
  <2>6. g[1 .. j] = CoalesceNext(g[1 .. k], t[j])
    <3>1. PICK w, r : w = 1 .. j /\ r = 1 .. k
      OBVIOUS
    <3>2. CoPart(w, m, j, r)
      BY <2>3, <2>4, <3>1 DEF CoPart
    <3>3. g[w] = CoalesceNext(g[r], t[j])
      BY <1>7, <3>2, CoNext
    <3> QED BY <3>1, <3>3
  <2>7. g[1 .. k] = f[1 .. k] /\ t[j] = seq[j]
    BY <1>3, <1>8, <1>11, <2>1, <2>3
  <2> QED BY <2>2, <2>5, <2>6, <2>7
<1>12. Nat \subseteq T
  BY <1>10, <1>11, Induction
<1>13. g[1 .. n] = f[1 .. n]
  BY <1>8, <1>12
<1>14. g[1 .. m] = CoalesceNext(g[1 .. n], x)
  <2>1. m # 0 /\ m - 1 = n /\ 1 .. m \in SUBSET (1 .. m)
    BY <1>1
  <2>2. 1 .. m # {} /\ Max(1 .. m) = m /\ (1 .. m) \ {m} = 1 .. n
    BY <1>9, <2>1
  <2>3. g[1 .. m] = CoalesceNext(g[1 .. n], t[m])
    <3>1. PICK w, r : w = 1 .. m /\ r = 1 .. n
      OBVIOUS
    <3>2. CoPart(w, m, m, r)
      BY <2>1, <2>2, <3>1 DEF CoPart
    <3>3. g[w] = CoalesceNext(g[r], t[m])
      BY <1>7, <3>2, CoNext
    <3> QED BY <3>1, <3>3
  <2> QED BY <1>3, <2>3
<1>15. Coalesce(t) = g[1 .. m]
  BY <1>3, <1>5, CoUnfolded
<1>16. Coalesce(seq) = f[1 .. n]
  BY <1>1, <1>4, CoUnfolded
<1> QED BY <1>2, <1>13, <1>14, <1>15, <1>16


(* Induction over the sequences of a set, for a set of sequences.          *)
LEMMA SequenceInduction ==
  ASSUME NEW X, NEW S, <<>> \in S, \A s \in Seq(X) : \A x \in X : s \in S => Append(s, x) \in S
  PROVE  Seq(X) \subseteq S
<1>1. PICK T : T = {n \in Nat : \A s \in Seq(X) : Len(s) = n => s \in S}
  OBVIOUS
<1>2. 0 \in T
  <2>1. ASSUME NEW s \in Seq(X), Len(s) = 0 PROVE s \in S
    BY <2>1, EmptySeq
  <2> QED BY <1>1, <2>1
<1>3. ASSUME NEW n \in Nat, n \in T PROVE n + 1 \in T
  <2>1. ASSUME NEW s \in Seq(X), Len(s) = n + 1 PROVE s \in S
    <3>1. PICK t : t = SubSeq(s, 1, n)
      OBVIOUS
    <3>2. PICK x : x = s[n + 1]
      OBVIOUS
    <3>3. t \in Seq(X) /\ Len(t) = n /\ x \in X
      BY <2>1, <3>1, <3>2
    <3>4. s = Append(t, x)
      <4>1. Append(t, x) \in Seq(X) /\ Len(Append(t, x)) = n + 1
        BY <3>3
      <4>2. ASSUME NEW i \in 1 .. n + 1 PROVE Append(t, x)[i] = s[i]
        BY <2>1, <3>1, <3>2, <3>3
      <4> QED BY <2>1, <4>1, <4>2, SeqEqual
    <3>5. t \in S
      BY <1>1, <1>3, <3>3
    <3> QED BY <3>3, <3>4, <3>5
  <2> QED BY <1>1, <2>1
<1>4. Nat \subseteq T
  BY <1>2, <1>3, Induction
<1> QED BY <1>1, <1>4

LEMMA FlattenTyped ==
  ASSUME NEW X, NEW s \in Seq(Seq(X))
  PROVE  FlattenSeq(s) \in Seq(X)
<1>1. <<>> \in Seq(X)
  OBVIOUS
<1> QED BY <1>1, FlattenSnoc

-----------------------------------------------------------------------------
(* The request: messages of the OpenAI wire.                               *)
Pieces == Texts \cup {Ask, Blank} \cup [id : Calls, n : Seq(Nat)]

Chats ==
    [role : {"user", "assistant", "tool"}, content : Seq(Pieces), reasoning : Seq(Nat),
     calls : Seq(Calls), id : Calls \cup {None}]

LEMMA MergeTyped ==
  ASSUME NEW l \in Chats, NEW x \in Chats
  PROVE  Merge(l, x) \in Chats
<1>1. PICK c : c = l.content \o x.content
  OBVIOUS
<1>2. PICK r : r = l.reasoning \o x.reasoning
  OBVIOUS
<1>3. PICK q : q = l.calls \o x.calls
  OBVIOUS
<1>4. /\ l.content \in Seq(Pieces) /\ x.content \in Seq(Pieces)
      /\ l.reasoning \in Seq(Nat) /\ x.reasoning \in Seq(Nat)
      /\ l.calls \in Seq(Calls) /\ x.calls \in Seq(Calls)
  BY DEF Chats
<1>5. c \in Seq(Pieces) /\ r \in Seq(Nat) /\ q \in Seq(Calls)
  BY <1>1, <1>2, <1>3, <1>4
<1>6. Merge(l, x) = [l EXCEPT !.content = c, !.reasoning = r, !.calls = q]
  BY <1>1, <1>2, <1>3 DEF Merge
<1> QED BY <1>5, <1>6 DEF Chats

LEMMA CoalesceNextTyped ==
  ASSUME NEW s \in Seq(Chats), NEW x \in Chats
  PROVE  CoalesceNext(s, x) \in Seq(Chats)
<1>1. Append(s, x) \in Seq(Chats)
  OBVIOUS
<1>2. CASE s # <<>>
  <2>1. PICK n \in Nat : n = Len(s)
    OBVIOUS
  <2>2. n \in 1 .. n /\ Front(s) \in Seq(Chats)
    BY <1>2, <2>1, EmptySeq DEF Front
  <2>3. PICK l : l = Last(s)
    OBVIOUS
  <2>4. l \in Chats
    BY <2>1, <2>2, <2>3 DEF Last
  <2>5. Merge(l, x) \in Chats
    BY <2>4, MergeTyped
  <2>6. Append(Front(s), Merge(l, x)) \in Seq(Chats)
    BY <2>2, <2>5
  <2> QED BY <1>1, <2>3, <2>6 DEF CoalesceNext
<1>3. CASE s = <<>>
  BY <1>1, <1>3 DEF CoalesceNext
<1> QED BY <1>2, <1>3

LEMMA CoalesceTyped ==
  ASSUME NEW s \in Seq(Chats)
  PROVE  Coalesce(s) \in Seq(Chats)
<1>1. PICK S : S = {t \in Seq(Chats) : Coalesce(t) \in Seq(Chats)}
  OBVIOUS
<1>2. <<>> \in S
  <2>1. <<>> \in Seq(Chats)
    OBVIOUS
  <2> QED BY <1>1, <2>1, CoalesceEmpty
<1>3. ASSUME NEW t \in Seq(Chats), NEW x \in Chats, t \in S PROVE Append(t, x) \in S
  <2>1. Coalesce(t) \in Seq(Chats)
    BY <1>1, <1>3
  <2>2. Coalesce(Append(t, x)) \in Seq(Chats)
    BY <2>1, CoalesceSnoc, CoalesceNextTyped
  <2>3. Append(t, x) \in Seq(Chats)
    OBVIOUS
  <2> QED BY <1>1, <2>2, <2>3
<1>4. Seq(Chats) \subseteq S
  BY <1>2, <1>3, SequenceInduction
<1> QED BY <1>1, <1>4

(* WellFormed, where the last message may wait for its results or not.     *)
Formed(s, open) ==
    /\ \A i \in DOMAIN s : HasCalls(s[i]) => (open /\ i = Len(s)) \/ Answered(s, i)
    /\ \A i \in DOMAIN s : IsTool(s[i]) =>
          \E k \in 1 .. i - 1 : HasCalls(s[k]) /\ i <= k + Len(s[k].calls)

LEMMA AnsweredIn ==
  ASSUME NEW s \in Seq(Chats), NEW t \in Seq(Chats), NEW i \in DOMAIN s, Answered(s, i)
  PROVE  Answered(s \o t, i)
<1>1. PICK n \in Nat, p \in Nat : n = Len(s) /\ p = Len(t)
  OBVIOUS
<1>2. PICK m : m = s[i]
  OBVIOUS
<1>3. i \in 1 .. n /\ m \in Chats
  BY <1>1, <1>2
<1>4. PICK c \in Seq(Calls), l \in Nat : c = m.calls /\ l = Len(c) /\ DOMAIN c = 1 .. l
  <2>1. m.calls \in Seq(Calls)
    BY <1>3 DEF Chats
  <2> QED BY <2>1
<1>5. i + l <= n /\ \A k \in 1 .. l : IsTool(s[i + k]) /\ s[i + k].id = c[k]
  BY <1>1, <1>2, <1>4 DEF Answered
<1>6. PICK u : u = s \o t
  OBVIOUS
<1>7. u \in Seq(Chats) /\ Len(u) = n + p /\ \A k \in 1 .. n : u[k] = s[k]
  BY <1>1, <1>6
<1>8. u[i] = m
  BY <1>2, <1>3, <1>7
<1>9. ASSUME NEW k \in 1 .. l PROVE IsTool(u[i + k]) /\ u[i + k].id = c[k]
  <2>1. i + k \in 1 .. n
    BY <1>3, <1>5
  <2> QED BY <1>5, <1>7, <2>1
<1>10. i + l <= Len(u)
  BY <1>1, <1>3, <1>4, <1>5, <1>7
<1>11. Answered(u, i)
  BY <1>4, <1>8, <1>9, <1>10 DEF Answered
<1> QED BY <1>6, <1>11

LEMMA AnsweredAfter ==
  ASSUME NEW s \in Seq(Chats), NEW t \in Seq(Chats), NEW i \in DOMAIN t, Answered(t, i)
  PROVE  Answered(s \o t, Len(s) + i)
<1>1. PICK n \in Nat, p \in Nat : n = Len(s) /\ p = Len(t)
  OBVIOUS
<1>2. PICK m : m = t[i]
  OBVIOUS
<1>3. i \in 1 .. p /\ m \in Chats
  BY <1>1, <1>2
<1>4. PICK c \in Seq(Calls), l \in Nat : c = m.calls /\ l = Len(c) /\ DOMAIN c = 1 .. l
  <2>1. m.calls \in Seq(Calls)
    BY <1>3 DEF Chats
  <2> QED BY <2>1
<1>5. i + l <= p /\ \A k \in 1 .. l : IsTool(t[i + k]) /\ t[i + k].id = c[k]
  BY <1>1, <1>2, <1>4 DEF Answered
<1>6. PICK u : u = s \o t
  OBVIOUS
<1>7. u \in Seq(Chats) /\ Len(u) = n + p /\ \A k \in 1 .. p : u[n + k] = t[k]
  BY <1>1, <1>6
<1>8. PICK j : j = n + i
  OBVIOUS
<1>9. u[j] = m
  BY <1>2, <1>3, <1>7, <1>8
<1>10. ASSUME NEW k \in 1 .. l PROVE IsTool(u[j + k]) /\ u[j + k].id = c[k]
  <2>1. i + k \in 1 .. p /\ j + k = n + (i + k)
    <3>1. i \in 1 .. p /\ i + l <= p
      BY <1>3, <1>5
    <3> QED BY <1>8, <3>1, SMTT(30)
  <2>2. u[j + k] = t[i + k]
    BY <1>7, <2>1
  <2> QED BY <1>5, <2>2
<1>11. j + l <= Len(u)
  <2>1. i \in 1 .. p /\ i + l <= p /\ Len(u) = n + p
    BY <1>3, <1>5, <1>7
  <2> QED BY <1>8, <2>1, SMTT(30)
<1>12. Answered(u, j)
  BY <1>4, <1>9, <1>10, <1>11 DEF Answered
<1> QED BY <1>1, <1>6, <1>8, <1>12

LEMMA FormedJoin ==
  ASSUME NEW s \in Seq(Chats), NEW t \in Seq(Chats), NEW open \in BOOLEAN,
         Formed(s, FALSE), Formed(t, open)
  PROVE  s \o t \in Seq(Chats) /\ Formed(s \o t, open)
<1>1. PICK n \in Nat, p \in Nat : n = Len(s) /\ p = Len(t)
  OBVIOUS
<1>2. PICK u : u = s \o t
  OBVIOUS
<1>3. u \in Seq(Chats) /\ Len(u) = n + p /\ DOMAIN u = 1 .. n + p
  BY <1>1, <1>2
<1>4. (\A k \in 1 .. n : u[k] = s[k]) /\ (\A k \in 1 .. p : u[n + k] = t[k])
  BY <1>1, <1>2
<1>5. DOMAIN s = 1 .. n /\ DOMAIN t = 1 .. p
  BY <1>1
<1>6. ASSUME NEW i \in 1 .. n + p, i \notin 1 .. n
      PROVE  i - n \in 1 .. p /\ i = n + (i - n) /\ u[i] = t[i - n]
  <2>1. i - n \in 1 .. p /\ i = n + (i - n)
    BY <1>6
  <2> QED BY <1>4, <2>1
<1>7. ASSUME NEW i \in DOMAIN u, HasCalls(u[i])
      PROVE  (open /\ i = Len(u)) \/ Answered(u, i)
  <2>1. CASE i \in 1 .. n
    <3>1. Answered(s, i)
      BY <1>4, <1>5, <1>7, <2>1 DEF Formed
    <3> QED BY <1>2, <1>5, <2>1, <3>1, AnsweredIn
  <2>2. CASE i \notin 1 .. n
    <3>1. PICK j : j = i - n
      OBVIOUS
    <3>2. j \in 1 .. p /\ i = n + j /\ u[i] = t[j]
      BY <1>3, <1>6, <2>2, <3>1
    <3>3. (open /\ j = p) \/ Answered(t, j)
      BY <1>1, <1>5, <1>7, <3>2 DEF Formed
    <3>4. CASE open /\ j = p
      BY <1>3, <3>2, <3>4
    <3>5. CASE Answered(t, j)
      BY <1>1, <1>2, <1>5, <3>2, <3>5, AnsweredAfter
    <3> QED BY <3>3, <3>4, <3>5
  <2> QED BY <2>1, <2>2
<1>8. ASSUME NEW i \in DOMAIN u, IsTool(u[i])
      PROVE  \E k \in 1 .. i - 1 : HasCalls(u[k]) /\ i <= k + Len(u[k].calls)
  <2>1. CASE i \in 1 .. n
    <3>1. PICK k \in 1 .. i - 1 : HasCalls(s[k]) /\ i <= k + Len(s[k].calls)
      BY <1>4, <1>5, <1>8, <2>1 DEF Formed
    <3>2. u[k] = s[k]
      BY <1>4, <2>1, <3>1
    <3> QED BY <3>1, <3>2
  <2>2. CASE i \notin 1 .. n
    <3>1. PICK j : j = i - n
      OBVIOUS
    <3>2. j \in 1 .. p /\ i = n + j /\ u[i] = t[j]
      BY <1>3, <1>6, <2>2, <3>1
    <3>3. PICK k \in 1 .. j - 1 : HasCalls(t[k]) /\ j <= k + Len(t[k].calls)
      BY <1>5, <1>8, <3>2 DEF Formed
    <3>4. PICK h : h = n + k
      OBVIOUS
    <3>5. k \in 1 .. p /\ h \in 1 .. i - 1
      BY <3>2, <3>3, <3>4
    <3>6. u[h] = t[k]
      BY <1>4, <3>4, <3>5
    <3>7. PICK l \in Nat : l = Len(t[k].calls)
      <4>1. PICK m : m = t[k]
        OBVIOUS
      <4>2. m \in Chats
        BY <1>5, <3>5, <4>1
      <4>3. m.calls \in Seq(Calls)
        BY <4>2 DEF Chats
      <4>4. Len(m.calls) \in Nat
        BY <4>3
      <4> QED BY <4>1, <4>4
    <3>8. i <= h + l
      <4>1. j <= k + l
        BY <3>3, <3>7
      <4> QED BY <3>2, <3>3, <3>4, <4>1
    <3> QED BY <3>3, <3>5, <3>6, <3>7, <3>8
  <2> QED BY <2>1, <2>2
<1>9. Formed(u, open)
  BY <1>7, <1>8 DEF Formed
<1> QED BY <1>2, <1>3, <1>9

Closed(s) == Formed(s, FALSE)

LEMMA NoneFormed == <<>> \in Seq(Chats) /\ Closed(<<>>)
<1>1. DOMAIN <<>> = {} /\ <<>> \in Seq(Chats)
  OBVIOUS
<1> QED BY <1>1 DEF Formed, Closed

LEMMA FlattenClosed ==
  ASSUME NEW s \in Seq(Seq(Chats)), \A i \in DOMAIN s : Closed(s[i])
  PROVE  Closed(FlattenSeq(s))
<1>1. PICK S : S = {t \in Seq(Seq(Chats)) :
                      (\A i \in DOMAIN t : Closed(t[i])) => Closed(FlattenSeq(t))}
  OBVIOUS
<1>2. <<>> \in S
  <2>1. <<>> \in Seq(Seq(Chats))
    OBVIOUS
  <2> QED BY <1>1, <2>1, FlattenEmpty, NoneFormed
<1>3. ASSUME NEW t \in Seq(Seq(Chats)), NEW x \in Seq(Chats), t \in S PROVE Append(t, x) \in S
  <2>1. PICK v : v = Append(t, x)
    OBVIOUS
  <2>2. PICK n \in Nat : n = Len(t)
    OBVIOUS
  <2>3. v \in Seq(Seq(Chats)) /\ DOMAIN v = 1 .. n + 1 /\ v[n + 1] = x /\ DOMAIN t = 1 .. n
        /\ \A i \in 1 .. n : v[i] = t[i]
    BY <2>1, <2>2
  <2>4. ASSUME \A i \in DOMAIN v : Closed(v[i]) PROVE Closed(FlattenSeq(v))
    <3>1. Closed(x)
      <4>1. n + 1 \in DOMAIN v
        BY <2>3
      <4> QED BY <2>3, <2>4, <4>1
    <3>2. \A i \in DOMAIN t : Closed(t[i])
      BY <2>3, <2>4
    <3>3. Closed(FlattenSeq(t))
      BY <1>1, <1>3, <3>2
    <3>4. PICK f : f = FlattenSeq(t)
      OBVIOUS
    <3>5. f \in Seq(Chats) /\ FlattenSeq(v) = f \o x
      BY <2>1, <3>4, FlattenSnoc
    <3>6. Closed(f \o x)
      BY <3>1, <3>3, <3>4, <3>5, FormedJoin DEF Closed
    <3> QED BY <3>5, <3>6
  <2> QED BY <1>1, <2>1, <2>3, <2>4
<1>4. Seq(Seq(Chats)) \subseteq S
  BY <1>2, <1>3, SequenceInduction
<1> QED BY <1>1, <1>4

LEMMA FlattenFormed ==
  ASSUME NEW s \in Seq(Seq(Chats)), NEW n \in Nat, Len(s) = n, n # 0,
         \A i \in 1 .. n : i # n => Closed(s[i]), Formed(s[n], TRUE)
  PROVE  Formed(FlattenSeq(s), TRUE)
<1>1. PICK t : t = SubSeq(s, 1, n - 1)
  OBVIOUS
<1>2. PICK x : x = s[n]
  OBVIOUS
<1>3. t \in Seq(Seq(Chats)) /\ Len(t) = n - 1 /\ DOMAIN t = 1 .. n - 1 /\ x \in Seq(Chats)
      /\ \A i \in 1 .. n - 1 : t[i] = s[i]
  BY <1>1, <1>2
<1>4. s = Append(t, x)
  <2>1. PICK v : v = Append(t, x)
    OBVIOUS
  <2>2. v \in Seq(Seq(Chats)) /\ Len(v) = n
    BY <1>3, <2>1
  <2>3. ASSUME NEW i \in 1 .. n PROVE v[i] = s[i]
    BY <1>2, <1>3, <2>1
  <2> QED BY <2>1, <2>2, <2>3, SeqEqual
<1>5. \A i \in DOMAIN t : Closed(t[i])
  BY <1>3
<1>6. Closed(FlattenSeq(t))
  BY <1>3, <1>5, FlattenClosed
<1>7. PICK f : f = FlattenSeq(t)
  OBVIOUS
<1>8. f \in Seq(Chats) /\ FlattenSeq(s) = f \o x
  BY <1>3, <1>4, <1>7, FlattenSnoc
<1>9. Formed(x, TRUE) /\ Closed(f)
  BY <1>2, <1>6, <1>7
<1>10. Formed(f \o x, TRUE)
  BY <1>3, <1>8, <1>9, FormedJoin DEF Closed
<1> QED BY <1>8, <1>10

(* The tool messages after a message, which has any or none.               *)
LEMMA TrailingAreTools ==
  ASSUME NEW s \in Seq(Chats), NEW i \in DOMAIN s
  PROVE  /\ TrailingTools(s, i) \in Seq(Chats)
         /\ \A k \in DOMAIN TrailingTools(s, i) : IsTool(TrailingTools(s, i)[k])
<1>1. PICK n \in Nat : n = Len(s)
  OBVIOUS
<1>2. PICK run : run = {j \in i .. n : \A k \in i + 1 .. j : IsTool(s[k])}
  OBVIOUS
<1>3. i \in 1 .. n
  BY <1>1
<1>4. run \in SUBSET (1 .. n) /\ i \in run
  BY <1>2, <1>3
<1>5. \E k \in run : \A j \in run : j <= k
  BY <1>4, GreatestNumber
<1>6. PICK j \in run : j = CHOOSE h \in run : \A k \in run : k <= h
  BY <1>5
<1>7. TrailingTools(s, i) = SubSeq(s, i + 1, j)
  BY <1>1, <1>2, <1>6 DEF TrailingTools
<1>8. PICK t : t = SubSeq(s, i + 1, j)
  OBVIOUS
<1>9. j \in i .. n /\ \A k \in i + 1 .. j : IsTool(s[k])
  BY <1>2
<1>10. t \in Seq(Chats) /\ DOMAIN t = 1 .. j - i /\ \A k \in 1 .. j - i : t[k] = s[i + k]
  BY <1>1, <1>3, <1>8, <1>9, SMTT(30)
<1>11. ASSUME NEW k \in DOMAIN t PROVE IsTool(t[k])
  <2>1. i + k \in i + 1 .. j
    BY <1>3, <1>9, <1>10
  <2> QED BY <1>9, <1>10, <2>1
<1> QED BY <1>7, <1>8, <1>10, <1>11

(* The calls that stay each have a result.                                 *)
Resulted(tools) == {id \in Calls : \E k \in DOMAIN tools : tools[k].id = id}

LEMMA FulfilledResulted ==
  ASSUME NEW msg \in Chats, NEW tools \in Seq(Chats)
  PROVE  Fulfilled(msg, tools) \in Seq(Resulted(tools))
<1>1. PICK c \in Seq(Calls) : c = msg.calls
  <2>1. msg.calls \in Seq(Calls)
    BY DEF Chats
  <2> QED BY <2>1
<1>2. PICK b : b = [i \in DOMAIN c |-> IF \E k \in DOMAIN tools : tools[k].id = c[i] THEN <<c[i]>> ELSE <<>>]
  OBVIOUS
<1>3. PICK R : R = Resulted(tools)
  OBVIOUS
<1>4. ASSUME NEW i \in DOMAIN c PROVE b[i] \in Seq(R)
  <2>1. CASE \E k \in DOMAIN tools : tools[k].id = c[i]
    <3>1. c[i] \in R
      BY <1>3, <2>1 DEF Resulted
    <3> QED BY <1>2, <2>1, <3>1
  <2>2. CASE ~ \E k \in DOMAIN tools : tools[k].id = c[i]
    BY <1>2, <2>2
  <2> QED BY <2>1, <2>2
<1>5. b \in Seq(Seq(R))
  <2>1. PICK Y : Y = Seq(R)
    OBVIOUS
  <2>2. DOMAIN c = 1 .. Len(c) /\ Len(c) \in Nat
    OBVIOUS
  <2>3. b = [i \in 1 .. Len(c) |-> b[i]]
    BY <1>2, <2>2
  <2>4. b \in Seq(Y)
    BY <1>4, <2>1, <2>2, <2>3
  <2> QED BY <2>1, <2>4
<1>6. FlattenSeq(b) \in Seq(R)
  BY <1>5, FlattenTyped
<1>7. Fulfilled(msg, tools) = FlattenSeq(b)
  BY <1>1, <1>2 DEF Fulfilled, Pick
<1> QED BY <1>3, <1>6, <1>7

LEMMA LeastOf ==
  ASSUME NEW T \in SUBSET Nat, T # {}
  PROVE  Min(T) \in T /\ \A i \in T : Min(T) <= i
<1>1. \E x \in T : \A y \in T : x =< y
  BY LeastNumber
<1> QED BY <1>1 DEF Min

LEMMA ResultsAnswer ==
  ASSUME NEW tools \in Seq(Chats), NEW c \in Seq(Resulted(tools)), NEW r, r = ResultsFor(c, tools),
         \A k \in DOMAIN tools : IsTool(tools[k])
  PROVE  /\ r \in Seq(Chats) /\ Len(r) = Len(c)
         /\ \A k \in 1 .. Len(c) : IsTool(r[k]) /\ r[k].id = c[k]
<1>1. PICK n \in Nat, p \in Nat : n = Len(c) /\ p = Len(tools)
  OBVIOUS
<1>2. DOMAIN c = 1 .. n /\ DOMAIN tools = 1 .. p
  BY <1>1
<1>3. ASSUME NEW k \in 1 .. n
      PROVE  r[k] \in Chats /\ IsTool(r[k]) /\ r[k].id = c[k]
  <2>1. PICK I : I = {i \in 1 .. p : tools[i].id = c[k]}
    OBVIOUS
  <2>2. c[k] \in Resulted(tools)
    BY <1>1
  <2>3. I # {} /\ I \in SUBSET Nat
    BY <1>2, <2>1, <2>2 DEF Resulted
  <2>4. Min(I) \in I
    BY <2>3, LeastOf
  <2>5. r[k] = tools[Min(I)]
    BY <1>1, <1>2, <2>1, <2>3 DEF ResultsFor, SelectInSeq
  <2>6. PICK i \in 1 .. p : i = Min(I) /\ tools[i].id = c[k]
    BY <2>1, <2>4
  <2> QED BY <1>2, <2>5, <2>6
<1>4. r = [k \in 1 .. n |-> r[k]]
  BY <1>2 DEF ResultsFor
<1> QED BY <1>1, <1>3, <1>4

LEMMA OrphansPlain ==
  ASSUME NEW msg \in Chats, NEW tools \in Seq(Chats)
  PROVE  Orphans(msg, tools) \in Seq(Chats) /\ Closed(Orphans(msg, tools))
<1>1. PICK b : b = [k \in DOMAIN tools |-> IF ~ Counts(msg, tools, k) THEN <<tools[k]>> ELSE <<>>]
  OBVIOUS
<1>2. ASSUME NEW k \in DOMAIN tools PROVE b[k] \in Seq(Chats)
  <2>1. tools[k] \in Chats
    OBVIOUS
  <2> QED BY <1>1, <2>1
<1>3. b \in Seq(Seq(Chats))
  <2>1. PICK Y : Y = Seq(Chats)
    OBVIOUS
  <2>2. DOMAIN tools = 1 .. Len(tools) /\ Len(tools) \in Nat
    OBVIOUS
  <2>3. b = [i \in 1 .. Len(tools) |-> b[i]]
    BY <1>1, <2>2
  <2>4. b \in Seq(Y)
    BY <1>2, <2>1, <2>2, <2>3
  <2> QED BY <2>1, <2>4
<1>4. PICK f : f = FlattenSeq(b)
  OBVIOUS
<1>5. f \in Seq(Chats)
  BY <1>3, <1>4, FlattenTyped
<1>6. PICK o : o = [k \in DOMAIN f |-> Orphan(f[k])]
  OBVIOUS
<1>7. ASSUME NEW k \in DOMAIN f PROVE o[k] \in Chats /\ ~ HasCalls(o[k]) /\ ~ IsTool(o[k])
  <2>1. f[k] \in Chats
    BY <1>5
  <2>2. PICK c \in Seq(Pieces) : c = f[k].content
    BY <2>1 DEF Chats
  <2>3. o[k] = User(c)
    BY <1>6, <2>2 DEF Orphan
  <2> QED BY <2>3 DEF User, Chats, HasCalls, IsTool
<1>8. o \in Seq(Chats) /\ DOMAIN o = DOMAIN f
  BY <1>5, <1>6, <1>7
<1>9. Closed(o)
  BY <1>7, <1>8 DEF Formed, Closed
<1>10. Orphans(msg, tools) = o
  BY <1>1, <1>4, <1>6 DEF Orphans, Pick
<1> QED BY <1>8, <1>9, <1>10

LEMMA PlainClosed ==
  ASSUME NEW m \in Chats, ~ HasCalls(m), ~ IsTool(m)
  PROVE  <<m>> \in Seq(Chats) /\ Closed(<<m>>)
<1>1. <<m>> \in Seq(Chats) /\ DOMAIN <<m>> = {1} /\ <<m>>[1] = m
  OBVIOUS
<1> QED BY <1>1 DEF Formed, Closed

LEMMA WithoutCalls ==
  ASSUME NEW m \in Chats, HasCalls(m), NEW h, h = [m EXCEPT !.calls = <<>>]
  PROVE  h \in Chats /\ ~ HasCalls(h) /\ ~ IsTool(h)
<1>1. <<>> \in Seq(Calls)
  OBVIOUS
<1>2. h \in Chats /\ h.calls = <<>> /\ h.role = m.role
  BY <1>1 DEF Chats
<1> QED BY <1>2 DEF HasCalls, IsTool

LEMMA WithCalls ==
  ASSUME NEW m \in Chats, HasCalls(m), NEW c \in Seq(Calls), c # <<>>, NEW h, h = [m EXCEPT !.calls = c]
  PROVE  h \in Chats /\ h.calls = c /\ HasCalls(h) /\ ~ IsTool(h)
BY DEF Chats, HasCalls, IsTool

LEMMA AnsweredBlock ==
  ASSUME NEW h \in Chats, HasCalls(h), ~ IsTool(h), NEW c \in Seq(Calls), h.calls = c,
         NEW r \in Seq(Chats), Len(r) = Len(c),
         \A k \in 1 .. Len(c) : IsTool(r[k]) /\ r[k].id = c[k]
  PROVE  <<h>> \o r \in Seq(Chats) /\ Closed(<<h>> \o r)
<1>1. PICK n \in Nat : n = Len(c)
  OBVIOUS
<1>2. PICK u : u = <<h>> \o r
  OBVIOUS
<1>3. u \in Seq(Chats) /\ Len(u) = 1 + n /\ DOMAIN u = 1 .. 1 + n /\ u[1] = h
      /\ \A k \in 1 .. n : u[1 + k] = r[k]
  BY <1>1, <1>2
<1>4. ASSUME NEW k \in 1 .. n PROVE IsTool(u[1 + k]) /\ u[1 + k].id = c[k]
  BY <1>1, <1>3
<1>5. Answered(u, 1)
  <2>1. DOMAIN c = 1 .. n
    BY <1>1
  <2> QED BY <1>1, <1>3, <1>4, <2>1 DEF Answered
<1>6. ASSUME NEW i \in 1 .. 1 + n, i # 1
      PROVE  IsTool(u[i]) /\ 1 \in 1 .. i - 1 /\ i <= 1 + n
  <2>1. PICK k \in 1 .. n : i = 1 + k
    <3>1. i - 1 \in 1 .. n /\ i = 1 + (i - 1)
      BY <1>6
    <3> QED BY <3>1
  <2>2. IsTool(u[1 + k])
    BY <1>4
  <2>3. IsTool(u[i])
    BY <2>1, <2>2
  <2> QED BY <1>6, <2>3
<1>7. ASSUME NEW i \in DOMAIN u, HasCalls(u[i]) PROVE Answered(u, i)
  <2>1. CASE i = 1
    BY <1>5, <2>1
  <2>2. CASE i # 1
    <3>1. IsTool(u[i])
      BY <1>3, <1>6, <2>2
    <3> QED BY <1>7, <3>1 DEF IsTool, HasCalls
  <2> QED BY <2>1, <2>2
<1>8. ASSUME NEW i \in DOMAIN u, IsTool(u[i])
      PROVE  \E k \in 1 .. i - 1 : HasCalls(u[k]) /\ i <= k + Len(u[k].calls)
  <2>1. i # 1
    BY <1>3, <1>8
  <2>2. 1 \in 1 .. i - 1 /\ i <= 1 + n
    BY <1>3, <1>6, <2>1
  <2>3. HasCalls(u[1]) /\ Len(u[1].calls) = n
    BY <1>1, <1>3
  <2> QED BY <2>2, <2>3
<1>9. Closed(u)
  BY <1>7, <1>8 DEF Formed, Closed
<1> QED BY <1>2, <1>3, <1>9

LEMMA PairClosed ==
  ASSUME NEW m \in Chats, HasCalls(m), NEW tools \in Seq(Chats), \A k \in DOMAIN tools : IsTool(tools[k])
  PROVE  Pair(m, tools) \in Seq(Chats) /\ Closed(Pair(m, tools))
<1>1. PICK c : c = Fulfilled(m, tools)
  OBVIOUS
<1>2. PICK o : o = Orphans(m, tools)
  OBVIOUS
<1>3. c \in Seq(Resulted(tools))
  BY <1>1, FulfilledResulted
<1>4. o \in Seq(Chats) /\ Closed(o)
  BY <1>2, OrphansPlain
<1>5. PICK b : b = IF c # <<>> THEN <<[m EXCEPT !.calls = c]>> \o ResultsFor(c, tools)
                   ELSE IF m.content # <<>> THEN <<[m EXCEPT !.calls = <<>>]>> ELSE <<>>
  OBVIOUS
<1>6. b \in Seq(Chats) /\ Closed(b)
  <2>1. CASE c # <<>>
    <3>1. PICK h : h = [m EXCEPT !.calls = c]
      OBVIOUS
    <3>2. c \in Seq(Calls)
      BY <1>3 DEF Resulted
    <3>3. h \in Chats /\ h.calls = c /\ HasCalls(h) /\ ~ IsTool(h)
      BY <2>1, <3>1, <3>2, WithCalls
    <3>4. PICK r : r = ResultsFor(c, tools)
      OBVIOUS
    <3>5. /\ r \in Seq(Chats) /\ Len(r) = Len(c)
          /\ \A k \in 1 .. Len(c) : IsTool(r[k]) /\ r[k].id = c[k]
      BY <1>3, <3>4, ResultsAnswer
    <3>6. <<h>> \o r \in Seq(Chats) /\ Closed(<<h>> \o r)
      BY <3>2, <3>3, <3>5, AnsweredBlock
    <3> QED BY <1>5, <2>1, <3>1, <3>4, <3>6
  <2>2. CASE c = <<>> /\ m.content # <<>>
    <3>1. PICK h : h = [m EXCEPT !.calls = <<>>]
      OBVIOUS
    <3>2. h \in Chats /\ ~ HasCalls(h) /\ ~ IsTool(h)
      BY <3>1, WithoutCalls
    <3>3. b = <<h>>
      BY <1>5, <2>2, <3>1
    <3> QED BY <3>2, <3>3, PlainClosed
  <2>3. CASE c = <<>> /\ m.content = <<>>
    BY <1>5, <2>3, NoneFormed
  <2> QED BY <2>1, <2>2, <2>3
<1>7. Pair(m, tools) = b \o o
  BY <1>1, <1>2, <1>5 DEF Pair
<1>8. b \o o \in Seq(Chats) /\ Closed(b \o o)
  BY <1>4, <1>6, FormedJoin DEF Closed
<1> QED BY <1>7, <1>8

LEMMA LastFormed ==
  ASSUME NEW m \in Chats, ~ IsTool(m)
  PROVE  <<m>> \in Seq(Chats) /\ Formed(<<m>>, TRUE)
<1>1. <<m>> \in Seq(Chats) /\ DOMAIN <<m>> = {1} /\ <<m>>[1] = m /\ Len(<<m>>) = 1
  OBVIOUS
<1> QED BY <1>1 DEF Formed

LEMMA ClosedFormed ==
  ASSUME NEW s, Closed(s)
  PROVE  Formed(s, TRUE)
BY DEF Formed, Closed

LEMMA OrphanPlain ==
  ASSUME NEW m \in Chats
  PROVE  Orphan(m) \in Chats /\ ~ HasCalls(Orphan(m)) /\ ~ IsTool(Orphan(m))
<1>1. PICK c \in Seq(Pieces) : c = m.content
  BY DEF Chats
<1>2. Orphan(m) = User(c)
  BY <1>1 DEF Orphan
<1> QED BY <1>2 DEF User, Chats, HasCalls, IsTool

LEMMA BlockFormed ==
  ASSUME NEW s \in Seq(Chats), NEW i \in DOMAIN s, NEW b, b = SanitizeAt(s, i)
  PROVE  b \in Seq(Chats) /\ Formed(b, TRUE) /\ (i # Len(s) => Closed(b))
<1>1. PICK m \in Chats : m = s[i]
  OBVIOUS
<1>2. CASE HasCalls(m) /\ i = Len(s)
  <2>1. b = <<m>>
    BY <1>1, <1>2 DEF SanitizeAt
  <2>2. ~ IsTool(m)
    BY <1>2 DEF HasCalls, IsTool
  <2> QED BY <1>2, <2>1, <2>2, LastFormed
<1>3. CASE HasCalls(m) /\ i # Len(s)
  <2>1. PICK tools : tools = TrailingTools(s, i)
    OBVIOUS
  <2>2. tools \in Seq(Chats) /\ \A k \in DOMAIN tools : IsTool(tools[k])
    BY <2>1, TrailingAreTools
  <2>3. b = Pair(m, tools)
    BY <1>1, <1>3, <2>1 DEF SanitizeAt
  <2>4. b \in Seq(Chats) /\ Closed(b)
    BY <1>3, <2>2, <2>3, PairClosed
  <2> QED BY <2>4, ClosedFormed
<1>4. CASE ~ HasCalls(m) /\ ~ IsTool(m)
  <2>1. b = <<m>>
    BY <1>1, <1>4 DEF SanitizeAt
  <2> QED BY <1>4, <2>1, PlainClosed, ClosedFormed
<1>5. CASE ~ HasCalls(m) /\ IsTool(m)
  <2>1. b = <<>> \/ b = <<Orphan(m)>>
    BY <1>1, <1>5 DEF SanitizeAt
  <2>2. PICK h : h = Orphan(m)
    OBVIOUS
  <2>3. h \in Chats /\ ~ HasCalls(h) /\ ~ IsTool(h)
    BY <2>2, OrphanPlain
  <2>4. <<h>> \in Seq(Chats) /\ Closed(<<h>>)
    BY <2>3, PlainClosed
  <2>5. b \in Seq(Chats) /\ Closed(b)
    BY <2>1, <2>2, <2>4, NoneFormed
  <2> QED BY <2>5, ClosedFormed
<1> QED BY <1>2, <1>3, <1>4, <1>5

(* Whatever the history it is given, the repair leaves a well-formed one.  *)
LEMMA SanitizeFormed ==
  ASSUME NEW s \in Seq(Chats)
  PROVE  Sanitize(s) \in Seq(Chats) /\ WellFormed(Sanitize(s))
<1>1. PICK n \in Nat : n = Len(s) /\ DOMAIN s = 1 .. n
  OBVIOUS
<1>2. PICK b : b = [i \in 1 .. n |-> SanitizeAt(s, i)]
  OBVIOUS
<1>3. ASSUME NEW i \in 1 .. n PROVE b[i] \in Seq(Chats) /\ Formed(b[i], TRUE) /\ (i # n => Closed(b[i]))
  <2>1. b[i] = SanitizeAt(s, i)
    BY <1>2
  <2> QED BY <1>1, <2>1, BlockFormed
<1>4. b \in Seq(Seq(Chats)) /\ Len(b) = n
  <2>1. PICK Y : Y = Seq(Chats)
    OBVIOUS
  <2>2. b = [i \in 1 .. n |-> b[i]]
    BY <1>2
  <2>3. \A i \in 1 .. n : b[i] \in Y
    BY <1>3, <2>1
  <2>4. b \in Seq(Y) /\ Len(b) = n
    BY <2>2, <2>3
  <2> QED BY <2>1, <2>4
<1>5. PICK f : f = FlattenSeq(b)
  OBVIOUS
<1>6. Sanitize(s) = f
  BY <1>1, <1>2, <1>5 DEF Sanitize
<1>7. f \in Seq(Chats)
  BY <1>4, <1>5, FlattenTyped
<1>8. Formed(f, TRUE)
  <2>1. CASE n = 0
    <3>1. b = <<>>
      BY <1>4, <2>1, EmptySeq
    <3>2. f = <<>>
      BY <1>5, <3>1, FlattenEmpty
    <3> QED BY <3>2, NoneFormed, ClosedFormed
  <2>2. CASE n # 0
    <3>1. n \in 1 .. n
      BY <2>2
    <3>2. Formed(b[n], TRUE) /\ \A i \in 1 .. n : i # n => Closed(b[i])
      BY <1>3, <3>1
    <3> QED BY <1>4, <1>5, <2>2, <3>2, FlattenFormed
  <2> QED BY <2>1, <2>2
<1>9. WellFormed(f)
  BY <1>8 DEF WellFormed, Formed
<1> QED BY <1>6, <1>7, <1>9

-----------------------------------------------------------------------------
(* From the history to the request.                                        *)
LEMMA OrderTyped ==
  ASSUME NEW s \in CallOrders
  PROVE  s \in Seq(Calls)
<1>1. s = <<>> \/ s \in [1 .. 1 -> Calls] \/ s \in [1 .. 2 -> Calls]
  BY DEF CallOrders, SeqsUpTo2
<1>2. ASSUME NEW n \in Nat, s \in [1 .. n -> Calls] PROVE s \in Seq(Calls)
  BY <1>2
<1>3. <<>> \in Seq(Calls) /\ 1 \in Nat /\ 2 \in Nat
  OBVIOUS
<1> QED BY <1>1, <1>2, <1>3

LEMMA OneTyped ==
  ASSUME NEW X, NEW s, s = <<>> \/ \E x \in X : s = <<x>>
  PROVE  s \in Seq(X)
<1>1. <<>> \in Seq(X)
  OBVIOUS
<1>2. ASSUME NEW x \in X, s = <<x>> PROVE s \in Seq(X)
  <2>1. <<x>> \in Seq(X)
    OBVIOUS
  <2> QED BY <1>2, <2>1
<1> QED BY <1>1, <1>2

LEMMA MaybeTyped ==
  ASSUME NEW S, NEW X, S \subseteq X, NEW s \in Maybe(S)
  PROVE  s \in Seq(X)
<1>1. s = <<>> \/ \E x \in X : s = <<x>>
  BY DEF Maybe
<1> QED BY <1>1, OneTyped

LEMMA CachedTyped ==
  ASSUME IInv, NEW msg \in Kept, msg.role = "assistant", msg.calls # <<>>
  PROVE  GetBest(msg.calls, msg.text) \in Seq(Nat)
<1>1. PICK c \in CallOrders : c = msg.calls
  BY DEF Kept, Messages
<1>2. PICK t : t = msg.text
  OBVIOUS
<1>3. CacheKey(c) \in CacheKeys
  BY <1>1, OrderKey
<1>4. PICK r : r = toolStore[CacheKey(c)]
  OBVIOUS
<1>5. r = <<>> \/ \E n \in DOMAIN turns : r = <<n>>
  BY <1>3, <1>4 DEF IInv, TierIsOwn
<1>6. \A n \in DOMAIN turns : n \in Nat
  <2>1. DOMAIN turns = 1 .. Len(turns) /\ Len(turns) \in Nat
    BY TurnShape DEF IInv
  <2> QED BY <2>1
<1>7. r \in Seq(Nat)
  <2>1. r = <<>> \/ \E n \in Nat : r = <<n>>
    BY <1>5, <1>6
  <2> QED BY <2>1, OneTyped
<1>8. CASE t = <<>>
  <2>1. GetBest(c, t) = IF r # <<>> THEN r ELSE <<>>
    BY <1>4, <1>8 DEF GetBest
  <2>2. <<>> \in Seq(Nat)
    OBVIOUS
  <2> QED BY <1>1, <1>2, <1>7, <2>1, <2>2
<1>9. CASE t # <<>>
  <2>1. OfItsTurn(msg)
    BY DEF Kept
  <2>2. PICK n \in DOMAIN turns : t = turns[n].text
    BY <1>2, <1>9, <2>1 DEF OfItsTurn
  <2>3. turns[n].text \in Maybe(Texts)
    BY TurnShape DEF IInv, TurnsOf
  <2>4. PICK x \in Texts : t = <<x>>
    BY <1>9, <2>2, <2>3 DEF Maybe
  <2>5. t[1] = x
    BY <2>4
  <2>6. PICK v : v = textStore[x]
    OBVIOUS
  <2>7. v = <<>> \/ \E m \in DOMAIN turns : v = <<m>>
    BY <2>6 DEF IInv, TextTierIsOwn
  <2>8. v \in Seq(Nat)
    <3>1. v = <<>> \/ \E m \in Nat : v = <<m>>
      BY <1>6, <2>7
    <3> QED BY <3>1, OneTyped
  <2>9. GetBest(c, t) = IF r # <<>> THEN r ELSE v
    BY <1>4, <1>9, <2>5, <2>6 DEF GetBest
  <2> QED BY <1>1, <1>2, <1>7, <2>8, <2>9
<1> QED BY <1>8, <1>9

LEMMA AssistantTyped ==
  ASSUME IInv, NEW msg \in Kept, msg.role = "assistant"
  PROVE  ConvertAssistantMessage(msg) \in Chats
<1>1. PICK c \in CallOrders : c = msg.calls
  BY DEF Kept, Messages
<1>2. PICK t \in Maybe(Texts \cup {Ask, Blank}) : t = msg.text
  BY DEF Kept, Messages
<1>3. PICK h \in Maybe(1 .. Len(turns)) : h = msg.thinking
  BY DEF Kept, Messages
<1>4. PICK r : r = IF h # <<>> \/ c = <<>> THEN h
                   ELSE IF GetBest(c, t) # <<>> THEN GetBest(c, t) ELSE <<Placeholder>>
  OBVIOUS
<1>5. h \in Seq(Nat)
  <2>1. 1 .. Len(turns) \subseteq Nat
    OBVIOUS
  <2> QED BY <2>1, MaybeTyped
<1>6. r \in Seq(Nat)
  <2>1. CASE h # <<>> \/ c = <<>>
    BY <1>4, <1>5, <2>1
  <2>2. CASE h = <<>> /\ c # <<>>
    <3>1. GetBest(c, t) \in Seq(Nat)
      BY <1>1, <1>2, <2>2, CachedTyped
    <3>2. <<Placeholder>> \in Seq(Nat)
      BY DEF Placeholder
    <3> QED BY <1>4, <2>2, <3>1, <3>2
  <2> QED BY <2>1, <2>2
<1>7. t \in Seq(Pieces)
  <2>1. Texts \cup {Ask, Blank} \subseteq Pieces
    BY DEF Pieces
  <2> QED BY <2>1, MaybeTyped
<1>8. c \in Seq(Calls)
  BY OrderTyped
<1>9. ConvertAssistantMessage(msg) = Assistant(t, r, c)
  BY <1>1, <1>2, <1>3, <1>4 DEF ConvertAssistantMessage
<1> QED BY <1>6, <1>7, <1>8, <1>9 DEF Assistant, Chats

LEMMA UserTyped ==
  ASSUME NEW msg \in Kept
  PROVE  ConvertUserMessage(msg) \in Seq(Chats)
<1>1. PICK q \in Seq([id : Calls, n : Seq(Nat)]) : q = msg.results
  BY DEF Kept, Messages
<1>2. PICK t \in Maybe(Texts \cup {Ask, Blank}) : t = msg.text
  BY DEF Kept, Messages
<1>3. PICK r : r = [i \in DOMAIN q |-> Tool(q[i].id, <<q[i]>>)]
  OBVIOUS
<1>4. ASSUME NEW i \in DOMAIN q PROVE r[i] \in Chats
  <2>1. PICK x \in [id : Calls, n : Seq(Nat)] : x = q[i]
    <3>1. q[i] \in [id : Calls, n : Seq(Nat)]
      <4>1. PICK R : R = [id : Calls, n : Seq(Nat)]
        OBVIOUS
      <4>2. q \in Seq(R)
        BY <4>1
      <4>3. q[i] \in R
        BY <4>2
      <4> QED BY <4>1, <4>3
    <3> QED BY <3>1
  <2>2. r[i] = Tool(x.id, <<x>>)
    BY <1>3, <2>1
  <2>3. <<x>> \in Seq(Pieces)
    BY DEF Pieces
  <2>4. <<>> \in Seq(Nat) /\ <<>> \in Seq(Calls)
    OBVIOUS
  <2> QED BY <2>2, <2>3, <2>4 DEF Tool, Chats
<1>5. r \in Seq(Chats)
  <2>1. PICK n \in Nat : n = Len(q) /\ DOMAIN q = 1 .. n
    BY LenProperties
  <2>2. r = [i \in 1 .. n |-> r[i]]
    BY <1>3, <2>1
  <2> QED BY <1>4, <2>1, <2>2
<1>6. t \in Seq(Pieces)
  <2>1. Texts \cup {Ask, Blank} \subseteq Pieces
    BY DEF Pieces
  <2> QED BY <2>1, MaybeTyped
<1>7. <<User(t)>> \in Seq(Chats)
  <2>1. <<>> \in Seq(Nat) /\ <<>> \in Seq(Calls)
    OBVIOUS
  <2>2. User(t) \in Chats
    BY <1>6, <2>1 DEF User, Chats
  <2> QED BY <2>2
<1>8. PICK u : u = IF q = <<>> \/ t # <<>> THEN <<User(t)>> ELSE <<>>
  OBVIOUS
<1>9. u \in Seq(Chats)
  BY <1>7, <1>8
<1>10. ConvertUserMessage(msg) = r \o u
  BY <1>1, <1>2, <1>3, <1>8 DEF ConvertUserMessage
<1> QED BY <1>5, <1>9, <1>10

LEMMA ConvertedTyped ==
  ASSUME IInv
  PROVE  Converted \in Seq(Chats)
<1>1. PICK n \in Nat : n = Len(history) /\ DOMAIN history = 1 .. n
  BY HistoryShape DEF IInv
<1>2. PICK b : b = [i \in 1 .. n |-> ConvertMessage(history[i])]
  OBVIOUS
<1>3. ASSUME NEW i \in 1 .. n PROVE b[i] \in Seq(Chats)
  <2>1. PICK m \in Kept : m = history[i]
    BY <1>1, HistoryShape DEF IInv
  <2>2. b[i] = ConvertMessage(m)
    BY <1>2, <2>1
  <2>3. CASE m.role = "user"
    BY <2>2, <2>3, UserTyped DEF ConvertMessage
  <2>4. CASE m.role # "user"
    <3>1. m.role = "assistant"
      BY <2>4 DEF Kept, Messages
    <3>2. PICK c : c = ConvertAssistantMessage(m)
      OBVIOUS
    <3>3. c \in Chats
      BY <3>1, <3>2, AssistantTyped
    <3>4. b[i] = <<c>>
      BY <2>2, <2>4, <3>2 DEF ConvertMessage
    <3> QED BY <3>3, <3>4
  <2> QED BY <2>3, <2>4
<1>4. b \in Seq(Seq(Chats))
  <2>1. PICK Y : Y = Seq(Chats)
    OBVIOUS
  <2>2. \A i \in 1 .. n : b[i] \in Y
    BY <1>3, <2>1
  <2>3. b \in Seq(Y)
    BY <1>2, <2>2
  <2> QED BY <2>1, <2>3
<1>5. Converted = FlattenSeq(b)
  BY <1>1, <1>2 DEF Converted
<1> QED BY <1>4, <1>5, FlattenTyped

LEMMA IInvWellFormed == IInv => RequestWellFormed
<1> SUFFICES ASSUME IInv PROVE RequestWellFormed
  OBVIOUS
<1>1. PICK s : s = Coalesce(Converted)
  OBVIOUS
<1>2. s \in Seq(Chats)
  BY <1>1, ConvertedTyped, CoalesceTyped
<1>3. WellFormed(Sanitize(s))
  BY <1>2, SanitizeFormed
<1>4. WellFormed(<<User(<<Blank>>)>>)
  <2>1. PICK u : u = User(<<Blank>>)
    OBVIOUS
  <2>2. ~ HasCalls(u) /\ ~ IsTool(u)
    BY <2>1 DEF User, HasCalls, IsTool
  <2>3. DOMAIN <<u>> = {1} /\ <<u>>[1] = u
    OBVIOUS
  <2>4. WellFormed(<<u>>)
    BY <2>2, <2>3 DEF WellFormed
  <2> QED BY <2>1, <2>4
<1>5. Request = Sanitize(s) \/ Request = <<User(<<Blank>>)>>
  BY <1>1 DEF Request
<1> QED BY <1>3, <1>4, <1>5 DEF RequestWellFormed

(* Whatever the client has done to the history, the upstream gets one in   *)
(* which every call is followed by its result, in the order of the calls,  *)
(* and no result comes without its call (RequestWellFormed).               *)
THEOREM WellFormedRequest == Spec => []RequestWellFormed
<1> QED BY Inductive, IInvWellFormed, PTL

-----------------------------------------------------------------------------
(* The results: where they are in the history.                             *)

(* The turns there had been when a result was given.                       *)
Level(x) == x.n[1]

CallsApart(h) ==
    \A i, j \in DOMAIN h : i # j => ToSet(h[i].calls) \cap ToSet(h[j].calls) = {}

UsersAnswer(h) == \A i \in DOMAIN h : h[i].role = "assistant" => h[i].results = <<>>

InOrder(h, n) ==
    \A i \in DOMAIN h : \A k \in DOMAIN h[i].results :
        LET level == Level(h[i].results[k])
        IN  level \in Nat /\ level <= n /\ (level = n => i = Len(h))

ResultsDiffer(h) ==
    \A i, j \in DOMAIN h : \A k \in DOMAIN h[i].results, l \in DOMAIN h[j].results :
        h[i].results[k] = h[j].results[l] => i = j /\ k = l

(* No call and no result is in the history twice, and the results given    *)
(* since the last turn are in the last message.                            *)
Linked(h, n) == CallsApart(h) /\ UsersAnswer(h) /\ InOrder(h, n) /\ ResultsDiffer(h)

RInv == Linked(history, Len(turns))

(* The messages of u are those of h, or parts of them, at other places.    *)
Carries(g, h, u) ==
    /\ \A j \in DOMAIN u :
          /\ g[j] \in DOMAIN h /\ u[j].role = h[g[j]].role /\ u[j].results = h[g[j]].results
          /\ ToSet(u[j].calls) \subseteq ToSet(h[g[j]].calls)
    /\ \A i, j \in DOMAIN u : i # j /\ g[i] = g[j] =>
          u[i].results = <<>> /\ ToSet(u[i].calls) \cap ToSet(u[j].calls) = {}
    /\ \A j \in DOMAIN u : u[j].results # <<>> /\ g[j] = Len(h) => j = Len(u)

LEMMA NoneIn ==
  ASSUME NEW s, NEW k \in DOMAIN s
  PROVE  s # <<>>
<1>1. DOMAIN <<>> = {}
  OBVIOUS
<1> QED BY <1>1

LEMMA CarriedLinked ==
  ASSUME NEW h, NEW u, NEW g, NEW n, Linked(h, n), Carries(g, h, u)
  PROVE  Linked(u, n)
<1>1. ASSUME NEW i \in DOMAIN u, NEW j \in DOMAIN u, i # j
      PROVE  ToSet(u[i].calls) \cap ToSet(u[j].calls) = {}
  <2>1. CASE g[i] = g[j]
    BY <1>1, <2>1 DEF Carries
  <2>2. CASE g[i] # g[j]
    <3>1. g[i] \in DOMAIN h /\ g[j] \in DOMAIN h
      BY DEF Carries
    <3>2. ToSet(h[g[i]].calls) \cap ToSet(h[g[j]].calls) = {}
      BY <2>2, <3>1 DEF Linked, CallsApart
    <3>3. ToSet(u[i].calls) \subseteq ToSet(h[g[i]].calls) /\ ToSet(u[j].calls) \subseteq ToSet(h[g[j]].calls)
      BY DEF Carries
    <3> QED BY <3>2, <3>3
  <2> QED BY <2>1, <2>2
<1>2. ASSUME NEW i \in DOMAIN u, u[i].role = "assistant"
      PROVE  u[i].results = <<>>
  BY <1>2 DEF Carries, Linked, UsersAnswer
<1>3. ASSUME NEW i \in DOMAIN u, NEW k \in DOMAIN u[i].results
      PROVE  LET level == Level(u[i].results[k])
             IN  level \in Nat /\ level <= n /\ (level = n => i = Len(u))
  <2>1. PICK p \in DOMAIN h : p = g[i] /\ u[i].results = h[p].results
    BY DEF Carries
  <2>2. PICK level : level = Level(h[p].results[k])
    OBVIOUS
  <2>3. level \in Nat /\ level <= n /\ (level = n => p = Len(h))
    BY <1>3, <2>1, <2>2 DEF Linked, InOrder
  <2>4. u[i].results # <<>>
    BY <1>3, NoneIn
  <2>5. p = Len(h) => i = Len(u)
    BY <2>1, <2>4 DEF Carries
  <2> QED BY <2>1, <2>2, <2>3, <2>5
<1>4. ASSUME NEW i \in DOMAIN u, NEW j \in DOMAIN u,
             NEW k \in DOMAIN u[i].results, NEW l \in DOMAIN u[j].results,
             u[i].results[k] = u[j].results[l]
      PROVE  i = j /\ k = l
  <2>1. PICK p \in DOMAIN h : p = g[i] /\ u[i].results = h[p].results
    BY DEF Carries
  <2>2. PICK q \in DOMAIN h : q = g[j] /\ u[j].results = h[q].results
    BY DEF Carries
  <2>3. p = q /\ k = l
    BY <1>4, <2>1, <2>2 DEF Linked, ResultsDiffer
  <2>4. u[i].results # <<>>
    BY NoneIn
  <2>5. i = j
    BY <2>1, <2>2, <2>3, <2>4 DEF Carries
  <2> QED BY <2>3, <2>5
<1> QED BY <1>1, <1>2, <1>3, <1>4 DEF Linked, CallsApart, UsersAnswer, InOrder, ResultsDiffer

LEMMA AppendedAt ==
  ASSUME NEW S, NEW s \in Seq(S), NEW x, NEW t, t = Append(s, x)
  PROVE  /\ Len(s) \in Nat /\ DOMAIN s = 1 .. Len(s) /\ Len(t) = Len(s) + 1
         /\ DOMAIN t = 1 .. Len(s) + 1 /\ t[Len(s) + 1] = x /\ \A i \in 1 .. Len(s) : t[i] = s[i]
OBVIOUS

Without(t, s, n, i) ==
    /\ Len(t) = n - 1 /\ DOMAIN t = 1 .. n - 1
    /\ \A j \in 1 .. n - 1 : (j < i => t[j] = s[j]) /\ (j >= i => t[j] = s[j + 1])

LEMMA RemovedAt ==
  ASSUME NEW S, NEW s \in Seq(S), NEW n \in Nat, n = Len(s), NEW i \in 1 .. n, NEW t, t = RemoveAt(s, i)
  PROVE  Without(t, s, n, i)
<1>1. PICK a, b : a = SubSeq(s, 1, i - 1) /\ b = SubSeq(s, i + 1, n)
  OBVIOUS
<1>2. a \in Seq(S) /\ b \in Seq(S) /\ Len(a) = i - 1 /\ Len(b) = n - i
      /\ (\A j \in 1 .. i - 1 : a[j] = s[j]) /\ (\A j \in 1 .. n - i : b[j] = s[i + j])
  BY <1>1
<1>3. t = a \o b
  BY <1>1 DEF RemoveAt
<1>4. Len(t) = n - 1 /\ DOMAIN t = 1 .. n - 1
  BY <1>2, <1>3
<1>5. ASSUME NEW j \in 1 .. n - 1 PROVE (j < i => t[j] = s[j]) /\ (j >= i => t[j] = s[j + 1])
  <2>1. CASE j < i
    BY <1>2, <1>3, <2>1
  <2>2. CASE j >= i
    <3>1. PICK k \in 1 .. n - i : k = j - (i - 1)
      BY <2>2
    <3>2. t[j] = b[k]
      BY <1>2, <1>3, <2>2, <3>1, SMTT(30)
    <3>3. b[k] = s[i + k] /\ i + k = j + 1
      BY <1>2, <3>1
    <3> QED BY <2>2, <3>2, <3>3
  <2> QED BY <2>1, <2>2
<1> QED BY <1>4, <1>5 DEF Without

With(t, s, n, i, e) ==
    /\ Len(t) = n + 1 /\ DOMAIN t = 1 .. n + 1 /\ t[i] = e
    /\ \A j \in 1 .. n + 1 : (j < i => t[j] = s[j]) /\ (j > i => t[j] = s[j - 1])

LEMMA InsertedAt ==
  ASSUME NEW S, NEW s \in Seq(S), NEW n \in Nat, n = Len(s), NEW i \in 1 .. n + 1, NEW e \in S,
         NEW t, t = InsertAt(s, i, e)
  PROVE  With(t, s, n, i, e)
<1>1. PICK a, b : a = SubSeq(s, 1, i - 1) /\ b = SubSeq(s, i, n)
  OBVIOUS
<1>2. a \in Seq(S) /\ b \in Seq(S) /\ Len(a) = i - 1 /\ Len(b) = n + 1 - i
      /\ (\A j \in 1 .. i - 1 : a[j] = s[j]) /\ (\A j \in 1 .. n + 1 - i : b[j] = s[i - 1 + j])
  BY <1>1
<1>3. PICK c : c = a \o <<e>>
  OBVIOUS
<1>4. c \in Seq(S) /\ Len(c) = i /\ c[i] = e /\ \A j \in 1 .. i - 1 : c[j] = s[j]
  BY <1>2, <1>3
<1>5. t = c \o b
  BY <1>1, <1>3 DEF InsertAt
<1>6. Len(t) = n + 1 /\ DOMAIN t = 1 .. n + 1 /\ t[i] = e
  <2>1. t \in Seq(S) /\ Len(t) = i + (n + 1 - i)
    <3>1. c \o b \in Seq(S) /\ Len(c \o b) = Len(c) + Len(b)
      BY <1>2, <1>4, ConcatProperties
    <3> QED BY <1>2, <1>4, <1>5, <3>1
  <2>2. i \in 1 .. i /\ t[i] = c[i]
    BY <1>2, <1>4, <1>5
  <2>3. i + (n + 1 - i) = n + 1
    OBVIOUS
  <2> QED BY <1>4, <2>1, <2>2, <2>3
<1>7. ASSUME NEW j \in 1 .. n + 1 PROVE (j < i => t[j] = s[j]) /\ (j > i => t[j] = s[j - 1])
  <2>1. CASE j < i
    BY <1>2, <1>4, <1>5, <2>1
  <2>2. CASE j > i
    <3>1. PICK k \in 1 .. n + 1 - i : k = j - i
      BY <2>2
    <3>2. t[j] = b[k]
      BY <1>2, <1>4, <1>5, <2>2, <3>1
    <3>3. b[k] = s[i - 1 + k] /\ i - 1 + k = j - 1
      BY <1>2, <3>1
    <3> QED BY <2>2, <3>2, <3>3
  <2>3. CASE j = i
    BY <2>3
  <2> QED BY <2>1, <2>2, <2>3
<1> QED BY <1>6, <1>7 DEF With

LEMMA RInvInit == Init => RInv
<1> SUFFICES ASSUME Init PROVE RInv
  OBVIOUS
<1>1. PICK m : m = UserMessage(<<>>, <<Ask>>)
  OBVIOUS
<1>2. m.results = <<>> /\ m.role = "user"
  BY <1>1 DEF UserMessage
<1>3. PICK h : h = history
  OBVIOUS
<1>4. h = <<m>> /\ DOMAIN h = {1} /\ h[1] = m
  BY <1>1, <1>3 DEF Init
<1>5. DOMAIN m.results = {}
  BY <1>2
<1>6. CallsApart(h) /\ UsersAnswer(h) /\ InOrder(h, Len(turns)) /\ ResultsDiffer(h)
  BY <1>2, <1>4, <1>5 DEF CallsApart, UsersAnswer, InOrder, ResultsDiffer
<1> QED BY <1>3, <1>6 DEF RInv, Linked

(* The calls of a message are calls of its turn.                           *)
LEMMA CallsUsed ==
  ASSUME IInv, NEW i \in DOMAIN history
  PROVE  ToSet(history[i].calls) \subseteq UsedCalls
<1>1. PICK m \in Kept : m = history[i]
  BY HistoryShape DEF IInv
<1>2. CASE m.role = "user"
  <2>1. m.calls = <<>>
    BY <1>2 DEF Kept
  <2> QED BY <1>1, <2>1, NoCall
<1>3. CASE m.role # "user"
  <2>1. m.of \in DOMAIN turns /\ ToSet(m.calls) \subseteq ToSet(turns[m.of].calls)
    BY <1>3 DEF Kept, OfItsTurn
  <2> QED BY <1>1, <2>1 DEF UsedCalls
<1> QED BY <1>2, <1>3

LEMMA NewCallsApart ==
  ASSUME NEW calls \in CallSeqs
  PROVE  ToSet(calls) \cap UsedCalls = {}
<1>1. calls \in SeqsUpTo2(Calls \ UsedCalls)
  BY DEF CallSeqs
<1>2. CASE calls = <<>>
  BY <1>2, NoCall
<1>3. CASE calls \in [1 .. 1 -> Calls \ UsedCalls] \/ calls \in [1 .. 2 -> Calls \ UsedCalls]
  BY <1>3 DEF ToSet
<1> QED BY <1>1, <1>2, <1>3 DEF SeqsUpTo2

LEMMA RRespondStep ==
  ASSUME IInv, RInv, Respond
  PROVE  RInv'
<1>1. PICK n, h, u : n = Len(turns) /\ h = history /\ u = history'
  OBVIOUS
<1>2. n \in Nat /\ h \in Seq(Kept)
  BY <1>1, TurnShape DEF IInv
<1>3. PICK calls \in CallSeqs, text \in {<<>>} \cup {<<t>> : t \in Texts},
           reasoning \in {<<>>, <<n + 1>>} :
         /\ u = Append(h, ConvertOpenAIMessage(n + 1, reasoning, text, calls))
         /\ turns' = Append(turns, [reasoning |-> reasoning, text |-> text, calls |-> calls])
  BY <1>1 DEF Respond
<1>4. PICK m : m = ConvertOpenAIMessage(n + 1, reasoning, text, calls)
  OBVIOUS
<1>5. m.role = "assistant" /\ m.results = <<>> /\ m.calls = calls
  BY <1>4 DEF ConvertOpenAIMessage, AssistantMessage
<1>6. PICK l \in Nat : l = Len(h) /\ DOMAIN h = 1 .. l
  BY <1>2
<1>7. DOMAIN u = 1 .. l + 1 /\ u[l + 1] = m /\ Len(u) = l + 1 /\ \A i \in 1 .. l : u[i] = h[i]
  BY <1>2, <1>3, <1>4, <1>6, AppendedAt
<1>8. Len(turns') = n + 1
  <2>1. turns \in Seq(TurnsOf(Len(turns)))
    BY DEF IInv, TurnsApart, TurnsOf
  <2> QED BY <1>1, <1>3, <2>1, AppendProperties
<1>9. ASSUME NEW i \in 1 .. l PROVE ToSet(u[i].calls) \cap ToSet(m.calls) = {}
  <2>1. ToSet(h[i].calls) \subseteq UsedCalls
    BY <1>1, <1>6, CallsUsed
  <2> QED BY <1>5, <1>7, <2>1, NewCallsApart
<1>10. Linked(h, n)
  BY <1>1 DEF RInv
<1>11. \A i \in 1 .. l + 1 : i \in 1 .. l \/ i = l + 1
  OBVIOUS
<1>12. CallsApart(u)
  BY <1>6, <1>7, <1>9, <1>10, <1>11 DEF Linked, CallsApart
<1>13. UsersAnswer(u)
  BY <1>5, <1>6, <1>7, <1>10, <1>11 DEF Linked, UsersAnswer
<1>14. DOMAIN m.results = {}
  BY <1>5
<1>15. InOrder(u, n + 1)
  <2>1. ASSUME NEW i \in DOMAIN u, NEW k \in DOMAIN u[i].results
        PROVE  LET level == Level(u[i].results[k])
               IN  level \in Nat /\ level <= n + 1 /\ (level = n + 1 => i = Len(u))
    <3>1. i \in 1 .. l /\ k \in DOMAIN h[i].results /\ u[i] = h[i]
      BY <1>7, <1>11, <1>14, <2>1
    <3>2. PICK level : level = Level(h[i].results[k])
      OBVIOUS
    <3>3. level \in Nat /\ level <= n
      BY <1>6, <1>10, <3>1, <3>2 DEF Linked, InOrder
    <3>4. level <= n + 1 /\ level # n + 1
      BY <1>2, <3>3
    <3> QED BY <3>1, <3>2, <3>3, <3>4
  <2> QED BY <2>1 DEF InOrder
<1>16. ResultsDiffer(u)
  <2>1. ASSUME NEW i \in DOMAIN u, NEW k \in DOMAIN u[i].results
        PROVE  i \in DOMAIN h /\ u[i] = h[i]
    BY <1>6, <1>7, <1>11, <1>14, <2>1
  <2> QED BY <1>10, <2>1 DEF Linked, ResultsDiffer
<1>17. Linked(u, n + 1)
  BY <1>12, <1>13, <1>15, <1>16 DEF Linked
<1> QED BY <1>1, <1>8, <1>17 DEF RInv

LEMMA RAnswerStep ==
  ASSUME IInv, RInv, Answer
  PROVE  RInv'
<1>1. PICK n, h, u : n = Len(turns) /\ h = history /\ u = history'
  OBVIOUS
<1>2. n \in Nat /\ h \in Seq(Kept)
  BY <1>1, TurnShape DEF IInv
<1>3. PICK ids \in SeqsUpTo2(UsedCalls), text \in {<<>>, <<Ask>>} :
         u = Append(h, UserMessage([i \in DOMAIN ids |-> [id |-> ids[i], n |-> <<n, i>>]], text))
  BY <1>1 DEF Answer
<1>4. turns' = turns /\ h # <<>> /\ Last(h).role = "assistant"
  BY <1>1 DEF Answer
<1>5. PICK r : r = [i \in DOMAIN ids |-> [id |-> ids[i], n |-> <<n, i>>]]
  OBVIOUS
<1>6. PICK m : m = UserMessage(r, text)
  OBVIOUS
<1>7. m.role = "user" /\ m.results = r /\ m.calls = <<>>
  BY <1>6 DEF UserMessage
<1>8. PICK l \in Nat : l = Len(h) /\ DOMAIN h = 1 .. l
  BY <1>2
<1>9. DOMAIN u = 1 .. l + 1 /\ u[l + 1] = m /\ Len(u) = l + 1 /\ \A i \in 1 .. l : u[i] = h[i]
  BY <1>2, <1>3, <1>5, <1>6, <1>8, AppendedAt
<1>10. Linked(h, n)
  BY <1>1 DEF RInv
<1>11. \A i \in 1 .. l + 1 : i \in 1 .. l \/ i = l + 1
  OBVIOUS
<1>12. CallsApart(u)
  <2>1. ToSet(m.calls) = {}
    BY <1>7, NoCall
  <2> QED BY <1>8, <1>9, <1>10, <1>11, <2>1 DEF Linked, CallsApart
<1>13. UsersAnswer(u)
  <2>1. m.role # "assistant"
    BY <1>7
  <2> QED BY <1>8, <1>9, <1>10, <1>11, <2>1 DEF Linked, UsersAnswer
<1>14. l \in 1 .. l /\ h[l].results = <<>>
  <2>1. l # 0
    BY <1>2, <1>4, <1>8, EmptySeq
  <2>2. l \in 1 .. l
    BY <2>1
  <2>3. h[l].role = "assistant"
    BY <1>4, <1>8 DEF Last
  <2> QED BY <1>8, <1>10, <2>2, <2>3 DEF Linked, UsersAnswer
<1>15. ASSUME NEW i \in DOMAIN h, NEW k \in DOMAIN h[i].results
       PROVE  /\ Level(h[i].results[k]) \in Nat /\ Level(h[i].results[k]) <= n
              /\ Level(h[i].results[k]) # n
  <2>1. h[i].results # <<>>
    BY <1>15, NoneIn
  <2>2. i # l
    BY <1>14, <2>1
  <2> QED BY <1>8, <1>10, <1>15, <2>2 DEF Linked, InOrder
<1>16. ASSUME NEW k \in DOMAIN r PROVE Level(r[k]) = n /\ r[k].n = <<n, k>>
  BY <1>5 DEF Level
<1>17. InOrder(u, n)
  <2>1. ASSUME NEW i \in DOMAIN u, NEW k \in DOMAIN u[i].results
        PROVE  LET level == Level(u[i].results[k])
               IN  level \in Nat /\ level <= n /\ (level = n => i = Len(u))
    <3>1. CASE i \in 1 .. l
      <4>1. k \in DOMAIN h[i].results /\ u[i] = h[i] /\ i \in DOMAIN h
        BY <1>8, <1>9, <2>1, <3>1
      <4> QED BY <1>15, <4>1
    <3>2. CASE i = l + 1
      BY <1>2, <1>7, <1>9, <1>16, <2>1, <3>2
    <3> QED BY <1>9, <1>11, <3>1, <3>2
  <2> QED BY <2>1 DEF InOrder
<1>18. ResultsDiffer(u)
  <2>1. ASSUME NEW i \in DOMAIN u, NEW j \in DOMAIN u,
               NEW k \in DOMAIN u[i].results, NEW p \in DOMAIN u[j].results,
               u[i].results[k] = u[j].results[p]
        PROVE  i = j /\ k = p
    <3>1. CASE i \in 1 .. l /\ j \in 1 .. l
      <4>1. u[i] = h[i] /\ u[j] = h[j] /\ i \in DOMAIN h /\ j \in DOMAIN h
        BY <1>8, <1>9, <3>1
      <4> QED BY <1>10, <2>1, <4>1 DEF Linked, ResultsDiffer
    <3>2. CASE i \in 1 .. l /\ j = l + 1
      <4>1. k \in DOMAIN h[i].results /\ u[i] = h[i] /\ i \in DOMAIN h
        BY <1>8, <1>9, <2>1, <3>2
      <4>2. p \in DOMAIN r /\ u[j].results[p] = r[p]
        BY <1>7, <1>9, <2>1, <3>2
      <4>3. Level(h[i].results[k]) # n /\ Level(r[p]) = n
        BY <1>15, <1>16, <4>1, <4>2
      <4> QED BY <2>1, <4>1, <4>2, <4>3
    <3>3. CASE i = l + 1 /\ j \in 1 .. l
      <4>1. p \in DOMAIN h[j].results /\ u[j] = h[j] /\ j \in DOMAIN h
        BY <1>8, <1>9, <2>1, <3>3
      <4>2. k \in DOMAIN r /\ u[i].results[k] = r[k]
        BY <1>7, <1>9, <2>1, <3>3
      <4>3. Level(h[j].results[p]) # n /\ Level(r[k]) = n
        BY <1>15, <1>16, <4>1, <4>2
      <4> QED BY <2>1, <4>1, <4>2, <4>3
    <3>4. CASE i = l + 1 /\ j = l + 1
      <4>1. k \in DOMAIN r /\ p \in DOMAIN r /\ r[k] = r[p]
        BY <1>7, <1>9, <2>1, <3>4
      <4>2. <<n, k>> = <<n, p>>
        BY <1>16, <4>1
      <4>3. k = p
        BY <4>2
      <4> QED BY <3>4, <4>3
    <3> QED BY <1>9, <1>11, <3>1, <3>2, <3>3, <3>4
  <2> QED BY <2>1 DEF ResultsDiffer
<1>19. Linked(u, n)
  BY <1>12, <1>13, <1>17, <1>18 DEF Linked
<1> QED BY <1>1, <1>4, <1>19 DEF RInv

LEMMA RDropThinkingStep ==
  ASSUME IInv, RInv, DropThinking
  PROVE  RInv'
<1>1. PICK n, h, u : n = Len(turns) /\ h = history /\ u = history'
  OBVIOUS
<1>2. PICK i \in DOMAIN h : u = [h EXCEPT ![i].thinking = <<>>]
  BY <1>1 DEF DropThinking
<1>3. turns' = turns
  BY DEF DropThinking
<1>4. h \in Seq(Kept)
  BY <1>1 DEF IInv
<1>5. PICK l \in Nat : l = Len(h) /\ DOMAIN h = 1 .. l
  BY <1>4
<1>6. PICK m \in Kept : m = h[i]
  BY <1>4
<1>7. PICK m2 : m2 = [m EXCEPT !.thinking = <<>>]
  OBVIOUS
<1>8. m2.role = m.role /\ m2.results = m.results /\ m2.calls = m.calls
  <2>1. m \in Messages
    BY DEF Kept
  <2> QED BY <1>7, <2>1 DEF Messages
<1>9. u = [h EXCEPT ![i] = m2]
  BY <1>2, <1>6, <1>7
<1>10. DOMAIN u = 1 .. l /\ u[i] = m2 /\ \A j \in 1 .. l : j # i => u[j] = h[j]
  BY <1>5, <1>9
<1>11. Len(u) = l
  <2>1. u = [j \in 1 .. l |-> u[j]]
    BY <1>5, <1>9
  <2> QED BY <2>1
<1>12. PICK g : g = [j \in 1 .. l |-> j]
  OBVIOUS
<1>13. ASSUME NEW j \in 1 .. l
       PROVE  g[j] = j /\ u[j].role = h[j].role /\ u[j].results = h[j].results
              /\ u[j].calls = h[j].calls
  <2>1. CASE j = i
    BY <1>6, <1>8, <1>10, <1>12, <2>1
  <2>2. CASE j # i
    BY <1>10, <1>12, <2>2
  <2> QED BY <2>1, <2>2
<1>14. Carries(g, h, u)
  BY <1>5, <1>10, <1>11, <1>13 DEF Carries
<1>15. Linked(u, n)
  BY <1>1, <1>14, CarriedLinked DEF RInv
<1> QED BY <1>1, <1>3, <1>15 DEF RInv

LEMMA RDropMessageStep ==
  ASSUME IInv, RInv, DropMessage
  PROVE  RInv'
<1>1. PICK n, h, u : n = Len(turns) /\ h = history /\ u = history'
  OBVIOUS
<1>2. h \in Seq(Kept)
  BY <1>1 DEF IInv
<1>3. PICK l \in Nat : l = Len(h) /\ DOMAIN h = 1 .. l
  BY <1>2
<1>4. PICK i \in 1 .. l : u = RemoveAt(h, i)
  BY <1>1, <1>3 DEF DropMessage
<1>5. turns' = turns
  BY DEF DropMessage
<1>6. /\ Len(u) = l - 1 /\ DOMAIN u = 1 .. l - 1
      /\ \A j \in 1 .. l - 1 : (j < i => u[j] = h[j]) /\ (j >= i => u[j] = h[j + 1])
  <2>1. Without(u, h, l, i)
    BY <1>2, <1>3, <1>4, RemovedAt
  <2> QED BY <2>1 DEF Without
<1>7. PICK g : g = [j \in 1 .. l - 1 |-> IF j < i THEN j ELSE j + 1]
  OBVIOUS
<1>8. ASSUME NEW j \in 1 .. l - 1
      PROVE  g[j] \in 1 .. l /\ u[j] = h[g[j]]
  <2>1. g[j] = IF j < i THEN j ELSE j + 1
    BY <1>7
  <2>2. CASE j < i
    BY <1>6, <2>1, <2>2
  <2>3. CASE ~ (j < i)
    BY <1>6, <2>1, <2>3
  <2> QED BY <2>2, <2>3
<1>9. ASSUME NEW j \in 1 .. l - 1, NEW k \in 1 .. l - 1, g[j] = g[k]
      PROVE  j = k
  <2>1. (j < i => g[j] = j) /\ (~ (j < i) => g[j] = j + 1)
    BY <1>7
  <2>2. (k < i => g[k] = k) /\ (~ (k < i) => g[k] = k + 1)
    BY <1>7
  <2>3. PICK x, y : x = g[j] /\ y = g[k]
    OBVIOUS
  <2>4. (j < i => x = j) /\ (~ (j < i) => x = j + 1) /\ (k < i => x = k) /\ (~ (k < i) => x = k + 1)
    BY <1>9, <2>1, <2>2, <2>3
  <2>5. j \in Int /\ k \in Int /\ i \in Int
    OBVIOUS
  <2> QED BY <2>4, <2>5
<1>10. ASSUME NEW j \in 1 .. l - 1, g[j] = l
       PROVE  j = l - 1
  <2>1. g[j] = IF j < i THEN j ELSE j + 1
    BY <1>7
  <2> QED BY <1>10, <2>1
<1>11. Carries(g, h, u)
  BY <1>3, <1>6, <1>8, <1>9, <1>10 DEF Carries
<1>12. Linked(u, n)
  BY <1>1, <1>11, CarriedLinked DEF RInv
<1> QED BY <1>1, <1>5, <1>12 DEF RInv

LEMMA RSplitMessageStep ==
  ASSUME IInv, RInv, SplitMessage
  PROVE  RInv'
<1>1. PICK n, h, u : n = Len(turns) /\ h = history /\ u = history'
  OBVIOUS
<1>2. h \in Seq(Kept) /\ turns' = turns
  BY <1>1 DEF IInv, SplitMessage
<1>3. PICK l \in Nat : l = Len(h) /\ DOMAIN h = 1 .. l
  BY <1>2
<1>4. PICK i \in 1 .. l :
         /\ Len(h[i].calls) = 2
         /\ u = InsertAt([h EXCEPT ![i].calls = <<h[i].calls[1]>>], i + 1,
                         AssistantMessage(h[i].of, <<>>, <<>>, <<h[i].calls[2]>>))
  BY <1>1, <1>3 DEF SplitMessage
<1>5. PICK m \in Kept : m = h[i]
  BY <1>2, <1>3
<1>6. PICK c \in CallOrders : c = m.calls /\ Len(c) = 2
  BY <1>4, <1>5 DEF Kept, Messages
<1>7. c # <<>>
  <2>1. ASSUME c = <<>> PROVE Len(c) = 0
    BY <2>1
  <2> QED BY <1>6, <2>1
<1>8. PICK a \in Calls, b \in Calls : a # b /\ c = <<a, b>> /\ ToSet(c) = {a, b}
  <2>1. ASSUME NEW d \in Calls, Len(c) = 1
        PROVE  FALSE
    BY <1>6, <2>1
  <2> QED BY <2>1, <1>7, OrderShape
<1>9. m.role = "assistant" /\ m.results = <<>>
  <2>1. m.role = "assistant"
    BY <1>6, <1>7 DEF Kept, Messages
  <2>2. Linked(h, n)
    BY <1>1 DEF RInv
  <2> QED BY <1>3, <1>5, <2>1, <2>2 DEF Linked, UsersAnswer
<1>10. PICK first : first = [m EXCEPT !.calls = <<a>>]
  OBVIOUS
<1>11. PICK second : second = AssistantMessage(m.of, <<>>, <<>>, <<b>>)
  OBVIOUS
<1>12. /\ first.role = "assistant" /\ first.results = <<>> /\ first.calls = <<a>>
       /\ second.role = "assistant" /\ second.results = <<>> /\ second.calls = <<b>>
  <2>1. m \in Messages
    BY DEF Kept
  <2>2. first.role = "assistant" /\ first.results = <<>> /\ first.calls = <<a>>
    BY <1>9, <1>10, <2>1 DEF Messages
  <2>3. second.role = "assistant" /\ second.results = <<>> /\ second.calls = <<b>>
    BY <1>11 DEF AssistantMessage
  <2> QED BY <2>2, <2>3
<1>13. ToSet(first.calls) = {a} /\ ToSet(second.calls) = {b}
  BY <1>12, OneCall
<1>14. PICK e : e = [h EXCEPT ![i] = first]
  OBVIOUS
<1>15. PICK S : S = {first, second} \cup Kept
  OBVIOUS
<1>16. e \in Seq(S) /\ Len(e) = l /\ e[i] = first /\ \A j \in 1 .. l : j # i => e[j] = h[j]
  <2>1. DOMAIN e = 1 .. l /\ e[i] = first /\ \A j \in 1 .. l : j # i => e[j] = h[j]
    BY <1>3, <1>14
  <2>2. \A j \in 1 .. l : h[j] \in Kept
    BY <1>2, <1>3
  <2>3. \A j \in 1 .. l : e[j] \in S
    BY <1>15, <2>1, <2>2
  <2>4. e = [j \in 1 .. l |-> e[j]]
    BY <1>3, <1>14
  <2>5. e \in Seq(S) /\ Len(e) = l
    BY <2>3, <2>4
  <2> QED BY <2>1, <2>5
<1>17. u = InsertAt(e, i + 1, second)
  <2>1. h[i].calls[1] = a /\ h[i].calls[2] = b
    BY <1>5, <1>6, <1>8
  <2>2. e = [h EXCEPT ![i].calls = <<a>>]
    BY <1>5, <1>10, <1>14
  <2> QED BY <1>4, <1>5, <1>11, <2>1, <2>2
<1>18. PICK p \in Nat : p = i + 1
  OBVIOUS
<1>19. /\ Len(u) = l + 1 /\ DOMAIN u = 1 .. l + 1 /\ u[p] = second
       /\ \A j \in 1 .. l + 1 : (j < p => u[j] = e[j]) /\ (j > p => u[j] = e[j - 1])
  <2>1. p \in 1 .. l + 1 /\ second \in S
    BY <1>15, <1>18
  <2>2. u = InsertAt(e, p, second)
    BY <1>17, <1>18
  <2>3. With(u, e, l, p, second)
    BY <1>16, <2>1, <2>2, InsertedAt
  <2> QED BY <2>3 DEF With
<1>20. PICK g : g = [j \in 1 .. l + 1 |-> IF j < p THEN j ELSE j - 1]
  OBVIOUS
<1>21. ASSUME NEW j \in 1 .. l + 1
       PROVE  /\ g[j] \in 1 .. l /\ (g[j] = IF j < p THEN j ELSE j - 1)
              /\ (j # i /\ j # p => u[j] = h[g[j]] /\ g[j] # i)
              /\ (j = i => u[j] = first /\ g[j] = i)
              /\ (j = p => u[j] = second /\ g[j] = i)
  <2>1. g[j] = IF j < p THEN j ELSE j - 1
    BY <1>20
  <2>2. CASE j < p
    <3>1. g[j] = j /\ u[j] = e[j] /\ j \in 1 .. l
      BY <1>18, <1>19, <2>1, <2>2
    <3> QED BY <1>16, <1>18, <2>1, <2>2, <3>1
  <2>3. CASE j = p
    BY <1>18, <1>19, <2>1, <2>3
  <2>4. CASE j > p
    <3>1. g[j] = j - 1 /\ u[j] = e[j - 1] /\ j - 1 \in 1 .. l /\ j - 1 # i
      BY <1>18, <1>19, <2>1, <2>4
    <3>2. e[j - 1] = h[j - 1]
      BY <1>16, <3>1
    <3> QED BY <1>18, <2>1, <2>4, <3>1, <3>2
  <2> QED BY <1>18, <2>2, <2>3, <2>4
<1>22. ASSUME NEW j \in 1 .. l + 1
       PROVE  /\ u[j].role = h[g[j]].role /\ u[j].results = h[g[j]].results
              /\ ToSet(u[j].calls) \subseteq ToSet(h[g[j]].calls)
  <2>1. CASE j = i
    BY <1>5, <1>6, <1>8, <1>9, <1>12, <1>13, <1>21, <2>1
  <2>2. CASE j = p
    BY <1>5, <1>6, <1>8, <1>9, <1>12, <1>13, <1>21, <2>2
  <2>3. CASE j # i /\ j # p
    BY <1>21, <2>3
  <2> QED BY <2>1, <2>2, <2>3
<1>23. ASSUME NEW j \in 1 .. l + 1, NEW k \in 1 .. l + 1, j # k, g[j] = g[k]
       PROVE  u[j].results = <<>> /\ ToSet(u[j].calls) \cap ToSet(u[k].calls) = {}
  <2>1. (j = i /\ k = p) \/ (j = p /\ k = i)
    <3>1. (j < p => g[j] = j) /\ (~ (j < p) => g[j] = j - 1)
      BY <1>20
    <3>2. (k < p => g[k] = k) /\ (~ (k < p) => g[k] = k - 1)
      BY <1>20
    <3>3. PICK x, y : x = g[j] /\ y = g[k]
      OBVIOUS
    <3>4. (j < p => x = j) /\ (~ (j < p) => x = j - 1) /\ (k < p => x = k) /\ (~ (k < p) => x = k - 1)
      BY <1>23, <3>1, <3>2, <3>3
    <3>5. j \in Int /\ k \in Int /\ i \in Int
      OBVIOUS
    <3> QED BY <1>18, <1>23, <3>4, <3>5
  <2> QED BY <1>8, <1>12, <1>13, <1>21, <2>1
<1>24. ASSUME NEW j \in 1 .. l + 1, u[j].results # <<>>, g[j] = l
       PROVE  j = l + 1
  <2>1. j # i /\ j # p
    BY <1>12, <1>21, <1>24
  <2>2. g[j] = IF j < p THEN j ELSE j - 1
    BY <1>21
  <2> QED BY <1>18, <1>24, <2>1, <2>2
<1>25. Carries(g, h, u)
  <2>1. \A j \in DOMAIN u :
          /\ g[j] \in DOMAIN h /\ u[j].role = h[g[j]].role /\ u[j].results = h[g[j]].results
          /\ ToSet(u[j].calls) \subseteq ToSet(h[g[j]].calls)
    BY <1>3, <1>19, <1>21, <1>22
  <2>2. \A j, k \in DOMAIN u : j # k /\ g[j] = g[k] =>
          u[j].results = <<>> /\ ToSet(u[j].calls) \cap ToSet(u[k].calls) = {}
    BY <1>19, <1>23
  <2>3. \A j \in DOMAIN u : u[j].results # <<>> /\ g[j] = Len(h) => j = Len(u)
    BY <1>3, <1>19, <1>24
  <2> QED BY <2>1, <2>2, <2>3 DEF Carries
<1>26. Linked(u, n)
  BY <1>1, <1>25, CarriedLinked DEF RInv
<1> QED BY <1>1, <1>2, <1>26 DEF RInv

LEMMA RInvStep == IInv /\ RInv /\ [Next]_vars => RInv'
<1> SUFFICES ASSUME IInv, RInv, [Next]_vars PROVE RInv'
  OBVIOUS
<1>1. ASSUME UNCHANGED <<history, turns>>
      PROVE  RInv'
  BY <1>1 DEF RInv
<1>2. CASE UNCHANGED vars
  BY <1>1, <1>2 DEF vars
<1>3. CASE ForgetTool
  BY <1>1, <1>3 DEF ForgetTool
<1>4. CASE ForgetText
  BY <1>1, <1>4 DEF ForgetText
<1> QED BY <1>2, <1>3, <1>4, RRespondStep, RAnswerStep, RDropThinkingStep, RDropMessageStep,
           RSplitMessageStep DEF Next

LEMMA ResultsLinked == Spec => [](IInv /\ RInv)
<1>1. Init => IInv /\ RInv
  BY IInvInit, RInvInit
<1>2. (IInv /\ RInv) /\ [Next]_vars => (IInv /\ RInv)'
  BY IInvStep, RInvStep
<1> QED BY <1>1, <1>2, PTL DEF Spec

-----------------------------------------------------------------------------
(* What is sent: each result is a tool message of its own, and no other    *)
(* message has one in its content.                                         *)
Results == [id : Calls, n : Seq(Nat)]

Words == Texts \cup {Ask, Blank}

ToolOf(x) == Tool(x.id, <<x>>)

ResultMessages == {m \in Chats : \E x \in Results : m = ToolOf(x)}

WordMessages == {m \in Chats : ~ IsTool(m) /\ m.content \in Seq(Words)}

Wire == ResultMessages \cup WordMessages

Tidy(s) ==
    /\ s \in Seq(Wire)
    /\ \A i, j \in DOMAIN s : IsTool(s[i]) /\ s[i] = s[j] => i = j
    /\ \A i \in DOMAIN s : IsInjective(s[i].calls)

(* The i-th message of the client has the results q[i] and the calls c[i], *)
(* and becomes the messages b[i].                                          *)
Quiet(b, q) ==
    \E r \in Seq(WordMessages) :
       /\ b = [k \in DOMAIN q |-> ToolOf(q[k])] \o r
       /\ \A k \in DOMAIN r : r[k].calls = <<>>

Calling(b, c) ==
    \E msg \in WordMessages : b = <<msg>> /\ msg.role = "assistant" /\ msg.calls = c

Block(b, q, c) ==
    /\ q \in Seq(Results) /\ c \in Seq(Calls) /\ IsInjective(c)
    /\ \/ c = <<>> /\ Quiet(b, q)
       \/ c # <<>> /\ q = <<>> /\ Calling(b, c)

BlocksDiffer(q, c, n) ==
    /\ \A i, j \in 1 .. n : i # j => ToSet(c[i]) \cap ToSet(c[j]) = {}
    /\ \A i, j \in 1 .. n : \A k \in DOMAIN q[i], l \in DOMAIN q[j] :
          q[i][k] = q[j][l] => i = j /\ k = l

Before(c, j) ==
    UNION {ToSet(c[i]) : i \in {i \in 1 .. j - 1 : \A k \in i .. j - 1 : c[k] # <<>>}}

(* The results r are in a row, after the calls before them.                *)
Placed(s, r, before) ==
    r # <<>> =>
       \E p \in Nat :
          /\ p + Len(r) <= Len(s) /\ \A k \in DOMAIN r : s[p + k] = ToolOf(r[k])
          /\ before # {} => p # 0 /\ HasCalls(s[p]) /\ before \subseteq ToSet(s[p].calls)

(* What s has of the first m messages.                                     *)
Origins(s, q, c, m) ==
    \A i \in DOMAIN s :
       /\ IsTool(s[i]) => \E j \in 1 .. m : \E k \in DOMAIN q[j] : s[i] = ToolOf(q[j][k])
       /\ \A id \in ToSet(s[i].calls) : \E j \in 1 .. m : id \in ToSet(c[j])

Ends(s, before) ==
    before # {} => s # <<>> /\ HasCalls(Last(s)) /\ before \subseteq ToSet(Last(s).calls)

Gathered(s, q, c, m) ==
    /\ Tidy(s) /\ Origins(s, q, c, m) /\ Ends(s, Before(c, m + 1))
    /\ \A j \in 1 .. m : Placed(s, q[j], Before(c, j))

LEMMA WireChats == Wire \subseteq Chats /\ Seq(Wire) \subseteq Seq(Chats)
<1>1. Wire \subseteq Chats
  BY DEF Wire, ResultMessages, WordMessages
<1> QED BY <1>1, SeqMonotonic

LEMMA ToolOfShape ==
  ASSUME NEW x \in Results, NEW m, m = ToolOf(x)
  PROVE  m \in Wire /\ IsTool(m) /\ m.content = <<x>> /\ m.calls = <<>> /\ m.id = x.id
<1>1. <<x>> \in Seq(Pieces)
  BY DEF Results, Pieces
<1>2. <<>> \in Seq(Nat) /\ <<>> \in Seq(Calls)
  OBVIOUS
<1>3. x.id \in Calls
  BY DEF Results
<1>4. m = [role |-> "tool", content |-> <<x>>, reasoning |-> <<>>, calls |-> <<>>, id |-> x.id]
  BY DEF ToolOf, Tool
<1>5. m \in Chats
  BY <1>1, <1>2, <1>3, <1>4 DEF Chats
<1>6. m \in Wire
  BY <1>5 DEF Wire, ResultMessages
<1>7. IsTool(m)
  BY <1>4 DEF IsTool
<1> QED BY <1>4, <1>6, <1>7

LEMMA ToolOfOne ==
  ASSUME NEW x \in Results, NEW y \in Results, ToolOf(x) = ToolOf(y)
  PROVE  x = y
<1>1. PICK m : m = ToolOf(x)
  OBVIOUS
<1>2. m.content = <<x>> /\ m.content = <<y>>
  BY <1>1, ToolOfShape
<1> QED BY <1>2

LEMMA AppendJoin ==
  ASSUME NEW X, NEW s \in Seq(X), NEW t \in Seq(X), NEW x \in X
  PROVE  s \o Append(t, x) = Append(s \o t, x)
OBVIOUS

LEMMA CoalesceQuiet ==
  ASSUME NEW s \in Seq(Chats), NEW t \in Seq(Chats), \A k \in DOMAIN t : ~ HasCalls(t[k])
  PROVE  Coalesce(s \o t) = Coalesce(s) \o t
<1>1. PICK S : S = {v \in Seq(Chats) : (\A k \in DOMAIN v : ~ HasCalls(v[k]))
                                         => Coalesce(s \o v) = Coalesce(s) \o v}
  OBVIOUS
<1>2. PICK o \in Seq(Chats) : o = Coalesce(s)
  BY CoalesceTyped
<1>3. <<>> \in S
  <2>1. <<>> \in Seq(Chats) /\ s \o <<>> = s /\ o \o <<>> = o
    OBVIOUS
  <2> QED BY <1>1, <1>2, <2>1
<1>4. ASSUME NEW v \in Seq(Chats), NEW x \in Chats, v \in S PROVE Append(v, x) \in S
  <2>1. PICK w : w = Append(v, x)
    OBVIOUS
  <2>2. PICK l \in Nat : l = Len(v) /\ DOMAIN v = 1 .. l
    OBVIOUS
  <2>3. w \in Seq(Chats) /\ DOMAIN w = 1 .. l + 1 /\ w[l + 1] = x /\ \A k \in 1 .. l : w[k] = v[k]
    BY <2>1, <2>2
  <2>4. ASSUME \A k \in DOMAIN w : ~ HasCalls(w[k])
        PROVE  Coalesce(s \o w) = Coalesce(s) \o w
    <3>1. l + 1 \in DOMAIN w
      BY <2>3
    <3>2. ~ HasCalls(x)
      BY <2>3, <2>4, <3>1
    <3>3. \A k \in DOMAIN v : ~ HasCalls(v[k])
      BY <2>2, <2>3, <2>4
    <3>4. PICK z : z = s \o v
      OBVIOUS
    <3>5. z \in Seq(Chats) /\ Coalesce(z) = o \o v
      BY <1>1, <1>2, <1>4, <3>3, <3>4
    <3>6. s \o w = Append(z, x)
      BY <2>1, <3>4, AppendJoin
    <3>7. Coalesce(Append(z, x)) = CoalesceNext(Coalesce(z), x)
      BY <3>5, CoalesceSnoc
    <3>8. CoalesceNext(Coalesce(z), x) = Append(o \o v, x)
      BY <3>2, <3>5 DEF CoalesceNext
    <3>9. o \o w = Append(o \o v, x)
      BY <2>1, AppendJoin
    <3> QED BY <1>2, <3>6, <3>7, <3>8, <3>9
  <2> QED BY <1>1, <2>1, <2>3, <2>4
<1>5. Seq(Chats) \subseteq S
  BY <1>3, <1>4, SequenceInduction
<1> QED BY <1>1, <1>5

LEMMA BeforeQuiet ==
  ASSUME NEW c, NEW m \in Nat, c[m] = <<>>
  PROVE  Before(c, m + 1) = {}
<1>1. ASSUME NEW i \in 1 .. (m + 1) - 1, \A k \in i .. (m + 1) - 1 : c[k] # <<>>
      PROVE  FALSE
  <2>1. m \in i .. (m + 1) - 1
    OBVIOUS
  <2> QED BY <1>1, <2>1
<1> QED BY <1>1 DEF Before

LEMMA BeforeCalling ==
  ASSUME NEW c, NEW m \in Nat, m # 0
  PROVE  Before(c, m + 1) \subseteq Before(c, m) \cup ToSet(c[m])
<1> SUFFICES ASSUME NEW id \in Before(c, m + 1)
             PROVE  id \in Before(c, m) \cup ToSet(c[m])
  OBVIOUS
<1>1. PICK i \in 1 .. (m + 1) - 1 : id \in ToSet(c[i]) /\ \A k \in i .. (m + 1) - 1 : c[k] # <<>>
  BY DEF Before
<1>2. CASE i = m
  BY <1>1, <1>2
<1>3. CASE i # m
  <2>1. i \in 1 .. m - 1 /\ \A k \in i .. m - 1 : k \in i .. (m + 1) - 1
    BY <1>3
  <2>2. \A k \in i .. m - 1 : c[k] # <<>>
    BY <1>1, <2>1
  <2> QED BY <1>1, <2>1, <2>2 DEF Before
<1> QED BY <1>2, <1>3

LEMMA WireShape ==
  ASSUME NEW m \in Wire
  PROVE  /\ m \in Chats /\ m.calls \in Seq(Calls) /\ (IsTool(m) => \E x \in Results : m = ToolOf(x))
         /\ (~ IsTool(m) => m \in WordMessages) /\ (IsTool(m) => m.calls = <<>> /\ ~ HasCalls(m))
<1>1. m \in Chats
  BY WireChats
<1>2. m.calls \in Seq(Calls)
  BY <1>1 DEF Chats
<1>3. CASE IsTool(m)
  <2>1. m \notin WordMessages
    BY <1>3 DEF WordMessages
  <2>2. PICK x \in Results : m = ToolOf(x)
    BY <2>1 DEF Wire, ResultMessages
  <2>3. m.calls = <<>>
    BY <2>2, ToolOfShape
  <2> QED BY <1>1, <1>2, <1>3, <2>2, <2>3 DEF HasCalls, IsTool
<1>4. CASE ~ IsTool(m)
  <2>1. m \in WordMessages
    <3>1. ASSUME NEW x \in Results, m = ToolOf(x) PROVE FALSE
      BY <1>4, <3>1, ToolOfShape
    <3> QED BY <3>1 DEF Wire, ResultMessages
  <2> QED BY <1>1, <1>2, <1>4, <2>1
<1> QED BY <1>3, <1>4

LEMMA PlacedBefore ==
  ASSUME NEW s \in Seq(Wire), NEW u \in Seq(Wire), NEW n \in Nat, NEW l \in Nat, n = Len(s), l = Len(u), n <= l,
         \A i \in 1 .. n : u[i] = s[i], NEW r \in Seq(Results), NEW before, Placed(s, r, before)
  PROVE  Placed(u, r, before)
<1> SUFFICES ASSUME r # <<>> PROVE Placed(u, r, before)
  BY DEF Placed
<1>1. PICK p \in Nat :
         /\ p + Len(r) <= Len(s) /\ \A k \in DOMAIN r : s[p + k] = ToolOf(r[k])
         /\ before # {} => p # 0 /\ HasCalls(s[p]) /\ before \subseteq ToSet(s[p].calls)
  BY DEF Placed
<1>2. PICK d \in Nat : d = Len(r) /\ DOMAIN r = 1 .. d
  OBVIOUS
<1>3. p + d <= n /\ p + d <= l
  BY <1>1, <1>2
<1>4. ASSUME NEW k \in 1 .. d PROVE u[p + k] = ToolOf(r[k])
  <2>1. p + k \in 1 .. n
    BY <1>3
  <2> QED BY <1>1, <1>2, <2>1
<1>5. before # {} => p # 0 /\ HasCalls(u[p]) /\ before \subseteq ToSet(u[p].calls)
  <2>1. p # 0 => p \in 1 .. n
    BY <1>3
  <2> QED BY <1>1, <2>1
<1> QED BY <1>2, <1>3, <1>4, <1>5 DEF Placed

LEMMA QuietStep ==
  ASSUME NEW s, NEW q, NEW c, NEW n \in Nat, NEW m \in Nat, m + 1 \in 1 .. n,
         \A i \in 1 .. n : q[i] \in Seq(Results), BlocksDiffer(q, c, n),
         Gathered(s, q, c, m), c[m + 1] = <<>>, NEW b, Quiet(b, q[m + 1])
  PROVE  Gathered(s \o b, q, c, m + 1)
<1>1. PICK m1 \in 1 .. n : m1 = m + 1 /\ m1 \in Nat
  OBVIOUS
<1>2. PICK w \in Seq(Results) : w = q[m1]
  BY <1>1
<1>3. PICK r \in Seq(WordMessages) :
         b = [k \in DOMAIN w |-> ToolOf(w[k])] \o r /\ \A k \in DOMAIN r : r[k].calls = <<>>
  BY <1>1, <1>2 DEF Quiet
<1>4. PICK t : t = [k \in DOMAIN w |-> ToolOf(w[k])]
  OBVIOUS
<1>5. PICK d \in Nat : d = Len(w) /\ DOMAIN w = 1 .. d
  OBVIOUS
<1>6. ASSUME NEW k \in 1 .. d
      PROVE  w[k] \in Results /\ t[k] = ToolOf(w[k]) /\ t[k] \in Wire /\ IsTool(t[k]) /\ t[k].calls = <<>>
  <2>1. PICK x \in Results : x = w[k]
    BY <1>5
  <2>2. t[k] = ToolOf(x)
    BY <1>4, <1>5, <2>1
  <2> QED BY <2>1, <2>2, ToolOfShape
<1>7. t \in Seq(Wire) /\ Len(t) = d
  <2>1. t = [k \in 1 .. d |-> t[k]]
    BY <1>4, <1>5
  <2>2. \A k \in 1 .. d : t[k] \in Wire
    BY <1>6
  <2>3. t \in [1 .. d -> Wire]
    BY <2>1, <2>2
  <2> QED BY <2>3, SeqDef, LenProperties
<1>8. r \in Seq(Wire)
  <2>1. WordMessages \subseteq Wire
    BY DEF Wire
  <2> QED BY <2>1, SeqMonotonic
<1>9. PICK e \in Nat, f \in Nat : e = Len(r) /\ DOMAIN r = 1 .. e /\ f = Len(s)
  BY LenProperties DEF Gathered, Tidy
<1>10. s \in Seq(Wire) /\ DOMAIN s = 1 .. f
  BY <1>9 DEF Gathered, Tidy
<1>11. b \in Seq(Wire) /\ Len(b) = d + e /\ (\A k \in 1 .. d : b[k] = t[k]) /\ (\A k \in 1 .. e : b[d + k] = r[k])
  BY <1>3, <1>4, <1>7, <1>8, <1>9
<1>12. PICK u : u = s \o b
  OBVIOUS
<1>13. /\ u \in Seq(Wire) /\ Len(u) = f + (d + e) /\ DOMAIN u = 1 .. f + (d + e)
       /\ \A i \in 1 .. f : u[i] = s[i]
       /\ \A k \in 1 .. d + e : u[f + k] = b[k]
  <2>1. u \in Seq(Wire) /\ Len(u) = Len(s) + Len(b)
    BY <1>10, <1>11, <1>12, ConcatProperties
  <2>2. Len(u) = f + (d + e)
    BY <1>9, <1>11, <2>1
  <2>3. \A i \in 1 .. f : u[i] = s[i]
    BY <1>9, <1>10, <1>11, <1>12
  <2>4. \A k \in 1 .. d + e : u[f + k] = b[k]
    BY <1>9, <1>10, <1>11, <1>12
  <2>5. DOMAIN u = 1 .. f + (d + e)
    BY <2>1, <2>2, LenProperties
  <2> QED BY <2>1, <2>2, <2>3, <2>4, <2>5
<1>14. ASSUME NEW i \in 1 .. f + (d + e)
       PROVE  \/ i \in 1 .. f /\ u[i] = s[i]
              \/ \E k \in 1 .. d : i = f + k /\ u[i] = ToolOf(w[k]) /\ u[i].calls = <<>>
              \/ ~ IsTool(u[i]) /\ u[i].calls = <<>>
  <2>1. CASE i \in 1 .. f
    BY <1>13, <2>1
  <2>2. CASE i \notin 1 .. f
    <3>1. PICK k \in 1 .. d + e : i = f + k
      <4>1. i - f \in 1 .. d + e /\ i = f + (i - f)
        BY <2>2
      <4> QED BY <4>1
    <3>2. u[i] = b[k]
      BY <1>13, <3>1
    <3>3. CASE k \in 1 .. d
      BY <1>6, <1>11, <3>1, <3>2, <3>3
    <3>4. CASE k \notin 1 .. d
      <4>1. PICK g \in 1 .. e : k = d + g
        <5>1. k - d \in 1 .. e /\ k = d + (k - d)
          BY <3>4
        <5> QED BY <5>1
      <4>2. u[i] = r[g]
        BY <1>11, <3>2, <4>1
      <4>3. r[g] \in WordMessages /\ r[g].calls = <<>>
        <5>1. g \in 1 .. Len(r) /\ g \in DOMAIN r
          BY <1>9
        <5>2. r[g] \in WordMessages
          BY <5>1, ElementOfSeq
        <5> QED BY <1>3, <5>1, <5>2
      <4>4. ~ IsTool(r[g])
        BY <4>3 DEF WordMessages
      <4> QED BY <4>2, <4>3, <4>4
    <3> QED BY <3>3, <3>4
  <2> QED BY <2>1, <2>2
<1>15. ASSUME NEW i \in 1 .. f, NEW k \in 1 .. d, IsTool(s[i]), s[i] = ToolOf(w[k])
       PROVE  FALSE
  <2>1. PICK j \in 1 .. m : \E l \in DOMAIN q[j] : s[i] = ToolOf(q[j][l])
    BY <1>10, <1>15 DEF Gathered, Origins
  <2>2. PICK l \in DOMAIN q[j] : s[i] = ToolOf(q[j][l])
    BY <2>1
  <2>3. j \in 1 .. n /\ j # m1
    BY <1>1
  <2>4. PICK y \in Results : y = q[j][l]
    <3>1. q[j] \in Seq(Results)
      BY <2>3
    <3>2. q[j][l] \in Results
      BY <2>2, <3>1, ElementOfSeq, LenProperties
    <3> QED BY <3>2
  <2>5. w[k] = y
    BY <1>6, <1>15, <2>2, <2>4, ToolOfOne
  <2>6. w[k] = q[m1][k] /\ k \in DOMAIN q[m1]
    BY <1>2, <1>5
  <2>7. j = m1
    <3>1. \A h \in DOMAIN q[m1], g \in DOMAIN q[j] : q[m1][h] = q[j][g] => m1 = j
      BY <2>3 DEF BlocksDiffer
    <3> QED BY <2>2, <2>4, <2>5, <2>6, <3>1
  <2> QED BY <2>3, <2>7
<1>16. ASSUME NEW i \in 1 .. f + (d + e), NEW j \in 1 .. f + (d + e), IsTool(u[i]), u[i] = u[j]
       PROVE  i = j
  <2>1. CASE i \in 1 .. f /\ j \in 1 .. f
    <3>1. IsTool(s[i]) /\ s[i] = s[j]
      BY <1>13, <1>16, <2>1
    <3> QED BY <1>10, <2>1, <3>1 DEF Gathered, Tidy
  <2>2. CASE i \in 1 .. f /\ j \notin 1 .. f
    BY <1>13, <1>14, <1>15, <1>16, <2>2
  <2>3. CASE i \notin 1 .. f /\ j \in 1 .. f
    BY <1>13, <1>14, <1>15, <1>16, <2>3
  <2>4. CASE i \notin 1 .. f /\ j \notin 1 .. f
    <3>1. PICK k \in 1 .. d : i = f + k /\ u[i] = ToolOf(w[k])
      BY <1>14, <1>16, <2>4
    <3>2. PICK l \in 1 .. d : j = f + l /\ u[j] = ToolOf(w[l])
      BY <1>14, <1>16, <2>4
    <3>3. w[k] = w[l]
      BY <1>6, <1>16, <3>1, <3>2, ToolOfOne
    <3>4. w[k] = q[m1][k] /\ k \in DOMAIN q[m1] /\ w[l] = q[m1][l] /\ l \in DOMAIN q[m1]
      BY <1>2, <1>5
    <3>5. k = l
      <4>1. \A h, g \in DOMAIN q[m1] : q[m1][h] = q[m1][g] => h = g
        BY DEF BlocksDiffer
      <4> QED BY <3>3, <3>4, <4>1
    <3> QED BY <3>1, <3>2, <3>5
  <2> QED BY <2>1, <2>2, <2>3, <2>4
<1>17. ASSUME NEW i \in 1 .. f + (d + e) PROVE IsInjective(u[i].calls)
  <2>1. CASE i \in 1 .. f
    BY <1>10, <1>13, <2>1 DEF Gathered, Tidy
  <2>2. CASE i \notin 1 .. f
    <3>1. u[i].calls = <<>>
      BY <1>14, <2>2
    <3>2. IsInjective(<<>>)
      BY DEF IsInjective
    <3> QED BY <3>1, <3>2
  <2> QED BY <2>1, <2>2
<1>18. Tidy(u)
  BY <1>13, <1>16, <1>17 DEF Tidy
<1>19. Origins(u, q, c, m1)
  <2>1. ASSUME NEW i \in 1 .. f + (d + e), IsTool(u[i])
        PROVE  \E j \in 1 .. m1 : \E k \in DOMAIN q[j] : u[i] = ToolOf(q[j][k])
    <3>1. CASE i \in 1 .. f
      <4>1. PICK j \in 1 .. m : \E k \in DOMAIN q[j] : s[i] = ToolOf(q[j][k])
        BY <1>10, <1>13, <2>1, <3>1 DEF Gathered, Origins
      <4>2. j \in 1 .. m1
        BY <1>1
      <4> QED BY <1>13, <3>1, <4>1, <4>2
    <3>2. CASE i \notin 1 .. f
      <4>1. PICK k \in 1 .. d : u[i] = ToolOf(w[k])
        BY <1>14, <2>1, <3>2
      <4>2. m1 \in 1 .. m1 /\ w[k] = q[m1][k] /\ k \in DOMAIN q[m1]
        BY <1>1, <1>2, <1>5
      <4> QED BY <4>1, <4>2
    <3> QED BY <3>1, <3>2
  <2>2. ASSUME NEW i \in 1 .. f + (d + e), NEW id \in ToSet(u[i].calls)
        PROVE  \E j \in 1 .. m1 : id \in ToSet(c[j])
    <3>1. CASE i \in 1 .. f
      <4>1. PICK j \in 1 .. m : id \in ToSet(c[j])
        BY <1>10, <1>13, <2>2, <3>1 DEF Gathered, Origins
      <4>2. j \in 1 .. m1
        BY <1>1
      <4> QED BY <4>1, <4>2
    <3>2. CASE i \notin 1 .. f
      <4>1. u[i].calls = <<>>
        BY <1>14, <3>2
      <4> QED BY <2>2, <4>1, NoCall
    <3> QED BY <3>1, <3>2
  <2> QED BY <1>13, <2>1, <2>2 DEF Origins
<1>20. Ends(u, Before(c, m1 + 1))
  <2>1. Before(c, m1 + 1) = {}
    BY <1>1, BeforeQuiet
  <2> QED BY <2>1 DEF Ends
<1>21. ASSUME NEW j \in 1 .. m1 PROVE Placed(u, q[j], Before(c, j))
  <2>1. CASE j \in 1 .. m
    <3>1. Placed(s, q[j], Before(c, j))
      BY <2>1 DEF Gathered
    <3>2. PICK v \in Seq(Results) : v = q[j]
      <4>1. j \in 1 .. n
        BY <1>1
      <4> QED BY <4>1
    <3>3. f <= f + (d + e) /\ f + (d + e) \in Nat
      OBVIOUS
    <3> QED BY <1>9, <1>10, <1>13, <3>1, <3>2, <3>3, PlacedBefore
  <2>2. CASE j \notin 1 .. m
    <3>1. j = m1
      BY <1>1, <2>2
    <3>2. PICK before : before = Before(c, m1)
      OBVIOUS
    <3>3. before # {} => s # <<>> /\ HasCalls(Last(s)) /\ before \subseteq ToSet(Last(s).calls)
      BY <1>1, <3>2 DEF Gathered, Ends
    <3>4. before # {} => f # 0 /\ HasCalls(u[f]) /\ before \subseteq ToSet(u[f].calls)
      <4>1. ASSUME before # {} PROVE f \in 1 .. f /\ Last(s) = s[f]
        <5>1. f # 0
          BY <1>9, <1>10, <3>3, <4>1, EmptySeq
        <5> QED BY <1>9, <5>1 DEF Last
      <4> QED BY <1>13, <3>3, <4>1
    <3>5. ASSUME NEW k \in 1 .. d PROVE u[f + k] = ToolOf(w[k])
      <4>1. k \in 1 .. d + e
        OBVIOUS
      <4> QED BY <1>6, <1>11, <1>13, <4>1
    <3>6. f + d <= Len(u)
      BY <1>13
    <3>7. Placed(u, w, before)
      BY <1>5, <1>9, <3>4, <3>5, <3>6 DEF Placed
    <3> QED BY <1>2, <3>1, <3>2, <3>7
  <2> QED BY <2>1, <2>2
<1>22. Gathered(u, q, c, m1)
  BY <1>18, <1>19, <1>20, <1>21 DEF Gathered
<1> QED BY <1>1, <1>12, <1>22

(* s up to its message f0, then one with calls.                            *)
LEMMA CallingLast ==
  ASSUME NEW q, NEW c, NEW n \in Nat, NEW m \in Nat, m + 1 \in 1 .. n,
         \A i \in 1 .. n : q[i] \in Seq(Results), q[m + 1] = <<>>,
         NEW s, Gathered(s, q, c, m),
         NEW f0 \in Nat, f0 <= Len(s), \A i \in DOMAIN s : IsTool(s[i]) => i <= f0,
         NEW g \in WordMessages, HasCalls(g), IsInjective(g.calls),
         \A id \in ToSet(g.calls) : \E j \in 1 .. m + 1 : id \in ToSet(c[j]),
         Before(c, (m + 1) + 1) \subseteq ToSet(g.calls),
         NEW u \in Seq(Wire), Len(u) = f0 + 1, u[f0 + 1] = g, \A i \in 1 .. f0 : u[i] = s[i]
  PROVE  Gathered(u, q, c, m + 1)
<1>1. PICK m1 \in 1 .. n : m1 = m + 1 /\ m1 \in Nat
  OBVIOUS
<1>2. s \in Seq(Wire)
  BY DEF Gathered, Tidy
<1>3. PICK f \in Nat : f = Len(s) /\ DOMAIN s = 1 .. f
  BY <1>2, LenProperties
<1>4. DOMAIN u = 1 .. f0 + 1 /\ f0 <= f
  BY <1>3, LenProperties
<1>5. ~ IsTool(g)
  BY DEF WordMessages
<1>6. ASSUME NEW i \in 1 .. f0 + 1
      PROVE  (i \in 1 .. f0 /\ i \in 1 .. f /\ u[i] = s[i]) \/ (i = f0 + 1 /\ u[i] = g)
  <2>1. CASE i = f0 + 1
    BY <2>1
  <2>2. CASE i # f0 + 1
    <3>1. i \in 1 .. f0 /\ i \in 1 .. f
      BY <1>4, <2>2
    <3> QED BY <3>1
  <2> QED BY <2>1, <2>2
<1>7. ASSUME NEW i \in DOMAIN u, NEW j \in DOMAIN u, IsTool(u[i]), u[i] = u[j]
      PROVE  i = j
  <2>1. i \in 1 .. f /\ j \in 1 .. f /\ u[i] = s[i] /\ u[j] = s[j]
    BY <1>4, <1>5, <1>6, <1>7
  <2>2. IsTool(s[i]) /\ s[i] = s[j]
    BY <1>7, <2>1
  <2> QED BY <1>3, <2>1, <2>2 DEF Gathered, Tidy
<1>8. ASSUME NEW i \in DOMAIN u PROVE IsInjective(u[i].calls)
  <2>1. CASE i = f0 + 1
    BY <2>1
  <2>2. CASE i # f0 + 1
    <3>1. i \in 1 .. f /\ u[i] = s[i]
      BY <1>4, <1>6, <2>2
    <3> QED BY <1>3, <3>1 DEF Gathered, Tidy
  <2> QED BY <2>1, <2>2
<1>9. Tidy(u)
  BY <1>7, <1>8 DEF Tidy
<1>10. \A j \in 1 .. m : j \in 1 .. m1
  BY <1>1
<1>11. ASSUME NEW i \in DOMAIN u, IsTool(u[i])
       PROVE  \E j \in 1 .. m1 : \E k \in DOMAIN q[j] : u[i] = ToolOf(q[j][k])
  <2>1. i \in 1 .. f /\ u[i] = s[i]
    BY <1>4, <1>5, <1>6, <1>11
  <2>2. \E j \in 1 .. m : \E k \in DOMAIN q[j] : s[i] = ToolOf(q[j][k])
    BY <1>3, <1>11, <2>1 DEF Gathered, Origins
  <2> QED BY <1>10, <2>1, <2>2
<1>12. ASSUME NEW i \in DOMAIN u, NEW id \in ToSet(u[i].calls)
       PROVE  \E j \in 1 .. m1 : id \in ToSet(c[j])
  <2>1. CASE i = f0 + 1
    BY <1>1, <1>12, <2>1
  <2>2. CASE i # f0 + 1
    <3>1. i \in 1 .. f /\ u[i] = s[i]
      BY <1>4, <1>6, <2>2
    <3>2. \E j \in 1 .. m : id \in ToSet(c[j])
      BY <1>3, <1>12, <3>1 DEF Gathered, Origins
    <3> QED BY <1>10, <3>2
  <2> QED BY <2>1, <2>2
<1>13. Origins(u, q, c, m1)
  BY <1>11, <1>12 DEF Origins
<1>14. Ends(u, Before(c, m1 + 1))
  <2>1. u # <<>>
    <3>1. f0 + 1 \in DOMAIN u
      BY <1>4
    <3> QED BY <3>1, NoneIn
  <2>2. Last(u) = g
    BY DEF Last
  <2> QED BY <1>1, <2>1, <2>2 DEF Ends
<1>15. ASSUME NEW j \in 1 .. m1 PROVE Placed(u, q[j], Before(c, j))
  <2>1. CASE j = m1
    BY <1>1, <2>1 DEF Placed
  <2>2. CASE j # m1
    <3>1. j \in 1 .. m /\ j \in 1 .. n
      BY <1>1, <2>2
    <3>2. PICK r \in Seq(Results) : r = q[j]
      BY <3>1
    <3>3. PICK before : before = Before(c, j)
      OBVIOUS
    <3>4. Placed(s, r, before)
      BY <3>1, <3>2, <3>3 DEF Gathered
    <3>5. SUFFICES ASSUME r # <<>> PROVE Placed(u, r, before)
      BY <3>2, <3>3 DEF Placed
    <3>6. PICK d \in Nat : d = Len(r) /\ DOMAIN r = 1 .. d
      OBVIOUS
    <3>7. PICK p \in Nat :
             /\ p + Len(r) <= Len(s) /\ \A k \in DOMAIN r : s[p + k] = ToolOf(r[k])
             /\ before # {} => p # 0 /\ HasCalls(s[p]) /\ before \subseteq ToSet(s[p].calls)
      BY <3>4, <3>5 DEF Placed
    <3>8. d # 0
      BY <3>5, <3>6, EmptySeq
    <3>9. p + d <= f0
      <4>1. p + d \in 1 .. f /\ d \in 1 .. d
        BY <1>3, <3>6, <3>7, <3>8
      <4>2. PICK x \in Results : x = r[d]
        BY <3>6, <4>1
      <4>3. s[p + d] = ToolOf(x)
        BY <3>6, <3>7, <4>1, <4>2
      <4>4. IsTool(s[p + d])
        BY <4>3, ToolOfShape
      <4> QED BY <1>3, <4>1, <4>4
    <3>10. ASSUME NEW k \in 1 .. d PROVE u[p + k] = ToolOf(r[k])
      <4>1. p + k \in 1 .. f0
        BY <3>9
      <4> QED BY <3>6, <3>7, <4>1
    <3>11. before # {} => p # 0 /\ HasCalls(u[p]) /\ before \subseteq ToSet(u[p].calls)
      <4>1. p # 0 => p \in 1 .. f0
        BY <3>9
      <4> QED BY <3>7, <4>1
    <3>12. p + d <= Len(u)
      BY <3>9
    <3> QED BY <3>6, <3>10, <3>11, <3>12 DEF Placed
  <2> QED BY <2>1, <2>2
<1>16. Gathered(u, q, c, m1)
  BY <1>9, <1>13, <1>14, <1>15 DEF Gathered
<1> QED BY <1>1, <1>16

Join(d, a, b) == d = a \o b

LEMMA JoinInjective ==
  ASSUME NEW a \in Seq(Calls), NEW b \in Seq(Calls), IsInjective(a), IsInjective(b),
         ToSet(a) \cap ToSet(b) = {}, NEW d, Join(d, a, b)
  PROVE  IsInjective(d) /\ ToSet(d) = ToSet(a) \cup ToSet(b) /\ d \in Seq(Calls)
<1>1. PICK n \in Nat, p \in Nat : n = Len(a) /\ DOMAIN a = 1 .. n /\ p = Len(b) /\ DOMAIN b = 1 .. p
  OBVIOUS
<1>2. d \in Seq(Calls) /\ Len(d) = n + p /\ DOMAIN d = 1 .. n + p
  BY <1>1 DEF Join
<1>3. (\A i \in 1 .. n : d[i] = a[i]) /\ \A i \in 1 .. p : d[n + i] = b[i]
  BY <1>1 DEF Join
<1>4. ASSUME NEW i \in 1 .. n + p
      PROVE  \/ i \in 1 .. n /\ d[i] = a[i]
             \/ \E k \in 1 .. p : i = n + k /\ d[i] = b[k]
  <2>1. CASE i \in 1 .. n
    BY <1>3, <2>1
  <2>2. CASE i \notin 1 .. n
    <3>1. i - n \in 1 .. p /\ i = n + (i - n)
      BY <2>2
    <3> QED BY <1>3, <3>1
  <2> QED BY <2>1, <2>2
<1>5. ToSet(d) = ToSet(a) \cup ToSet(b)
  <2>1. ASSUME NEW x \in ToSet(d) PROVE x \in ToSet(a) \cup ToSet(b)
    <3>1. PICK i \in 1 .. n + p : x = d[i]
      BY <1>2 DEF ToSet
    <3>2. CASE i \in 1 .. n /\ d[i] = a[i]
      BY <1>1, <3>1, <3>2 DEF ToSet
    <3>3. CASE \E k \in 1 .. p : i = n + k /\ d[i] = b[k]
      BY <1>1, <3>1, <3>3 DEF ToSet
    <3> QED BY <1>4, <3>2, <3>3
  <2>2. ASSUME NEW x \in ToSet(a) PROVE x \in ToSet(d)
    <3>1. PICK i \in 1 .. n : x = a[i]
      BY <1>1 DEF ToSet
    <3>2. i \in 1 .. n + p /\ d[i] = x
      BY <1>3, <3>1
    <3> QED BY <1>2, <3>2 DEF ToSet
  <2>3. ASSUME NEW x \in ToSet(b) PROVE x \in ToSet(d)
    <3>1. PICK i \in 1 .. p : x = b[i]
      BY <1>1 DEF ToSet
    <3>2. n + i \in 1 .. n + p /\ d[n + i] = x
      BY <1>3, <3>1
    <3> QED BY <1>2, <3>2 DEF ToSet
  <2> QED BY <2>1, <2>2, <2>3
<1>6. ASSUME NEW i \in 1 .. n, NEW j \in 1 .. p, a[i] = b[j] PROVE FALSE
  <2>1. a[i] \in ToSet(a) /\ b[j] \in ToSet(b)
    BY <1>1 DEF ToSet
  <2> QED BY <1>6, <2>1
<1>7. ASSUME NEW i \in 1 .. n + p, NEW j \in 1 .. n + p, d[i] = d[j] PROVE i = j
  <2>1. CASE i \in 1 .. n /\ j \in 1 .. n
    BY <1>1, <1>3, <1>7, <2>1 DEF IsInjective
  <2>2. CASE i \notin 1 .. n /\ j \notin 1 .. n
    <3>1. PICK k \in 1 .. p, l \in 1 .. p : i = n + k /\ d[i] = b[k] /\ j = n + l /\ d[j] = b[l]
      BY <1>4, <2>2
    <3>2. k = l
      BY <1>1, <1>7, <3>1 DEF IsInjective
    <3> QED BY <3>1, <3>2
  <2>3. CASE i \in 1 .. n /\ j \notin 1 .. n
    <3>1. d[i] = a[i]
      BY <1>3, <2>3
    <3>2. PICK k \in 1 .. p : d[j] = b[k]
      BY <1>4, <2>3
    <3> QED BY <1>6, <1>7, <2>3, <3>1, <3>2
  <2>4. CASE i \notin 1 .. n /\ j \in 1 .. n
    <3>1. d[j] = a[j]
      BY <1>3, <2>4
    <3>2. PICK k \in 1 .. p : d[i] = b[k]
      BY <1>4, <2>4
    <3> QED BY <1>6, <1>7, <2>4, <3>1, <3>2
  <2> QED BY <2>1, <2>2, <2>3, <2>4
<1>8. IsInjective(d)
  BY <1>2, <1>7 DEF IsInjective
<1> QED BY <1>2, <1>5, <1>8

LEMMA CallingStep ==
  ASSUME NEW q, NEW c, NEW n \in Nat, NEW m \in Nat, m + 1 \in 1 .. n,
         \A i \in 1 .. n : q[i] \in Seq(Results), q[m + 1] = <<>>, BlocksDiffer(q, c, n),
         NEW s, Gathered(s, q, c, m),
         NEW msg \in WordMessages, msg.role = "assistant", msg.calls = c[m + 1], msg.calls # <<>>,
         IsInjective(msg.calls)
  PROVE  Gathered(CoalesceNext(s, msg), q, c, m + 1)
<1>1. PICK m1 \in 1 .. n : m1 = m + 1 /\ m1 \in Nat
  OBVIOUS
<1>2. s \in Seq(Wire)
  BY DEF Gathered, Tidy
<1>3. PICK f \in Nat : f = Len(s) /\ DOMAIN s = 1 .. f
  BY <1>2, LenProperties
<1>4. PICK u : u = CoalesceNext(s, msg)
  OBVIOUS
<1>5. PICK b \in Seq(Calls) : b = msg.calls
  BY DEF WordMessages, Chats
<1>6. HasCalls(msg) /\ msg \in Wire /\ msg \in Chats
  BY DEF HasCalls, Wire, WordMessages
<1>7. b = c[m1] /\ IsInjective(b) /\ m1 \in 1 .. m1
  BY <1>1, <1>5
<1>8. Before(c, m1 + 1) \subseteq Before(c, m1) \cup ToSet(b)
  <2>1. m1 # 0
    OBVIOUS
  <2> QED BY <1>1, <1>7, <2>1, BeforeCalling
<1>9. Ends(s, Before(c, m1))
  BY <1>1 DEF Gathered
<1>10. \A j \in 1 .. m : j \in 1 .. m1 /\ j \in 1 .. n /\ j # m1
  BY <1>1
<1>11. CASE s # <<>> /\ HasCalls(Last(s))
  <2>1. f # 0
    BY <1>2, <1>3, <1>11, EmptySeq
  <2>2. PICK f0 \in Nat : f0 = f - 1
    BY <2>1
  <2>3. f \in 1 .. f /\ f = f0 + 1 /\ f0 <= f
    BY <2>1, <2>2
  <2>4. PICK l \in Wire : l = Last(s) /\ l = s[f]
    <3>1. Last(s) = s[f]
      BY <1>3 DEF Last
    <3>2. s[f] \in Wire
      BY <1>2, <1>3, <2>3, ElementOfSeq
    <3> QED BY <3>1, <3>2
  <2>5. HasCalls(l) /\ ~ IsTool(l) /\ l \in WordMessages /\ l \in Chats
    <3>1. HasCalls(l) /\ ~ IsTool(l)
      BY <1>11, <2>4 DEF HasCalls, IsTool
    <3> QED BY <3>1, WireShape
  <2>6. PICK a \in Seq(Calls) : a = l.calls
    BY <2>5 DEF Chats
  <2>7. IsInjective(a)
    BY <1>3, <2>3, <2>4, <2>6 DEF Gathered, Tidy
  <2>8. \A id \in ToSet(a) : \E j \in 1 .. m : id \in ToSet(c[j])
    BY <1>3, <2>3, <2>4, <2>6 DEF Gathered, Origins
  <2>9. ToSet(a) \cap ToSet(b) = {}
    <3>1. ASSUME NEW id \in ToSet(a), id \in ToSet(b) PROVE FALSE
      <4>1. PICK j \in 1 .. m : id \in ToSet(c[j])
        BY <2>8
      <4>2. ToSet(c[j]) \cap ToSet(c[m1]) = {}
        BY <1>10 DEF BlocksDiffer
      <4> QED BY <1>7, <3>1, <4>1, <4>2
    <3> QED BY <3>1
  <2>10. PICK d : Join(d, a, b)
    BY DEF Join
  <2>11. IsInjective(d) /\ ToSet(d) = ToSet(a) \cup ToSet(b) /\ d \in Seq(Calls)
    BY <1>7, <2>7, <2>9, <2>10, JoinInjective
  <2>12. PICK g : g = Merge(l, msg)
    OBVIOUS
  <2>13. g \in Chats
    BY <1>6, <2>5, <2>12, MergeTyped
  <2>14. g.calls = d /\ g.role = l.role /\ g.content = l.content \o msg.content
    BY <1>5, <2>5, <2>6, <2>10, <2>12 DEF Merge, Chats, Join
  <2>15. g \in WordMessages
    <3>1. PICK x \in Seq(Words), y \in Seq(Words) : x = l.content /\ y = msg.content
      BY <2>5 DEF WordMessages
    <3>2. x \o y \in Seq(Words)
      OBVIOUS
    <3>3. ~ IsTool(g)
      BY <2>5, <2>14 DEF IsTool
    <3> QED BY <2>13, <2>14, <3>1, <3>2, <3>3 DEF WordMessages
  <2>16. HasCalls(g)
    <3>1. a # <<>>
      BY <2>5, <2>6 DEF HasCalls
    <3>2. ASSUME d = <<>> PROVE FALSE
      <4>1. ToSet(a) = {}
        BY <2>11, <3>2, NoCall
      <4>2. 1 \in DOMAIN a
        <5>1. Len(a) # 0 /\ DOMAIN a = 1 .. Len(a) /\ Len(a) \in Nat
          BY <3>1, EmptySeq, LenProperties
        <5> QED BY <5>1
      <4>3. a[1] \in ToSet(a)
        BY <4>2 DEF ToSet
      <4> QED BY <4>1, <4>3
    <3> QED BY <2>5, <2>14, <3>2 DEF HasCalls
  <2>17. PICK v : v = SubSeq(s, 1, f0)
    OBVIOUS
  <2>18. v \in Seq(Wire) /\ Len(v) = f0 /\ \A i \in 1 .. f0 : v[i] = s[i]
    BY <1>2, <1>3, <2>3, <2>17
  <2>19. u = Append(v, g)
    BY <1>3, <1>4, <1>6, <1>11, <2>2, <2>4, <2>12, <2>17 DEF CoalesceNext, Front
  <2>20. g \in Wire
    BY <2>15 DEF Wire
  <2>21. u \in Seq(Wire) /\ Len(u) = f0 + 1 /\ u[f0 + 1] = g /\ \A i \in 1 .. f0 : u[i] = s[i]
    BY <2>18, <2>19, <2>20
  <2>22. \A i \in DOMAIN s : IsTool(s[i]) => i <= f0
    <3>1. ASSUME NEW i \in DOMAIN s, IsTool(s[i]) PROVE i <= f0
      <4>1. i # f
        BY <2>4, <2>5, <3>1
      <4> QED BY <1>3, <2>2, <4>1
    <3> QED BY <3>1
  <2>23. \A id \in ToSet(g.calls) : \E j \in 1 .. m1 : id \in ToSet(c[j])
    BY <1>7, <1>10, <2>8, <2>11, <2>14
  <2>24. Before(c, m1 + 1) \subseteq ToSet(g.calls)
    <3>1. Before(c, m1) \subseteq ToSet(a)
      BY <1>9, <2>4, <2>6 DEF Ends
    <3> QED BY <1>8, <2>11, <2>14, <3>1
  <2>25. f0 <= Len(s)
    BY <1>3, <2>3
  <2>26. Gathered(u, q, c, m + 1)
    BY <1>1, <2>11, <2>14, <2>15, <2>16, <2>21, <2>22, <2>23, <2>24, <2>25, CallingLast
  <2> QED BY <1>4, <2>26
<1>12. CASE ~ (s # <<>> /\ HasCalls(Last(s)))
  <2>1. u = Append(s, msg)
    BY <1>4, <1>12 DEF CoalesceNext
  <2>2. u \in Seq(Wire) /\ Len(u) = f + 1 /\ u[f + 1] = msg /\ \A i \in 1 .. f : u[i] = s[i]
    BY <1>2, <1>3, <1>6, <2>1
  <2>3. \A i \in DOMAIN s : IsTool(s[i]) => i <= f
    BY <1>3
  <2>4. \A id \in ToSet(msg.calls) : \E j \in 1 .. m1 : id \in ToSet(c[j])
    BY <1>5, <1>7
  <2>5. Before(c, m1 + 1) \subseteq ToSet(msg.calls)
    BY <1>5, <1>8, <1>9, <1>12 DEF Ends
  <2>6. f <= Len(s)
    BY <1>3
  <2>7. Gathered(u, q, c, m + 1)
    BY <1>1, <1>6, <2>2, <2>3, <2>4, <2>5, <2>6, CallingLast
  <2> QED BY <1>4, <2>7
<1> QED BY <1>11, <1>12

LEMMA QuietTyped ==
  ASSUME NEW b, NEW q \in Seq(Results), Quiet(b, q)
  PROVE  b \in Seq(Chats) /\ \A k \in DOMAIN b : ~ HasCalls(b[k])
<1>1. PICK N : N = {m \in Chats : m.calls = <<>>}
  OBVIOUS
<1>2. PICK r \in Seq(WordMessages) :
         b = [k \in DOMAIN q |-> ToolOf(q[k])] \o r /\ \A k \in DOMAIN r : r[k].calls = <<>>
  BY DEF Quiet
<1>3. PICK t : t = [k \in DOMAIN q |-> ToolOf(q[k])]
  OBVIOUS
<1>4. PICK d \in Nat : d = Len(q) /\ DOMAIN q = 1 .. d
  OBVIOUS
<1>5. \A k \in 1 .. d : t[k] \in N
  <2>1. ASSUME NEW k \in 1 .. d PROVE t[k] \in N
    <3>1. PICK x \in Results : x = q[k]
      BY <1>4
    <3>2. t[k] = ToolOf(x)
      BY <1>3, <1>4, <3>1
    <3>3. t[k] \in Chats /\ t[k].calls = <<>>
      BY <3>2, ToolOfShape, WireChats
    <3> QED BY <1>1, <3>3
  <2> QED BY <2>1
<1>6. t \in Seq(N)
  <2>1. t = [k \in 1 .. d |-> t[k]]
    BY <1>3, <1>4
  <2>2. t \in [1 .. d -> N]
    BY <1>5, <2>1
  <2> QED BY <2>2, SeqDef
<1>7. r \in Seq(N)
  <2>1. PICK e \in Nat : e = Len(r) /\ DOMAIN r = 1 .. e
    BY LenProperties
  <2>2. \A k \in 1 .. e : r[k] \in N
    <3>1. ASSUME NEW k \in 1 .. e PROVE r[k] \in N
      <4>1. r[k] \in WordMessages
        BY <2>1, ElementOfSeq
      <4>2. r[k] \in Chats /\ r[k].calls = <<>>
        BY <1>2, <2>1, <4>1 DEF WordMessages
      <4> QED BY <1>1, <4>2
    <3> QED BY <3>1
  <2>3. r = [k \in 1 .. e |-> r[k]]
    BY <2>1
  <2>4. r \in [1 .. e -> N]
    BY <2>2, <2>3
  <2> QED BY <2>4, SeqDef
<1>8. b \in Seq(N)
  <2>1. b = t \o r
    BY <1>2, <1>3
  <2> QED BY <1>6, <1>7, <2>1, ConcatProperties
<1>9. N \subseteq Chats
  BY <1>1
<1>10. ASSUME NEW k \in DOMAIN b PROVE ~ HasCalls(b[k])
  <2>1. b[k] \in N
    BY <1>8
  <2>2. b[k].calls = <<>>
    BY <1>1, <2>1
  <2> QED BY <2>2 DEF HasCalls
<1> QED BY <1>8, <1>9, <1>10, SeqMonotonic

LEMMA PrefixSnoc ==
  ASSUME NEW X, NEW b \in Seq(X), NEW n \in Nat, n = Len(b), NEW m \in Nat, m + 1 \in 1 .. n,
         NEW t, t = SubSeq(b, 1, m), NEW v, v = SubSeq(b, 1, m + 1)
  PROVE  t \in Seq(X) /\ b[m + 1] \in X /\ v = Append(t, b[m + 1])
<1>1. t \in Seq(X) /\ Len(t) = m /\ \A i \in 1 .. m : t[i] = b[i]
  OBVIOUS
<1>2. v \in Seq(X) /\ Len(v) = m + 1 /\ \A i \in 1 .. m + 1 : v[i] = b[i]
  OBVIOUS
<1>3. PICK x \in X : x = b[m + 1]
  OBVIOUS
<1>4. PICK w : w = Append(t, x)
  OBVIOUS
<1>5. w \in Seq(X) /\ Len(w) = m + 1 /\ w[m + 1] = x /\ \A i \in 1 .. m : w[i] = t[i]
  BY <1>1, <1>4
<1>6. ASSUME NEW i \in 1 .. m + 1 PROVE v[i] = w[i]
  <2>1. CASE i = m + 1
    BY <1>2, <1>3, <1>5, <2>1
  <2>2. CASE i # m + 1
    <3>1. i \in 1 .. m
      BY <2>2
    <3> QED BY <1>1, <1>2, <1>5, <3>1
  <2> QED BY <2>1, <2>2
<1>7. v = w
  BY <1>2, <1>5, <1>6, SeqEqual
<1> QED BY <1>1, <1>3, <1>4, <1>7

(* The coalesced request has the results of every message, each behind the *)
(* calls of the messages right before it.                                  *)
LEMMA GatheredAll ==
  ASSUME NEW n \in Nat, NEW b \in Seq(Seq(Chats)), Len(b) = n, NEW q, NEW c,
         \A i \in 1 .. n : Block(b[i], q[i], c[i]), BlocksDiffer(q, c, n)
  PROVE  Gathered(Coalesce(FlattenSeq(b)), q, c, n)
<1>1. \A i \in 1 .. n : q[i] \in Seq(Results)
  BY DEF Block
<1>2. PICK T : T = {m \in Nat : m <= n => Gathered(Coalesce(FlattenSeq(SubSeq(b, 1, m))), q, c, m)}
  OBVIOUS
<1>3. 0 \in T
  <2>1. SubSeq(b, 1, 0) = <<>>
    OBVIOUS
  <2>2. Coalesce(FlattenSeq(SubSeq(b, 1, 0))) = <<>>
    BY <2>1, FlattenEmpty, CoalesceEmpty
  <2>3. <<>> \in Seq(Wire) /\ DOMAIN <<>> = {}
    OBVIOUS
  <2>4. Tidy(<<>>) /\ Origins(<<>>, q, c, 0)
    BY <2>3 DEF Tidy, Origins
  <2>5. Before(c, 0 + 1) = {}
    BY DEF Before
  <2>6. Ends(<<>>, Before(c, 0 + 1))
    BY <2>5 DEF Ends
  <2>7. Gathered(<<>>, q, c, 0)
    BY <2>4, <2>6 DEF Gathered
  <2> QED BY <1>2, <2>2, <2>7
<1>4. ASSUME NEW m \in Nat, m \in T PROVE m + 1 \in T
  <2>1. SUFFICES ASSUME m + 1 <= n
                 PROVE  Gathered(Coalesce(FlattenSeq(SubSeq(b, 1, m + 1))), q, c, m + 1)
    BY <1>2
  <2>2. m + 1 \in 1 .. n /\ m <= n
    BY <2>1
  <2>3. PICK t, v : t = SubSeq(b, 1, m) /\ v = SubSeq(b, 1, m + 1)
    OBVIOUS
  <2>4. PICK x : x = b[m + 1]
    OBVIOUS
  <2>5. t \in Seq(Seq(Chats)) /\ x \in Seq(Chats) /\ v = Append(t, x)
    BY <2>2, <2>3, <2>4, PrefixSnoc
  <2>6. PICK f : f = FlattenSeq(t)
    OBVIOUS
  <2>7. f \in Seq(Chats) /\ FlattenSeq(v) = f \o x
    BY <2>5, <2>6, FlattenSnoc
  <2>8. PICK s : s = Coalesce(f)
    OBVIOUS
  <2>9. Gathered(s, q, c, m)
    BY <1>2, <1>4, <2>2, <2>3, <2>6, <2>8
  <2>10. Block(x, q[m + 1], c[m + 1])
    BY <2>2, <2>4
  <2>11. CASE c[m + 1] = <<>>
    <3>1. Quiet(x, q[m + 1]) /\ q[m + 1] \in Seq(Results)
      BY <2>10, <2>11 DEF Block
    <3>2. \A k \in DOMAIN x : ~ HasCalls(x[k])
      BY <3>1, QuietTyped
    <3>3. Coalesce(f \o x) = s \o x
      BY <2>5, <2>7, <2>8, <3>2, CoalesceQuiet
    <3>4. Gathered(s \o x, q, c, m + 1)
      BY <1>1, <2>2, <2>9, <2>11, <3>1, QuietStep
    <3> QED BY <2>3, <2>7, <3>3, <3>4
  <2>12. CASE c[m + 1] # <<>>
    <3>1. q[m + 1] = <<>> /\ Calling(x, c[m + 1]) /\ IsInjective(c[m + 1])
      BY <2>10, <2>12 DEF Block
    <3>2. PICK msg \in WordMessages : x = <<msg>> /\ msg.role = "assistant" /\ msg.calls = c[m + 1]
      BY <3>1 DEF Calling
    <3>3. msg \in Chats
      BY DEF WordMessages
    <3>4. f \o x = Append(f, msg)
      BY <2>7, <3>2, <3>3
    <3>5. Coalesce(Append(f, msg)) = CoalesceNext(s, msg)
      BY <2>7, <2>8, <3>3, CoalesceSnoc
    <3>6. Gathered(CoalesceNext(s, msg), q, c, m + 1)
      <4>1. msg.calls # <<>> /\ IsInjective(msg.calls)
        BY <2>12, <3>1, <3>2
      <4> QED BY <1>1, <2>2, <2>9, <3>1, <3>2, <4>1, CallingStep
    <3> QED BY <2>3, <2>7, <3>4, <3>5, <3>6
  <2> QED BY <2>11, <2>12
<1>5. Nat \subseteq T
  BY <1>3, <1>4, Induction
<1>6. SubSeq(b, 1, n) = b
  OBVIOUS
<1>7. n \in T /\ n <= n
  BY <1>5
<1> QED BY <1>2, <1>6, <1>7

-----------------------------------------------------------------------------
(* What occurs once, or not at all, in a sequence and in the sequences it  *)
(* is made of.                                                             *)
OnceIn(s, P) == \E i \in DOMAIN s : s[i] \in P /\ \A j \in DOMAIN s : s[j] \in P => j = i

NoneOf(s, P) == \A j \in DOMAIN s : s[j] \notin P

Joined(u, s, t, n, p) ==
    /\ DOMAIN u = 1 .. n + p /\ DOMAIN s = 1 .. n /\ DOMAIN t = 1 .. p
    /\ (\A i \in 1 .. n : u[i] = s[i]) /\ (\A i \in 1 .. p : n + i \in 1 .. n + p /\ u[n + i] = t[i])
    /\ \A i \in 1 .. n + p : i \in 1 .. n \/ \E k \in 1 .. p : i = n + k

LEMMA JoinShape ==
  ASSUME NEW X, NEW s \in Seq(X), NEW t \in Seq(X), NEW n \in Nat, NEW p \in Nat, n = Len(s), p = Len(t),
         NEW u, Join(u, s, t)
  PROVE  u \in Seq(X) /\ Joined(u, s, t, n, p)
<1>1. u \in Seq(X) /\ DOMAIN u = 1 .. n + p
  BY DEF Join
<1>2. DOMAIN s = 1 .. n /\ DOMAIN t = 1 .. p
  OBVIOUS
<1>3. (\A i \in 1 .. n : u[i] = s[i]) /\ (\A i \in 1 .. p : n + i \in 1 .. n + p /\ u[n + i] = t[i])
  BY DEF Join
<1>4. ASSUME NEW i \in 1 .. n + p, i \notin 1 .. n
      PROVE  \E k \in 1 .. p : i = n + k
  <2>1. i - n \in 1 .. p /\ i = n + (i - n)
    BY <1>4
  <2> QED BY <2>1
<1> QED BY <1>1, <1>2, <1>3, <1>4 DEF Joined

LEMMA NoneJoin ==
  ASSUME NEW X, NEW s \in Seq(X), NEW t \in Seq(X), NEW P, NoneOf(s, P), NoneOf(t, P), NEW u, Join(u, s, t)
  PROVE  u \in Seq(X) /\ NoneOf(u, P)
<1>1. PICK n \in Nat, p \in Nat : n = Len(s) /\ p = Len(t)
  OBVIOUS
<1>2. u \in Seq(X) /\ Joined(u, s, t, n, p)
  BY <1>1, JoinShape
<1>3. /\ DOMAIN u = 1 .. n + p /\ DOMAIN s = 1 .. n /\ DOMAIN t = 1 .. p
      /\ (\A i \in 1 .. n : u[i] = s[i]) /\ (\A i \in 1 .. p : n + i \in 1 .. n + p /\ u[n + i] = t[i])
      /\ \A i \in 1 .. n + p : i \in 1 .. n \/ \E k \in 1 .. p : i = n + k
  BY <1>2 DEF Joined
<1>4. ASSUME NEW i \in 1 .. n + p PROVE u[i] \notin P
  <2>1. CASE i \in 1 .. n
    BY <1>3, <2>1 DEF NoneOf
  <2>2. CASE \E k \in 1 .. p : i = n + k
    BY <1>3, <2>2 DEF NoneOf
  <2> QED BY <1>3, <2>1, <2>2
<1> QED BY <1>2, <1>3, <1>4 DEF NoneOf

LEMMA OnceThenNone ==
  ASSUME NEW X, NEW s \in Seq(X), NEW t \in Seq(X), NEW P, OnceIn(s, P), NoneOf(t, P), NEW u, Join(u, s, t)
  PROVE  u \in Seq(X) /\ OnceIn(u, P)
<1>1. PICK n \in Nat, p \in Nat : n = Len(s) /\ p = Len(t)
  OBVIOUS
<1>2. u \in Seq(X) /\ Joined(u, s, t, n, p)
  BY <1>1, JoinShape
<1>3. /\ DOMAIN u = 1 .. n + p /\ DOMAIN s = 1 .. n /\ DOMAIN t = 1 .. p
      /\ (\A i \in 1 .. n : u[i] = s[i]) /\ (\A i \in 1 .. p : n + i \in 1 .. n + p /\ u[n + i] = t[i])
      /\ \A i \in 1 .. n + p : i \in 1 .. n \/ \E k \in 1 .. p : i = n + k
  BY <1>2 DEF Joined
<1>4. PICK o \in 1 .. n : s[o] \in P /\ \A j \in 1 .. n : s[j] \in P => j = o
  <2>1. DOMAIN s = 1 .. n
    BY <1>3
  <2> QED BY <2>1 DEF OnceIn
<1>5. o \in 1 .. n + p
  OBVIOUS
<1>6. ASSUME NEW i \in 1 .. n + p PROVE (u[i] \in P => i = o) /\ (i = o => u[i] \in P)
  <2>1. CASE i \in 1 .. n
    BY <1>3, <1>4, <2>1
  <2>2. CASE \E k \in 1 .. p : i = n + k
    <3>1. PICK k \in 1 .. p : i = n + k
      BY <2>2
    <3>2. u[i] \notin P
      BY <1>3, <3>1 DEF NoneOf
    <3>3. i # o
      BY <3>1
    <3> QED BY <3>2, <3>3
  <2> QED BY <1>3, <2>1, <2>2
<1>7. DOMAIN u = 1 .. n + p
  BY <1>3
<1>8. OnceIn(u, P)
  BY <1>5, <1>6, <1>7 DEF OnceIn
<1> QED BY <1>2, <1>8

LEMMA NoneThenOnce ==
  ASSUME NEW X, NEW s \in Seq(X), NEW t \in Seq(X), NEW P, NoneOf(s, P), OnceIn(t, P), NEW u, Join(u, s, t)
  PROVE  u \in Seq(X) /\ OnceIn(u, P)
<1>1. PICK n \in Nat, p \in Nat : n = Len(s) /\ p = Len(t)
  OBVIOUS
<1>2. u \in Seq(X) /\ Joined(u, s, t, n, p)
  BY <1>1, JoinShape
<1>3. /\ DOMAIN u = 1 .. n + p /\ DOMAIN s = 1 .. n /\ DOMAIN t = 1 .. p
      /\ (\A i \in 1 .. n : u[i] = s[i]) /\ (\A i \in 1 .. p : n + i \in 1 .. n + p /\ u[n + i] = t[i])
      /\ \A i \in 1 .. n + p : i \in 1 .. n \/ \E k \in 1 .. p : i = n + k
  BY <1>2 DEF Joined
<1>4. PICK o \in 1 .. p : t[o] \in P /\ \A j \in 1 .. p : t[j] \in P => j = o
  <2>1. DOMAIN t = 1 .. p
    BY <1>3
  <2> QED BY <2>1 DEF OnceIn
<1>5. PICK q \in 1 .. n + p : q = n + o
  OBVIOUS
<1>6. ASSUME NEW i \in 1 .. n + p PROVE (u[i] \in P => i = q) /\ (i = q => u[i] \in P)
  <2>1. CASE i \in 1 .. n
    <3>1. u[i] \notin P
      BY <1>3, <2>1 DEF NoneOf
    <3>2. i # q
      BY <1>5, <2>1
    <3> QED BY <3>1, <3>2
  <2>2. CASE \E k \in 1 .. p : i = n + k
    <3>1. PICK k \in 1 .. p : i = n + k
      BY <2>2
    <3>2. u[i] = t[k]
      BY <1>3, <3>1
    <3>3. i = q <=> k = o
      BY <1>5, <3>1
    <3> QED BY <1>4, <3>2, <3>3
  <2> QED BY <1>3, <2>1, <2>2
<1>7. DOMAIN u = 1 .. n + p
  BY <1>3
<1>8. OnceIn(u, P)
  BY <1>6, <1>7 DEF OnceIn
<1> QED BY <1>2, <1>8

LEMMA FlattenNone ==
  ASSUME NEW X, NEW s \in Seq(Seq(X)), NEW P, \A i \in DOMAIN s : NoneOf(s[i], P)
  PROVE  NoneOf(FlattenSeq(s), P)
<1>1. PICK Y : Y = Seq(X)
  OBVIOUS
<1>2. PICK S : S = {t \in Seq(Y) : (\A i \in DOMAIN t : NoneOf(t[i], P)) => NoneOf(FlattenSeq(t), P)}
  OBVIOUS
<1>3. <<>> \in S
  <2>1. <<>> \in Seq(Y) /\ DOMAIN <<>> = {}
    OBVIOUS
  <2>2. NoneOf(<<>>, P)
    BY <2>1 DEF NoneOf
  <2> QED BY <1>2, <2>1, <2>2, FlattenEmpty
<1>4. ASSUME NEW t \in Seq(Y), NEW x \in Y, t \in S PROVE Append(t, x) \in S
  <2>1. PICK v : v = Append(t, x)
    OBVIOUS
  <2>2. PICK n \in Nat : n = Len(t)
    OBVIOUS
  <2>3. v \in Seq(Y) /\ DOMAIN v = 1 .. n + 1 /\ v[n + 1] = x /\ DOMAIN t = 1 .. n
        /\ \A i \in 1 .. n : v[i] = t[i]
    BY <2>1, <2>2
  <2>4. ASSUME \A i \in DOMAIN v : NoneOf(v[i], P) PROVE NoneOf(FlattenSeq(v), P)
    <3>1. NoneOf(x, P)
      <4>1. n + 1 \in DOMAIN v
        BY <2>3
      <4> QED BY <2>3, <2>4, <4>1
    <3>2. \A i \in DOMAIN t : NoneOf(t[i], P)
      BY <2>3, <2>4
    <3>3. PICK f : f = FlattenSeq(t)
      OBVIOUS
    <3>4. NoneOf(f, P)
      BY <1>2, <1>4, <3>2, <3>3
    <3>5. f \in Seq(X) /\ FlattenSeq(v) = f \o x /\ x \in Seq(X)
      BY <1>1, <2>1, <3>3, FlattenSnoc
    <3>6. PICK g : g = f \o x
      OBVIOUS
    <3>7. Join(g, f, x)
      BY <3>6 DEF Join
    <3>8. NoneOf(g, P)
      BY <3>1, <3>4, <3>5, <3>7, NoneJoin
    <3> QED BY <3>5, <3>6, <3>8
  <2> QED BY <1>2, <2>1, <2>3, <2>4
<1>5. Seq(Y) \subseteq S
  BY <1>3, <1>4, SequenceInduction
<1> QED BY <1>1, <1>2, <1>5

LEMMA FlattenOnce ==
  ASSUME NEW X, NEW s \in Seq(Seq(X)), NEW P, NEW o \in DOMAIN s, OnceIn(s[o], P),
         \A i \in DOMAIN s : i # o => NoneOf(s[i], P)
  PROVE  OnceIn(FlattenSeq(s), P)
<1>1. PICK Y : Y = Seq(X)
  OBVIOUS
<1>2. PICK S : S = {t \in Seq(Y) : \A k \in DOMAIN t :
                      (OnceIn(t[k], P) /\ \A i \in DOMAIN t : i # k => NoneOf(t[i], P))
                         => OnceIn(FlattenSeq(t), P)}
  OBVIOUS
<1>3. <<>> \in S
  <2>1. <<>> \in Seq(Y) /\ DOMAIN <<>> = {}
    OBVIOUS
  <2> QED BY <1>2, <2>1
<1>4. ASSUME NEW t \in Seq(Y), NEW x \in Y, t \in S PROVE Append(t, x) \in S
  <2>1. PICK v : v = Append(t, x)
    OBVIOUS
  <2>2. PICK n \in Nat : n = Len(t)
    OBVIOUS
  <2>3. v \in Seq(Y) /\ DOMAIN v = 1 .. n + 1 /\ v[n + 1] = x /\ DOMAIN t = 1 .. n
        /\ \A i \in 1 .. n : v[i] = t[i]
    BY <2>1, <2>2
  <2>4. PICK f : f = FlattenSeq(t)
    OBVIOUS
  <2>5. f \in Seq(X) /\ FlattenSeq(v) = f \o x /\ x \in Seq(X) /\ t \in Seq(Seq(X))
    BY <1>1, <2>1, <2>4, FlattenSnoc
  <2>6. PICK g : g = f \o x
    OBVIOUS
  <2>7. Join(g, f, x)
    BY <2>6 DEF Join
  <2>8. ASSUME NEW k \in DOMAIN v, OnceIn(v[k], P), \A i \in DOMAIN v : i # k => NoneOf(v[i], P)
        PROVE  OnceIn(FlattenSeq(v), P)
    <3>1. n + 1 \in DOMAIN v /\ \A i \in 1 .. n : i \in DOMAIN v /\ i # n + 1
      BY <2>3
    <3>2. CASE k = n + 1
      <4>1. \A i \in DOMAIN t : NoneOf(t[i], P)
        BY <2>3, <2>8, <3>1, <3>2
      <4>2. NoneOf(f, P)
        BY <2>4, <2>5, <4>1, FlattenNone
      <4>3. OnceIn(x, P)
        BY <2>3, <2>8, <3>2
      <4>4. OnceIn(g, P)
        BY <2>5, <2>7, <4>2, <4>3, NoneThenOnce
      <4> QED BY <2>5, <2>6, <4>4
    <3>3. CASE k # n + 1
      <4>1. k \in DOMAIN t
        BY <2>3, <3>3
      <4>2. OnceIn(t[k], P) /\ \A i \in DOMAIN t : i # k => NoneOf(t[i], P)
        BY <2>3, <2>8, <3>1, <4>1
      <4>3. OnceIn(f, P)
        BY <1>2, <1>4, <2>4, <4>1, <4>2
      <4>4. NoneOf(x, P)
        BY <2>3, <2>8, <3>1, <3>3
      <4>5. OnceIn(g, P)
        BY <2>5, <2>7, <4>3, <4>4, OnceThenNone
      <4> QED BY <2>5, <2>6, <4>5
    <3> QED BY <3>2, <3>3
  <2> QED BY <1>2, <2>1, <2>3, <2>8
<1>5. Seq(Y) \subseteq S
  BY <1>3, <1>4, SequenceInduction
<1> QED BY <1>1, <1>2, <1>5

LEMMA FlattenHas ==
  ASSUME NEW X, NEW s \in Seq(Seq(X)), NEW o \in DOMAIN s, NEW e \in ToSet(s[o])
  PROVE  e \in ToSet(FlattenSeq(s))
<1>1. PICK Y : Y = Seq(X)
  OBVIOUS
<1>2. PICK S : S = {t \in Seq(Y) : \A k \in DOMAIN t : e \in ToSet(t[k]) => e \in ToSet(FlattenSeq(t))}
  OBVIOUS
<1>3. <<>> \in S
  <2>1. <<>> \in Seq(Y) /\ DOMAIN <<>> = {}
    OBVIOUS
  <2> QED BY <1>2, <2>1
<1>4. ASSUME NEW t \in Seq(Y), NEW x \in Y, t \in S PROVE Append(t, x) \in S
  <2>1. PICK v : v = Append(t, x)
    OBVIOUS
  <2>2. PICK n \in Nat : n = Len(t)
    OBVIOUS
  <2>3. v \in Seq(Y) /\ DOMAIN v = 1 .. n + 1 /\ v[n + 1] = x /\ DOMAIN t = 1 .. n
        /\ \A i \in 1 .. n : v[i] = t[i]
    BY <2>1, <2>2
  <2>4. PICK f : f = FlattenSeq(t)
    OBVIOUS
  <2>5. f \in Seq(X) /\ FlattenSeq(v) = f \o x /\ x \in Seq(X)
    BY <1>1, <2>1, <2>4, FlattenSnoc
  <2>6. PICK g : g = f \o x
    OBVIOUS
  <2>7. Join(g, f, x)
    BY <2>6 DEF Join
  <2>8. PICK d \in Nat, p \in Nat : d = Len(f) /\ p = Len(x)
    BY <2>5, LenProperties
  <2>9. /\ DOMAIN g = 1 .. d + p /\ DOMAIN f = 1 .. d /\ DOMAIN x = 1 .. p
        /\ (\A i \in 1 .. d : g[i] = f[i]) /\ (\A i \in 1 .. p : d + i \in 1 .. d + p /\ g[d + i] = x[i])
    <3>1. Joined(g, f, x, d, p)
      BY <2>5, <2>7, <2>8, JoinShape
    <3> QED BY <3>1 DEF Joined
  <2>10. ToSet(f) \subseteq ToSet(g)
    <3>1. \A i \in 1 .. d : i \in 1 .. d + p
      OBVIOUS
    <3> QED BY <2>9, <3>1 DEF ToSet
  <2>11. ToSet(x) \subseteq ToSet(g)
    <3>1. ASSUME NEW y \in ToSet(x) PROVE y \in ToSet(g)
      <4>1. PICK i \in 1 .. p : y = x[i]
        BY <2>9 DEF ToSet
      <4>2. d + i \in DOMAIN g /\ g[d + i] = y
        BY <2>9, <4>1
      <4> QED BY <4>2 DEF ToSet
    <3> QED BY <3>1
  <2>12. ASSUME NEW k \in DOMAIN v, e \in ToSet(v[k]) PROVE e \in ToSet(FlattenSeq(v))
    <3>1. CASE k = n + 1
      BY <2>3, <2>5, <2>6, <2>11, <2>12, <3>1
    <3>2. CASE k # n + 1
      <4>1. k \in DOMAIN t /\ e \in ToSet(t[k])
        BY <2>3, <2>12, <3>2
      <4>2. e \in ToSet(f)
        BY <1>2, <1>4, <2>4, <4>1
      <4> QED BY <2>5, <2>6, <2>10, <4>2
    <3> QED BY <3>1, <3>2
  <2> QED BY <1>2, <2>1, <2>3, <2>12
<1>5. Seq(Y) \subseteq S
  BY <1>3, <1>4, SequenceInduction
<1> QED BY <1>1, <1>2, <1>5

Picked(b, s, T) == b = [k \in DOMAIN s |-> IF k \in T THEN <<s[k]>> ELSE <<>>]

OnlyAt(s, P, t) == \A k \in DOMAIN s : (s[k] \in P => k = t) /\ (k = t => s[k] \in P)

(* Of the picked elements, one is in P if the only one that is has been    *)
(* picked, and none otherwise.                                             *)
LEMMA PickedOnce ==
  ASSUME NEW X, NEW s \in Seq(X), NEW T, NEW P, NEW t \in DOMAIN s, OnlyAt(s, P, t),
         NEW b, Picked(b, s, T)
  PROVE  b \in Seq(Seq(X)) /\ (t \in T => OnceIn(FlattenSeq(b), P)) /\ (t \notin T => NoneOf(FlattenSeq(b), P))
<1>1. PICK Y : Y = Seq(X)
  OBVIOUS
<1>2. PICK n \in Nat : n = Len(s) /\ DOMAIN s = 1 .. n
  OBVIOUS
<1>3. ASSUME NEW k \in 1 .. n
      PROVE  b[k] \in Y /\ (k \in T => b[k] = <<s[k]>>) /\ (k \notin T => b[k] = <<>>)
  <2>1. PICK x \in X : x = s[k]
    BY <1>2
  <2>2. b[k] = IF k \in T THEN <<x>> ELSE <<>>
    BY <1>2, <2>1 DEF Picked
  <2>3. <<x>> \in Y /\ <<>> \in Y
    BY <1>1
  <2> QED BY <2>1, <2>2, <2>3
<1>4. b \in Seq(Y) /\ DOMAIN b = 1 .. n
  <2>1. b = [k \in 1 .. n |-> b[k]]
    BY <1>2 DEF Picked
  <2>2. \A k \in 1 .. n : b[k] \in Y
    BY <1>3
  <2>3. b \in [1 .. n -> Y]
    BY <2>1, <2>2
  <2> QED BY <2>3, SeqDef
<1>5. ASSUME NEW x PROVE (x \in P => OnceIn(<<x>>, P)) /\ (x \notin P => NoneOf(<<x>>, P))
  <2>1. DOMAIN <<x>> = {1} /\ <<x>>[1] = x
    OBVIOUS
  <2> QED BY <2>1 DEF OnceIn, NoneOf
<1>6. NoneOf(<<>>, P)
  <2>1. DOMAIN <<>> = {}
    OBVIOUS
  <2> QED BY <2>1 DEF NoneOf
<1>7. ASSUME NEW k \in 1 .. n, k # t \/ k \notin T PROVE NoneOf(b[k], P)
  <2>1. CASE k \notin T
    BY <1>3, <1>6, <2>1
  <2>2. CASE k \in T
    <3>1. s[k] \notin P
      BY <1>2, <1>7, <2>2 DEF OnlyAt
    <3> QED BY <1>3, <1>5, <2>2, <3>1
  <2> QED BY <2>1, <2>2
<1>8. b \in Seq(Seq(X))
  BY <1>1, <1>4
<1>9. ASSUME t \in T PROVE OnceIn(FlattenSeq(b), P)
  <2>1. t \in 1 .. n /\ s[t] \in P
    BY <1>2 DEF OnlyAt
  <2>2. OnceIn(b[t], P)
    BY <1>3, <1>5, <1>9, <2>1
  <2> QED BY <1>4, <1>7, <1>8, <2>1, <2>2, FlattenOnce
<1>10. ASSUME t \notin T PROVE NoneOf(FlattenSeq(b), P)
  <2>1. \A k \in DOMAIN b : NoneOf(b[k], P)
    BY <1>4, <1>7, <1>10
  <2> QED BY <1>8, <2>1, FlattenNone
<1> QED BY <1>8, <1>9, <1>10

LEMMA PickedNone ==
  ASSUME NEW X, NEW s \in Seq(X), NEW T, NEW P, NoneOf(s, P),
         NEW b, Picked(b, s, T)
  PROVE  b \in Seq(Seq(X)) /\ NoneOf(FlattenSeq(b), P)
<1>1. PICK Y : Y = Seq(X)
  OBVIOUS
<1>2. PICK n \in Nat : n = Len(s) /\ DOMAIN s = 1 .. n
  OBVIOUS
<1>3. ASSUME NEW k \in 1 .. n PROVE b[k] \in Y /\ NoneOf(b[k], P)
  <2>1. PICK x \in X : x = s[k]
    BY <1>2
  <2>2. b[k] = IF k \in T THEN <<x>> ELSE <<>>
    BY <1>2, <2>1 DEF Picked
  <2>3. <<x>> \in Y /\ <<>> \in Y
    BY <1>1
  <2>4. x \notin P
    BY <1>2, <2>1 DEF NoneOf
  <2>5. DOMAIN <<x>> = {1} /\ <<x>>[1] = x /\ DOMAIN <<>> = {}
    OBVIOUS
  <2>6. NoneOf(<<x>>, P) /\ NoneOf(<<>>, P)
    BY <2>4, <2>5 DEF NoneOf
  <2> QED BY <2>2, <2>3, <2>6
<1>4. b \in Seq(Y) /\ DOMAIN b = 1 .. n
  <2>1. b = [k \in 1 .. n |-> b[k]]
    BY <1>2 DEF Picked
  <2>2. \A k \in 1 .. n : b[k] \in Y
    BY <1>3
  <2>3. b \in [1 .. n -> Y]
    BY <2>1, <2>2
  <2> QED BY <2>3, SeqDef
<1>5. b \in Seq(Seq(X)) /\ \A k \in DOMAIN b : NoneOf(b[k], P)
  BY <1>1, <1>3, <1>4
<1> QED BY <1>5, FlattenNone

-----------------------------------------------------------------------------
(* The repaired request has a result in one message.                       *)
Having(x) == {m \in Chats : x \in ToSet(m.content)}

LEMMA WordsHaveNone ==
  ASSUME NEW x \in Results, NEW m, m.content \in Seq(Words)
  PROVE  m \notin Having(x)
<1>1. PICK w \in Seq(Words) : w = m.content
  OBVIOUS
<1>2. ASSUME x \in ToSet(w) PROVE FALSE
  <2>1. PICK k \in DOMAIN w : x = w[k]
    BY <1>2 DEF ToSet
  <2>2. w[k] \in Words
    <3>1. DOMAIN w = 1 .. Len(w)
      BY LenProperties
    <3>2. k \in 1 .. Len(w)
      BY <3>1
    <3> QED BY <3>2, ElementOfSeq
  <2> QED BY <2>1, <2>2, TextsAssumption DEF Words, Results
<1> QED BY <1>1, <1>2 DEF Having

LEMMA HavingTool ==
  ASSUME NEW x \in Results, NEW m \in Wire
  PROVE  (m \in Having(x) => m = ToolOf(x)) /\ (m = ToolOf(x) => m \in Having(x))
<1>1. ASSUME NEW y PROVE ToSet(<<y>>) = {y}
  BY DEF ToSet
<1>2. ASSUME m = ToolOf(x) PROVE m \in Having(x)
  <2>1. m.content = <<x>> /\ m \in Chats
    BY <1>2, ToolOfShape, WireChats
  <2> QED BY <1>1, <2>1 DEF Having
<1>3. ASSUME m \in Having(x) PROVE m = ToolOf(x)
  <2>1. CASE IsTool(m)
    <3>1. PICK y \in Results : m = ToolOf(y)
      BY <2>1, WireShape
    <3>2. m.content = <<y>>
      BY <3>1, ToolOfShape
    <3>3. x \in ToSet(<<y>>)
      BY <1>3, <3>2 DEF Having
    <3> QED BY <1>1, <3>1, <3>3
  <2>2. CASE ~ IsTool(m)
    <3>1. m \in WordMessages
      BY <2>2, WireShape
    <3>2. m.content \in Seq(Words)
      BY <3>1 DEF WordMessages
    <3> QED BY <1>3, <3>2, WordsHaveNone
  <2> QED BY <2>1, <2>2
<1> QED BY <1>2, <1>3

LEMMA OrphanHaving ==
  ASSUME NEW x, NEW m \in Chats
  PROVE  (Orphan(m) \in Having(x) => m \in Having(x)) /\ (m \in Having(x) => Orphan(m) \in Having(x))
<1>1. PICK o : o = Orphan(m)
  OBVIOUS
<1>2. o \in Chats
  BY <1>1, OrphanPlain
<1>3. o.content = m.content
  BY <1>1 DEF Orphan, User
<1> QED BY <1>1, <1>2, <1>3 DEF Having

LEMMA OrphansHaving ==
  ASSUME NEW x, NEW f \in Seq(Chats), NEW o, o = [k \in DOMAIN f |-> Orphan(f[k])]
  PROVE  (OnceIn(f, Having(x)) => OnceIn(o, Having(x))) /\ (NoneOf(f, Having(x)) => NoneOf(o, Having(x)))
<1>1. PICK P : P = Having(x)
  OBVIOUS
<1>2. PICK n \in Nat : n = Len(f) /\ DOMAIN f = 1 .. n
  OBVIOUS
<1>3. DOMAIN o = 1 .. n
  BY <1>2
<1>4. ASSUME NEW k \in 1 .. n PROVE (o[k] \in P => f[k] \in P) /\ (f[k] \in P => o[k] \in P)
  <2>1. PICK m \in Chats : m = f[k]
    BY <1>2
  <2>2. o[k] = Orphan(m)
    BY <1>2, <2>1
  <2> QED BY <1>1, <2>1, <2>2, OrphanHaving
<1>5. OnceIn(f, P) => OnceIn(o, P)
  BY <1>2, <1>3, <1>4 DEF OnceIn
<1>6. NoneOf(f, P) => NoneOf(o, P)
  BY <1>2, <1>3, <1>4 DEF NoneOf
<1> QED BY <1>1, <1>5, <1>6

(* One of the tools, the h-th or none if h = 0, has the result x.          *)
Answers(tools, x, h) ==
    /\ tools \in Seq(Wire) /\ \A k \in DOMAIN tools : IsTool(tools[k])
    /\ \A k \in DOMAIN tools : tools[k] = ToolOf(x) => k = h
    /\ h # 0 => h \in DOMAIN tools /\ tools[h] = ToolOf(x)

LEMMA AnswersHaving ==
  ASSUME NEW x \in Results, NEW tools, NEW h \in Nat, Answers(tools, x, h)
  PROVE  /\ tools \in Seq(Chats)
         /\ \A k \in DOMAIN tools : (tools[k] \in Having(x) => k = h) /\ (k = h => tools[k] \in Having(x))
         /\ h = 0 => \A k \in DOMAIN tools : tools[k] \notin Having(x)
<1>1. PICK n \in Nat : n = Len(tools) /\ DOMAIN tools = 1 .. n
  BY LenProperties DEF Answers
<1>2. tools \in Seq(Chats)
  BY WireChats DEF Answers
<1>3. ASSUME NEW k \in 1 .. n
      PROVE  (tools[k] \in Having(x) => k = h) /\ (k = h => tools[k] \in Having(x))
  <2>1. PICK m \in Wire : m = tools[k]
    BY <1>1, ElementOfSeq DEF Answers
  <2>2. (m \in Having(x) => m = ToolOf(x)) /\ (m = ToolOf(x) => m \in Having(x))
    BY HavingTool
  <2>3. m = ToolOf(x) => k = h
    BY <1>1, <2>1 DEF Answers
  <2>4. k = h => m = ToolOf(x)
    BY <1>1, <2>1 DEF Answers
  <2> QED BY <2>1, <2>2, <2>3, <2>4
<1> QED BY <1>1, <1>2, <1>3

LEMMA OrphansOnce ==
  ASSUME NEW x \in Results, NEW tools, NEW h \in Nat, Answers(tools, x, h), NEW msg, NEW o, o = Orphans(msg, tools)
  PROVE  /\ h # 0 /\ ~ Counts(msg, tools, h) => OnceIn(o, Having(x))
         /\ h = 0 \/ Counts(msg, tools, h) => NoneOf(o, Having(x))
<1>1. tools \in Seq(Chats)
  BY AnswersHaving
<1>2. PICK P : P = Having(x)
  OBVIOUS
<1>3. PICK T : T = {k \in DOMAIN tools : ~ Counts(msg, tools, k)}
  OBVIOUS
<1>4. PICK b : b = [k \in DOMAIN tools |-> IF k \in T THEN <<tools[k]>> ELSE <<>>]
  OBVIOUS
<1>5. b = [k \in DOMAIN tools |-> IF ~ Counts(msg, tools, k) THEN <<tools[k]>> ELSE <<>>]
  BY <1>3, <1>4
<1>6. PICK f : f = FlattenSeq(b)
  OBVIOUS
<1>7. o = [k \in DOMAIN f |-> Orphan(f[k])]
  BY <1>5, <1>6 DEF Orphans, Pick
<1>8. CASE h = 0
  <2>1. NoneOf(tools, P) /\ Picked(b, tools, T)
    BY <1>2, <1>4, <1>8, AnswersHaving DEF NoneOf, Picked
  <2>2. b \in Seq(Seq(Chats)) /\ NoneOf(f, P)
    BY <1>1, <1>6, <2>1, PickedNone
  <2>3. f \in Seq(Chats)
    BY <1>6, <2>2, FlattenTyped
  <2> QED BY <1>2, <1>7, <1>8, <2>2, <2>3, OrphansHaving
<1>9. CASE h # 0
  <2>1. h \in DOMAIN tools
    BY <1>9 DEF Answers
  <2>2. OnlyAt(tools, P, h) /\ Picked(b, tools, T)
    BY <1>2, <1>4, AnswersHaving DEF OnlyAt, Picked
  <2>3. b \in Seq(Seq(Chats)) /\ (h \in T => OnceIn(f, P)) /\ (h \notin T => NoneOf(f, P))
    BY <1>1, <1>6, <2>1, <2>2, PickedOnce
  <2>4. f \in Seq(Chats)
    BY <1>6, <2>3, FlattenTyped
  <2>5. (h \in T => OnceIn(o, P)) /\ (h \notin T => NoneOf(o, P))
    BY <1>2, <1>7, <2>3, <2>4, OrphansHaving
  <2> QED BY <1>2, <1>3, <1>9, <2>1, <2>5
<1> QED BY <1>8, <1>9

(* The calls that stay are calls of the message, and each that has a       *)
(* result stays once.                                                      *)
LEMMA FulfilledOnce ==
  ASSUME NEW msg \in Chats, IsInjective(msg.calls), NEW tools \in Seq(Chats), NEW f, f = Fulfilled(msg, tools)
  PROVE  /\ f \in Seq(Resulted(tools)) /\ \A k \in DOMAIN f : f[k] \in ToSet(msg.calls)
         /\ \A id \in ToSet(msg.calls) \cap Resulted(tools) : OnceIn(f, {id})
<1>1. PICK c \in Seq(Calls) : c = msg.calls
  BY DEF Chats
<1>2. PICK T : T = {i \in DOMAIN c : \E k \in DOMAIN tools : tools[k].id = c[i]}
  OBVIOUS
<1>3. PICK b : b = [i \in DOMAIN c |-> IF i \in T THEN <<c[i]>> ELSE <<>>]
  OBVIOUS
<1>4. b = [i \in DOMAIN c |-> IF \E k \in DOMAIN tools : tools[k].id = c[i] THEN <<c[i]>> ELSE <<>>]
  BY <1>2, <1>3
<1>5. f = FlattenSeq(b)
  BY <1>1, <1>4 DEF Fulfilled, Pick
<1>6. f \in Seq(Resulted(tools))
  BY FulfilledResulted
<1>7. PICK O : O = Calls \ ToSet(c)
  OBVIOUS
<1>8. NoneOf(c, O) /\ Picked(b, c, T)
  BY <1>3, <1>7 DEF ToSet, NoneOf, Picked
<1>9. NoneOf(f, O)
  BY <1>5, <1>8, PickedNone
<1>10. ASSUME NEW k \in DOMAIN f PROVE f[k] \in ToSet(c)
  <2>1. PICK R : R = Resulted(tools)
    OBVIOUS
  <2>2. f \in Seq(R) /\ R \subseteq Calls
    BY <1>6, <2>1 DEF Resulted
  <2>3. f[k] \in Calls
    BY <2>2
  <2> QED BY <1>7, <1>9, <2>3 DEF NoneOf
<1>11. ASSUME NEW id \in ToSet(c), id \in Resulted(tools) PROVE OnceIn(f, {id})
  <2>1. PICK e \in DOMAIN c : id = c[e]
    BY DEF ToSet
  <2>2. PICK P : P = {id}
    OBVIOUS
  <2>3. OnlyAt(c, P, e)
    BY <1>1, <2>1, <2>2 DEF IsInjective, OnlyAt
  <2>4. e \in T => OnceIn(f, P)
    BY <1>5, <1>8, <2>3, PickedOnce
  <2>5. e \in T
    BY <1>2, <1>11, <2>1 DEF Resulted
  <2> QED BY <2>2, <2>4, <2>5
<1> QED BY <1>1, <1>6, <1>10, <1>11

LEMMA ResultsOnce ==
  ASSUME NEW x \in Results, NEW tools, NEW h \in Nat, Answers(tools, x, h),
         NEW msg \in Chats, IsInjective(msg.calls), NEW c, c = Fulfilled(msg, tools),
         NEW r, r = ResultsFor(c, tools)
  PROVE  /\ r \in Seq(Chats) /\ Len(r) = Len(c)
         /\ h # 0 /\ Counts(msg, tools, h) => OnceIn(r, Having(x)) /\ ToolOf(x) \in ToSet(r)
         /\ h = 0 \/ ~ Counts(msg, tools, h) => NoneOf(r, Having(x))
<1>1. tools \in Seq(Chats)
  BY AnswersHaving
<1>2. c \in Seq(Resulted(tools)) /\ \A k \in DOMAIN c : c[k] \in ToSet(msg.calls)
  BY <1>1, FulfilledOnce
<1>3. r \in Seq(Chats) /\ Len(r) = Len(c)
  <2>1. \A k \in DOMAIN tools : IsTool(tools[k])
    BY DEF Answers
  <2> QED BY <1>1, <1>2, <2>1, ResultsAnswer
<1>4. PICK n \in Nat, p \in Nat : n = Len(c) /\ p = Len(tools) /\ DOMAIN c = 1 .. n /\ DOMAIN tools = 1 .. p
  BY <1>1, <1>2, LenProperties
<1>5. DOMAIN r = 1 .. n
  BY <1>3, <1>4
<1>6. ASSUME NEW k \in 1 .. n
      PROVE  \E i \in 1 .. p : /\ r[k] = tools[i] /\ tools[i].id = c[k]
                               /\ \A j \in 1 .. p : tools[j].id = c[k] => i <= j
  <2>1. PICK I : I = {i \in 1 .. p : tools[i].id = c[k]}
    OBVIOUS
  <2>2. c[k] \in Resulted(tools)
    <3>1. k \in 1 .. Len(c)
      BY <1>4
    <3> QED BY <1>2, <3>1, ElementOfSeq
  <2>3. I # {} /\ I \in SUBSET Nat
    BY <1>4, <2>1, <2>2 DEF Resulted
  <2>4. Min(I) \in I /\ \A j \in I : Min(I) <= j
    BY <2>3, LeastOf
  <2>5. r[k] = tools[Min(I)]
    BY <1>4, <2>1, <2>3 DEF ResultsFor, SelectInSeq
  <2> QED BY <2>1, <2>4, <2>5
<1>7. x.id \in Calls /\ (h # 0 => h \in 1 .. p /\ tools[h].id = x.id /\ tools[h] = ToolOf(x))
  <2>1. x.id \in Calls
    BY DEF Results
  <2>2. h # 0 => h \in 1 .. p /\ tools[h] = ToolOf(x)
    BY <1>4 DEF Answers
  <2> QED BY <2>1, <2>2, ToolOfShape
<1>8. ASSUME NEW k \in 1 .. n, r[k] \in Having(x)
      PROVE  h # 0 /\ c[k] = x.id /\ Counts(msg, tools, h)
  <2>1. PICK i \in 1 .. p : /\ r[k] = tools[i] /\ tools[i].id = c[k]
                            /\ \A j \in 1 .. p : tools[j].id = c[k] => i <= j
    BY <1>6
  <2>2. i = h /\ h # 0
    BY <1>4, <1>8, <2>1, AnswersHaving
  <2>3. c[k] = x.id
    BY <1>7, <2>1, <2>2
  <2>4. c[k] \in ToSet(msg.calls)
    BY <1>2, <1>4
  <2>5. ASSUME NEW j \in 1 .. h - 1 PROVE tools[j].id # tools[h].id
    <3>1. j \in 1 .. p /\ ~ (h <= j)
      BY <2>2
    <3> QED BY <2>1, <2>2, <3>1
  <2>6. Counts(msg, tools, h)
    BY <2>1, <2>2, <2>4, <2>5 DEF Counts
  <2> QED BY <2>2, <2>3, <2>6
<1>9. ASSUME h # 0, Counts(msg, tools, h), NEW k \in 1 .. n, c[k] = x.id
      PROVE  r[k] = ToolOf(x) /\ r[k] \in Having(x)
  <2>1. PICK i \in 1 .. p : /\ r[k] = tools[i] /\ tools[i].id = c[k]
                            /\ \A j \in 1 .. p : tools[j].id = c[k] => i <= j
    BY <1>6
  <2>2. i <= h
    BY <1>7, <1>9, <2>1
  <2>3. i \notin 1 .. h - 1
    BY <1>7, <1>9, <2>1 DEF Counts
  <2>4. i = h
    BY <2>2, <2>3
  <2>5. h \in DOMAIN tools
    BY <1>4, <2>4
  <2>6. tools[h] \in Having(x)
    BY <2>5, AnswersHaving
  <2> QED BY <1>7, <1>9, <2>1, <2>4, <2>6
<1>10. ASSUME h # 0, Counts(msg, tools, h) PROVE OnceIn(r, Having(x)) /\ ToolOf(x) \in ToSet(r)
  <2>1. x.id \in ToSet(msg.calls) /\ x.id \in Resulted(tools)
    BY <1>4, <1>7, <1>10 DEF Counts, Resulted
  <2>2. OnceIn(c, {x.id})
    BY <1>1, <2>1, FulfilledOnce
  <2>3. PICK e \in 1 .. n : c[e] = x.id /\ \A k \in 1 .. n : c[k] = x.id => k = e
    BY <1>4, <2>2 DEF OnceIn
  <2>4. r[e] = ToolOf(x) /\ r[e] \in Having(x)
    BY <1>9, <1>10, <2>3
  <2>5. \A k \in 1 .. n : r[k] \in Having(x) => k = e
    BY <1>8, <2>3
  <2>6. OnceIn(r, Having(x))
    BY <1>5, <2>4, <2>5 DEF OnceIn
  <2>7. ToolOf(x) \in ToSet(r)
    BY <1>5, <2>4 DEF ToSet
  <2> QED BY <2>6, <2>7
<1>11. ASSUME h = 0 \/ ~ Counts(msg, tools, h) PROVE NoneOf(r, Having(x))
  BY <1>5, <1>8, <1>11 DEF NoneOf
<1> QED BY <1>3, <1>10, <1>11

LEMMA JoinHas ==
  ASSUME NEW X, NEW s \in Seq(X), NEW t \in Seq(X), NEW u, Join(u, s, t)
  PROVE  ToSet(s) \subseteq ToSet(u) /\ ToSet(t) \subseteq ToSet(u)
<1>1. PICK n \in Nat, p \in Nat : n = Len(s) /\ p = Len(t)
  OBVIOUS
<1>2. Joined(u, s, t, n, p)
  BY <1>1, JoinShape
<1>3. /\ DOMAIN u = 1 .. n + p /\ DOMAIN s = 1 .. n /\ DOMAIN t = 1 .. p
      /\ (\A i \in 1 .. n : u[i] = s[i]) /\ (\A i \in 1 .. p : n + i \in 1 .. n + p /\ u[n + i] = t[i])
  BY <1>2 DEF Joined
<1>4. \A i \in 1 .. n : i \in 1 .. n + p
  OBVIOUS
<1> QED BY <1>3, <1>4 DEF ToSet

LEMMA OneMessage ==
  ASSUME NEW g \in Chats, NEW P
  PROVE  <<g>> \in Seq(Chats) /\ (g \in P => OnceIn(<<g>>, P)) /\ (g \notin P => NoneOf(<<g>>, P))
<1>1. <<g>> \in Seq(Chats) /\ DOMAIN <<g>> = {1} /\ <<g>>[1] = g
  OBVIOUS
<1> QED BY <1>1 DEF OnceIn, NoneOf

LEMMA NoMessage ==
  ASSUME NEW P
  PROVE  <<>> \in Seq(Chats) /\ NoneOf(<<>>, P)
<1>1. <<>> \in Seq(Chats) /\ DOMAIN <<>> = {}
  OBVIOUS
<1> QED BY <1>1 DEF NoneOf

(* A result among the tools is in one message of the pair: as the answer to*)
(* its call if it counts.                                                  *)
LEMMA PairOnce ==
  ASSUME NEW x \in Results, NEW tools, NEW h \in Nat, Answers(tools, x, h),
         NEW msg \in WordMessages, HasCalls(msg), IsInjective(msg.calls), NEW b, b = Pair(msg, tools)
  PROVE  /\ b \in Seq(Chats)
         /\ h # 0 => OnceIn(b, Having(x))
         /\ h = 0 => NoneOf(b, Having(x))
         /\ h # 0 /\ Counts(msg, tools, h) => ToolOf(x) \in ToSet(b)
<1>1. msg \in Chats /\ msg.content \in Seq(Words)
  BY DEF WordMessages
<1>2. PICK P : P = Having(x)
  OBVIOUS
<1>3. PICK c : c = Fulfilled(msg, tools)
  OBVIOUS
<1>4. PICK r : r = ResultsFor(c, tools)
  OBVIOUS
<1>5. PICK o : o = Orphans(msg, tools)
  OBVIOUS
<1>6. PICK a : a = IF c # <<>> THEN <<[msg EXCEPT !.calls = c]>> \o r
                   ELSE IF msg.content # <<>> THEN <<[msg EXCEPT !.calls = <<>>]>> ELSE <<>>
  OBVIOUS
<1>7. Join(b, a, o)
  BY <1>3, <1>4, <1>5, <1>6 DEF Pair, Join
<1>8. tools \in Seq(Chats)
  BY AnswersHaving
<1>9. o \in Seq(Chats)
  BY <1>1, <1>5, <1>8, OrphansPlain
<1>10. /\ h # 0 /\ ~ Counts(msg, tools, h) => OnceIn(o, P)
       /\ h = 0 \/ Counts(msg, tools, h) => NoneOf(o, P)
  BY <1>2, <1>5, OrphansOnce
<1>11. /\ r \in Seq(Chats) /\ Len(r) = Len(c)
       /\ h # 0 /\ Counts(msg, tools, h) => OnceIn(r, P) /\ ToolOf(x) \in ToSet(r)
       /\ h = 0 \/ ~ Counts(msg, tools, h) => NoneOf(r, P)
  BY <1>1, <1>2, <1>3, <1>4, ResultsOnce
<1>12. /\ a \in Seq(Chats)
       /\ h # 0 /\ Counts(msg, tools, h) => OnceIn(a, P) /\ ToolOf(x) \in ToSet(a)
       /\ h = 0 \/ ~ Counts(msg, tools, h) => NoneOf(a, P)
  <2>1. CASE c # <<>>
    <3>1. PICK g : g = [msg EXCEPT !.calls = c]
      OBVIOUS
    <3>2. c \in Seq(Calls)
      <4>1. c \in Seq(Resulted(tools))
        BY <1>1, <1>3, <1>8, FulfilledOnce
      <4> QED BY <4>1 DEF Resulted
    <3>3. g \in Chats
      BY <1>1, <2>1, <3>1, <3>2, WithCalls
    <3>4. g.content = msg.content
      BY <1>1, <3>1 DEF Chats
    <3>5. g \notin P
      BY <1>1, <1>2, <3>4, WordsHaveNone
    <3>6. PICK s : s = <<g>>
      OBVIOUS
    <3>7. s \in Seq(Chats) /\ NoneOf(s, P)
      BY <3>3, <3>5, <3>6, OneMessage
    <3>8. Join(a, s, r)
      BY <1>6, <2>1, <3>1, <3>6 DEF Join
    <3>9. a \in Seq(Chats)
      BY <1>11, <3>7, <3>8, JoinShape, LenProperties
    <3>10. ToSet(r) \subseteq ToSet(a)
      BY <1>11, <3>7, <3>8, JoinHas
    <3>11. OnceIn(r, P) => OnceIn(a, P)
      BY <1>11, <3>7, <3>8, NoneThenOnce
    <3>12. NoneOf(r, P) => NoneOf(a, P)
      BY <1>11, <3>7, <3>8, NoneJoin
    <3> QED BY <1>11, <3>9, <3>10, <3>11, <3>12
  <2>2. CASE c = <<>>
    <3>1. ~ (h # 0 /\ Counts(msg, tools, h))
      <4>1. ASSUME OnceIn(r, P) PROVE FALSE
        <5>1. Len(r) = 0
          BY <1>11, <2>2
        <5>2. DOMAIN r = {}
          BY <1>11, <5>1
        <5> QED BY <4>1, <5>2 DEF OnceIn
      <4> QED BY <1>11, <4>1
    <3>2. a \in Seq(Chats) /\ NoneOf(a, P)
      <4>1. CASE msg.content # <<>>
        <5>1. PICK g : g = [msg EXCEPT !.calls = <<>>]
          OBVIOUS
        <5>2. g \in Chats
          BY <1>1, <5>1, WithoutCalls
        <5>3. g.content = msg.content
          BY <1>1, <5>1 DEF Chats
        <5>4. g \notin P
          BY <1>1, <1>2, <5>3, WordsHaveNone
        <5>5. a = <<g>>
          BY <1>6, <2>2, <4>1, <5>1
        <5> QED BY <5>2, <5>4, <5>5, OneMessage
      <4>2. CASE msg.content = <<>>
        BY <1>6, <2>2, <4>2, NoMessage
      <4> QED BY <4>1, <4>2
    <3> QED BY <3>1, <3>2
  <2> QED BY <2>1, <2>2
<1>13. b \in Seq(Chats)
  BY <1>7, <1>9, <1>12, JoinShape, LenProperties
<1>14. ToSet(a) \subseteq ToSet(b)
  BY <1>7, <1>9, <1>12, JoinHas
<1>15. OnceIn(a, P) /\ NoneOf(o, P) => OnceIn(b, P)
  BY <1>7, <1>9, <1>12, OnceThenNone
<1>16. NoneOf(a, P) /\ OnceIn(o, P) => OnceIn(b, P)
  BY <1>7, <1>9, <1>12, NoneThenOnce
<1>17. NoneOf(a, P) /\ NoneOf(o, P) => NoneOf(b, P)
  BY <1>7, <1>9, <1>12, NoneJoin
<1> QED BY <1>2, <1>10, <1>12, <1>13, <1>14, <1>15, <1>16, <1>17

(* The tools after the i-th message are the d messages there.              *)
Trailing(tools, s, i, d) ==
    /\ Len(tools) = d /\ DOMAIN tools = 1 .. d /\ i + d <= Len(s)
    /\ \A k \in 1 .. d : tools[k] = s[i + k] /\ IsTool(s[i + k])
    /\ \A t \in Nat : i + t <= Len(s) /\ (\A k \in 1 .. t : IsTool(s[i + k])) => t <= d

LEMMA TrailingShape ==
  ASSUME NEW s \in Seq(Wire), NEW i \in DOMAIN s, NEW tools, tools = TrailingTools(s, i)
  PROVE  tools \in Seq(Wire) /\ \E d \in Nat : Trailing(tools, s, i, d)
<1>1. PICK n \in Nat : n = Len(s) /\ DOMAIN s = 1 .. n
  OBVIOUS
<1>2. PICK run : run = {j \in i .. n : \A k \in i + 1 .. j : IsTool(s[k])}
  OBVIOUS
<1>3. i \in 1 .. n
  BY <1>1
<1>4. run \in SUBSET (1 .. n) /\ i \in run
  BY <1>2, <1>3
<1>5. \E k \in run : \A j \in run : j <= k
  BY <1>4, GreatestNumber
<1>6. PICK j \in run : j = (CHOOSE h \in run : \A k \in run : k <= h) /\ \A k \in run : k <= j
  BY <1>5
<1>7. tools = SubSeq(s, i + 1, j)
  BY <1>1, <1>2, <1>6 DEF TrailingTools
<1>8. j \in i .. n /\ \A k \in i + 1 .. j : IsTool(s[k])
  BY <1>2
<1>9. PICK d \in Nat : d = j - i
  BY <1>3, <1>8
<1>10. tools \in Seq(Wire) /\ Len(tools) = d /\ DOMAIN tools = 1 .. d /\ \A k \in 1 .. d : tools[k] = s[i + k]
  BY <1>1, <1>3, <1>7, <1>8, <1>9, SMTT(30)
<1>11. i + d <= Len(s)
  BY <1>1, <1>3, <1>8, <1>9
<1>12. ASSUME NEW k \in 1 .. d PROVE IsTool(s[i + k])
  <2>1. i + k \in i + 1 .. j
    BY <1>3, <1>8, <1>9
  <2> QED BY <1>8, <2>1
<1>13. ASSUME NEW t \in Nat, i + t <= Len(s), \A k \in 1 .. t : IsTool(s[i + k])
       PROVE  t <= d
  <2>1. ASSUME NEW k \in i + 1 .. i + t PROVE IsTool(s[k])
    <3>1. PICK l \in 1 .. t : k = i + l
      <4>1. k - i \in 1 .. t /\ k = i + (k - i)
        BY <1>3
      <4> QED BY <4>1
    <3> QED BY <1>13, <3>1
  <2>2. i + t \in i .. n
    BY <1>1, <1>3, <1>13
  <2>3. i + t \in run
    BY <1>2, <2>1, <2>2
  <2>4. i + t <= j
    BY <1>6, <2>3
  <2> QED BY <1>3, <1>8, <1>9, <2>4
<1>14. Trailing(tools, s, i, d)
  BY <1>10, <1>11, <1>12, <1>13 DEF Trailing
<1> QED BY <1>10, <1>14

(* The t-th message is a tool after the calls of the i-th.                 *)
Owner(s, i, t) == i \in 1 .. t - 1 /\ HasCalls(s[i]) /\ \A j \in i + 1 .. t : IsTool(s[j])

LEMMA TrailingAnswers ==
  ASSUME NEW s, Tidy(s), NEW x \in Results, NEW t \in DOMAIN s, s[t] = ToolOf(x),
         NEW i \in DOMAIN s, HasCalls(s[i]), NEW tools, tools = TrailingTools(s, i)
  PROVE  (Owner(s, i, t) => Answers(tools, x, t - i)) /\ (~ Owner(s, i, t) => Answers(tools, x, 0))
<1>1. s \in Seq(Wire)
  BY DEF Tidy
<1>2. PICK n \in Nat : n = Len(s) /\ DOMAIN s = 1 .. n
  BY <1>1, LenProperties
<1>3. tools \in Seq(Wire)
  BY <1>1, TrailingShape
<1>4. PICK d \in Nat : Trailing(tools, s, i, d)
  BY <1>1, TrailingShape
<1>5. /\ DOMAIN tools = 1 .. d /\ i + d <= n
      /\ \A k \in 1 .. d : tools[k] = s[i + k] /\ IsTool(s[i + k])
  BY <1>2, <1>4 DEF Trailing
<1>6. \A k \in DOMAIN tools : IsTool(tools[k])
  BY <1>5
<1>7. i \in 1 .. n /\ t \in 1 .. n
  BY <1>2
<1>8. ASSUME NEW k \in 1 .. d, tools[k] = ToolOf(x)
      PROVE  k = t - i /\ Owner(s, i, t)
  <2>1. i + k \in 1 .. n /\ s[i + k] = s[t] /\ IsTool(s[i + k])
    BY <1>5, <1>7, <1>8
  <2>2. i + k = t
    BY <1>2, <2>1 DEF Tidy
  <2>3. ASSUME NEW j \in i + 1 .. t PROVE IsTool(s[j])
    <3>1. PICK l \in 1 .. d : j = i + l
      <4>1. j - i \in 1 .. d /\ j = i + (j - i)
        BY <1>7, <2>2
      <4> QED BY <4>1
    <3> QED BY <1>5, <3>1
  <2>4. i \in 1 .. t - 1
    BY <1>7, <2>2
  <2> QED BY <1>7, <2>2, <2>3, <2>4 DEF Owner
<1>9. ASSUME Owner(s, i, t)
      PROVE  t - i \in Nat /\ t - i # 0 /\ t - i \in 1 .. d /\ tools[t - i] = ToolOf(x)
  <2>1. PICK e \in Nat : e = t - i /\ e # 0
    BY <1>7, <1>9 DEF Owner
  <2>2. ASSUME NEW k \in 1 .. e PROVE IsTool(s[i + k])
    <3>1. i + k \in i + 1 .. t
      BY <1>7, <2>1
    <3> QED BY <1>9, <3>1 DEF Owner
  <2>3. i + e <= Len(s)
    BY <1>2, <1>7, <2>1
  <2>4. e <= d
    BY <1>4, <2>2, <2>3 DEF Trailing
  <2>5. e \in 1 .. d /\ i + e = t
    BY <1>7, <2>1, <2>4
  <2>6. tools[e] = s[t]
    BY <1>5, <2>5
  <2> QED BY <2>1, <2>5, <2>6
<1>10. Owner(s, i, t) => Answers(tools, x, t - i)
  BY <1>3, <1>5, <1>6, <1>8, <1>9 DEF Answers
<1>11. ~ Owner(s, i, t) => Answers(tools, x, 0)
  BY <1>3, <1>5, <1>6, <1>8 DEF Answers
<1> QED BY <1>10, <1>11

(* Where the repair puts the t-th message of s, a result.                  *)
Home(s, i, t) == Owner(s, i, t) \/ (i = t /\ \A k \in 1 .. t - 1 : ~ Owner(s, k, t))

LEMMA OneHome ==
  ASSUME NEW s, NEW t \in Nat, IsTool(s[t]), t # 0
  PROVE  \E o \in 1 .. t : Home(s, o, t) /\ \A i \in Nat : Home(s, i, t) => i = o
<1>1. ASSUME NEW i \in Nat, NEW j \in Nat, Owner(s, i, t), Owner(s, j, t), i < j
      PROVE  FALSE
  <2>1. j \in i + 1 .. t /\ HasCalls(s[j])
    BY <1>1 DEF Owner
  <2>2. IsTool(s[j])
    BY <1>1, <2>1 DEF Owner
  <2> QED BY <2>1, <2>2 DEF HasCalls, IsTool
<1>2. CASE \E k \in 1 .. t - 1 : Owner(s, k, t)
  <2>1. PICK o \in 1 .. t - 1 : Owner(s, o, t)
    BY <1>2
  <2>2. ASSUME NEW i \in Nat, Home(s, i, t) PROVE i = o
    <3>1. Owner(s, i, t)
      BY <1>2, <2>2 DEF Home
    <3> QED BY <1>1, <2>1, <3>1
  <2>3. o \in 1 .. t /\ Home(s, o, t)
    BY <2>1 DEF Home
  <2> QED BY <2>2, <2>3
<1>3. CASE \A k \in 1 .. t - 1 : ~ Owner(s, k, t)
  <2>1. ASSUME NEW i \in Nat, Home(s, i, t) PROVE i = t
    <3>1. ~ Owner(s, i, t)
      BY <1>3 DEF Owner
    <3> QED BY <2>1, <3>1 DEF Home
  <2>2. t \in 1 .. t /\ Home(s, t, t)
    BY <1>3 DEF Home
  <2> QED BY <2>1, <2>2
<1> QED BY <1>2, <1>3

LEMMA BlockOnce ==
  ASSUME NEW s, Tidy(s), NEW x \in Results, NEW t \in DOMAIN s, s[t] = ToolOf(x),
         NEW i \in DOMAIN s, NEW b, b = SanitizeAt(s, i)
  PROVE  /\ b \in Seq(Chats)
         /\ Home(s, i, t) => OnceIn(b, Having(x))
         /\ ~ Home(s, i, t) => NoneOf(b, Having(x))
<1>1. s \in Seq(Wire)
  BY DEF Tidy
<1>2. PICK n \in Nat : n = Len(s) /\ DOMAIN s = 1 .. n
  BY <1>1, LenProperties
<1>3. PICK m \in Wire : m = s[i]
  BY <1>1, <1>2, ElementOfSeq
<1>4. m \in Chats
  BY WireChats
<1>5. (m \in Having(x) => m = ToolOf(x)) /\ (m = ToolOf(x) => m \in Having(x))
  BY HavingTool
<1>6. IsTool(s[t])
  BY ToolOfShape
<1>7. m = ToolOf(x) => i = t
  BY <1>3, <1>6 DEF Tidy
<1>8. i = t => m = ToolOf(x)
  BY <1>3
<1>9. CASE HasCalls(m)
  <2>1. ~ IsTool(m) /\ m \in WordMessages
    <3>1. ~ IsTool(m)
      BY <1>9 DEF HasCalls, IsTool
    <3> QED BY <3>1, WireShape
  <2>2. i # t
    BY <1>3, <1>6, <2>1
  <2>3. Home(s, i, t) <=> Owner(s, i, t)
    BY <2>2 DEF Home
  <2>4. CASE i = n
    <3>1. b = <<m>>
      BY <1>2, <1>3, <1>9, <2>4 DEF SanitizeAt
    <3>2. ~ Owner(s, i, t)
      BY <1>2, <2>4 DEF Owner
    <3>3. m \notin Having(x)
      BY <1>5, <1>7, <2>2
    <3> QED BY <1>4, <2>3, <3>1, <3>2, <3>3, OneMessage
  <2>5. CASE i # n
    <3>1. PICK tools : tools = TrailingTools(s, i)
      OBVIOUS
    <3>2. b = Pair(m, tools)
      BY <1>2, <1>3, <1>9, <2>5, <3>1 DEF SanitizeAt
    <3>3. IsInjective(m.calls)
      BY <1>3 DEF Tidy
    <3>4. (Owner(s, i, t) => Answers(tools, x, t - i)) /\ (~ Owner(s, i, t) => Answers(tools, x, 0))
      BY <1>3, <1>9, <3>1, TrailingAnswers
    <3>5. CASE Owner(s, i, t)
      <4>1. PICK h \in Nat : h = t - i /\ h # 0
        BY <1>2, <3>5 DEF Owner
      <4>2. Answers(tools, x, h)
        BY <3>4, <3>5, <4>1
      <4>3. b \in Seq(Chats) /\ OnceIn(b, Having(x))
        BY <1>9, <2>1, <3>2, <3>3, <4>1, <4>2, PairOnce
      <4> QED BY <2>3, <3>5, <4>3
    <3>6. CASE ~ Owner(s, i, t)
      <4>1. b \in Seq(Chats) /\ NoneOf(b, Having(x))
        BY <1>9, <2>1, <3>2, <3>3, <3>4, <3>6, PairOnce
      <4> QED BY <2>3, <3>6, <4>1
    <3> QED BY <3>5, <3>6
  <2> QED BY <2>4, <2>5
<1>10. CASE ~ HasCalls(m) /\ ~ IsTool(m)
  <2>1. b = <<m>>
    BY <1>3, <1>10 DEF SanitizeAt
  <2>2. i # t
    BY <1>3, <1>6, <1>10
  <2>3. ~ Home(s, i, t)
    BY <1>3, <1>10, <2>2 DEF Home, Owner
  <2>4. m \notin Having(x)
    BY <1>5, <1>7, <2>2
  <2> QED BY <1>4, <2>1, <2>3, <2>4, OneMessage
<1>11. CASE ~ HasCalls(m) /\ IsTool(m) /\ Absorbed(s, i)
  <2>1. b = <<>>
    BY <1>3, <1>11 DEF SanitizeAt
  <2>2. PICK k \in 1 .. i - 1 : Owner(s, k, i)
    BY <1>11 DEF Absorbed, Owner
  <2>3. ~ Home(s, i, t)
    BY <1>3, <1>11, <2>2 DEF Home, Owner
  <2> QED BY <2>1, <2>3, NoMessage
<1>12. CASE ~ HasCalls(m) /\ IsTool(m) /\ ~ Absorbed(s, i)
  <2>1. PICK g : g = Orphan(m)
    OBVIOUS
  <2>2. b = <<g>>
    BY <1>3, <1>12, <2>1 DEF SanitizeAt
  <2>3. g \in Chats
    BY <1>4, <2>1, OrphanPlain
  <2>4. (g \in Having(x) => i = t) /\ (i = t => g \in Having(x))
    BY <1>4, <1>5, <1>7, <1>8, <2>1, OrphanHaving
  <2>5. \A k \in 1 .. i - 1 : ~ Owner(s, k, i)
    BY <1>12 DEF Absorbed, Owner
  <2>6. Home(s, i, t) <=> i = t
    BY <1>3, <1>12, <2>5 DEF Home, Owner
  <2> QED BY <2>2, <2>3, <2>4, <2>6, OneMessage
<1> QED BY <1>9, <1>10, <1>11, <1>12

LEMMA SanitizeOnce ==
  ASSUME NEW s, Tidy(s), NEW x \in Results, NEW t \in DOMAIN s, s[t] = ToolOf(x)
  PROVE  OnceIn(Sanitize(s), Having(x))
<1>1. s \in Seq(Wire)
  BY DEF Tidy
<1>2. PICK n \in Nat : n = Len(s) /\ DOMAIN s = 1 .. n
  BY <1>1, LenProperties
<1>3. PICK b : b = [i \in 1 .. n |-> SanitizeAt(s, i)]
  OBVIOUS
<1>4. PICK P : P = Having(x)
  OBVIOUS
<1>5. ASSUME NEW i \in 1 .. n
      PROVE  b[i] \in Seq(Chats) /\ (Home(s, i, t) => OnceIn(b[i], P)) /\ (~ Home(s, i, t) => NoneOf(b[i], P))
  <2>1. b[i] = SanitizeAt(s, i)
    BY <1>3
  <2> QED BY <1>2, <1>4, <2>1, BlockOnce
<1>6. b \in Seq(Seq(Chats)) /\ DOMAIN b = 1 .. n
  <2>1. PICK Y : Y = Seq(Chats)
    OBVIOUS
  <2>2. b = [i \in 1 .. n |-> b[i]]
    BY <1>3
  <2>3. \A i \in 1 .. n : b[i] \in Y
    BY <1>5, <2>1
  <2>4. b \in [1 .. n -> Y]
    BY <2>2, <2>3
  <2> QED BY <2>1, <2>4, SeqDef
<1>7. Sanitize(s) = FlattenSeq(b)
  BY <1>2, <1>3 DEF Sanitize
<1>8. t \in 1 .. n /\ t \in Nat /\ t # 0 /\ IsTool(s[t])
  <2>1. IsTool(s[t])
    BY ToolOfShape
  <2> QED BY <1>2, <2>1
<1>9. PICK o \in 1 .. t : Home(s, o, t) /\ \A i \in Nat : Home(s, i, t) => i = o
  BY <1>8, OneHome
<1>10. o \in 1 .. n /\ o \in DOMAIN b
  BY <1>6, <1>8
<1>11. OnceIn(b[o], P)
  BY <1>5, <1>9, <1>10
<1>12. \A i \in DOMAIN b : i # o => NoneOf(b[i], P)
  BY <1>5, <1>6, <1>9
<1>13. OnceIn(FlattenSeq(b), P)
  BY <1>6, <1>10, <1>11, <1>12, FlattenOnce
<1> QED BY <1>4, <1>7, <1>13

(* A result behind its call, with none for the same call between, is its   *)
(* answer.                                                                 *)
LEMMA SanitizeAnswers ==
  ASSUME NEW s, Tidy(s), NEW x \in Results, NEW p \in DOMAIN s, NEW k \in Nat, k # 0, p + k \in DOMAIN s,
         s[p + k] = ToolOf(x), HasCalls(s[p]), x.id \in ToSet(s[p].calls),
         \A h \in 1 .. k : IsTool(s[p + h]), \A h \in 1 .. k - 1 : s[p + h].id # x.id
  PROVE  ToolOf(x) \in ToSet(Sanitize(s))
<1>1. s \in Seq(Wire)
  BY DEF Tidy
<1>2. PICK n \in Nat : n = Len(s) /\ DOMAIN s = 1 .. n
  BY <1>1, LenProperties
<1>3. PICK t \in 1 .. n : t = p + k
  BY <1>2
<1>4. Owner(s, p, t)
  <2>1. p \in 1 .. t - 1
    BY <1>2, <1>3
  <2>2. ASSUME NEW j \in p + 1 .. t PROVE IsTool(s[j])
    <3>1. PICK h \in 1 .. k : j = p + h
      <4>1. j - p \in 1 .. k /\ j = p + (j - p)
        BY <1>2, <1>3
      <4> QED BY <4>1
    <3> QED BY <3>1
  <2> QED BY <2>1, <2>2 DEF Owner
<1>5. PICK tools : tools = TrailingTools(s, p)
  OBVIOUS
<1>6. t \in DOMAIN s /\ s[t] = ToolOf(x) /\ t - p = k
  BY <1>2, <1>3
<1>7. Answers(tools, x, k)
  <2>1. Answers(tools, x, t - p)
    BY <1>4, <1>5, <1>6, TrailingAnswers
  <2> QED BY <1>6, <2>1
<1>8. PICK m \in Wire : m = s[p]
  BY <1>1, <1>2, ElementOfSeq
<1>9. m \in WordMessages /\ HasCalls(m) /\ IsInjective(m.calls)
  <2>1. HasCalls(m) /\ ~ IsTool(m)
    BY <1>8 DEF HasCalls, IsTool
  <2>2. IsInjective(m.calls)
    BY <1>8 DEF Tidy
  <2> QED BY <2>1, <2>2, WireShape
<1>10. Counts(m, tools, k)
  <2>1. PICK d \in Nat : Trailing(tools, s, p, d)
    BY <1>1, <1>5, TrailingShape
  <2>2. DOMAIN tools = 1 .. d /\ \A h \in 1 .. d : tools[h] = s[p + h]
    BY <2>1 DEF Trailing
  <2>3. k \in 1 .. d /\ tools[k] = ToolOf(x)
    BY <1>7, <2>2 DEF Answers
  <2>4. tools[k].id = x.id
    BY <2>3, ToolOfShape
  <2>5. \A h \in 1 .. k - 1 : h \in 1 .. d /\ tools[h].id # x.id
    BY <2>2, <2>3
  <2> QED BY <1>8, <2>4, <2>5 DEF Counts
<1>11. PICK a : a = Pair(m, tools)
  OBVIOUS
<1>12. ToolOf(x) \in ToSet(a)
  BY <1>7, <1>9, <1>10, <1>11, PairOnce
<1>13. a = SanitizeAt(s, p)
  <2>1. p # Len(s)
    BY <1>2, <1>3
  <2> QED BY <1>5, <1>8, <1>9, <1>11, <2>1 DEF SanitizeAt
<1>14. PICK b : b = [i \in 1 .. n |-> SanitizeAt(s, i)]
  OBVIOUS
<1>15. ASSUME NEW i \in 1 .. n PROVE b[i] \in Seq(Chats)
  <2>1. b[i] = SanitizeAt(s, i)
    BY <1>14
  <2>2. s \in Seq(Chats)
    BY <1>1, WireChats
  <2> QED BY <1>2, <2>1, <2>2, BlockFormed
<1>16. b \in Seq(Seq(Chats)) /\ DOMAIN b = 1 .. n
  <2>1. PICK Y : Y = Seq(Chats)
    OBVIOUS
  <2>2. b = [i \in 1 .. n |-> b[i]]
    BY <1>14
  <2>3. \A i \in 1 .. n : b[i] \in Y
    BY <1>15, <2>1
  <2>4. b \in [1 .. n -> Y]
    BY <2>2, <2>3
  <2> QED BY <2>1, <2>4, SeqDef
<1>17. Sanitize(s) = FlattenSeq(b)
  BY <1>2, <1>14 DEF Sanitize
<1>18. p \in DOMAIN b /\ b[p] = a
  BY <1>2, <1>13, <1>14, <1>16
<1>19. ToolOf(x) \in ToSet(b[p])
  BY <1>12, <1>18
<1> QED BY <1>16, <1>17, <1>18, <1>19, FlattenHas

-----------------------------------------------------------------------------
(* From the history to the request, with the results.                      *)
LEMMA WordMessage ==
  ASSUME NEW g \in Chats, g.role # "tool", NEW t \in Maybe(Words), g.content = t
  PROVE  g \in WordMessages /\ <<g>> \in Seq(WordMessages)
<1>1. t \in Seq(Words)
  BY MaybeTyped
<1>2. g \in WordMessages
  BY <1>1 DEF WordMessages, IsTool
<1> QED BY <1>2

LEMMA MessageShape ==
  ASSUME NEW m \in Kept
  PROVE  /\ m.results \in Seq(Results) /\ m.calls \in Seq(Calls) /\ IsInjective(m.calls)
         /\ m.text \in Maybe(Words) /\ m.role \in {"user", "assistant"}
<1>1. m.results \in Seq(Results) /\ m.text \in Maybe(Words) /\ m.role \in {"user", "assistant"}
  BY DEF Kept, Messages, Results, Words
<1>2. m.calls \in CallOrders
  BY DEF Kept, Messages
<1> QED BY <1>1, <1>2, OrderTyped DEF CallOrders

LEMMA UserBlock ==
  ASSUME NEW m \in Kept, m.role = "user"
  PROVE  Block(ConvertMessage(m), m.results, m.calls)
<1>1. PICK q \in Seq(Results), t \in Maybe(Words) : q = m.results /\ t = m.text
  BY MessageShape
<1>2. m.calls = <<>>
  BY DEF Kept
<1>3. PICK g : g = User(t)
  OBVIOUS
<1>4. g.role = "user" /\ g.content = t /\ g.calls = <<>>
  BY <1>3 DEF User
<1>5. g \in Chats
  <2>1. t \in Seq(Pieces)
    <3>1. Words \subseteq Pieces
      BY DEF Words, Pieces
    <3> QED BY <3>1, MaybeTyped
  <2>2. <<>> \in Seq(Nat) /\ <<>> \in Seq(Calls)
    OBVIOUS
  <2> QED BY <1>3, <2>1, <2>2 DEF User, Chats
<1>6. <<g>> \in Seq(WordMessages)
  <2>1. g.role # "tool"
    BY <1>4
  <2> QED BY <1>4, <1>5, <2>1, WordMessage
<1>7. PICK r : r = IF q = <<>> \/ t # <<>> THEN <<g>> ELSE <<>>
  OBVIOUS
<1>8. r \in Seq(WordMessages) /\ \A k \in DOMAIN r : r[k].calls = <<>>
  <2>1. CASE r = <<g>>
    <3>1. DOMAIN <<g>> = {1} /\ <<g>>[1] = g
      OBVIOUS
    <3> QED BY <1>4, <1>6, <2>1, <3>1
  <2>2. CASE r = <<>>
    <3>1. DOMAIN <<>> = {} /\ <<>> \in Seq(WordMessages)
      OBVIOUS
    <3> QED BY <2>2, <3>1
  <2> QED BY <1>7, <2>1, <2>2
<1>9. PICK b : b = ConvertMessage(m)
  OBVIOUS
<1>10. PICK a : a = [k \in DOMAIN q |-> ToolOf(q[k])]
  OBVIOUS
<1>11. a = [k \in DOMAIN q |-> Tool(q[k].id, <<q[k]>>)]
  BY <1>10 DEF ToolOf
<1>12. b = a \o r
  BY <1>1, <1>3, <1>7, <1>9, <1>11 DEF ConvertMessage, ConvertUserMessage
<1>13. Quiet(b, q)
  BY <1>8, <1>10, <1>12 DEF Quiet
<1> QED BY <1>1, <1>2, <1>9, <1>13, MessageShape DEF Block

LEMMA AssistantBlock ==
  ASSUME IInv, NEW m \in Kept, m.role = "assistant", m.results = <<>>
  PROVE  Block(ConvertMessage(m), m.results, m.calls)
<1>1. PICK g : g = ConvertAssistantMessage(m)
  OBVIOUS
<1>2. g \in Chats
  BY <1>1, AssistantTyped
<1>3. g.role = "assistant" /\ g.content = m.text /\ g.calls = m.calls
  BY <1>1 DEF ConvertAssistantMessage, Assistant
<1>4. g \in WordMessages /\ <<g>> \in Seq(WordMessages)
  <2>1. PICK t \in Maybe(Words) : t = m.text
    BY MessageShape
  <2>2. g.role # "tool"
    BY <1>3
  <2> QED BY <1>2, <1>3, <2>1, <2>2, WordMessage
<1>5. PICK b : b = <<g>>
  OBVIOUS
<1>6. ConvertMessage(m) = b
  BY <1>1, <1>5 DEF ConvertMessage
<1>7. PICK q, c : q = m.results /\ c = m.calls
  OBVIOUS
<1>8. q \in Seq(Results) /\ c \in Seq(Calls) /\ IsInjective(c)
  BY <1>7, MessageShape
<1>9. c # <<>> => Calling(b, c)
  BY <1>3, <1>4, <1>5, <1>7 DEF Calling
<1>10. ASSUME c = <<>> PROVE Quiet(b, q)
  <2>1. PICK a : a = [k \in DOMAIN q |-> ToolOf(q[k])]
    OBVIOUS
  <2>2. a = <<>>
    BY <1>7, <2>1
  <2>3. b = a \o b
    BY <1>4, <1>5, <2>2
  <2>4. DOMAIN b = {1} /\ b[1] = g
    BY <1>5
  <2>5. \A k \in DOMAIN b : b[k].calls = <<>>
    BY <1>3, <1>7, <1>10, <2>4
  <2> QED BY <1>4, <1>5, <2>1, <2>3, <2>5 DEF Quiet
<1>11. Block(b, q, c)
  BY <1>7, <1>8, <1>9, <1>10 DEF Block
<1> QED BY <1>6, <1>7, <1>11

LEMMA HistoryBlocks ==
  ASSUME IInv, RInv, NEW n \in Nat, n = Len(history),
         NEW q, q = [i \in 1 .. n |-> history[i].results], NEW c, c = [i \in 1 .. n |-> history[i].calls]
  PROVE  Gathered(Coalesce(Converted), q, c, n) /\ Coalesce(Converted) \in Seq(Chats)
<1>1. DOMAIN history = 1 .. n
  BY HistoryShape DEF IInv
<1>2. PICK b : b = [i \in 1 .. n |-> ConvertMessage(history[i])]
  OBVIOUS
<1>3. ASSUME NEW i \in 1 .. n PROVE b[i] \in Seq(Chats) /\ Block(b[i], q[i], c[i])
  <2>1. PICK m \in Kept : m = history[i]
    BY <1>1, HistoryShape DEF IInv
  <2>2. b[i] = ConvertMessage(m) /\ q[i] = m.results /\ c[i] = m.calls
    BY <1>2, <2>1
  <2>3. m.role = "assistant" => m.results = <<>>
    BY <1>1, <2>1 DEF RInv, Linked, UsersAnswer
  <2>4. Block(ConvertMessage(m), m.results, m.calls)
    BY <2>3, MessageShape, UserBlock, AssistantBlock
  <2>5. ConvertMessage(m) \in Seq(Chats)
    <3>1. CASE m.role = "user"
      BY <3>1, UserTyped DEF ConvertMessage
    <3>2. CASE m.role = "assistant"
      <4>1. PICK g : g = ConvertAssistantMessage(m)
        OBVIOUS
      <4>2. g \in Chats
        BY <3>2, <4>1, AssistantTyped
      <4>3. ConvertMessage(m) = <<g>>
        BY <3>2, <4>1 DEF ConvertMessage
      <4> QED BY <4>2, <4>3
    <3> QED BY <3>1, <3>2, MessageShape
  <2> QED BY <2>2, <2>4, <2>5
<1>4. b \in Seq(Seq(Chats)) /\ Len(b) = n
  <2>1. PICK Y : Y = Seq(Chats)
    OBVIOUS
  <2>2. b = [i \in 1 .. n |-> b[i]]
    BY <1>2
  <2>3. \A i \in 1 .. n : b[i] \in Y
    BY <1>3, <2>1
  <2>4. b \in [1 .. n -> Y]
    BY <2>2, <2>3
  <2> QED BY <2>1, <2>4, SeqDef, LenProperties
<1>5. BlocksDiffer(q, c, n)
  <2>1. \A i \in 1 .. n : q[i] = history[i].results /\ c[i] = history[i].calls
    OBVIOUS
  <2>2. \A i, j \in 1 .. n : i # j => ToSet(c[i]) \cap ToSet(c[j]) = {}
    BY <1>1, <2>1 DEF RInv, Linked, CallsApart
  <2>3. ASSUME NEW i \in 1 .. n, NEW j \in 1 .. n, NEW k \in DOMAIN q[i], NEW l \in DOMAIN q[j],
               q[i][k] = q[j][l]
        PROVE  i = j /\ k = l
    BY <1>1, <2>1, <2>3 DEF RInv, Linked, ResultsDiffer
  <2> QED BY <2>2, <2>3 DEF BlocksDiffer
<1>6. Converted = FlattenSeq(b)
  BY <1>1, <1>2 DEF Converted
<1>7. Gathered(Coalesce(FlattenSeq(b)), q, c, n)
  BY <1>3, <1>4, <1>5, GatheredAll
<1> QED BY <1>6, <1>7, ConvertedTyped, CoalesceTyped

LEMMA RequestOnce ==
  ASSUME NEW s \in Seq(Chats), s = Coalesce(Converted), NEW x, OnceIn(Sanitize(s), Having(x))
  PROVE  Cardinality({i \in DOMAIN Request : x \in ToSet(Request[i].content)}) = 1 /\ Request = Sanitize(s)
<1>1. PICK r : r = Sanitize(s)
  OBVIOUS
<1>2. r \in Seq(Chats)
  BY <1>1, SanitizeFormed
<1>3. PICK o \in DOMAIN r : r[o] \in Having(x) /\ \A i \in DOMAIN r : r[i] \in Having(x) => i = o
  BY <1>1 DEF OnceIn
<1>4. r # <<>>
  BY <1>3, NoneIn
<1>5. Request = r
  BY <1>1, <1>4 DEF Request
<1>6. ASSUME NEW i \in DOMAIN r
      PROVE  (x \in ToSet(r[i].content) => i = o) /\ (i = o => x \in ToSet(r[i].content))
  <2>1. r[i] \in Chats
    <3>1. DOMAIN r = 1 .. Len(r)
      BY <1>2, LenProperties
    <3>2. i \in 1 .. Len(r)
      BY <3>1
    <3> QED BY <1>2, <3>2, ElementOfSeq
  <2>2. r[i] \in Having(x) <=> x \in ToSet(r[i].content)
    BY <2>1 DEF Having
  <2> QED BY <1>3, <2>2
<1>7. {i \in DOMAIN r : x \in ToSet(r[i].content)} = {o}
  BY <1>6
<1>8. Cardinality({o}) = 1
  BY FS_Singleton
<1> QED BY <1>1, <1>5, <1>7, <1>8

LEMMA RInvResultsKept == IInv /\ RInv => ResultsKept
<1> SUFFICES ASSUME IInv, RInv PROVE ResultsKept
  OBVIOUS
<1>1. PICK n \in Nat : n = Len(history) /\ DOMAIN history = 1 .. n
  BY HistoryShape DEF IInv
<1>2. PICK q, c : /\ q = [i \in 1 .. n |-> history[i].results]
                  /\ c = [i \in 1 .. n |-> history[i].calls]
  OBVIOUS
<1>3. PICK s : s = Coalesce(Converted)
  OBVIOUS
<1>4. Gathered(s, q, c, n) /\ s \in Seq(Chats)
  BY <1>1, <1>2, <1>3, HistoryBlocks
<1>5. Tidy(s) /\ s \in Seq(Wire)
  BY <1>4 DEF Gathered, Tidy
<1>6. PICK l \in Nat : l = Len(s) /\ DOMAIN s = 1 .. l
  BY <1>5, LenProperties
<1>7. ASSUME NEW j \in 1 .. n, NEW k \in DOMAIN history[j].results, NEW x, x = history[j].results[k]
      PROVE  /\ Cardinality({i \in DOMAIN Request : x \in ToSet(Request[i].content)}) = 1
             /\ (\A h \in 1 .. k - 1 : history[j].results[h].id # x.id) /\ x.id \in CallsBefore(j)
                   => ToolOf(x) \in ToSet(Request)
  <2>1. PICK r \in Seq(Results) : r = q[j] /\ r = history[j].results
    <3>1. PICK m \in Kept : m = history[j]
      BY <1>1, HistoryShape DEF IInv
    <3>2. q[j] = m.results /\ m.results \in Seq(Results)
      BY <1>2, <3>1, MessageShape
    <3> QED BY <3>1, <3>2
  <2>2. PICK d \in Nat : d = Len(r) /\ DOMAIN r = 1 .. d
    BY LenProperties
  <2>3. k \in 1 .. d /\ x = r[k] /\ x \in Results
    <3>1. k \in 1 .. d /\ x = r[k]
      BY <1>7, <2>1, <2>2
    <3> QED BY <2>2, <3>1, ElementOfSeq
  <2>4. r # <<>>
    BY <2>2, <2>3, NoneIn
  <2>5. PICK before : before = Before(c, j)
    OBVIOUS
  <2>6. Placed(s, r, before)
    BY <1>4, <2>1, <2>5 DEF Gathered
  <2>7. PICK p \in Nat :
           /\ p + Len(r) <= Len(s) /\ \A h \in DOMAIN r : s[p + h] = ToolOf(r[h])
           /\ before # {} => p # 0 /\ HasCalls(s[p]) /\ before \subseteq ToSet(s[p].calls)
    BY <2>4, <2>6 DEF Placed
  <2>8. p + d <= l /\ \A h \in 1 .. d : s[p + h] = ToolOf(r[h])
    BY <1>6, <2>2, <2>7
  <2>9. PICK t \in DOMAIN s : t = p + k
    BY <1>6, <2>3, <2>8
  <2>10. s[t] = ToolOf(x)
    BY <2>3, <2>8, <2>9
  <2>11. OnceIn(Sanitize(s), Having(x))
    BY <1>5, <2>3, <2>10, SanitizeOnce
  <2>12. /\ Cardinality({i \in DOMAIN Request : x \in ToSet(Request[i].content)}) = 1
         /\ Request = Sanitize(s)
    BY <1>3, <1>4, <2>11, RequestOnce
  <2>13. ASSUME \A h \in 1 .. k - 1 : history[j].results[h].id # x.id, x.id \in CallsBefore(j)
         PROVE  ToolOf(x) \in ToSet(Request)
    <3>1. x.id \in before
      <4>1. PICK i \in 1 .. j - 1 : /\ x.id \in ToSet(history[i].calls)
                                    /\ \A g \in i .. j - 1 : history[g].calls # <<>>
        BY <2>13 DEF CallsBefore
      <4>2. \A g \in i .. j - 1 : g \in 1 .. n /\ c[g] = history[g].calls
        BY <1>2
      <4>3. i \in i .. j - 1
        OBVIOUS
      <4>4. x.id \in ToSet(c[i]) /\ \A g \in i .. j - 1 : c[g] # <<>>
        BY <4>1, <4>2, <4>3
      <4> QED BY <2>5, <4>4 DEF Before
    <3>2. p # 0 /\ HasCalls(s[p]) /\ x.id \in ToSet(s[p].calls)
      BY <2>7, <3>1
    <3>3. p \in DOMAIN s /\ k \in Nat /\ k # 0 /\ p + k \in DOMAIN s /\ s[p + k] = ToolOf(x)
      BY <1>6, <2>3, <2>8, <2>9, <2>10, <3>2
    <3>4. ASSUME NEW h \in 1 .. d
          PROVE  IsTool(s[p + h]) /\ s[p + h].id = r[h].id
      <4>1. PICK y \in Results : y = r[h]
        BY <2>2, ElementOfSeq
      <4>2. s[p + h] = ToolOf(y)
        BY <2>8, <4>1
      <4> QED BY <4>1, <4>2, ToolOfShape
    <3>5. \A h \in 1 .. k : IsTool(s[p + h])
      <4>1. \A h \in 1 .. k : h \in 1 .. d
        BY <2>3
      <4> QED BY <3>4, <4>1
    <3>6. \A h \in 1 .. k - 1 : s[p + h].id # x.id
      <4>1. \A h \in 1 .. k - 1 : h \in 1 .. d
        BY <2>3
      <4> QED BY <2>1, <2>13, <3>4, <4>1
    <3>7. ToolOf(x) \in ToSet(Sanitize(s))
      BY <1>5, <2>3, <3>2, <3>3, <3>5, <3>6, SanitizeAnswers
    <3> QED BY <2>12, <3>7
  <2> QED BY <2>12, <2>13
<1> QED BY <1>1, <1>7 DEF ResultsKept, ToolOf

(* No result the client sends is lost or doubled, however the history has  *)
(* been edited, and one that follows its call reaches the upstream as the  *)
(* answer to it (ResultsKept).                                             *)
THEOREM KeptResults == Spec => []ResultsKept
<1> QED BY ResultsLinked, RInvResultsKept, PTL
=============================================================================
