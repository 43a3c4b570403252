-------------------------- MODULE ResponsesStreamProofs --------------------------
(***************************************************************************)
(* Proofs about the two converters that end in Responses API events: the   *)
(* client gets a legal stream with all of the text, reasoning and tool     *)
(* arguments the upstream sent, and is told how the response ended, for    *)
(* any number of chunks, blocks and calls.                                 *)
(*                                                                         *)
(* As in StreamConverterProofs, what a handler leaves is judged by the     *)
(* client the pending events lead to: Runs says that they take the client  *)
(* from c to d, and Mirrors what d's items have to do with the converter.  *)
(***************************************************************************)
EXTENDS ResponsesStream, FiniteSetTheorems, FunctionTheorems, SequenceTheorems, WellFoundedInduction, TLAPS

Parted == {"message", "reasoning"}
Blocks == [type : {"text", "thinking", "tool_use", "redacted_thinking"}, call : Calls \cup {None}]

Items == [id : ItemIds, type : Rsp!ItemTypes, part : {"none", "open", "done"},
          content : Seq(Fragments), done : BOOLEAN]

Clients == [phase : {"idle", "created", "streaming"} \cup Rsp!FinalTypes, items : Seq(Items),
            status : Rsp!Statuses \cup {None}, output : Seq(Rsp!OutputItems),
            last : Rsp!Events \cup {None}]

Converters ==
    [via : Upstreams, started : BOOLEAN, finalized : BOOLEAN,
     responseId : ResponseIds, status : Rsp!Statuses, output : Seq(Rsp!OutputItems),
     accText : Seq(Fragments), accReasoning : Seq(Fragments),
     itemIndex : Nat \cup {-1}, partIndex : Nat \cup {-1}, textItemIx : Nat \cup {-1},
     textPartIx : Nat \cup {-1}, reasonItemIx : Nat \cup {-1},
     contentBlocks : Seq(Blocks), toolCallByIndex : [Calls -> CallStates \cup {None}],
     events : Seq(Rsp!Events)]

Histories ==
    [begun : BOOLEAN, chunks : Nat, entries : Nat, text : Nat, reasoning : Nat,
     args : [Calls -> Nat], calls : SUBSET Calls, finish : Finishes \cup {None},
     thinking : BOOLEAN, split : BOOLEAN, blocks : Seq(Blocks), open : BOOLEAN]

-----------------------------------------------------------------------------
(* What the converter keeps of the two types of items with parts.          *)
Ix(s, t) == IF t = "message" THEN s.textItemIx ELSE s.reasonItemIx
Acc(s, t) == IF t = "message" THEN s.accText ELSE s.accReasoning
PartId(s, t) == IF t = "message" THEN MsgId(s) ELSE ReasonId(s)
BlockType(t) == IF t = "message" THEN "text" ELSE "thinking"
Known(s) == {c \in Calls : s.toolCallByIndex[c] # None}
ArgsOf(s, c) == IF c \in Known(s) THEN s.toolCallByIndex[c].args ELSE <<>>

ContentAs(it, t) == IF it.type = t THEN it.content ELSE <<>>
Flat(items, t) == FlattenSeq([i \in DOMAIN items |-> ContentAs(items[i], t)])

(* The pending events es take the client from c to d, and are legal if the *)
(* stream is tidy; none follows the last event of a response.              *)
Runs(c, es, d, tidy) ==
    \E p : /\ p[1] = c /\ p[Len(es) + 1] = d
           /\ \A i \in 1 .. Len(es) :
                 /\ p[i + 1] = Rsp!Apply(p[i], es[i])
                 /\ p[i].phase \notin Rsp!FinalTypes
                 /\ tidy => Rsp!Legal(p[i], es[i])

(* An item of a response under way: the converter's last of its type, or   *)
(* an earlier one, or that of a call.                                      *)
OfPart(s, it, i) ==
    /\ it.type \in Parted /\ it.id = PartId(s, it.type)
    /\ i <= Ix(s, it.type) + 1

OfCall(s, it, i) ==
    /\ it.type = "function_call"
    /\ \E c \in Known(s) : it.id = CallId(c) /\ s.toolCallByIndex[c].itemIx = i - 1

Underway(it) == ~ it.done /\ it.part = IF it.type \in Parted THEN "open" ELSE "none"

Numbered(s) ==
    /\ s.itemIndex = Len(s.output) - 1
    /\ \A t \in Parted : Ix(s, t) <= s.itemIndex
    /\ \A c \in Known(s) :
          /\ s.toolCallByIndex[c].itemIx <= s.itemIndex
          /\ s.output[s.toolCallByIndex[c].itemIx + 1].id = CallId(c)

Listed(s, items) ==
    /\ Len(items) = Len(s.output)
    /\ \A i \in 1 .. Len(items) : s.output[i].id = items[i].id /\ s.output[i].type = items[i].type

Placed(s, items) ==
    /\ \A i \in 1 .. Len(items) : OfPart(s, items[i], i) \/ OfCall(s, items[i], i)
    /\ \A t \in Parted : Ix(s, t) >= 0 => items[Ix(s, t) + 1].type = t
    /\ \A c \in Known(s) :
          LET it == items[s.toolCallByIndex[c].itemIx + 1] IN
          it.type = "function_call" /\ it.id = CallId(c) /\ it.content = s.toolCallByIndex[c].args

Alone(s, items, t) ==
    /\ \A i \in 1 .. Len(items) : items[i].type = t => i = Ix(s, t) + 1
    /\ Ix(s, t) >= 0 => items[Ix(s, t) + 1].content = Acc(s, t)

Mirrors(s, items, tidy) ==
    /\ Listed(s, items) /\ Placed(s, items)
    /\ \A i \in 1 .. Len(items) : Underway(items[i])
    /\ \A t \in Parted : Flat(items, t) = Acc(s, t) /\ (Ix(s, t) < 0 => Acc(s, t) = <<>>)
    /\ tidy => \A t \in Parted : Alone(s, items, t)

PartsFit(s, tidy) ==
    /\ s.textPartIx < 0 <=> s.textItemIx < 0
    /\ s.textItemIx < 0 => s.partIndex = -1
    /\ tidy => s.textPartIx <= 0

StatusFits(s, u) ==
    s.status = IF u.finish = None THEN "in_progress" ELSE OutcomeOf(s.via, u.finish)

(* What the converter has kept of what the upstream sent.                  *)
Follows(s, u) ==
    /\ u.calls = Known(s) /\ \A c \in Calls : ArgsOf(s, c) = InOrder(u.args[c], c)
    /\ ~ u.split => /\ s.accText = InOrder(u.text, "text")
                    /\ s.accReasoning = InOrder(u.reasoning, "reasoning")

BlocksFollow(s, u) ==
    /\ s.contentBlocks = u.blocks
    /\ u.open => u.blocks # <<>>
    /\ u.blocks = <<>> => s.output = <<>>
    /\ ~ u.begun => u.blocks = <<>>
    /\ \A i \in DOMAIN u.blocks : u.blocks[i].type = "tool_use" => u.blocks[i].call \in Known(s)
    /\ \A t \in Parted : Ix(s, t) >= 0 <=> \E i \in DOMAIN u.blocks : u.blocks[i].type = BlockType(t)

Told(s, u) ==
    /\ Follows(s, u)
    /\ s.via = "openai" => s.responseId = "own" /\ u.blocks = <<>>
    /\ s.via = "anthropic" => BlocksFollow(s, u) /\ ~ u.split
    /\ ~ s.started => s.events = <<>> /\ ~ s.finalized

Kept(s, d) ==
    /\ \A t \in Parted : Flat(d.items, t) = Acc(s, t)
    /\ \A c \in Known(s) : \E i \in DOMAIN d.items :
          /\ d.items[i].id = CallId(c) /\ d.items[i].content = s.toolCallByIndex[c].args
          /\ d.phase # "failed" => d.items[i].done

Outcome(s, d, u) ==
    /\ d.phase \in Rsp!FinalTypes
    /\ d.phase # "failed" =>
          /\ d.status = OutcomeOf(s.via, u.finish)
          /\ d.phase = "incomplete" <=> u.finish = "length"

Phased(s, d, u, tidy) ==
    IF s.finalized THEN Kept(s, d) /\ Outcome(s, d, u)
    ELSE /\ d.phase = IF s.started THEN "streaming" ELSE "idle"
         /\ Mirrors(s, d.items, tidy) /\ PartsFit(s, tidy) /\ StatusFits(s, u)

IInv ==
    /\ sc \in Converters /\ client \in Clients /\ sent \in Histories
    /\ Numbered(sc) /\ Told(sc, sent)
    /\ \E d \in Clients : Runs(client, sc.events, d, Tidy) /\ Phased(sc, d, sent, Tidy)

-----------------------------------------------------------------------------
(* Sequences.                                                              *)

(* Induction over the natural numbers, for a set: < is well-founded.        *)
Less == {p \in Nat \X Nat : p[1] < p[2]}

LEMMA LeastNumber ==
  ASSUME NEW T \in SUBSET Nat, T # {}
  PROVE  \E n \in T : \A m \in T : n <= m
<1>1. IsWellFoundedOn(Less, Nat)
  BY NatLessThanWellFounded DEF OpToRel, Less
<1>2. \E x \in T : \A y \in T : ~ (<<y, x>> \in Less)
  BY <1>1, WFMin
<1>3. PICK x \in T : \A y \in T : ~ (<<y, x>> \in Less)
  BY <1>2
<1>4. ASSUME NEW y \in T PROVE x <= y
  <2>1. <<y, x>> \in Nat \X Nat /\ <<y, x>>[1] = y /\ <<y, x>>[2] = x
    OBVIOUS
  <2>2. ~ (y < x)
    BY <1>3, <2>1 DEF Less
  <2> QED BY <2>2
<1> QED BY <1>4

LEMMA Induction ==
  ASSUME NEW T, 0 \in T, \A n \in Nat : n \in T => n + 1 \in T
  PROVE  Nat \subseteq T
<1>1. SUFFICES ASSUME Nat \ T # {} PROVE FALSE
  OBVIOUS
<1>2. PICK n \in Nat \ T : \A m \in Nat \ T : n <= m
  BY <1>1, LeastNumber
<1>3. n # 0 /\ n - 1 \in Nat
  BY <1>2
<1>4. n - 1 \in T
  BY <1>2, <1>3
<1> QED BY <1>2, <1>3, <1>4

Regroups(q, r, v) == (q \o r) \o v = q \o (r \o v)

LEMMA Regrouped ==
  ASSUME NEW X, NEW q \in Seq(X), NEW r \in Seq(X), NEW v \in Seq(X)
  PROVE  Regroups(q, r, v)
BY DEF Regroups

(* FlattenSeq, one element at a time.                                      *)
FlatSteps(s, k, f) == f = [i \in 1 .. k |-> IF i = 1 THEN s[i] ELSE f[i - 1] \o s[i]]

LEMMA FlatUnfolded ==
  ASSUME NEW s, Len(s) # 0
  PROVE  FlattenSeq(s) = (CHOOSE f : FlatSteps(s, Len(s), f))[Len(s)]
BY DEF FlattenSeq, FlatSteps

LEMMA FlatExists ==
  ASSUME NEW s, NEW k \in Nat
  PROVE  \E f : FlatSteps(s, k, f)
<1>1. PICK T : T = {n \in Nat : \E f : FlatSteps(s, n, f)}
  OBVIOUS
<1>2. 0 \in T
  <2>1. PICK f : f = [i \in 1 .. 0 |-> 0]
    OBVIOUS
  <2>2. FlatSteps(s, 0, f)
    BY <2>1 DEF FlatSteps
  <2> QED BY <1>1, <2>2
<1>3. ASSUME NEW n \in Nat, n \in T
      PROVE  n + 1 \in T
  <2>1. PICK f : FlatSteps(s, n, f)
    BY <1>1, <1>3
  <2>2. PICK g : g = [i \in 1 .. n + 1 |-> IF i \in 1 .. n THEN f[i]
                                           ELSE IF i = 1 THEN s[i] ELSE f[i - 1] \o s[i]]
    OBVIOUS
  <2>3. ASSUME NEW i \in 1 .. n + 1
        PROVE  g[i] = IF i = 1 THEN s[i] ELSE g[i - 1] \o s[i]
    <3>1. i # 1 => i - 1 \in 1 .. n /\ g[i - 1] = f[i - 1]
      BY <2>2
    <3>2. CASE i \in 1 .. n
      BY <2>1, <2>2, <3>1, <3>2 DEF FlatSteps
    <3>3. CASE i \notin 1 .. n
      BY <2>2, <3>1, <3>3
    <3> QED BY <3>2, <3>3
  <2>4. DOMAIN g = 1 .. n + 1
    BY <2>2
  <2>5. FlatSteps(s, n + 1, g)
    <3>1. g = [i \in 1 .. n + 1 |-> g[i]]
      BY <2>2
    <3>2. [i \in 1 .. n + 1 |-> g[i]] = [i \in 1 .. n + 1 |-> IF i = 1 THEN s[i] ELSE g[i - 1] \o s[i]]
      BY <2>3, Zenon
    <3> QED BY <3>1, <3>2, Zenon DEF FlatSteps
  <2> QED BY <1>1, <2>5
<1>4. Nat \subseteq T
  BY <1>2, <1>3, Induction
<1> QED BY <1>1, <1>4

LEMMA FlatStep ==
  ASSUME NEW s, NEW k \in Nat, NEW f, FlatSteps(s, k, f), NEW i \in 1 .. k
  PROVE  (i = 1 => f[i] = s[i]) /\ (i # 1 => f[i] = f[i - 1] \o s[i])
BY DEF FlatSteps

LEMMA FlattenEmpty == FlattenSeq(<<>>) = <<>>
BY DEF FlattenSeq

LEMMA FlattenSnoc ==
  ASSUME NEW X, NEW s \in Seq(Seq(X)), NEW x \in Seq(X)
  PROVE  FlattenSeq(s) \in Seq(X) /\ FlattenSeq(Append(s, x)) = FlattenSeq(s) \o x
<1>1. PICK n \in Nat : n = Len(s)
  OBVIOUS
<1>2. PICK t : t = Append(s, x)
  OBVIOUS
<1>3. t \in Seq(Seq(X)) /\ Len(t) = n + 1 /\ t[n + 1] = x /\ \A i \in 1 .. n : t[i] = s[i] /\ s[i] \in Seq(X)
  BY <1>1, <1>2
<1>4. PICK f : f = CHOOSE h : FlatSteps(s, n, h)
  OBVIOUS
<1>5. PICK m \in Nat : m = n + 1
  OBVIOUS
<1>6. PICK g : g = CHOOSE h : FlatSteps(t, m, h)
  OBVIOUS
<1>7. FlatSteps(s, n, f)
  BY <1>4, FlatExists
<1>8. FlatSteps(t, m, g)
  BY <1>6, FlatExists
<1>9. PICK T : T = {k \in Nat : k \in 1 .. n => f[k] \in Seq(X) /\ g[k] = f[k]}
  OBVIOUS
<1>10. 0 \in T
  BY <1>9
<1>11. ASSUME NEW k \in Nat, k \in T
       PROVE  k + 1 \in T
  <2>1. SUFFICES ASSUME k + 1 \in 1 .. n
                 PROVE  f[k + 1] \in Seq(X) /\ g[k + 1] = f[k + 1]
    BY <1>9
  <2>2. PICK j \in Nat : j = k + 1
    OBVIOUS
  <2>3. j \in 1 .. n /\ j \in 1 .. m /\ j - 1 = k
    BY <1>5, <2>1, <2>2
  <2>4. (j = 1 => f[j] = s[j]) /\ (j # 1 => f[j] = f[j - 1] \o s[j])
    BY <1>7, <2>3, FlatStep, ZenonT(30)
  <2>5. (j = 1 => g[j] = t[j]) /\ (j # 1 => g[j] = g[j - 1] \o t[j])
    BY <1>8, <2>3, FlatStep, ZenonT(30)
  <2>6. CASE k = 0
    BY <1>3, <2>1, <2>4, <2>2, <2>6, <2>5
  <2>7. CASE k # 0
    <3>1. f[k] \in Seq(X) /\ g[k] = f[k]
      BY <1>9, <1>11, <2>1, <2>7
    <3>2. f[j] = f[j - 1] \o s[j] /\ g[j] = g[j - 1] \o t[j]
      <4>1. j # 1
        BY <2>2, <2>7
      <4> QED BY <2>4, <2>5, <4>1
    <3>3. t[j] = s[j] /\ s[j] \in Seq(X)
      BY <1>3, <2>3
    <3>4. f[j] \in Seq(X) /\ g[j] = f[j]
      <4>1. f[j - 1] \in Seq(X) /\ g[j - 1] = f[j - 1]
        BY <2>3, <3>1
      <4>2. f[j - 1] \o s[j] \in Seq(X)
        BY <3>3, <4>1
      <4>3. g[j - 1] \o t[j] = f[j - 1] \o s[j]
        BY <3>3, <4>1
      <4> QED BY <3>2, <4>2, <4>3
    <3> QED BY <2>2, <3>4
  <2> QED BY <2>6, <2>7
<1>12. Nat \subseteq T
  BY <1>10, <1>11, Induction
<1>13. FlattenSeq(t) = g[n + 1]
  <2>1. Len(t) = m /\ m # 0
    BY <1>5, <1>3
  <2> QED BY <1>5, <1>6, <2>1, FlatUnfolded
<1>14. (n = 0 => g[n + 1] = x) /\ (n # 0 => g[n + 1] = g[n] \o x)
  <2>1. m \in 1 .. m /\ m - 1 = n
    BY <1>5
  <2>2. (m = 1 => g[m] = t[m]) /\ (m # 1 => g[m] = g[m - 1] \o t[m])
    BY <1>8, <2>1, FlatStep
  <2> QED BY <1>5, <1>3, <2>1, <2>2
<1>15. CASE n = 0
  <2>1. s = <<>> /\ FlattenSeq(s) = <<>>
    BY <1>1, <1>15, FlattenEmpty, EmptySeq
  <2>2. <<>> \o x = x /\ <<>> \in Seq(X)
    OBVIOUS
  <2> QED BY <1>2, <1>13, <1>14, <1>15, <2>1, <2>2
<1>16. CASE n # 0
  <2>1. FlattenSeq(s) = f[n]
    BY <1>1, <1>4, <1>16, FlatUnfolded
  <2>2. n \in 1 .. n
    BY <1>16
  <2>3. f[n] \in Seq(X) /\ g[n] = f[n]
    BY <1>9, <1>12, <2>2
  <2> QED BY <1>2, <1>13, <1>14, <1>16, <2>1, <2>3
<1> QED BY <1>15, <1>16

LEMMA SetToSeqsProperties ==
  ASSUME NEW S, IsFiniteSet(S), NEW s \in SetToSeqs(S)
  PROVE  /\ s \in Seq(S)
         /\ Len(s) = Cardinality(S)
         /\ Range(s) = S
         /\ \A i, j \in 1 .. Len(s) : i # j => s[i] # s[j]
<1> DEFINE n == Cardinality(S)
<1>1. n \in Nat
  BY FS_CardinalityType
<1>2. s \in [1..n -> S] /\ \A i, j \in 1..n : i # j => s[i] # s[j]
  BY DEF SetToSeqs
<1>3. s \in Seq(S) /\ Len(s) = n /\ DOMAIN s = 1..n
  BY <1>1, <1>2, SeqDef, LenProperties
<1>4. s \in Injection(1..n, S)
  BY <1>2, Fun_IsInj
<1>5. Cardinality(1..n) = n
  BY <1>1, FS_Interval
<1>6. s \in Surjection(1..n, S)
  BY <1>4, <1>5, FS_Injection
<1>7. Range(s) = S
  BY <1>6, <1>3 DEF Surjection, Range
<1> QED BY <1>2, <1>3, <1>7

LEMMA Maxima == Max({1}) = 1 /\ Max({2}) = 2 /\ Max({1, 2}) = 2
<1>1. Max({1}) = 1
  BY DEF Max
<1>2. Max({2}) = 2
  BY DEF Max
<1>3. Max({1, 2}) = 2
  BY DEF Max
<1> QED BY <1>1, <1>2, <1>3

LEMMA Subsets ==
  /\ SUBSET {1} = {{}, {1}} /\ SUBSET {1, 2} = {{}, {1}, {2}, {1, 2}}
  /\ {1} \ {1} = {} /\ {2} \ {2} = {} /\ {1, 2} \ {2} = {1}
  /\ {1} # {} /\ {2} # {} /\ {1, 2} # {} /\ {1} # {2} /\ {1, 2} # {1} /\ {1, 2} # {2}
OBVIOUS

(* FoldLeft over an empty, a one-entry and, for text, a two-entry sequence. *)
AllSummaries(base, seq) == FoldLeft(SummaryDelta, base, seq)

SDSteps(base, seq, it) ==
    it = [s \in SUBSET (DOMAIN seq) |->
            IF s = {} THEN base ELSE SummaryDelta(it[s \ {Max(s)}], seq[Max(s)])]

LEMMA SDUnfolded ==
  ASSUME NEW base, NEW seq
  PROVE  AllSummaries(base, seq) = (CHOOSE it : SDSteps(base, seq, it))[DOMAIN seq]
BY DEF AllSummaries, FoldLeft, MapThenFoldSet, SDSteps

LEMMA SDFolded0 ==
  ASSUME NEW base
  PROVE  AllSummaries(base, <<>>) = base
<1>1. PICK it : it = CHOOSE i : SDSteps(base, <<>>, i)
  OBVIOUS
<1>2. DOMAIN <<>> = {} /\ SUBSET {} = {{}}
  OBVIOUS
<1>3. PICK w : w = [s \in SUBSET {} |-> base]
  OBVIOUS
<1>4. w = [s \in SUBSET {} |-> IF s = {} THEN base ELSE SummaryDelta(w[s \ {Max(s)}], <<>>[Max(s)])]
  BY <1>2, <1>3
<1>5. SDSteps(base, <<>>, w)
  BY <1>2, <1>4 DEF SDSteps
<1>6. SDSteps(base, <<>>, it)
  BY <1>1, <1>5
<1>7. it[{}] = base
  BY <1>2, <1>6 DEF SDSteps
<1> QED BY <1>1, <1>2, <1>7, SDUnfolded

LEMMA SDFolded1 ==
  ASSUME NEW base, NEW x
  PROVE  AllSummaries(base, <<x>>) = SummaryDelta(base, x)
<1>1. PICK it : it = CHOOSE i : SDSteps(base, <<x>>, i)
  OBVIOUS
<1>2. DOMAIN <<x>> = {1} /\ <<x>>[1] = x
  OBVIOUS
<1>3. PICK w : w = [s \in SUBSET {1} |-> IF s = {} THEN base ELSE SummaryDelta(base, x)]
  OBVIOUS
<1>4. w[{}] = base /\ w[{1}] = SummaryDelta(base, x)
  BY <1>3, Subsets
<1>5. ASSUME NEW s \in SUBSET {1}
      PROVE  w[s] = IF s = {} THEN base ELSE SummaryDelta(w[s \ {Max(s)}], <<x>>[Max(s)])
  <2>1. CASE s = {}
    BY <1>4, <2>1
  <2>2. CASE s = {1}
    BY <1>2, <1>4, <2>2, Maxima, Subsets
  <2> QED BY <2>1, <2>2, Subsets
<1>6. SDSteps(base, <<x>>, w)
  BY <1>2, <1>3, <1>5 DEF SDSteps
<1>7. SDSteps(base, <<x>>, it)
  BY <1>1, <1>6
<1>8. it[{}] = base /\ it[{1}] = SummaryDelta(it[{1} \ {Max({1})}], <<x>>[Max({1})])
  <2>1. {} \in SUBSET {1} /\ {1} \in SUBSET {1} /\ {1} # {}
    OBVIOUS
  <2> QED BY <1>2, <1>7, <2>1 DEF SDSteps
<1>9. it[{1}] = SummaryDelta(base, x)
  BY <1>2, <1>8, Maxima, Subsets
<1> QED BY <1>1, <1>2, <1>9, SDUnfolded

AllReasoning(base, seq) == FoldLeft(HandleReasoning, base, seq)

HRSteps(base, seq, it) ==
    it = [s \in SUBSET (DOMAIN seq) |->
            IF s = {} THEN base ELSE HandleReasoning(it[s \ {Max(s)}], seq[Max(s)])]

LEMMA HRUnfolded ==
  ASSUME NEW base, NEW seq
  PROVE  AllReasoning(base, seq) = (CHOOSE it : HRSteps(base, seq, it))[DOMAIN seq]
BY DEF AllReasoning, FoldLeft, MapThenFoldSet, HRSteps

LEMMA HRFolded0 ==
  ASSUME NEW base
  PROVE  AllReasoning(base, <<>>) = base
<1>1. PICK it : it = CHOOSE i : HRSteps(base, <<>>, i)
  OBVIOUS
<1>2. DOMAIN <<>> = {} /\ SUBSET {} = {{}}
  OBVIOUS
<1>3. PICK w : w = [s \in SUBSET {} |-> base]
  OBVIOUS
<1>4. w = [s \in SUBSET {} |-> IF s = {} THEN base ELSE HandleReasoning(w[s \ {Max(s)}], <<>>[Max(s)])]
  BY <1>2, <1>3
<1>5. HRSteps(base, <<>>, w)
  BY <1>2, <1>4 DEF HRSteps
<1>6. HRSteps(base, <<>>, it)
  BY <1>1, <1>5
<1>7. it[{}] = base
  BY <1>2, <1>6 DEF HRSteps
<1> QED BY <1>1, <1>2, <1>7, HRUnfolded

LEMMA HRFolded1 ==
  ASSUME NEW base, NEW x
  PROVE  AllReasoning(base, <<x>>) = HandleReasoning(base, x)
<1>1. PICK it : it = CHOOSE i : HRSteps(base, <<x>>, i)
  OBVIOUS
<1>2. DOMAIN <<x>> = {1} /\ <<x>>[1] = x
  OBVIOUS
<1>3. PICK w : w = [s \in SUBSET {1} |-> IF s = {} THEN base ELSE HandleReasoning(base, x)]
  OBVIOUS
<1>4. w[{}] = base /\ w[{1}] = HandleReasoning(base, x)
  BY <1>3, Subsets
<1>5. ASSUME NEW s \in SUBSET {1}
      PROVE  w[s] = IF s = {} THEN base ELSE HandleReasoning(w[s \ {Max(s)}], <<x>>[Max(s)])
  <2>1. CASE s = {}
    BY <1>4, <2>1
  <2>2. CASE s = {1}
    BY <1>2, <1>4, <2>2, Maxima, Subsets
  <2> QED BY <2>1, <2>2, Subsets
<1>6. HRSteps(base, <<x>>, w)
  BY <1>2, <1>3, <1>5 DEF HRSteps
<1>7. HRSteps(base, <<x>>, it)
  BY <1>1, <1>6
<1>8. it[{}] = base /\ it[{1}] = HandleReasoning(it[{1} \ {Max({1})}], <<x>>[Max({1})])
  <2>1. {} \in SUBSET {1} /\ {1} \in SUBSET {1} /\ {1} # {}
    OBVIOUS
  <2> QED BY <1>2, <1>7, <2>1 DEF HRSteps
<1>9. it[{1}] = HandleReasoning(base, x)
  BY <1>2, <1>8, Maxima, Subsets
<1> QED BY <1>1, <1>2, <1>9, HRUnfolded

AllText(base, seq) == FoldLeft(HandleText, base, seq)

HTSteps(base, seq, it) ==
    it = [s \in SUBSET (DOMAIN seq) |->
            IF s = {} THEN base ELSE HandleText(it[s \ {Max(s)}], seq[Max(s)])]

LEMMA HTUnfolded ==
  ASSUME NEW base, NEW seq
  PROVE  AllText(base, seq) = (CHOOSE it : HTSteps(base, seq, it))[DOMAIN seq]
BY DEF AllText, FoldLeft, MapThenFoldSet, HTSteps

LEMMA HTFolded0 ==
  ASSUME NEW base
  PROVE  AllText(base, <<>>) = base
<1>1. PICK it : it = CHOOSE i : HTSteps(base, <<>>, i)
  OBVIOUS
<1>2. DOMAIN <<>> = {} /\ SUBSET {} = {{}}
  OBVIOUS
<1>3. PICK w : w = [s \in SUBSET {} |-> base]
  OBVIOUS
<1>4. w = [s \in SUBSET {} |-> IF s = {} THEN base ELSE HandleText(w[s \ {Max(s)}], <<>>[Max(s)])]
  BY <1>2, <1>3
<1>5. HTSteps(base, <<>>, w)
  BY <1>2, <1>4 DEF HTSteps
<1>6. HTSteps(base, <<>>, it)
  BY <1>1, <1>5
<1>7. it[{}] = base
  BY <1>2, <1>6 DEF HTSteps
<1> QED BY <1>1, <1>2, <1>7, HTUnfolded

LEMMA HTFolded1 ==
  ASSUME NEW base, NEW x
  PROVE  AllText(base, <<x>>) = HandleText(base, x)
<1>1. PICK it : it = CHOOSE i : HTSteps(base, <<x>>, i)
  OBVIOUS
<1>2. DOMAIN <<x>> = {1} /\ <<x>>[1] = x
  OBVIOUS
<1>3. PICK w : w = [s \in SUBSET {1} |-> IF s = {} THEN base ELSE HandleText(base, x)]
  OBVIOUS
<1>4. w[{}] = base /\ w[{1}] = HandleText(base, x)
  BY <1>3, Subsets
<1>5. ASSUME NEW s \in SUBSET {1}
      PROVE  w[s] = IF s = {} THEN base ELSE HandleText(w[s \ {Max(s)}], <<x>>[Max(s)])
  <2>1. CASE s = {}
    BY <1>4, <2>1
  <2>2. CASE s = {1}
    BY <1>2, <1>4, <2>2, Maxima, Subsets
  <2> QED BY <2>1, <2>2, Subsets
<1>6. HTSteps(base, <<x>>, w)
  BY <1>2, <1>3, <1>5 DEF HTSteps
<1>7. HTSteps(base, <<x>>, it)
  BY <1>1, <1>6
<1>8. it[{}] = base /\ it[{1}] = HandleText(it[{1} \ {Max({1})}], <<x>>[Max({1})])
  <2>1. {} \in SUBSET {1} /\ {1} \in SUBSET {1} /\ {1} # {}
    OBVIOUS
  <2> QED BY <1>2, <1>7, <2>1 DEF HTSteps
<1>9. it[{1}] = HandleText(base, x)
  BY <1>2, <1>8, Maxima, Subsets
<1> QED BY <1>1, <1>2, <1>9, HTUnfolded

LEMMA HTFolded2 ==
  ASSUME NEW base, NEW x, NEW y
  PROVE  AllText(base, <<x, y>>) = HandleText(HandleText(base, x), y)
<1>1. PICK it : it = CHOOSE i : HTSteps(base, <<x, y>>, i)
  OBVIOUS
<1>2. DOMAIN <<x, y>> = {1, 2} /\ <<x, y>>[1] = x /\ <<x, y>>[2] = y
  OBVIOUS
<1>3. PICK w : w = [s \in SUBSET {1, 2} |->
                      IF s = {} THEN base ELSE IF s = {1} THEN HandleText(base, x)
                      ELSE IF s = {2} THEN HandleText(base, y) ELSE HandleText(HandleText(base, x), y)]
  OBVIOUS
<1>4. /\ w[{}] = base /\ w[{1}] = HandleText(base, x) /\ w[{2}] = HandleText(base, y)
      /\ w[{1, 2}] = HandleText(HandleText(base, x), y)
  BY <1>3, Subsets
<1>5. ASSUME NEW s \in SUBSET {1, 2}
      PROVE  w[s] = IF s = {} THEN base ELSE HandleText(w[s \ {Max(s)}], <<x, y>>[Max(s)])
  <2>1. CASE s = {}
    BY <1>4, <2>1
  <2>2. CASE s = {1}
    BY <1>2, <1>4, <2>2, Maxima, Subsets
  <2>3. CASE s = {2}
    BY <1>2, <1>4, <2>3, Maxima, Subsets
  <2>4. CASE s = {1, 2}
    BY <1>2, <1>4, <2>4, Maxima, Subsets
  <2> QED BY <2>1, <2>2, <2>3, <2>4, Subsets
<1>6. HTSteps(base, <<x, y>>, w)
  BY <1>2, <1>3, <1>5 DEF HTSteps
<1>7. HTSteps(base, <<x, y>>, it)
  BY <1>1, <1>6
<1>8. /\ it[{}] = base /\ it[{1}] = HandleText(it[{1} \ {Max({1})}], <<x, y>>[Max({1})])
      /\ it[{1, 2}] = HandleText(it[{1, 2} \ {Max({1, 2})}], <<x, y>>[Max({1, 2})])
  <2>1. {} \in SUBSET {1, 2} /\ {1} \in SUBSET {1, 2} /\ {1, 2} \in SUBSET {1, 2}
       /\ {1} # {} /\ {1, 2} # {}
    OBVIOUS
  <2> QED BY <1>2, <1>7, <2>1 DEF HTSteps
<1>9. it[{1}] = HandleText(base, x)
  BY <1>2, <1>8, Maxima, Subsets
<1>10. it[{1, 2}] = HandleText(HandleText(base, x), y)
  BY <1>2, <1>8, <1>9, Maxima, Subsets
<1> QED BY <1>1, <1>2, <1>10, HTUnfolded

AllCalls(base, seq) == FoldLeft(HandleToolCall, base, seq)

HCSteps(base, seq, it) ==
    it = [s \in SUBSET (DOMAIN seq) |->
            IF s = {} THEN base ELSE HandleToolCall(it[s \ {Max(s)}], seq[Max(s)])]

LEMMA HCUnfolded ==
  ASSUME NEW base, NEW seq
  PROVE  AllCalls(base, seq) = (CHOOSE it : HCSteps(base, seq, it))[DOMAIN seq]
BY DEF AllCalls, FoldLeft, MapThenFoldSet, HCSteps

LEMMA HCFolded0 ==
  ASSUME NEW base
  PROVE  AllCalls(base, <<>>) = base
<1>1. PICK it : it = CHOOSE i : HCSteps(base, <<>>, i)
  OBVIOUS
<1>2. DOMAIN <<>> = {} /\ SUBSET {} = {{}}
  OBVIOUS
<1>3. PICK w : w = [s \in SUBSET {} |-> base]
  OBVIOUS
<1>4. w = [s \in SUBSET {} |-> IF s = {} THEN base ELSE HandleToolCall(w[s \ {Max(s)}], <<>>[Max(s)])]
  BY <1>2, <1>3
<1>5. HCSteps(base, <<>>, w)
  BY <1>2, <1>4 DEF HCSteps
<1>6. HCSteps(base, <<>>, it)
  BY <1>1, <1>5
<1>7. it[{}] = base
  BY <1>2, <1>6 DEF HCSteps
<1> QED BY <1>1, <1>2, <1>7, HCUnfolded

LEMMA HCFolded1 ==
  ASSUME NEW base, NEW x
  PROVE  AllCalls(base, <<x>>) = HandleToolCall(base, x)
<1>1. PICK it : it = CHOOSE i : HCSteps(base, <<x>>, i)
  OBVIOUS
<1>2. DOMAIN <<x>> = {1} /\ <<x>>[1] = x
  OBVIOUS
<1>3. PICK w : w = [s \in SUBSET {1} |-> IF s = {} THEN base ELSE HandleToolCall(base, x)]
  OBVIOUS
<1>4. w[{}] = base /\ w[{1}] = HandleToolCall(base, x)
  BY <1>3, Subsets
<1>5. ASSUME NEW s \in SUBSET {1}
      PROVE  w[s] = IF s = {} THEN base ELSE HandleToolCall(w[s \ {Max(s)}], <<x>>[Max(s)])
  <2>1. CASE s = {}
    BY <1>4, <2>1
  <2>2. CASE s = {1}
    BY <1>2, <1>4, <2>2, Maxima, Subsets
  <2> QED BY <2>1, <2>2, Subsets
<1>6. HCSteps(base, <<x>>, w)
  BY <1>2, <1>3, <1>5 DEF HCSteps
<1>7. HCSteps(base, <<x>>, it)
  BY <1>1, <1>6
<1>8. it[{}] = base /\ it[{1}] = HandleToolCall(it[{1} \ {Max({1})}], <<x>>[Max({1})])
  <2>1. {} \in SUBSET {1} /\ {1} \in SUBSET {1} /\ {1} # {}
    OBVIOUS
  <2> QED BY <1>2, <1>7, <2>1 DEF HCSteps
<1>9. it[{1}] = HandleToolCall(base, x)
  BY <1>2, <1>8, Maxima, Subsets
<1> QED BY <1>1, <1>2, <1>9, HCUnfolded

AllSent(base, seq) == FoldLeft(SendEntry, base, seq)

SESteps(base, seq, it) ==
    it = [s \in SUBSET (DOMAIN seq) |->
            IF s = {} THEN base ELSE SendEntry(it[s \ {Max(s)}], seq[Max(s)])]

LEMMA SEUnfolded ==
  ASSUME NEW base, NEW seq
  PROVE  AllSent(base, seq) = (CHOOSE it : SESteps(base, seq, it))[DOMAIN seq]
BY DEF AllSent, FoldLeft, MapThenFoldSet, SESteps

LEMMA SEFolded0 ==
  ASSUME NEW base
  PROVE  AllSent(base, <<>>) = base
<1>1. PICK it : it = CHOOSE i : SESteps(base, <<>>, i)
  OBVIOUS
<1>2. DOMAIN <<>> = {} /\ SUBSET {} = {{}}
  OBVIOUS
<1>3. PICK w : w = [s \in SUBSET {} |-> base]
  OBVIOUS
<1>4. w = [s \in SUBSET {} |-> IF s = {} THEN base ELSE SendEntry(w[s \ {Max(s)}], <<>>[Max(s)])]
  BY <1>2, <1>3
<1>5. SESteps(base, <<>>, w)
  BY <1>2, <1>4 DEF SESteps
<1>6. SESteps(base, <<>>, it)
  BY <1>1, <1>5
<1>7. it[{}] = base
  BY <1>2, <1>6 DEF SESteps
<1> QED BY <1>1, <1>2, <1>7, SEUnfolded

LEMMA SEFolded1 ==
  ASSUME NEW base, NEW x
  PROVE  AllSent(base, <<x>>) = SendEntry(base, x)
<1>1. PICK it : it = CHOOSE i : SESteps(base, <<x>>, i)
  OBVIOUS
<1>2. DOMAIN <<x>> = {1} /\ <<x>>[1] = x
  OBVIOUS
<1>3. PICK w : w = [s \in SUBSET {1} |-> IF s = {} THEN base ELSE SendEntry(base, x)]
  OBVIOUS
<1>4. w[{}] = base /\ w[{1}] = SendEntry(base, x)
  BY <1>3, Subsets
<1>5. ASSUME NEW s \in SUBSET {1}
      PROVE  w[s] = IF s = {} THEN base ELSE SendEntry(w[s \ {Max(s)}], <<x>>[Max(s)])
  <2>1. CASE s = {}
    BY <1>4, <2>1
  <2>2. CASE s = {1}
    BY <1>2, <1>4, <2>2, Maxima, Subsets
  <2> QED BY <2>1, <2>2, Subsets
<1>6. SESteps(base, <<x>>, w)
  BY <1>2, <1>3, <1>5 DEF SESteps
<1>7. SESteps(base, <<x>>, it)
  BY <1>1, <1>6
<1>8. it[{}] = base /\ it[{1}] = SendEntry(it[{1} \ {Max({1})}], <<x>>[Max({1})])
  <2>1. {} \in SUBSET {1} /\ {1} \in SUBSET {1} /\ {1} # {}
    OBVIOUS
  <2> QED BY <1>2, <1>7, <2>1 DEF SESteps
<1>9. it[{1}] = SendEntry(base, x)
  BY <1>2, <1>8, Maxima, Subsets
<1> QED BY <1>1, <1>2, <1>9, SEUnfolded

-----------------------------------------------------------------------------
(* Runs: nothing pending, one event, one run after another.                *)

LEMMA RunsNothing ==
  ASSUME NEW c, NEW tidy \in BOOLEAN
  PROVE  Runs(c, <<>>, c, tidy)
<1>1. PICK p : p = [i \in {1} |-> c]
  OBVIOUS
<1> QED BY <1>1 DEF Runs

LEMMA RunsNowhere ==
  ASSUME NEW c, NEW d, NEW tidy \in BOOLEAN, Runs(c, <<>>, d, tidy)
  PROVE  d = c
BY DEF Runs

LEMMA RunsFrom ==
  ASSUME NEW c, NEW d, NEW tidy \in BOOLEAN, NEW E, NEW es \in Seq(E), es # <<>>, Runs(c, es, d, tidy)
  PROVE  /\ Runs(Rsp!Apply(c, Head(es)), Tail(es), d, tidy)
         /\ c.phase \notin Rsp!FinalTypes
         /\ tidy => Rsp!Legal(c, Head(es))
<1>1. PICK p : /\ p[1] = c /\ p[Len(es) + 1] = d
               /\ \A i \in 1 .. Len(es) :
                     /\ p[i + 1] = Rsp!Apply(p[i], es[i])
                     /\ p[i].phase \notin Rsp!FinalTypes
                     /\ tidy => Rsp!Legal(p[i], es[i])
  BY DEF Runs
<1>2. PICK n \in Nat : Len(es) = n + 1
  <2>1. Len(es) \in Nat /\ Len(es) > 0
    OBVIOUS
  <2> QED BY <2>1
<1>3. PICK fs : fs = Tail(es)
  OBVIOUS
<1>4. Len(fs) = n /\ (\A i \in 1 .. n : fs[i] = es[i + 1]) /\ Head(es) = es[1]
  BY <1>2, <1>3
<1>5. PICK q : q = [i \in 1 .. n + 1 |-> p[i + 1]]
  OBVIOUS
<1>6. p[2] = Rsp!Apply(c, Head(es)) /\ c.phase \notin Rsp!FinalTypes
      /\ (tidy => Rsp!Legal(c, Head(es)))
  BY <1>1, <1>2, <1>4
<1>7. q[1] = Rsp!Apply(c, Head(es)) /\ q[n + 1] = d
  BY <1>1, <1>2, <1>5, <1>6
<1>8. ASSUME NEW i \in 1 .. n
      PROVE  /\ q[i + 1] = Rsp!Apply(q[i], fs[i])
             /\ q[i].phase \notin Rsp!FinalTypes
             /\ tidy => Rsp!Legal(q[i], fs[i])
  <2>1. q[i] = p[i + 1] /\ q[i + 1] = p[(i + 1) + 1] /\ fs[i] = es[i + 1]
    BY <1>4, <1>5
  <2>2. i + 1 \in 1 .. Len(es)
    BY <1>2
  <2> QED BY <1>1, <2>1, <2>2
<1>9. Runs(Rsp!Apply(c, Head(es)), fs, d, tidy)
  BY <1>4, <1>7, <1>8 DEF Runs
<1> QED BY <1>3, <1>6, <1>9

LEMMA RunsOne ==
  ASSUME NEW c, NEW e, NEW tidy \in BOOLEAN, c.phase \notin Rsp!FinalTypes, tidy => Rsp!Legal(c, e)
  PROVE  Runs(c, <<e>>, Rsp!Apply(c, e), tidy)
<1>1. PICK p : p = <<c, Rsp!Apply(c, e)>>
  OBVIOUS
<1>2. p[1] = c /\ p[2] = Rsp!Apply(c, e)
  BY <1>1
<1>3. PICK es : es = <<e>>
  OBVIOUS
<1>4. Len(es) = 1 /\ es[1] = e
  BY <1>3
<1>5. Runs(c, es, Rsp!Apply(c, e), tidy)
  BY <1>2, <1>4 DEF Runs
<1> QED BY <1>3, <1>5

LEMMA RunsJoin ==
  ASSUME NEW c, NEW d, NEW x, NEW tidy \in BOOLEAN, NEW E, NEW es \in Seq(E), NEW fs \in Seq(E),
         Runs(c, es, d, tidy), Runs(d, fs, x, tidy)
  PROVE  Runs(c, es \o fs, x, tidy)
<1>1. PICK p : /\ p[1] = c /\ p[Len(es) + 1] = d
               /\ \A i \in 1 .. Len(es) :
                     /\ p[i + 1] = Rsp!Apply(p[i], es[i])
                     /\ p[i].phase \notin Rsp!FinalTypes
                     /\ tidy => Rsp!Legal(p[i], es[i])
  BY DEF Runs
<1>2. PICK q : /\ q[1] = d /\ q[Len(fs) + 1] = x
               /\ \A i \in 1 .. Len(fs) :
                     /\ q[i + 1] = Rsp!Apply(q[i], fs[i])
                     /\ q[i].phase \notin Rsp!FinalTypes
                     /\ tidy => Rsp!Legal(q[i], fs[i])
  BY DEF Runs
<1>3. PICK m \in Nat, n \in Nat : m = Len(es) /\ n = Len(fs)
  OBVIOUS
<1>4. PICK gs : gs = es \o fs
  OBVIOUS
<1>5. /\ Len(gs) = m + n
      /\ \A i \in 1 .. m : gs[i] = es[i]
      /\ \A i \in 1 .. n : gs[m + i] = fs[i]
  BY <1>3, <1>4
<1>6. PICK r : r = [i \in 1 .. (m + n) + 1 |-> IF i \in 1 .. m THEN p[i] ELSE q[i - m]]
  OBVIOUS
<1>7. /\ \A i \in 1 .. m : r[i] = p[i]
      /\ \A i \in 1 .. n + 1 : r[m + i] = q[i]
  <2>1. ASSUME NEW i \in 1 .. n + 1 PROVE r[m + i] = q[i]
    <3>1. m + i \in 1 .. (m + n) + 1 /\ m + i \notin 1 .. m /\ (m + i) - m = i
      OBVIOUS
    <3> QED BY <1>6, <3>1
  <2>2. ASSUME NEW i \in 1 .. m PROVE r[i] = p[i]
    BY <1>6
  <2> QED BY <2>1, <2>2
<1>8. r[1] = c /\ r[(m + n) + 1] = x /\ r[m + 1] = d
  <2>1. r[m + 1] = d /\ r[m + (n + 1)] = x
    <3>1. 1 \in 1 .. n + 1 /\ n + 1 \in 1 .. n + 1
      OBVIOUS
    <3> QED BY <1>2, <1>3, <1>7, <3>1
  <2>2. m = 0 => c = d
    BY <1>1, <1>3
  <2>3. m # 0 => r[1] = c
    BY <1>1, <1>7
  <2> QED BY <2>1, <2>2, <2>3
<1>9. ASSUME NEW i \in 1 .. m + n
      PROVE  /\ r[i + 1] = Rsp!Apply(r[i], gs[i])
             /\ r[i].phase \notin Rsp!FinalTypes
             /\ tidy => Rsp!Legal(r[i], gs[i])
  <2>1. CASE i \in 1 .. m
    <3>1. r[i] = p[i] /\ gs[i] = es[i]
      BY <1>5, <1>7, <2>1
    <3>2. r[i + 1] = p[i + 1]
      <4>1. CASE i = m
        BY <1>1, <1>3, <1>8, <4>1
      <4>2. CASE i # m
        <5>1. i + 1 \in 1 .. m
          BY <2>1, <4>2
        <5> QED BY <1>7, <5>1
      <4> QED BY <4>1, <4>2
    <3> QED BY <1>1, <1>3, <2>1, <3>1, <3>2
  <2>2. CASE i \notin 1 .. m
    <3>1. PICK j \in 1 .. n : i = m + j
      <4>1. i - m \in 1 .. n /\ i = m + (i - m)
        BY <2>2
      <4> QED BY <4>1
    <3>2. r[i] = q[j] /\ gs[i] = fs[j]
      BY <1>5, <1>7, <3>1
    <3>3. r[i + 1] = q[j + 1]
      <4>1. j + 1 \in 1 .. n + 1 /\ i + 1 = m + (j + 1)
        BY <3>1
      <4> QED BY <1>7, <4>1
    <3> QED BY <1>2, <1>3, <3>2, <3>3
  <2> QED BY <2>1, <2>2
<1>10. Runs(c, gs, x, tidy)
  BY <1>5, <1>8, <1>9 DEF Runs
<1> QED BY <1>4, <1>10

-----------------------------------------------------------------------------
(* What an event does to a client.                                         *)

(* d is c with the items given, after e.                                   *)
Seen(c, e, d, items) ==
    d \in Clients /\ d.items = items /\ d.phase = c.phase /\ d.last = e

LatestAt(items, id, k) ==
    /\ k \in 1 .. Len(items) /\ items[k].id = id
    /\ \A i \in 1 .. Len(items) : items[i].id = id => i <= k

LEMMA Located ==
  ASSUME NEW c, NEW id, NEW k, c.items \in Seq(Items), LatestAt(c.items, id, k)
  PROVE  Rsp!Positions(c, id) # {} /\ Rsp!Position(c, id) = k
<1>1. k \in Rsp!Positions(c, id) /\ \A j \in Rsp!Positions(c, id) : j <= k /\ j \in Nat
  BY DEF LatestAt, Rsp!Positions
<1>2. PICK x : x = Rsp!Position(c, id)
  OBVIOUS
<1>3. x \in Rsp!Positions(c, id) /\ \A j \in Rsp!Positions(c, id) : j <= x
  BY <1>1, <1>2 DEF Rsp!Position
<1>4. k <= x /\ x <= k /\ x \in Nat /\ k \in Nat
  BY <1>1, <1>3
<1> QED BY <1>1, <1>2, <1>4

LEMMA Typed ==
  ASSUME NEW id \in ItemIds, NEW t \in Rsp!ItemTypes, NEW f \in Fragments, NEW n \in Nat,
         NEW content \in Seq(Fragments)
  PROVE  /\ Rsp!ItemAdded(n, id, t) \in Rsp!Events /\ Rsp!ItemAdded(None, id, t) \in Rsp!Events
         /\ Rsp!PartAdded(id, n) \in Rsp!Events /\ Rsp!PartDone(id, n) \in Rsp!Events
         /\ Rsp!Delta(id, t, f) \in Rsp!Events /\ Rsp!ContentDone(id, content) \in Rsp!Events
         /\ Rsp!ItemDone(n, id, t, content) \in Rsp!Events
<1>1. Rsp!ItemAdded(n, id, t) \in Rsp!Events /\ Rsp!ItemAdded(None, id, t) \in Rsp!Events
  <2>1. ASSUME NEW index \in Nat \cup {None} PROVE Rsp!ItemAdded(index, id, t) \in Rsp!Events
    BY DEF Rsp!Events, Rsp!ItemAdded
  <2> QED BY <2>1
<1>2. Rsp!PartAdded(id, n) \in Rsp!Events /\ Rsp!PartDone(id, n) \in Rsp!Events
  BY DEF Rsp!Events, Rsp!PartAdded, Rsp!PartDone
<1>3. Rsp!Delta(id, t, f) \in Rsp!Events
  BY DEF Rsp!Events, Rsp!Delta
<1>4. Rsp!ContentDone(id, content) \in Rsp!Events
  BY DEF Rsp!Events, Rsp!ContentDone
<1>5. Rsp!ItemDone(n, id, t, content) \in Rsp!Events
  BY DEF Rsp!Events, Rsp!ItemDone
<1> QED BY <1>1, <1>2, <1>3, <1>4, <1>5

LEMMA AddedSeen ==
  ASSUME NEW c \in Clients, NEW e \in Rsp!Events, e.type = "item.added"
  PROVE  Seen(c, e, Rsp!Apply(c, e), Append(c.items, [id |-> e.id, type |-> e.item, part |-> "none",
                                                      content |-> <<>>, done |-> FALSE]))
<1>1. e.id \in ItemIds /\ e.item \in Rsp!ItemTypes
  BY DEF Rsp!Events, Rsp!FinalTypes
<1>2. PICK it : it = [id |-> e.id, type |-> e.item, part |-> "none", content |-> <<>>, done |-> FALSE]
  OBVIOUS
<1>3. it \in Items
  BY <1>1, <1>2 DEF Items
<1>4. Rsp!Apply(c, e) = [[c EXCEPT !.last = e] EXCEPT !.items = Append(c.items, it)]
  BY <1>2 DEF Rsp!Apply, Rsp!FinalTypes
<1>5. Append(c.items, it) \in Seq(Items)
  BY <1>3 DEF Clients
<1> QED BY <1>2, <1>4, <1>5 DEF Seen, Clients

LEMMA ChangeSeen ==
  ASSUME NEW c \in Clients, NEW e \in Rsp!Events, NEW k, LatestAt(c.items, e.id, k), NEW it \in Items
  PROVE  Seen(c, e, Rsp!Change([c EXCEPT !.last = e], e, it), [c.items EXCEPT ![k] = it])
<1>1. PICK b : b = [c EXCEPT !.last = e]
  OBVIOUS
<1>2. b \in Clients /\ b.items = c.items /\ b.phase = c.phase /\ b.last = e
  BY <1>1 DEF Clients
<1>3. c.items \in Seq(Items) /\ k \in 1 .. Len(c.items)
  BY DEF Clients, LatestAt
<1>4. Rsp!Positions(b, e.id) # {} /\ Rsp!Position(b, e.id) = k
  BY <1>2, <1>3, Located
<1>5. PICK items : items = [c.items EXCEPT ![k] = it]
  OBVIOUS
<1>6. items \in Seq(Items)
  BY <1>3, <1>5, ExceptSeq
<1>7. Rsp!Change(b, e, it) = [b EXCEPT !.items = items]
  BY <1>2, <1>4, <1>5 DEF Rsp!Change, Clients
<1>8. PICK d : d = [b EXCEPT !.items = items]
  OBVIOUS
<1>9. d \in Clients /\ d.items = items /\ d.phase = b.phase /\ d.last = b.last
  BY <1>2, <1>6, <1>8 DEF Clients
<1> QED BY <1>1, <1>2, <1>5, <1>7, <1>8, <1>9 DEF Seen

Grown(it, f) == [it EXCEPT !.content = Append(it.content, f)]

LEMMA ContentGrown ==
  ASSUME NEW it \in Items, NEW f \in Fragments
  PROVE  /\ Grown(it, f) \in Items /\ Grown(it, f).content = Append(it.content, f)
         /\ Grown(it, f).id = it.id /\ Grown(it, f).type = it.type
         /\ Grown(it, f).part = it.part /\ Grown(it, f).done = it.done
<1>1. Append(it.content, f) \in Seq(Fragments)
  BY DEF Items
<1> QED BY <1>1 DEF Items, Grown

LEMMA ItemFinished ==
  ASSUME NEW it \in Items, NEW t \in Rsp!ItemTypes
  PROVE  [it EXCEPT !.done = TRUE, !.type = t] \in Items
BY DEF Items

LEMMA ItemAt ==
  ASSUME NEW c \in Clients, NEW id, NEW k, LatestAt(c.items, id, k)
  PROVE  /\ c.items \in Seq(Items) /\ c.items[k] \in Items
         /\ Rsp!Position(c, id) = k /\ Rsp!Positions(c, id) # {} /\ k \in 1 .. Len(c.items)
BY Located DEF Clients, LatestAt

LEMMA PartAddedSeen ==
  ASSUME NEW c \in Clients, NEW e \in Rsp!Events, e.type = "part.added", NEW k, LatestAt(c.items, e.id, k)
  PROVE  Seen(c, e, Rsp!Apply(c, e), [c.items EXCEPT ![k] = [@ EXCEPT !.part = "open"]])
<1>1. c.items[k] \in Items /\ Rsp!Position(c, e.id) = k
  BY ItemAt
<1>2. PICK it \in Items : it = [c.items[k] EXCEPT !.part = "open"]
  BY <1>1 DEF Items
<1>3. Rsp!Apply(c, e) = Rsp!Change([c EXCEPT !.last = e], e, it)
  BY <1>1, <1>2 DEF Rsp!Apply, Rsp!FinalTypes
<1>4. [c.items EXCEPT ![k] = [@ EXCEPT !.part = "open"]] = [c.items EXCEPT ![k] = it]
  BY <1>2
<1> QED BY <1>3, <1>4, ChangeSeen

LEMMA PartDoneSeen ==
  ASSUME NEW c \in Clients, NEW e \in Rsp!Events, e.type = "part.done", NEW k, LatestAt(c.items, e.id, k)
  PROVE  Seen(c, e, Rsp!Apply(c, e), [c.items EXCEPT ![k] = [@ EXCEPT !.part = "done"]])
<1>1. c.items[k] \in Items /\ Rsp!Position(c, e.id) = k
  BY ItemAt
<1>2. PICK it \in Items : it = [c.items[k] EXCEPT !.part = "done"]
  BY <1>1 DEF Items
<1>3. Rsp!Apply(c, e) = Rsp!Change([c EXCEPT !.last = e], e, it)
  BY <1>1, <1>2 DEF Rsp!Apply, Rsp!FinalTypes
<1>4. [c.items EXCEPT ![k] = [@ EXCEPT !.part = "done"]] = [c.items EXCEPT ![k] = it]
  BY <1>2
<1> QED BY <1>3, <1>4, ChangeSeen

LEMMA DeltaSeen ==
  ASSUME NEW c \in Clients, NEW e \in Rsp!Events, e.type = "delta", e.fragment \in Fragments,
         NEW k, LatestAt(c.items, e.id, k)
  PROVE  Seen(c, e, Rsp!Apply(c, e), [c.items EXCEPT ![k] = Grown(c.items[k], e.fragment)])
<1>1. c.items[k] \in Items /\ Rsp!Position(c, e.id) = k
  BY ItemAt
<1>2. PICK it : it = Grown(c.items[k], e.fragment)
  OBVIOUS
<1>3. it \in Items
  BY <1>1, <1>2, ContentGrown
<1>4. Rsp!Apply(c, e) = Rsp!Change([c EXCEPT !.last = e], e, it)
  BY <1>1, <1>2 DEF Rsp!Apply, Rsp!FinalTypes, Grown
<1> QED BY <1>2, <1>3, <1>4, ChangeSeen

LEMMA ItemDoneSeen ==
  ASSUME NEW c \in Clients, NEW e \in Rsp!Events, e.type = "item.done", NEW k, LatestAt(c.items, e.id, k)
  PROVE  Seen(c, e, Rsp!Apply(c, e), [c.items EXCEPT ![k] = [@ EXCEPT !.done = TRUE, !.type = e.item]])
<1>1. c.items[k] \in Items /\ Rsp!Position(c, e.id) = k
  BY ItemAt
<1>2. PICK t \in Rsp!ItemTypes : t = e.item
  BY DEF Rsp!Events, Rsp!FinalTypes
<1>3. PICK it \in Items : it = [c.items[k] EXCEPT !.done = TRUE, !.type = t]
  BY <1>1, ItemFinished
<1>4. Rsp!Apply(c, e) = Rsp!Change([c EXCEPT !.last = e], e, it)
  BY <1>1, <1>2, <1>3 DEF Rsp!Apply, Rsp!FinalTypes
<1>5. [c.items EXCEPT ![k] = [@ EXCEPT !.done = TRUE, !.type = e.item]] = [c.items EXCEPT ![k] = it]
  BY <1>2, <1>3
<1> QED BY <1>4, <1>5, ChangeSeen

LEMMA ContentDoneSeen ==
  ASSUME NEW c \in Clients, NEW e \in Rsp!Events, e.type = "content.done"
  PROVE  Seen(c, e, Rsp!Apply(c, e), c.items)
<1>1. Rsp!Apply(c, e) = [c EXCEPT !.last = e]
  BY DEF Rsp!Apply, Rsp!FinalTypes
<1> QED BY <1>1 DEF Seen, Clients

LEMMA FinalSeen ==
  ASSUME NEW c \in Clients, NEW t \in Rsp!FinalTypes, NEW status \in Rsp!Statuses,
         NEW output \in Seq(Rsp!OutputItems)
  PROVE  /\ Rsp!Final(t, status, output) \in Rsp!Events
         /\ Rsp!Apply(c, Rsp!Final(t, status, output)) \in Clients
         /\ Rsp!Apply(c, Rsp!Final(t, status, output)).items = c.items
         /\ Rsp!Apply(c, Rsp!Final(t, status, output)).phase = t
         /\ Rsp!Apply(c, Rsp!Final(t, status, output)).status = status
         /\ Rsp!Apply(c, Rsp!Final(t, status, output)).last = Rsp!Final(t, status, output)
<1>1. PICK e : e = Rsp!Final(t, status, output)
  OBVIOUS
<1>2. e.type = t /\ e.status = status /\ e.output = output
  BY <1>1 DEF Rsp!Final
<1>3. e \in Rsp!Events
  BY <1>1 DEF Rsp!Final, Rsp!Events
<1>4. PICK d : d = [c EXCEPT !.last = e, !.phase = t, !.status = status, !.output = output]
  OBVIOUS
<1>5. d \in Clients /\ d.items = c.items /\ d.phase = t /\ d.status = status /\ d.last = e
  BY <1>3, <1>4 DEF Clients
<1>6. Rsp!Apply(c, e) = d
  BY <1>2, <1>4 DEF Rsp!Apply, Rsp!FinalTypes, Clients
<1> QED BY <1>1, <1>3, <1>5, <1>6

-----------------------------------------------------------------------------
(* The content of the items of a type, taken together.                     *)

LEMMA LastApart ==
  ASSUME NEW X, NEW s \in Seq(X), NEW n \in Nat, Len(s) = n + 1
  PROVE  /\ SubSeq(s, 1, n) \in Seq(X) /\ Len(SubSeq(s, 1, n)) = n
         /\ \A i \in 1 .. n : SubSeq(s, 1, n)[i] = s[i]
         /\ s = Append(SubSeq(s, 1, n), s[n + 1]) /\ s[n + 1] \in X
<1>1. PICK r : r = SubSeq(s, 1, n)
  OBVIOUS
<1>2. r \in Seq(X) /\ Len(r) = n /\ \A i \in 1 .. n : r[i] = s[i]
  BY <1>1
<1>3. s[n + 1] \in X
  OBVIOUS
<1>4. PICK q : q = Append(r, s[n + 1])
  OBVIOUS
<1>5. q \in Seq(X) /\ Len(q) = n + 1 /\ \A i \in 1 .. n + 1 : q[i] = s[i]
  BY <1>2, <1>3, <1>4
<1>6. q = s
  BY <1>5, SeqEqual
<1> QED BY <1>1, <1>2, <1>3, <1>4, <1>6

GrownAt(s, v, n, k, f) ==
    /\ Len(s) = n /\ Len(v) = n /\ k \in 1 .. n
    /\ v[k] = Append(s[k], f)
    /\ \A i \in 1 .. n : i # k => v[i] = s[i]
    /\ \A i \in 1 .. n : i > k => s[i] = <<>>

LEMMA FlattenGrown ==
  ASSUME NEW X, NEW f \in X
  PROVE  \A n \in Nat : \A s, v \in Seq(Seq(X)) : \A k \in 1 .. n :
            GrownAt(s, v, n, k, f) => FlattenSeq(v) = Append(FlattenSeq(s), f)
<1>1. PICK T : T = {n \in Nat : \A s, v \in Seq(Seq(X)) : \A k \in 1 .. n :
                       GrownAt(s, v, n, k, f) => FlattenSeq(v) = Append(FlattenSeq(s), f)}
  OBVIOUS
<1>2. 0 \in T
  BY <1>1
<1>3. ASSUME NEW n \in Nat, n \in T
      PROVE  n + 1 \in T
  <2>1. SUFFICES ASSUME NEW s \in Seq(Seq(X)), NEW v \in Seq(Seq(X)), NEW k \in 1 .. n + 1,
                        GrownAt(s, v, n + 1, k, f)
                 PROVE  FlattenSeq(v) = Append(FlattenSeq(s), f)
    BY <1>1
  <2>2. Len(s) = n + 1 /\ Len(v) = n + 1 /\ v[k] = Append(s[k], f)
    BY <2>1 DEF GrownAt
  <2>3. PICK r : r = SubSeq(s, 1, n)
    OBVIOUS
  <2>4. PICK w : w = SubSeq(v, 1, n)
    OBVIOUS
  <2>5. PICK a \in Seq(X) : a = s[n + 1]
    BY <2>2, LastApart
  <2>6. PICK b \in Seq(X) : b = v[n + 1]
    BY <2>2, LastApart
  <2>7. r \in Seq(Seq(X)) /\ Len(r) = n /\ (\A i \in 1 .. n : r[i] = s[i]) /\ s = Append(r, a)
    BY SMTT(60), <2>2, <2>3, <2>5, LastApart
  <2>8. w \in Seq(Seq(X)) /\ Len(w) = n /\ (\A i \in 1 .. n : w[i] = v[i]) /\ v = Append(w, b)
    BY <2>2, <2>4, <2>6, LastApart
  <2>9. /\ FlattenSeq(s) = FlattenSeq(r) \o a /\ FlattenSeq(v) = FlattenSeq(w) \o b
        /\ FlattenSeq(r) \in Seq(X) /\ FlattenSeq(w) \in Seq(X)
    BY <2>7, <2>8, FlattenSnoc
  <2>10. CASE k = n + 1
    <3>1. \A i \in 1 .. n : w[i] = r[i]
      BY <2>1, <2>7, <2>8, <2>10 DEF GrownAt
    <3>2. w = r
      BY <2>7, <2>8, <3>1, SeqEqual
    <3>3. b = Append(a, f)
      BY <2>2, <2>5, <2>6, <2>10
    <3>4. PICK q \in Seq(X) : q = FlattenSeq(r)
      BY <2>9
    <3>5. q \o Append(a, f) = Append(q \o a, f)
      OBVIOUS
    <3> QED BY <2>9, <3>2, <3>3, <3>4, <3>5
  <2>11. CASE k # n + 1
    <3>1. k \in 1 .. n
      BY <2>11
    <3>2. a = <<>> /\ b = <<>>
      <4>1. n + 1 \in 1 .. n + 1 /\ n + 1 > k
        BY <3>1
      <4> QED BY <2>1, <2>5, <2>6, <2>11, <4>1 DEF GrownAt
    <3>3. GrownAt(r, w, n, k, f)
      <4>1. w[k] = Append(r[k], f)
        BY <2>2, <2>7, <2>8, <3>1
      <4>2. ASSUME NEW i \in 1 .. n, i # k PROVE w[i] = r[i]
        <5>1. i \in 1 .. n + 1
          OBVIOUS
        <5>2. v[i] = s[i]
          BY <2>1, <4>2, <5>1 DEF GrownAt
        <5> QED BY <2>7, <2>8, <5>2
      <4>3. ASSUME NEW i \in 1 .. n, i > k PROVE r[i] = <<>>
        <5>1. i \in 1 .. n + 1
          OBVIOUS
        <5>2. s[i] = <<>>
          BY <2>1, <4>3, <5>1 DEF GrownAt
        <5> QED BY <2>7, <5>2
      <4> QED BY <2>7, <2>8, <3>1, <4>1, <4>2, <4>3 DEF GrownAt
    <3>4. FlattenSeq(w) = Append(FlattenSeq(r), f)
      BY <1>1, <1>3, <2>7, <2>8, <3>1, <3>3
    <3>5. FlattenSeq(r) \o <<>> = FlattenSeq(r) /\ FlattenSeq(w) \o <<>> = FlattenSeq(w)
      BY <2>9
    <3> QED BY <2>9, <3>2, <3>4, <3>5
  <2> QED BY <2>10, <2>11
<1>4. Nat \subseteq T
  BY <1>2, <1>3, Induction
<1> QED BY <1>1, <1>4

Contents1(items, t) == [i \in DOMAIN items |-> ContentAs(items[i], t)]

LEMMA ContentsTyped ==
  ASSUME NEW items \in Seq(Items), NEW t
  PROVE  /\ Contents1(items, t) \in Seq(Seq(Fragments))
         /\ Len(Contents1(items, t)) = Len(items)
         /\ \A i \in 1 .. Len(items) : Contents1(items, t)[i] = ContentAs(items[i], t)
         /\ Flat(items, t) = FlattenSeq(Contents1(items, t))
<1>1. ASSUME NEW i \in 1 .. Len(items) PROVE ContentAs(items[i], t) \in Seq(Fragments)
  <2>1. items[i] \in Items
    OBVIOUS
  <2>2. items[i].content \in Seq(Fragments)
    BY <2>1 DEF Items
  <2>3. <<>> \in Seq(Fragments)
    OBVIOUS
  <2> QED BY <2>2, <2>3 DEF ContentAs
<1>2. PICK n \in Nat : n = Len(items)
  OBVIOUS
<1>3. PICK s : s = [i \in 1 .. n |-> ContentAs(items[i], t)]
  OBVIOUS
<1>4. s \in Seq(Seq(Fragments)) /\ Len(s) = n /\ \A i \in 1 .. n : s[i] = ContentAs(items[i], t)
  BY <1>1, <1>2, <1>3
<1>5. DOMAIN items = 1 .. n
  BY <1>2
<1>6. Contents1(items, t) = s
  BY <1>3, <1>5 DEF Contents1
<1> QED BY <1>2, <1>4, <1>6 DEF Flat, Contents1

LEMMA FlatSame ==
  ASSUME NEW items \in Seq(Items), NEW others \in Seq(Items), NEW t, Len(items) = Len(others),
         \A i \in 1 .. Len(items) : ContentAs(items[i], t) = ContentAs(others[i], t)
  PROVE  Flat(items, t) = Flat(others, t)
<1>1. PICK s : s = Contents1(items, t)
  OBVIOUS
<1>2. PICK v : v = Contents1(others, t)
  OBVIOUS
<1>3. /\ s \in Seq(Seq(Fragments)) /\ Len(s) = Len(items) /\ Flat(items, t) = FlattenSeq(s)
      /\ \A i \in 1 .. Len(items) : s[i] = ContentAs(items[i], t)
  BY <1>1, ContentsTyped
<1>4. /\ v \in Seq(Seq(Fragments)) /\ Len(v) = Len(others) /\ Flat(others, t) = FlattenSeq(v)
      /\ \A i \in 1 .. Len(others) : v[i] = ContentAs(others[i], t)
  BY <1>2, ContentsTyped
<1>5. s = v
  BY <1>3, <1>4, SeqEqual
<1> QED BY <1>3, <1>4, <1>5

LEMMA FlatNone ==
  ASSUME NEW t
  PROVE  Flat(<<>>, t) = <<>>
<1>1. [i \in DOMAIN <<>> |-> ContentAs(<<>>[i], t)] = <<>>
  OBVIOUS
<1> QED BY <1>1, FlattenEmpty DEF Flat

LEMMA FlatAdded ==
  ASSUME NEW items \in Seq(Items), NEW it \in Items, it.content = <<>>, NEW t
  PROVE  Flat(Append(items, it), t) = Flat(items, t)
<1>1. PICK more : more = Append(items, it)
  OBVIOUS
<1>2. PICK n \in Nat : n = Len(items)
  OBVIOUS
<1>3. more \in Seq(Items) /\ Len(more) = n + 1 /\ more[n + 1] = it /\ \A i \in 1 .. n : more[i] = items[i]
  BY <1>1, <1>2
<1>4. PICK s : s = Contents1(items, t)
  OBVIOUS
<1>5. PICK v : v = Contents1(more, t)
  OBVIOUS
<1>6. /\ s \in Seq(Seq(Fragments)) /\ Len(s) = n /\ Flat(items, t) = FlattenSeq(s)
      /\ \A i \in 1 .. n : s[i] = ContentAs(items[i], t)
  BY <1>2, <1>4, ContentsTyped
<1>7. /\ v \in Seq(Seq(Fragments)) /\ Len(v) = n + 1 /\ Flat(more, t) = FlattenSeq(v)
      /\ \A i \in 1 .. n + 1 : v[i] = ContentAs(more[i], t)
  BY <1>3, <1>5, ContentsTyped
<1>8. ContentAs(it, t) = <<>>
  BY DEF ContentAs
<1>9. PICK w : w = Append(s, <<>>)
  OBVIOUS
<1>10. w \in Seq(Seq(Fragments)) /\ Len(w) = n + 1 /\ w[n + 1] = <<>> /\ \A i \in 1 .. n : w[i] = s[i]
  <2>1. <<>> \in Seq(Fragments)
    OBVIOUS
  <2> QED BY <1>6, <1>9, <2>1
<1>11. \A i \in 1 .. n + 1 : v[i] = w[i]
  <2>1. v[n + 1] = <<>>
    BY <1>3, <1>7, <1>8
  <2>2. ASSUME NEW i \in 1 .. n PROVE v[i] = w[i]
    BY <1>3, <1>6, <1>7, <1>10
  <2> QED BY <1>10, <2>1, <2>2
<1>12. v = w
  BY <1>7, <1>10, <1>11, SeqEqual
<1>13. FlattenSeq(s) \in Seq(Fragments) /\ FlattenSeq(w) = FlattenSeq(s) \o <<>>
  <2>1. <<>> \in Seq(Fragments)
    OBVIOUS
  <2> QED BY <1>6, <1>9, <2>1, FlattenSnoc
<1>14. FlattenSeq(w) = FlattenSeq(s)
  BY <1>13
<1> QED BY <1>1, <1>6, <1>7, <1>12, <1>14

(* more is items with item k replaced by it.                               *)
Replaced(items, more, k, it) ==
    /\ more \in Seq(Items) /\ Len(more) = Len(items) /\ more[k] = it
    /\ \A i \in 1 .. Len(items) : i # k => more[i] = items[i]

LEMMA ReplacedBy ==
  ASSUME NEW items \in Seq(Items), NEW k \in 1 .. Len(items), NEW it \in Items
  PROVE  Replaced(items, [items EXCEPT ![k] = it], k, it)
<1>1. PICK more : more = [items EXCEPT ![k] = it]
  OBVIOUS
<1>2. more \in Seq(Items) /\ Len(more) = Len(items) /\ more[k] = it
  BY <1>1, ExceptSeq
<1>3. \A i \in 1 .. Len(items) : i # k => more[i] = items[i]
  BY <1>1
<1> QED BY <1>1, <1>2, <1>3 DEF Replaced

LEMMA FlatGrown ==
  ASSUME NEW items \in Seq(Items), NEW k \in 1 .. Len(items), NEW f \in Fragments, NEW t,
         items[k].type = t, \A i \in 1 .. Len(items) : items[i].type = t => i <= k,
         NEW more \in Seq(Items), Replaced(items, more, k, Grown(items[k], f))
  PROVE  /\ Flat(more, t) = Append(Flat(items, t), f)
         /\ \A u : u # t => Flat(more, u) = Flat(items, u)
<1>1. PICK n \in Nat : n = Len(items)
  OBVIOUS
<1>2. items[k] \in Items
  OBVIOUS
<1>3. /\ Len(more) = n /\ more[k] = Grown(items[k], f) /\ \A i \in 1 .. n : i # k => more[i] = items[i]
  BY <1>1 DEF Replaced
<1>4. more[k].type = t /\ more[k].content = Append(items[k].content, f)
  BY <1>2, <1>3, ContentGrown
<1>5. ASSUME NEW u, u # t
      PROVE  Flat(more, u) = Flat(items, u)
  <2>1. ASSUME NEW i \in 1 .. n PROVE ContentAs(more[i], u) = ContentAs(items[i], u)
    <3>1. CASE i = k
      BY <1>4, <1>5, <3>1 DEF ContentAs
    <3>2. CASE i # k
      BY <1>3, <3>2
    <3> QED BY <3>1, <3>2
  <2>2. Len(more) = Len(items) /\ \A i \in 1 .. Len(more) : ContentAs(more[i], u) = ContentAs(items[i], u)
    BY <1>1, <1>3, <2>1
  <2> QED BY <2>2, FlatSame
<1>6. PICK s : s = Contents1(items, t)
  OBVIOUS
<1>7. PICK v : v = Contents1(more, t)
  OBVIOUS
<1>8. Len(more) = n
  BY <1>3
<1>9. /\ s \in Seq(Seq(Fragments)) /\ Len(s) = n /\ Flat(items, t) = FlattenSeq(s)
      /\ \A i \in 1 .. n : s[i] = ContentAs(items[i], t)
  BY <1>1, <1>6, ContentsTyped
<1>10. /\ v \in Seq(Seq(Fragments)) /\ Len(v) = n /\ Flat(more, t) = FlattenSeq(v)
      /\ \A i \in 1 .. n : v[i] = ContentAs(more[i], t)
  <2>1. /\ v \in Seq(Seq(Fragments)) /\ Len(v) = Len(more) /\ Flat(more, t) = FlattenSeq(v)
        /\ \A i \in 1 .. Len(more) : v[i] = ContentAs(more[i], t)
    BY <1>7, ContentsTyped, Zenon
  <2> QED BY <1>8, <2>1
<1>11. GrownAt(s, v, n, k, f)
  <2>1. v[k] = Append(s[k], f)
    BY <1>1, <1>4, <1>9, <1>10 DEF ContentAs
  <2>2. ASSUME NEW i \in 1 .. n, i # k PROVE v[i] = s[i]
    BY <1>3, <1>9, <1>10, <2>2
  <2>3. ASSUME NEW i \in 1 .. n, i > k PROVE s[i] = <<>>
    <3>1. items[i].type # t
      BY <1>1, <2>3
    <3> QED BY <1>9, <3>1 DEF ContentAs
  <2> QED BY <1>1, <1>9, <1>10, <2>1, <2>2, <2>3 DEF GrownAt
<1>12. FlattenSeq(v) = Append(FlattenSeq(s), f)
  BY <1>1, <1>9, <1>10, <1>11, FlattenGrown
<1> QED BY <1>5, <1>9, <1>10, <1>12

-----------------------------------------------------------------------------
(* Mirrors, after what a handler does to the converter and its event to the *)
(* items: an item opened, with a part or for a call, and one grown.         *)

NewItem(id, t, part) == [id |-> id, type |-> t, part |-> part, content |-> <<>>, done |-> FALSE]

SameParts(s, r) ==
    \A t \in Parted : Ix(r, t) = Ix(s, t) /\ Acc(r, t) = Acc(s, t) /\ PartId(r, t) = PartId(s, t)

SameCalls(s, r) == r.toolCallByIndex = s.toolCallByIndex

SameOutput(s, r) == r.output = s.output /\ r.itemIndex = s.itemIndex

MoreOutput(s, r, id, t) ==
    /\ r.itemIndex = s.itemIndex + 1
    /\ \E out \in Rsp!OutputItems : out.id = id /\ out.type = t /\ r.output = Append(s.output, out)

OpensPart(s, r, t) ==
    /\ MoreOutput(s, r, PartId(s, t), t) /\ SameCalls(s, r)
    /\ \A u \in Parted : Acc(r, u) = Acc(s, u) /\ PartId(r, u) = PartId(s, u)
    /\ Ix(r, t) = Len(s.output) /\ \A u \in Parted \ {t} : Ix(r, u) = Ix(s, u)

OpensCall(s, r, c) ==
    /\ MoreOutput(s, r, CallId(c), "function_call") /\ SameParts(s, r)
    /\ r.toolCallByIndex[c] = [args |-> <<>>, itemIx |-> Len(s.output)]
    /\ \A b \in Calls \ {c} : r.toolCallByIndex[b] = s.toolCallByIndex[b]

GrowsPart(s, r, t, f) ==
    /\ SameOutput(s, r) /\ SameCalls(s, r)
    /\ \A u \in Parted : Ix(r, u) = Ix(s, u) /\ PartId(r, u) = PartId(s, u)
    /\ Acc(r, t) = Append(Acc(s, t), f) /\ \A u \in Parted \ {t} : Acc(r, u) = Acc(s, u)

GrowsCall(s, r, c, f) ==
    /\ SameOutput(s, r) /\ SameParts(s, r)
    /\ r.toolCallByIndex[c] = [args |-> Append(s.toolCallByIndex[c].args, f),
                               itemIx |-> s.toolCallByIndex[c].itemIx]
    /\ \A b \in Calls \ {c} : r.toolCallByIndex[b] = s.toolCallByIndex[b]

LEMMA Appended ==
  ASSUME NEW X, NEW q \in Seq(X), NEW x \in X, NEW n \in Nat, n = Len(q)
  PROVE  /\ Append(q, x) \in Seq(X) /\ Len(Append(q, x)) = n + 1
         /\ Append(q, x)[n + 1] = x /\ \A i \in 1 .. n : Append(q, x)[i] = q[i]
OBVIOUS

LEMMA CallStateFacts ==
  ASSUME NEW args \in Seq(Fragments), NEW n \in Nat
  PROVE  /\ [args |-> args, itemIx |-> n] \in CallStates
         /\ [args |-> args, itemIx |-> n] # None
<1>1. [args |-> args, itemIx |-> n] \in CallStates
  BY DEF CallStates
<1> QED BY <1>1, NoneAssumption

LEMMA KnownState ==
  ASSUME NEW s \in Converters, NEW c \in Known(s)
  PROVE  /\ c \in Calls /\ s.toolCallByIndex[c] \in CallStates
         /\ s.toolCallByIndex[c].args \in Seq(Fragments) /\ s.toolCallByIndex[c].itemIx \in Nat
         /\ s.toolCallByIndex[c] # None
<1>1. c \in Calls /\ s.toolCallByIndex[c] # None
  BY DEF Known
<1>2. s.toolCallByIndex[c] \in CallStates \cup {None}
  BY <1>1 DEF Converters
<1> QED BY <1>1, <1>2 DEF CallStates

LEMMA IxTyped ==
  ASSUME NEW s \in Converters, NEW t
  PROVE  Ix(s, t) \in Nat \cup {-1} /\ Acc(s, t) \in Seq(Fragments)
BY DEF Ix, Acc, Converters

LEMMA NewItemTyped ==
  ASSUME NEW id \in ItemIds, NEW t \in Rsp!ItemTypes, NEW part \in {"none", "open", "done"}
  PROVE  /\ NewItem(id, t, part) \in Items
         /\ NewItem(id, t, part).id = id /\ NewItem(id, t, part).type = t
         /\ NewItem(id, t, part).part = part /\ NewItem(id, t, part).content = <<>>
         /\ NewItem(id, t, part).done = FALSE
BY DEF NewItem, Items

LEMMA IdsTyped ==
  ASSUME NEW s \in Converters
  PROVE  /\ \A t \in Parted : PartId(s, t) \in ItemIds
         /\ \A c \in Calls : CallId(c) \in ItemIds
         /\ PartId(s, "message") = MsgId(s) /\ PartId(s, "reasoning") = ReasonId(s)
<1>1. s.responseId \in ResponseIds
  BY DEF Converters
<1>2. MsgId(s) \in ItemIds /\ ReasonId(s) \in ItemIds
  BY <1>1 DEF MsgId, ReasonId, ItemIds
<1>3. ASSUME NEW c \in Calls PROVE CallId(c) \in ItemIds
  BY DEF CallId, ItemIds
<1> QED BY <1>2, <1>3 DEF PartId, Parted

(* The ids of the items of a stream tell their types apart.                *)
LEMMA IdsApart ==
  ASSUME NEW s \in Converters
  PROVE  /\ MsgId(s) # ReasonId(s)
         /\ \A c \in Calls : \A t \in Parted : CallId(c) # PartId(s, t)
         /\ \A b, c \in Calls : CallId(b) = CallId(c) => b = c
         /\ \A t, u \in Parted : PartId(s, t) = PartId(s, u) => t = u
<1>1. s.responseId \in ResponseIds /\ None \notin ResponseIds
  BY NoneAssumption DEF Converters
<1>2. MsgId(s) # ReasonId(s)
  BY DEF MsgId, ReasonId
<1>3. ASSUME NEW c \in Calls PROVE CallId(c) # MsgId(s) /\ CallId(c) # ReasonId(s)
  BY <1>1 DEF CallId, MsgId, ReasonId
<1>4. \A b, c \in Calls : CallId(b) = CallId(c) => b = c
  BY DEF CallId
<1> QED BY <1>2, <1>3, <1>4 DEF PartId, Parted

LEMMA OutputMore ==
  ASSUME NEW s \in Converters, NEW r \in Converters, NEW id, NEW t, MoreOutput(s, r, id, t)
  PROVE  /\ Len(r.output) = Len(s.output) + 1
         /\ r.output[Len(s.output) + 1].id = id /\ r.output[Len(s.output) + 1].type = t
         /\ \A i \in 1 .. Len(s.output) : r.output[i] = s.output[i]
<1>1. PICK out \in Rsp!OutputItems : out.id = id /\ out.type = t /\ r.output = Append(s.output, out)
  BY DEF MoreOutput
<1>2. s.output \in Seq(Rsp!OutputItems)
  BY DEF Converters
<1> QED BY <1>1, <1>2

LEMMA OpenedNumbered ==
  ASSUME NEW s \in Converters, NEW r \in Converters, NEW t \in Parted, Numbered(s), OpensPart(s, r, t)
  PROVE  Numbered(r)
<1>1. PICK n \in Nat : n = Len(s.output)
  BY DEF Converters
<1>2. /\ Len(r.output) = n + 1 /\ r.itemIndex = s.itemIndex + 1 /\ s.itemIndex = n - 1
      /\ \A i \in 1 .. n : r.output[i] = s.output[i]
  BY <1>1, OutputMore DEF OpensPart, MoreOutput, Numbered
<1>3. ASSUME NEW u \in Parted PROVE Ix(r, u) <= r.itemIndex
  <2>1. Ix(s, u) <= s.itemIndex /\ Ix(s, u) \in Nat \cup {-1}
    BY IxTyped DEF Numbered
  <2>2. CASE u = t
    BY <1>1, <1>2, <2>2 DEF OpensPart
  <2>3. CASE u # t
    BY <1>2, <2>1, <2>3 DEF OpensPart
  <2> QED BY <2>2, <2>3
<1>4. ASSUME NEW c \in Known(r)
      PROVE  /\ r.toolCallByIndex[c].itemIx <= r.itemIndex
             /\ r.output[r.toolCallByIndex[c].itemIx + 1].id = CallId(c)
  <2>1. c \in Known(s) /\ r.toolCallByIndex[c] = s.toolCallByIndex[c]
    BY DEF Known, OpensPart, SameCalls
  <2>2. /\ s.toolCallByIndex[c].itemIx <= s.itemIndex /\ s.toolCallByIndex[c].itemIx \in Nat
        /\ s.output[s.toolCallByIndex[c].itemIx + 1].id = CallId(c)
    BY <2>1, KnownState DEF Numbered
  <2> QED BY <1>2, <2>1, <2>2
<1> QED BY <1>2, <1>3, <1>4 DEF Numbered

LEMMA OpenedMirrors ==
  ASSUME NEW s \in Converters, NEW r \in Converters, NEW t \in Parted, NEW items \in Seq(Items),
         NEW tidy \in BOOLEAN, Numbered(s), Mirrors(s, items, tidy), OpensPart(s, r, t), tidy => Ix(s, t) < 0
  PROVE  Mirrors(r, Append(items, NewItem(PartId(s, t), t, "open")), tidy)
<1>1. PICK n \in Nat : n = Len(items) /\ n = Len(s.output)
  BY DEF Converters, Mirrors, Listed
<1>2. PICK it : it = NewItem(PartId(s, t), t, "open")
  OBVIOUS
<1>3. /\ it \in Items /\ it.id = PartId(s, t) /\ it.type = t /\ it.part = "open" /\ it.content = <<>>
      /\ it.done = FALSE
  <2>1. t \in Rsp!ItemTypes
    BY DEF Parted, Rsp!ItemTypes
  <2>2. PartId(s, t) \in ItemIds
    BY IdsTyped
  <2> QED BY ZenonT(60), <1>2, <2>1, <2>2, NewItemTyped
<1>4. PICK more : more = Append(items, it)
  OBVIOUS
<1>5. more \in Seq(Items) /\ Len(more) = n + 1 /\ more[n + 1] = it /\ \A i \in 1 .. n : more[i] = items[i]
  <2>1. n = Len(items) /\ it \in Items
    BY <1>1, <1>3
  <2> QED BY <1>4, <2>1, Appended
<1>6. Listed(r, more)
  <2>1. /\ Len(r.output) = n + 1 /\ r.output[n + 1].id = PartId(s, t) /\ r.output[n + 1].type = t
        /\ \A i \in 1 .. n : r.output[i] = s.output[i]
    BY <1>1, OutputMore DEF OpensPart
  <2>2. ASSUME NEW i \in 1 .. n PROVE r.output[i].id = more[i].id /\ r.output[i].type = more[i].type
    BY <1>1, <1>5, <2>1 DEF Mirrors, Listed
  <2> QED BY <1>3, <1>5, <2>1, <2>2 DEF Listed
<1>7. /\ Ix(r, t) = n /\ \A u \in Parted : u # t => Ix(r, u) = Ix(s, u)
      /\ \A u \in Parted : Acc(r, u) = Acc(s, u) /\ PartId(r, u) = PartId(s, u)
      /\ Known(r) = Known(s) /\ r.toolCallByIndex = s.toolCallByIndex
  BY <1>1 DEF OpensPart, SameCalls, Known
<1>8. \A u \in Parted : Ix(s, u) < n /\ Ix(s, u) \in Nat \cup {-1}
  <2>1. s.itemIndex = n - 1
    BY <1>1 DEF Numbered
  <2> QED BY <2>1, IxTyped DEF Numbered
<1>9. Placed(r, more)
  <2>1. ASSUME NEW i \in 1 .. n + 1 PROVE OfPart(r, more[i], i) \/ OfCall(r, more[i], i)
    <3>1. CASE i = n + 1
      BY <1>3, <1>5, <1>7, <3>1 DEF OfPart
    <3>2. CASE i # n + 1
      <4>1. i \in 1 .. n /\ more[i] = items[i]
        BY <1>5, <3>2
      <4>2. OfPart(s, items[i], i) \/ OfCall(s, items[i], i)
        BY <1>1, <4>1 DEF Mirrors, Placed
      <4>3. OfPart(s, items[i], i) => OfPart(r, items[i], i)
        <5>1. items[i].type = t => i <= Ix(r, t) + 1
          BY <1>7, <4>1
        <5> QED BY <1>7, <5>1 DEF OfPart
      <4>4. OfCall(s, items[i], i) => OfCall(r, items[i], i)
        BY <1>7 DEF OfCall
      <4> QED BY <4>1, <4>2, <4>3, <4>4
    <3> QED BY <3>1, <3>2
  <2>2. ASSUME NEW u \in Parted, Ix(r, u) >= 0 PROVE more[Ix(r, u) + 1].type = u
    <3>1. CASE u = t
      BY <1>3, <1>5, <1>7, <3>1
    <3>2. CASE u # t
      <4>1. Ix(s, u) >= 0 /\ Ix(s, u) + 1 \in 1 .. n /\ Ix(r, u) = Ix(s, u)
        BY <1>7, <1>8, <2>2, <3>2
      <4>2. items[Ix(s, u) + 1].type = u
        BY <4>1 DEF Mirrors, Placed
      <4> QED BY <1>5, <4>1, <4>2
    <3> QED BY <3>1, <3>2
  <2>3. ASSUME NEW c \in Known(r)
        PROVE  LET x == more[r.toolCallByIndex[c].itemIx + 1] IN
               x.type = "function_call" /\ x.id = CallId(c) /\ x.content = r.toolCallByIndex[c].args
    <3>1. PICK k \in Nat : k = s.toolCallByIndex[c].itemIx
      BY <1>7, KnownState
    <3>2. k + 1 \in 1 .. n
      BY SMTT(60), <1>1, <1>7, <3>1 DEF Numbered
    <3>3. /\ items[k + 1].type = "function_call" /\ items[k + 1].id = CallId(c)
          /\ items[k + 1].content = s.toolCallByIndex[c].args
      BY <1>7, <3>1 DEF Mirrors, Placed
    <3> QED BY <1>5, <1>7, <3>1, <3>2, <3>3
  <2> QED BY <1>5, <2>1, <2>2, <2>3 DEF Placed
<1>10. \A i \in 1 .. Len(more) : Underway(more[i])
  <2>1. Underway(it)
    BY <1>3 DEF Underway
  <2>2. ASSUME NEW i \in 1 .. n PROVE Underway(more[i])
    BY <1>1, <1>5 DEF Mirrors
  <2> QED BY <1>5, <2>1, <2>2
<1>11. ASSUME NEW u \in Parted
       PROVE  Flat(more, u) = Acc(r, u) /\ (Ix(r, u) < 0 => Acc(r, u) = <<>>)
  <2>1. Flat(more, u) = Flat(items, u)
    BY <1>3, <1>4, FlatAdded
  <2>2. Flat(items, u) = Acc(s, u) /\ (Ix(s, u) < 0 => Acc(s, u) = <<>>)
    BY DEF Mirrors
  <2>3. Ix(r, u) < 0 => Ix(s, u) < 0
    BY <1>7, <1>8
  <2> QED BY <1>7, <2>1, <2>2, <2>3
<1>12. ASSUME tidy, NEW u \in Parted
       PROVE  Alone(r, more, u)
  <2>1. Alone(s, items, u) /\ Alone(s, items, t)
    BY <1>12 DEF Mirrors
  <2>2. CASE u = t
    <3>1. Ix(s, t) = -1 /\ Acc(s, t) = <<>>
      <4>1. Ix(s, t) < 0 /\ Ix(s, t) \in Nat \cup {-1}
        BY <1>8, <1>12
      <4> QED BY <4>1 DEF Mirrors
    <3>2. ASSUME NEW i \in 1 .. n PROVE more[i].type # t
      BY <1>1, <1>5, <2>1, <3>1 DEF Alone
    <3>3. \A i \in 1 .. Len(more) : more[i].type = t => i = n + 1
      BY <1>5, <3>2
    <3>4. more[n + 1].content = Acc(r, t)
      BY <1>3, <1>5, <1>7, <3>1
    <3> QED BY <1>7, <2>2, <3>3, <3>4 DEF Alone
  <2>3. CASE u # t
    <3>1. Ix(r, u) = Ix(s, u) /\ Acc(r, u) = Acc(s, u)
      BY <1>7, <2>3
    <3>2. ASSUME NEW i \in 1 .. Len(more), more[i].type = u PROVE i = Ix(r, u) + 1
      <4>1. i \in 1 .. n /\ more[i] = items[i]
        BY <1>3, <1>5, <2>3, <3>2
      <4> QED BY <1>1, <2>1, <3>1, <3>2, <4>1 DEF Alone
    <3>3. ASSUME Ix(r, u) >= 0 PROVE more[Ix(r, u) + 1].content = Acc(r, u)
      <4>1. Ix(s, u) + 1 \in 1 .. n
        BY <1>8, <3>1, <3>3
      <4>2. items[Ix(s, u) + 1].content = Acc(s, u)
        BY <2>1, <3>1, <3>3 DEF Alone
      <4> QED BY <1>5, <3>1, <4>1, <4>2
    <3> QED BY <3>2, <3>3 DEF Alone
  <2> QED BY <2>2, <2>3
<1>13. Mirrors(r, more, tidy)
  BY <1>6, <1>9, <1>10, <1>11, <1>12 DEF Mirrors
<1> QED BY <1>2, <1>4, <1>13

LEMMA CallOpenedNumbered ==
  ASSUME NEW s \in Converters, NEW r \in Converters, NEW c \in Calls, Numbered(s), OpensCall(s, r, c)
  PROVE  Numbered(r)
<1>1. PICK n \in Nat : n = Len(s.output)
  BY DEF Converters
<1>2. /\ Len(r.output) = n + 1 /\ r.itemIndex = s.itemIndex + 1 /\ s.itemIndex = n - 1
      /\ \A i \in 1 .. n : r.output[i] = s.output[i]
      /\ r.output[n + 1].id = CallId(c)
  BY <1>1, OutputMore DEF OpensCall, MoreOutput, Numbered
<1>3. ASSUME NEW u \in Parted PROVE Ix(r, u) <= r.itemIndex
  <2>1. Ix(s, u) <= s.itemIndex /\ Ix(s, u) \in Nat \cup {-1} /\ Ix(r, u) = Ix(s, u)
    BY IxTyped DEF Numbered, OpensCall, SameParts
  <2> QED BY <1>2, <2>1
<1>4. ASSUME NEW b \in Known(r)
      PROVE  /\ r.toolCallByIndex[b].itemIx <= r.itemIndex
             /\ r.output[r.toolCallByIndex[b].itemIx + 1].id = CallId(b)
  <2>1. CASE b = c
    <3>1. r.toolCallByIndex[b].itemIx = n
      BY <1>1, <2>1 DEF OpensCall
    <3> QED BY <1>2, <2>1, <3>1
  <2>2. CASE b # c
    <3>1. b \in Known(s) /\ r.toolCallByIndex[b] = s.toolCallByIndex[b]
      BY <2>2 DEF Known, OpensCall
    <3>2. /\ s.toolCallByIndex[b].itemIx <= s.itemIndex /\ s.toolCallByIndex[b].itemIx \in Nat
          /\ s.output[s.toolCallByIndex[b].itemIx + 1].id = CallId(b)
      BY <3>1, KnownState DEF Numbered
    <3> QED BY SMTT(60), <1>2, <3>1, <3>2
  <2> QED BY <2>1, <2>2
<1> QED BY <1>2, <1>3, <1>4 DEF Numbered

LEMMA CallOpenedMirrors ==
  ASSUME NEW s \in Converters, NEW r \in Converters, NEW c \in Calls \ Known(s), NEW items \in Seq(Items),
         NEW tidy \in BOOLEAN, Numbered(s), Mirrors(s, items, tidy), OpensCall(s, r, c)
  PROVE  Mirrors(r, Append(items, NewItem(CallId(c), "function_call", "none")), tidy)
<1>1. PICK n \in Nat : n = Len(items) /\ n = Len(s.output)
  BY DEF Converters, Mirrors, Listed
<1>2. PICK it : it = NewItem(CallId(c), "function_call", "none")
  OBVIOUS
<1>3. /\ it \in Items /\ it.id = CallId(c) /\ it.type = "function_call" /\ it.part = "none"
      /\ it.content = <<>> /\ it.done = FALSE
  <2>1. "function_call" \in Rsp!ItemTypes
    BY DEF Rsp!ItemTypes
  <2>2. CallId(c) \in ItemIds
    BY IdsTyped
  <2> QED BY <1>2, <2>1, <2>2 DEF NewItem, Items
<1>4. PICK more : more = Append(items, it)
  OBVIOUS
<1>5. more \in Seq(Items) /\ Len(more) = n + 1 /\ more[n + 1] = it /\ \A i \in 1 .. n : more[i] = items[i]
  <2>1. n = Len(items) /\ it \in Items
    BY <1>1, <1>3
  <2> QED BY <1>4, <2>1, Appended
<1>6. Listed(r, more)
  <2>1. /\ Len(r.output) = n + 1 /\ r.output[n + 1].id = CallId(c) /\ r.output[n + 1].type = "function_call"
        /\ \A i \in 1 .. n : r.output[i] = s.output[i]
    BY <1>1, OutputMore DEF OpensCall
  <2>2. ASSUME NEW i \in 1 .. n PROVE r.output[i].id = more[i].id /\ r.output[i].type = more[i].type
    BY <1>1, <1>5, <2>1 DEF Mirrors, Listed
  <2> QED BY <1>3, <1>5, <2>1, <2>2 DEF Listed
<1>7. /\ \A u \in Parted : Ix(r, u) = Ix(s, u) /\ Acc(r, u) = Acc(s, u) /\ PartId(r, u) = PartId(s, u)
      /\ r.toolCallByIndex[c] = [args |-> <<>>, itemIx |-> n]
      /\ \A b \in Calls \ {c} : r.toolCallByIndex[b] = s.toolCallByIndex[b]
  BY <1>1 DEF OpensCall, SameParts
<1>8. /\ \A u \in Parted : Ix(s, u) < n /\ Ix(s, u) \in Nat \cup {-1}
      /\ "function_call" \notin Parted
  <2>1. s.itemIndex = n - 1
    BY <1>1 DEF Numbered
  <2>2. "function_call" \notin Parted
    BY DEF Parted
  <2> QED BY <2>1, <2>2, IxTyped DEF Numbered
<1>9. c \in Known(r) /\ \A b \in Calls : b # c => (b \in Known(r) <=> b \in Known(s))
  <2>1. r.toolCallByIndex[c] # None
    <3>1. <<>> \in Seq(Fragments)
      OBVIOUS
    <3> QED BY <1>7, <3>1, CallStateFacts
  <2> QED BY <1>7, <2>1 DEF Known
<1>10. Placed(r, more)
  <2>1. ASSUME NEW i \in 1 .. n + 1 PROVE OfPart(r, more[i], i) \/ OfCall(r, more[i], i)
    <3>1. CASE i = n + 1
      <4>1. r.toolCallByIndex[c].itemIx = i - 1
        BY <1>7, <3>1
      <4> QED BY <1>3, <1>5, <1>9, <3>1, <4>1 DEF OfCall
    <3>2. CASE i # n + 1
      <4>1. i \in 1 .. n /\ more[i] = items[i]
        BY <1>5, <3>2
      <4>2. OfPart(s, items[i], i) \/ OfCall(s, items[i], i)
        BY <1>1, <4>1 DEF Mirrors, Placed
      <4>3. OfPart(s, items[i], i) => OfPart(r, items[i], i)
        BY <1>7 DEF OfPart
      <4>4. OfCall(s, items[i], i) => OfCall(r, items[i], i)
        <5>1. \A b \in Known(s) : b \in Known(r) /\ r.toolCallByIndex[b] = s.toolCallByIndex[b]
          BY <1>7, <1>9 DEF Known
        <5> QED BY <5>1 DEF OfCall
      <4> QED BY <4>1, <4>2, <4>3, <4>4
    <3> QED BY <3>1, <3>2
  <2>2. ASSUME NEW u \in Parted, Ix(r, u) >= 0 PROVE more[Ix(r, u) + 1].type = u
    <3>1. Ix(s, u) >= 0 /\ Ix(s, u) + 1 \in 1 .. n /\ Ix(r, u) = Ix(s, u)
      BY <1>7, <1>8, <2>2
    <3>2. items[Ix(s, u) + 1].type = u
      BY <3>1 DEF Mirrors, Placed
    <3> QED BY <1>5, <3>1, <3>2
  <2>3. ASSUME NEW b \in Known(r)
        PROVE  LET x == more[r.toolCallByIndex[b].itemIx + 1] IN
               x.type = "function_call" /\ x.id = CallId(b) /\ x.content = r.toolCallByIndex[b].args
    <3>1. CASE b = c
      BY <1>3, <1>5, <1>7, <3>1
    <3>2. CASE b # c
      <4>1. b \in Known(s) /\ r.toolCallByIndex[b] = s.toolCallByIndex[b]
        BY <1>7, <1>9, <3>2 DEF Known
      <4>2. PICK k \in Nat : k = s.toolCallByIndex[b].itemIx
        BY <4>1, KnownState
      <4>3. k + 1 \in 1 .. n
        BY <1>1, <4>1, <4>2 DEF Numbered
      <4>4. /\ items[k + 1].type = "function_call" /\ items[k + 1].id = CallId(b)
            /\ items[k + 1].content = s.toolCallByIndex[b].args
        BY <4>1, <4>2 DEF Mirrors, Placed
      <4> QED BY <1>5, <4>1, <4>2, <4>3, <4>4
    <3> QED BY <3>1, <3>2
  <2> QED BY <1>5, <2>1, <2>2, <2>3 DEF Placed
<1>11. \A i \in 1 .. Len(more) : Underway(more[i])
  <2>1. Underway(it)
    BY <1>3, <1>8 DEF Underway
  <2>2. ASSUME NEW i \in 1 .. n PROVE Underway(more[i])
    BY <1>1, <1>5 DEF Mirrors
  <2> QED BY <1>5, <2>1, <2>2
<1>12. ASSUME NEW u \in Parted
       PROVE  Flat(more, u) = Acc(r, u) /\ (Ix(r, u) < 0 => Acc(r, u) = <<>>)
  <2>1. Flat(more, u) = Flat(items, u)
    BY <1>3, <1>4, FlatAdded
  <2>2. Flat(items, u) = Acc(s, u) /\ (Ix(s, u) < 0 => Acc(s, u) = <<>>)
    BY DEF Mirrors
  <2> QED BY <1>7, <2>1, <2>2
<1>13. ASSUME tidy, NEW u \in Parted
       PROVE  Alone(r, more, u)
  <2>1. Alone(s, items, u)
    BY <1>13 DEF Mirrors
  <2>2. Ix(r, u) = Ix(s, u) /\ Acc(r, u) = Acc(s, u)
    BY <1>7
  <2>3. ASSUME NEW i \in 1 .. Len(more), more[i].type = u PROVE i = Ix(r, u) + 1
    <3>1. i \in 1 .. n /\ more[i] = items[i]
      BY <1>3, <1>5, <1>8, <2>3
    <3> QED BY <1>1, <2>1, <2>2, <2>3, <3>1 DEF Alone
  <2>4. ASSUME Ix(r, u) >= 0 PROVE more[Ix(r, u) + 1].content = Acc(r, u)
    <3>1. Ix(s, u) + 1 \in 1 .. n
      BY <1>8, <2>2, <2>4
    <3>2. items[Ix(s, u) + 1].content = Acc(s, u)
      BY <2>1, <2>2, <2>4 DEF Alone
    <3> QED BY <1>5, <2>2, <3>1, <3>2
  <2> QED BY <2>3, <2>4 DEF Alone
<1>14. Mirrors(r, more, tidy)
  BY <1>6, <1>10, <1>11, <1>12, <1>13 DEF Mirrors
<1> QED BY <1>2, <1>4, <1>14

(* Where a parted item, or that of a call, is found.                       *)
LEMMA PartLatest ==
  ASSUME NEW s \in Converters, NEW t \in Parted, NEW items \in Seq(Items), NEW tidy,
         Numbered(s), Mirrors(s, items, tidy), Ix(s, t) >= 0
  PROVE  /\ Ix(s, t) + 1 \in 1 .. Len(items) /\ LatestAt(items, PartId(s, t), Ix(s, t) + 1)
         /\ items[Ix(s, t) + 1].type = t /\ Underway(items[Ix(s, t) + 1])
         /\ \A i \in 1 .. Len(items) : items[i].type = t => i <= Ix(s, t) + 1
<1>1. PICK n \in Nat : n = Len(items) /\ n = Len(s.output)
  BY DEF Converters, Mirrors, Listed
<1>2. PICK k \in Nat : k = Ix(s, t) + 1
  BY IxTyped
<1>3. k \in 1 .. n
  <2>1. s.itemIndex = n - 1 /\ Ix(s, t) <= s.itemIndex /\ Ix(s, t) \in Nat \cup {-1}
    BY <1>1, IxTyped DEF Numbered
  <2> QED BY <1>2, <2>1
<1>4. items[k].type = t
  BY <1>2 DEF Mirrors, Placed
<1>5. ASSUME NEW i \in 1 .. n
      PROVE  /\ items[i].type = t <=> items[i].id = PartId(s, t)
             /\ items[i].type = t => i <= k
  <2>1. OfPart(s, items[i], i) \/ OfCall(s, items[i], i)
    BY <1>1 DEF Mirrors, Placed
  <2>2. CASE OfPart(s, items[i], i)
    <3>1. items[i].type \in Parted /\ items[i].id = PartId(s, items[i].type) /\ i <= Ix(s, items[i].type) + 1
      BY <2>2 DEF OfPart
    <3> QED BY <1>2, <3>1, IdsApart
  <2>3. CASE OfCall(s, items[i], i)
    <3>1. items[i].type = "function_call" /\ \E c \in Calls : items[i].id = CallId(c)
      BY <2>3 DEF OfCall, Known
    <3>2. items[i].type # t
      BY <3>1 DEF Parted
    <3>3. items[i].id # PartId(s, t)
      BY <3>1, IdsApart
    <3> QED BY <3>2, <3>3
  <2> QED BY <2>1, <2>2, <2>3
<1>6. LatestAt(items, PartId(s, t), k)
  BY <1>1, <1>3, <1>4, <1>5 DEF LatestAt
<1>7. Underway(items[k])
  BY <1>1, <1>3 DEF Mirrors
<1> QED BY <1>1, <1>2, <1>3, <1>4, <1>5, <1>6, <1>7

LEMMA CallLatest ==
  ASSUME NEW s \in Converters, NEW c \in Known(s), NEW items \in Seq(Items), NEW tidy,
         Numbered(s), Mirrors(s, items, tidy), NEW k, k = s.toolCallByIndex[c].itemIx + 1
  PROVE  /\ k \in 1 .. Len(items) /\ LatestAt(items, CallId(c), k)
         /\ items[k].type = "function_call" /\ items[k].id = CallId(c)
         /\ items[k].content = s.toolCallByIndex[c].args /\ Underway(items[k])
<1>1. PICK n \in Nat : n = Len(items) /\ n = Len(s.output)
  BY DEF Converters, Mirrors, Listed
<1>2. PICK j \in Nat : j = s.toolCallByIndex[c].itemIx
  BY KnownState
<1>3. k \in 1 .. n
  BY <1>1, <1>2 DEF Numbered
<1>4. /\ items[k].type = "function_call" /\ items[k].id = CallId(c)
      /\ items[k].content = s.toolCallByIndex[c].args
  BY DEF Mirrors, Placed
<1>5. ASSUME NEW i \in 1 .. n, items[i].id = CallId(c)
      PROVE  i <= k
  <2>1. OfPart(s, items[i], i) \/ OfCall(s, items[i], i)
    BY <1>1 DEF Mirrors, Placed
  <2>2. ~ OfPart(s, items[i], i)
    BY <1>5, IdsApart DEF OfPart, Known
  <2>3. PICK b \in Known(s) : items[i].id = CallId(b) /\ s.toolCallByIndex[b].itemIx = i - 1
    BY <2>1, <2>2 DEF OfCall
  <2>4. b = c
    BY <1>5, <2>3, IdsApart DEF Known
  <2> QED BY <1>2, <2>3, <2>4
<1>6. LatestAt(items, CallId(c), k)
  BY <1>1, <1>3, <1>4, <1>5 DEF LatestAt
<1>7. Underway(items[k])
  BY <1>1, <1>3 DEF Mirrors
<1> QED BY <1>1, <1>3, <1>4, <1>6, <1>7

LEMMA PartGrownMirrors ==
  ASSUME NEW s \in Converters, NEW r \in Converters, NEW t \in Parted, NEW items \in Seq(Items),
         NEW tidy \in BOOLEAN, NEW f \in Fragments, Numbered(s), Mirrors(s, items, tidy),
         GrowsPart(s, r, t, f), Ix(s, t) >= 0,
         NEW more, Replaced(items, more, Ix(s, t) + 1, Grown(items[Ix(s, t) + 1], f))
  PROVE  Mirrors(r, more, tidy) /\ Numbered(r)
<1>1. PICK n \in Nat : n = Len(items)
  OBVIOUS
<1>2. PICK k \in Nat : k = Ix(s, t) + 1
  BY IxTyped
<1>3. /\ k \in 1 .. n /\ items[k].type = t
      /\ \A i \in 1 .. n : items[i].type = t => i <= k
  BY <1>1, <1>2, PartLatest
<1>4. /\ more \in Seq(Items) /\ Len(more) = n /\ more[k] = Grown(items[k], f)
      /\ \A i \in 1 .. n : i # k => more[i] = items[i]
  BY <1>1, <1>2 DEF Replaced
<1>5. items[k] \in Items
  BY <1>1, <1>3
<1>6. /\ more[k].id = items[k].id /\ more[k].type = t /\ more[k].part = items[k].part
      /\ more[k].done = items[k].done /\ more[k].content = Append(items[k].content, f)
  BY SMTT(60), <1>3, <1>4, <1>5, ContentGrown
<1>7. \A i \in 1 .. n : /\ more[i].id = items[i].id /\ more[i].type = items[i].type
                        /\ more[i].part = items[i].part /\ more[i].done = items[i].done
  BY <1>3, <1>4, <1>6
<1>8. /\ \A u \in Parted : Ix(r, u) = Ix(s, u) /\ PartId(r, u) = PartId(s, u)
      /\ Acc(r, t) = Append(Acc(s, t), f) /\ \A u \in Parted : u # t => Acc(r, u) = Acc(s, u)
      /\ r.output = s.output /\ r.itemIndex = s.itemIndex
      /\ r.toolCallByIndex = s.toolCallByIndex /\ Known(r) = Known(s)
  BY DEF GrowsPart, SameOutput, SameCalls, Known
<1>9. Numbered(r)
  BY <1>8 DEF Numbered
<1>10. Listed(r, more)
  BY <1>1, <1>4, <1>7, <1>8 DEF Mirrors, Listed
<1>11. Placed(r, more)
  <2>1. ASSUME NEW i \in 1 .. n PROVE OfPart(r, more[i], i) \/ OfCall(r, more[i], i)
    <3>1. OfPart(s, items[i], i) \/ OfCall(s, items[i], i)
      BY <1>1 DEF Mirrors, Placed
    <3>2. OfPart(s, items[i], i) => OfPart(r, more[i], i)
      BY <1>7, <1>8 DEF OfPart
    <3>3. OfCall(s, items[i], i) => OfCall(r, more[i], i)
      BY <1>7, <1>8 DEF OfCall
    <3> QED BY <3>1, <3>2, <3>3
  <2>2. ASSUME NEW u \in Parted, Ix(r, u) >= 0 PROVE more[Ix(r, u) + 1].type = u
    <3>1. Ix(s, u) >= 0 /\ Ix(r, u) = Ix(s, u)
      BY <1>8, <2>2
    <3>2. Ix(s, u) + 1 \in 1 .. n /\ items[Ix(s, u) + 1].type = u
      BY <1>1, <3>1, PartLatest
    <3> QED BY <1>7, <3>1, <3>2
  <2>3. ASSUME NEW b \in Known(r)
        PROVE  LET x == more[r.toolCallByIndex[b].itemIx + 1] IN
               x.type = "function_call" /\ x.id = CallId(b) /\ x.content = r.toolCallByIndex[b].args
    <3>1. PICK j : j = s.toolCallByIndex[b].itemIx + 1
      OBVIOUS
    <3>2. /\ j \in 1 .. n /\ items[j].type = "function_call" /\ items[j].id = CallId(b)
          /\ items[j].content = s.toolCallByIndex[b].args
      <4>1. b \in Known(s)
        BY <1>8
      <4> QED BY <1>1, <3>1, <4>1, CallLatest
    <3>3. j # k
      BY <1>3, <3>2 DEF Parted
    <3>4. more[j] = items[j]
      BY <1>4, <3>2, <3>3
    <3> QED BY <1>8, <3>1, <3>2, <3>4
  <2> QED BY <1>4, <2>1, <2>2, <2>3 DEF Placed
<1>12. \A i \in 1 .. Len(more) : Underway(more[i])
  BY <1>1, <1>4, <1>7 DEF Mirrors, Underway
<1>13. ASSUME NEW u \in Parted
       PROVE  Flat(more, u) = Acc(r, u) /\ (Ix(r, u) < 0 => Acc(r, u) = <<>>)
  <2>1. Flat(more, t) = Append(Flat(items, t), f) /\ (u # t => Flat(more, u) = Flat(items, u))
    <3>1. Replaced(items, more, k, Grown(items[k], f)) /\ k \in 1 .. Len(items)
      BY <1>1, <1>2, <1>3
    <3> QED BY <1>1, <1>3, <1>4, <3>1, FlatGrown
  <2>2. Flat(items, u) = Acc(s, u) /\ Flat(items, t) = Acc(s, t) /\ (Ix(s, u) < 0 => Acc(s, u) = <<>>)
    BY DEF Mirrors
  <2>3. CASE u = t
    <3>1. ~ (Ix(r, t) < 0)
      BY <1>8, IxTyped
    <3> QED BY <1>8, <2>1, <2>2, <2>3, <3>1
  <2>4. CASE u # t
    BY <1>8, <2>1, <2>2, <2>4
  <2> QED BY <2>3, <2>4
<1>14. ASSUME tidy, NEW u \in Parted
       PROVE  Alone(r, more, u)
  <2>1. Alone(s, items, u)
    BY <1>14 DEF Mirrors
  <2>2. ASSUME NEW i \in 1 .. Len(more), more[i].type = u PROVE i = Ix(r, u) + 1
    BY <1>1, <1>4, <1>7, <1>8, <2>1, <2>2 DEF Alone
  <2>3. ASSUME Ix(r, u) >= 0 PROVE more[Ix(r, u) + 1].content = Acc(r, u)
    <3>1. Ix(s, u) >= 0 /\ items[Ix(s, u) + 1].content = Acc(s, u) /\ Ix(r, u) = Ix(s, u)
      BY <1>8, <2>1, <2>3 DEF Alone
    <3>2. CASE u = t
      BY <1>2, <1>6, <1>8, <3>1, <3>2
    <3>3. CASE u # t
      <4>1. Ix(s, u) + 1 \in 1 .. n /\ items[Ix(s, u) + 1].type = u
        BY <1>1, <3>1, PartLatest
      <4>2. Ix(s, u) + 1 # k
        BY <1>3, <3>3, <4>1
      <4>3. more[Ix(s, u) + 1] = items[Ix(s, u) + 1]
        BY <1>4, <4>1, <4>2
      <4> QED BY <1>8, <3>1, <3>3, <4>3
    <3> QED BY <3>2, <3>3
  <2> QED BY <2>2, <2>3 DEF Alone
<1> QED BY <1>9, <1>10, <1>11, <1>12, <1>13, <1>14 DEF Mirrors

LEMMA CallGrownMirrors ==
  ASSUME NEW s \in Converters, NEW r \in Converters, NEW c \in Known(s), NEW items \in Seq(Items),
         NEW tidy \in BOOLEAN, NEW f \in Fragments, Numbered(s), Mirrors(s, items, tidy),
         GrowsCall(s, r, c, f), NEW k, k = s.toolCallByIndex[c].itemIx + 1,
         NEW more, Replaced(items, more, k, Grown(items[k], f))
  PROVE  Mirrors(r, more, tidy) /\ Numbered(r)
<1>1. PICK n \in Nat : n = Len(items)
  OBVIOUS
<1>2. "function_call" \notin Parted
  BY DEF Parted
<1>3. /\ k \in 1 .. n /\ items[k].type = "function_call" /\ items[k].id = CallId(c)
      /\ items[k].content = s.toolCallByIndex[c].args
  BY <1>1, CallLatest
<1>4. /\ more \in Seq(Items) /\ Len(more) = n /\ more[k] = Grown(items[k], f)
      /\ \A i \in 1 .. n : i # k => more[i] = items[i]
  BY <1>1 DEF Replaced
<1>5. items[k] \in Items
  BY <1>1, <1>3
<1>6. /\ more[k].id = items[k].id /\ more[k].type = items[k].type /\ more[k].part = items[k].part
      /\ more[k].done = items[k].done /\ more[k].content = Append(items[k].content, f)
  <2>1. /\ Grown(items[k], f).id = items[k].id /\ Grown(items[k], f).type = items[k].type
        /\ Grown(items[k], f).part = items[k].part /\ Grown(items[k], f).done = items[k].done
        /\ Grown(items[k], f).content = Append(items[k].content, f)
    BY <1>5, ContentGrown
  <2> QED BY <1>4, <2>1
<1>7. \A i \in 1 .. n : /\ more[i].id = items[i].id /\ more[i].type = items[i].type
                        /\ more[i].part = items[i].part /\ more[i].done = items[i].done
  BY <1>3, <1>4, <1>6
<1>8. /\ \A u \in Parted : Ix(r, u) = Ix(s, u) /\ PartId(r, u) = PartId(s, u) /\ Acc(r, u) = Acc(s, u)
      /\ r.output = s.output /\ r.itemIndex = s.itemIndex
      /\ r.toolCallByIndex[c].args = Append(s.toolCallByIndex[c].args, f)
      /\ \A b \in Calls : b # c => r.toolCallByIndex[b] = s.toolCallByIndex[b]
  BY DEF GrowsCall, SameOutput, SameParts
<1>9. /\ Known(r) = Known(s)
      /\ \A b \in Known(s) : r.toolCallByIndex[b].itemIx = s.toolCallByIndex[b].itemIx
  <2>1. r.toolCallByIndex[c] # None /\ r.toolCallByIndex[c].itemIx = s.toolCallByIndex[c].itemIx
    <3>1. s.toolCallByIndex[c].args \in Seq(Fragments)
      BY KnownState
    <3>2. Append(s.toolCallByIndex[c].args, f) \in Seq(Fragments)
      BY <3>1
    <3>3. PICK args \in Seq(Fragments) : args = Append(s.toolCallByIndex[c].args, f)
      BY <3>2, Zenon
    <3>4. PICK j \in Nat : j = s.toolCallByIndex[c].itemIx
      BY KnownState
    <3>5. r.toolCallByIndex[c] = [args |-> args, itemIx |-> j]
      BY <3>3, <3>4 DEF GrowsCall
    <3> QED BY <3>4, <3>5, CallStateFacts
  <2>2. s.toolCallByIndex[c] # None /\ c \in Calls
    BY KnownState
  <2>3. ASSUME NEW b \in Calls PROVE b \in Known(r) <=> b \in Known(s)
    BY <1>8, <2>1, <2>2 DEF Known
  <2>4. Known(r) = Known(s)
    BY <2>3 DEF Known
  <2>5. ASSUME NEW b \in Known(s) PROVE r.toolCallByIndex[b].itemIx = s.toolCallByIndex[b].itemIx
    BY <1>8, <2>1 DEF Known
  <2> QED BY <2>4, <2>5
<1>10. Numbered(r)
  BY <1>8, <1>9 DEF Numbered
<1>11. Listed(r, more)
  BY <1>1, <1>4, <1>7, <1>8 DEF Mirrors, Listed
<1>12. Placed(r, more)
  <2>1. ASSUME NEW i \in 1 .. n PROVE OfPart(r, more[i], i) \/ OfCall(r, more[i], i)
    <3>1. OfPart(s, items[i], i) \/ OfCall(s, items[i], i)
      BY <1>1 DEF Mirrors, Placed
    <3>2. OfPart(s, items[i], i) => OfPart(r, more[i], i)
      BY <1>7, <1>8 DEF OfPart
    <3>3. OfCall(s, items[i], i) => OfCall(r, more[i], i)
      BY <1>7, <1>9 DEF OfCall
    <3> QED BY <3>1, <3>2, <3>3
  <2>2. ASSUME NEW u \in Parted, Ix(r, u) >= 0 PROVE more[Ix(r, u) + 1].type = u
    <3>1. Ix(s, u) >= 0 /\ Ix(r, u) = Ix(s, u)
      BY <1>8, <2>2
    <3>2. Ix(s, u) + 1 \in 1 .. n /\ items[Ix(s, u) + 1].type = u
      BY <1>1, <3>1, PartLatest
    <3> QED BY <1>7, <3>1, <3>2
  <2>3. ASSUME NEW b \in Known(r)
        PROVE  LET x == more[r.toolCallByIndex[b].itemIx + 1] IN
               x.type = "function_call" /\ x.id = CallId(b) /\ x.content = r.toolCallByIndex[b].args
    <3>1. PICK j : j = s.toolCallByIndex[b].itemIx + 1
      OBVIOUS
    <3>2. /\ j \in 1 .. n /\ items[j].type = "function_call" /\ items[j].id = CallId(b)
          /\ items[j].content = s.toolCallByIndex[b].args
      <4>1. b \in Known(s)
        BY <1>9
      <4> QED BY <1>1, <3>1, <4>1, CallLatest
    <3>3. CASE b = c
      BY <1>3, <1>6, <1>8, <1>9, <3>1, <3>2, <3>3
    <3>4. CASE b # c
      <4>1. j # k
        BY <1>3, <1>9, <3>2, <3>4, IdsApart DEF Known
      <4>2. more[j] = items[j]
        BY <1>4, <3>2, <4>1
      <4>3. r.toolCallByIndex[b] = s.toolCallByIndex[b]
        BY <1>8, <3>4 DEF Known
      <4> QED BY <3>1, <3>2, <4>2, <4>3
    <3> QED BY <3>3, <3>4
  <2> QED BY <1>4, <2>1, <2>2, <2>3 DEF Placed
<1>13. \A i \in 1 .. Len(more) : Underway(more[i])
  BY <1>1, <1>4, <1>7 DEF Mirrors, Underway
<1>14. ASSUME NEW u \in Parted
       PROVE  Flat(more, u) = Acc(r, u) /\ (Ix(r, u) < 0 => Acc(r, u) = <<>>)
  <2>1. Flat(more, u) = Flat(items, u)
    <3>1. ASSUME NEW i \in 1 .. n PROVE ContentAs(more[i], u) = ContentAs(items[i], u)
      <4>1. CASE i = k
        BY <1>2, <1>3, <1>6, <4>1 DEF ContentAs
      <4>2. CASE i # k
        BY <1>4, <4>2
      <4> QED BY <4>1, <4>2
    <3> QED BY <1>1, <1>4, <3>1, FlatSame
  <2>2. Flat(items, u) = Acc(s, u) /\ (Ix(s, u) < 0 => Acc(s, u) = <<>>)
    BY DEF Mirrors
  <2> QED BY <1>8, <2>1, <2>2
<1>15. ASSUME tidy, NEW u \in Parted
       PROVE  Alone(r, more, u)
  <2>1. Alone(s, items, u)
    BY <1>15 DEF Mirrors
  <2>2. ASSUME NEW i \in 1 .. Len(more), more[i].type = u PROVE i = Ix(r, u) + 1
    BY <1>1, <1>4, <1>7, <1>8, <2>1, <2>2 DEF Alone
  <2>3. ASSUME Ix(r, u) >= 0 PROVE more[Ix(r, u) + 1].content = Acc(r, u)
    <3>1. Ix(s, u) >= 0 /\ items[Ix(s, u) + 1].content = Acc(s, u) /\ Ix(r, u) = Ix(s, u)
      BY <1>8, <2>1, <2>3 DEF Alone
    <3>2. Ix(s, u) + 1 \in 1 .. n /\ items[Ix(s, u) + 1].type = u
      BY <1>1, <3>1, PartLatest
    <3>3. Ix(s, u) + 1 # k
      BY <1>2, <1>3, <3>2
    <3>4. more[Ix(s, u) + 1] = items[Ix(s, u) + 1]
      BY <1>4, <3>2, <3>3
    <3> QED BY <1>8, <3>1, <3>4
  <2> QED BY <2>2, <2>3 DEF Alone
<1> QED BY <1>10, <1>11, <1>12, <1>13, <1>14, <1>15 DEF Mirrors

-----------------------------------------------------------------------------
(* What the handlers do to the converter.                                  *)

Framed(s, r) ==
    /\ r.via = s.via /\ r.started = s.started /\ r.finalized = s.finalized
    /\ r.responseId = s.responseId /\ r.status = s.status /\ r.contentBlocks = s.contentBlocks

SameText(s, r) ==
    /\ r.accText = s.accText /\ r.textItemIx = s.textItemIx
    /\ r.textPartIx = s.textPartIx /\ r.partIndex = s.partIndex

SameReasoning(s, r) == r.accReasoning = s.accReasoning /\ r.reasonItemIx = s.reasonItemIx

Emits(s, r, es) == r.events = s.events \o es

LEMMA EmitIs ==
  ASSUME NEW s \in Converters, NEW e \in Rsp!Events
  PROVE  /\ Emit(s, e) \in Converters /\ Emits(s, Emit(s, e), <<e>>)
         /\ Framed(s, Emit(s, e)) /\ SameText(s, Emit(s, e)) /\ SameReasoning(s, Emit(s, e))
         /\ SameOutput(s, Emit(s, e)) /\ SameCalls(s, Emit(s, e))
<1>1. PICK es : es = Append(s.events, e)
  OBVIOUS
<1>2. es \in Seq(Rsp!Events) /\ es = s.events \o <<e>>
  BY <1>1 DEF Converters
<1>3. PICK r : r = [s EXCEPT !.events = es]
  OBVIOUS
<1>4. r \in Converters
  BY <1>2, <1>3 DEF Converters
<1>5. Emits(s, r, <<e>>)
  BY <1>2, <1>3 DEF Converters, Emits
<1>6. Framed(s, r) /\ SameText(s, r) /\ SameReasoning(s, r) /\ SameOutput(s, r) /\ SameCalls(s, r)
  BY <1>3 DEF Converters, Framed, SameText, SameReasoning, SameOutput, SameCalls
<1>7. Emit(s, e) = r
  BY <1>1, <1>3 DEF Emit
<1> QED BY <1>4, <1>5, <1>6, <1>7

LEMMA SameTrans ==
  ASSUME NEW s \in Converters, NEW q \in Converters, NEW r \in Converters
  PROVE  /\ Framed(s, q) /\ Framed(q, r) => Framed(s, r)
         /\ SameText(s, q) /\ SameText(q, r) => SameText(s, r)
         /\ SameReasoning(s, q) /\ SameReasoning(q, r) => SameReasoning(s, r)
         /\ SameCalls(s, q) /\ SameCalls(q, r) => SameCalls(s, r)
BY DEF Framed, SameText, SameReasoning, SameCalls

LEMMA AddItemIs ==
  ASSUME NEW s \in Converters, NEW index \in Nat \cup {None}, NEW id \in ItemIds,
         NEW t \in Rsp!ItemTypes
  PROVE  /\ AddItem(s, index, id, t) \in Converters
         /\ Emits(s, AddItem(s, index, id, t), <<Rsp!ItemAdded(index, id, t)>>)
         /\ Framed(s, AddItem(s, index, id, t)) /\ SameText(s, AddItem(s, index, id, t))
         /\ SameReasoning(s, AddItem(s, index, id, t)) /\ SameCalls(s, AddItem(s, index, id, t))
         /\ MoreOutput(s, AddItem(s, index, id, t), id, t)
<1>1. PICK e \in Rsp!Events : e = Rsp!ItemAdded(index, id, t)
  <2>1. Rsp!ItemAdded(index, id, t) \in Rsp!Events
    BY DEF Rsp!ItemAdded, Rsp!Events
  <2> QED BY <2>1
<1>2. PICK q : q = Emit(s, e)
  OBVIOUS
<1>3. /\ q \in Converters /\ Emits(s, q, <<e>>) /\ Framed(s, q) /\ SameText(s, q) /\ SameReasoning(s, q)
      /\ SameOutput(s, q) /\ SameCalls(s, q)
  BY <1>2, EmitIs
<1>4. PICK out : out = [id |-> id, type |-> t, status |-> "in_progress", content |-> <<>>]
  OBVIOUS
<1>5. out \in Rsp!OutputItems /\ out.id = id /\ out.type = t
  BY <1>4 DEF Rsp!OutputItems, Rsp!Statuses
<1>6. q.itemIndex + 1 \in Nat \cup {-1} /\ Append(q.output, out) \in Seq(Rsp!OutputItems)
  BY <1>3, <1>5 DEF Converters
<1>7. PICK n : n = q.itemIndex + 1
  OBVIOUS
<1>8. PICK output : output = Append(q.output, out)
  OBVIOUS
<1>9. PICK r : r = [q EXCEPT !.itemIndex = n, !.output = output]
  OBVIOUS
<1>10. r \in Converters
  BY ZenonT(60), <1>3, <1>6, <1>7, <1>8, <1>9 DEF Converters
<1>11. /\ Framed(q, r) /\ SameText(q, r) /\ SameReasoning(q, r) /\ SameCalls(q, r)
       /\ r.events = q.events /\ r.itemIndex = n /\ r.output = output
  BY <1>3, <1>9 DEF Converters, Framed, SameText, SameReasoning, SameCalls
<1>12. MoreOutput(s, r, id, t)
  BY <1>3, <1>5, <1>7, <1>8, <1>11 DEF MoreOutput, SameOutput
<1>13. Emits(s, r, <<e>>)
  BY <1>3, <1>11 DEF Emits
<1>14. r = AddItem(s, index, id, t)
  BY <1>1, <1>2, <1>4, <1>7, <1>8, <1>9 DEF AddItem
<1> QED BY <1>1, <1>3, <1>10, <1>11, <1>12, <1>13, <1>14, SameTrans

LEMMA StartReasoningIs ==
  ASSUME NEW s \in Converters, Numbered(s)
  PROVE  /\ StartReasoningItem(s) \in Converters
         /\ \E index \in {None, Len(s.output)} :
              Emits(s, StartReasoningItem(s), <<Rsp!ItemAdded(index, ReasonId(s), "reasoning"),
                                                Rsp!PartAdded(ReasonId(s), 0)>>)
         /\ Framed(s, StartReasoningItem(s)) /\ SameText(s, StartReasoningItem(s))
         /\ SameCalls(s, StartReasoningItem(s))
         /\ MoreOutput(s, StartReasoningItem(s), ReasonId(s), "reasoning")
         /\ StartReasoningItem(s).accReasoning = s.accReasoning
         /\ StartReasoningItem(s).reasonItemIx = Len(s.output)
<1>1. PICK n \in Nat : n = s.itemIndex + 1 /\ n = Len(s.output)
  BY DEF Numbered, Converters
<1>2. PICK id \in ItemIds : id = ReasonId(s)
  BY IdsTyped DEF Parted
<1>3. "reasoning" \in Rsp!ItemTypes
  BY DEF Rsp!ItemTypes
<1>4. PICK q : q = AddItem(s, n, id, "reasoning")
  OBVIOUS
<1>5. /\ q \in Converters /\ Emits(s, q, <<Rsp!ItemAdded(n, id, "reasoning")>>) /\ Framed(s, q)
      /\ SameText(s, q) /\ SameReasoning(s, q) /\ SameCalls(s, q) /\ MoreOutput(s, q, id, "reasoning")
  BY <1>3, <1>4, AddItemIs
<1>6. PICK w : w = [q EXCEPT !.reasonItemIx = n]
  OBVIOUS
<1>7. w \in Converters
  BY <1>5, <1>6 DEF Converters
<1>8. /\ Framed(q, w) /\ SameText(q, w) /\ SameCalls(q, w) /\ SameOutput(q, w)
      /\ w.events = q.events /\ w.accReasoning = q.accReasoning /\ w.reasonItemIx = n
  BY <1>5, <1>6 DEF Converters, Framed, SameText, SameCalls, SameOutput
<1>9. PICK e \in Rsp!Events : e = Rsp!PartAdded(id, 0)
  <2>1. Rsp!PartAdded(id, 0) \in Rsp!Events
    BY DEF Rsp!PartAdded, Rsp!Events
  <2> QED BY <2>1
<1>10. PICK r : r = Emit(w, e)
  OBVIOUS
<1>11. /\ r \in Converters /\ Emits(w, r, <<e>>) /\ Framed(w, r) /\ SameText(w, r)
       /\ SameReasoning(w, r) /\ SameOutput(w, r) /\ SameCalls(w, r)
  BY <1>7, <1>10, EmitIs
<1>12. Framed(s, r) /\ SameText(s, r) /\ SameCalls(s, r)
  BY <1>5, <1>7, <1>8, <1>11, SameTrans
<1>13. r.accReasoning = s.accReasoning /\ r.reasonItemIx = n
  BY <1>5, <1>8, <1>11 DEF SameReasoning
<1>14. MoreOutput(s, r, id, "reasoning")
  BY <1>5, <1>8, <1>11 DEF MoreOutput, SameOutput
<1>15. Emits(s, r, <<Rsp!ItemAdded(n, id, "reasoning"), e>>)
  <2>1. PICK f \in Rsp!Events : f = Rsp!ItemAdded(n, id, "reasoning")
    <3>1. Rsp!ItemAdded(n, id, "reasoning") \in Rsp!Events
      BY <1>3 DEF Rsp!ItemAdded, Rsp!Events
    <3> QED BY <3>1
  <2>2. r.events = (s.events \o <<f>>) \o <<e>>
    BY <1>5, <1>8, <1>11, <2>1 DEF Emits
  <2>3. s.events \in Seq(Rsp!Events)
    BY DEF Converters
  <2>4. (s.events \o <<f>>) \o <<e>> = s.events \o <<f, e>>
    BY <2>3
  <2> QED BY <2>1, <2>2, <2>4 DEF Emits
<1>16. r = StartReasoningItem(s)
  BY <1>1, <1>2, <1>4, <1>6, <1>9, <1>10 DEF StartReasoningItem
<1> QED BY <1>1, <1>2, <1>9, <1>11, <1>12, <1>13, <1>14, <1>15, <1>16

(* A text item opened with its part, as both converters do it.             *)
OpenText(s, index) ==
    StartContentPart([AddItem(s, index, MsgId(s), "message") EXCEPT !.textItemIx = s.itemIndex + 1])

LEMMA OpenTextIs ==
  ASSUME NEW s \in Converters, Numbered(s), NEW index \in {None, Len(s.output)}
  PROVE  /\ OpenText(s, index) \in Converters
         /\ Emits(s, OpenText(s, index), <<Rsp!ItemAdded(index, MsgId(s), "message"),
                                            Rsp!PartAdded(MsgId(s), s.partIndex + 1)>>)
         /\ Framed(s, OpenText(s, index)) /\ SameReasoning(s, OpenText(s, index))
         /\ SameCalls(s, OpenText(s, index)) /\ MoreOutput(s, OpenText(s, index), MsgId(s), "message")
         /\ OpenText(s, index).accText = s.accText
         /\ OpenText(s, index).textItemIx = Len(s.output)
         /\ OpenText(s, index).partIndex = s.partIndex + 1
         /\ OpenText(s, index).textPartIx = s.partIndex + 1
<1>1. PICK n \in Nat : n = s.itemIndex + 1 /\ n = Len(s.output)
  <2>1. Len(s.output) \in Nat
    BY DEF Converters
  <2>2. s.itemIndex = Len(s.output) - 1
    BY DEF Numbered
  <2> QED BY <2>1, <2>2
<1>2. PICK id \in ItemIds : id = MsgId(s)
  BY IdsTyped DEF Parted
<1>3. "message" \in Rsp!ItemTypes /\ index \in Nat \cup {None}
  BY <1>1 DEF Rsp!ItemTypes
<1>4. PICK q : q = AddItem(s, index, id, "message")
  OBVIOUS
<1>5. /\ q \in Converters /\ Emits(s, q, <<Rsp!ItemAdded(index, id, "message")>>) /\ Framed(s, q)
      /\ SameText(s, q) /\ SameReasoning(s, q) /\ SameCalls(s, q) /\ MoreOutput(s, q, id, "message")
  BY <1>3, <1>4, AddItemIs
<1>6. PICK p \in Nat : p = s.partIndex + 1
  <2>1. s.partIndex + 1 \in Nat
    BY DEF Converters
  <2> QED BY <2>1
<1>7. PICK v : v = [q EXCEPT !.textItemIx = n]
  OBVIOUS
<1>8. v \in Converters
  BY <1>5, <1>7 DEF Converters
<1>9. /\ Framed(q, v) /\ SameReasoning(q, v) /\ SameCalls(q, v) /\ SameOutput(q, v)
      /\ v.events = q.events /\ v.accText = q.accText /\ v.textItemIx = n /\ v.partIndex = q.partIndex
      /\ v.responseId = q.responseId
  BY <1>5, <1>7 DEF Converters, Framed, SameReasoning, SameCalls, SameOutput
<1>10. v.partIndex + 1 = p /\ MsgId(v) = id
  BY <1>2, <1>5, <1>6, <1>9 DEF SameText, MsgId, Framed
<1>11. PICK w : w = [v EXCEPT !.partIndex = p, !.textPartIx = p]
  OBVIOUS
<1>12. w \in Converters
  BY <1>8, <1>11 DEF Converters
<1>13. /\ Framed(v, w) /\ SameReasoning(v, w) /\ SameCalls(v, w) /\ SameOutput(v, w)
       /\ w.events = v.events /\ w.accText = v.accText /\ w.textItemIx = n /\ w.partIndex = p
       /\ w.textPartIx = p
  BY <1>8, <1>9, <1>11 DEF Converters, Framed, SameReasoning, SameCalls, SameOutput
<1>14. PICK e \in Rsp!Events : e = Rsp!PartAdded(id, p)
  <2>1. Rsp!PartAdded(id, p) \in Rsp!Events
    BY DEF Rsp!PartAdded, Rsp!Events
  <2> QED BY <2>1
<1>15. PICK r : r = Emit(w, e)
  OBVIOUS
<1>16. /\ r \in Converters /\ Emits(w, r, <<e>>) /\ Framed(w, r) /\ SameText(w, r)
       /\ SameReasoning(w, r) /\ SameOutput(w, r) /\ SameCalls(w, r)
  BY <1>12, <1>15, EmitIs
<1>17. Framed(s, r) /\ SameReasoning(s, r) /\ SameCalls(s, r)
  <2>1. Framed(s, v) /\ SameReasoning(s, v) /\ SameCalls(s, v)
    BY <1>5, <1>8, <1>9, SameTrans
  <2>2. Framed(s, w) /\ SameReasoning(s, w) /\ SameCalls(s, w)
    BY <1>8, <1>12, <1>13, <2>1, SameTrans
  <2> QED BY <1>12, <1>16, <2>2, SameTrans
<1>18. r.accText = s.accText /\ r.textItemIx = n /\ r.partIndex = p /\ r.textPartIx = p
  BY <1>5, <1>9, <1>13, <1>16 DEF SameText
<1>19. MoreOutput(s, r, id, "message")
  BY <1>5, <1>9, <1>13, <1>16 DEF MoreOutput, SameOutput
<1>20. Emits(s, r, <<Rsp!ItemAdded(index, id, "message"), e>>)
  <2>1. PICK f \in Rsp!Events : f = Rsp!ItemAdded(index, id, "message")
    <3>1. Rsp!ItemAdded(index, id, "message") \in Rsp!Events
      BY <1>3 DEF Rsp!ItemAdded, Rsp!Events
    <3> QED BY <3>1
  <2>2. r.events = (s.events \o <<f>>) \o <<e>>
    BY <1>5, <1>9, <1>13, <1>16, <2>1 DEF Emits
  <2>3. s.events \in Seq(Rsp!Events)
    BY DEF Converters
  <2>4. (s.events \o <<f>>) \o <<e>> = s.events \o <<f, e>>
    BY <2>3
  <2> QED BY <2>1, <2>2, <2>4 DEF Emits
<1>21. StartContentPart(v) = r
  <2>1. StartContentPart(v) = Emit([v EXCEPT !.partIndex = @ + 1, !.textPartIx = v.partIndex + 1],
                                   Rsp!PartAdded(MsgId(v), v.partIndex + 1))
    BY DEF StartContentPart
  <2> QED BY <1>10, <1>11, <1>14, <1>15, <2>1
<1>22. OpenText(s, index) = r
  BY <1>1, <1>2, <1>4, <1>7, <1>21 DEF OpenText
<1> QED BY <1>1, <1>2, <1>6, <1>14, <1>16, <1>17, <1>18, <1>19, <1>20, <1>22

LEMMA SummaryDeltaIs ==
  ASSUME NEW s \in Converters, NEW f \in Fragments
  PROVE  /\ SummaryDelta(s, f) \in Converters
         /\ Emits(s, SummaryDelta(s, f), <<Rsp!Delta(ReasonId(s), "reasoning", f)>>)
         /\ Framed(s, SummaryDelta(s, f)) /\ SameText(s, SummaryDelta(s, f))
         /\ SameOutput(s, SummaryDelta(s, f)) /\ SameCalls(s, SummaryDelta(s, f))
         /\ SummaryDelta(s, f).accReasoning = Append(s.accReasoning, f)
         /\ SummaryDelta(s, f).reasonItemIx = s.reasonItemIx
<1>1. PICK id \in ItemIds : id = ReasonId(s)
  BY IdsTyped DEF Parted
<1>2. PICK e \in Rsp!Events : e = Rsp!Delta(id, "reasoning", f)
  <2>1. "reasoning" \in Rsp!ItemTypes
    BY DEF Rsp!ItemTypes
  <2>2. Rsp!Delta(id, "reasoning", f) \in Rsp!Events
    BY <2>1 DEF Rsp!Delta, Rsp!Events
  <2> QED BY <2>2
<1>3. PICK acc \in Seq(Fragments) : acc = Append(s.accReasoning, f)
  <2>1. Append(s.accReasoning, f) \in Seq(Fragments)
    BY DEF Converters
  <2> QED BY <2>1
<1>4. PICK q : q = [s EXCEPT !.accReasoning = acc]
  OBVIOUS
<1>5. q \in Converters
  BY <1>4 DEF Converters
<1>6. /\ Framed(s, q) /\ SameText(s, q) /\ SameOutput(s, q) /\ SameCalls(s, q)
      /\ q.events = s.events /\ q.accReasoning = acc /\ q.reasonItemIx = s.reasonItemIx
  BY <1>4 DEF Converters, Framed, SameText, SameCalls, SameOutput
<1>7. PICK r : r = Emit(q, e)
  OBVIOUS
<1>8. /\ r \in Converters /\ Emits(q, r, <<e>>) /\ Framed(q, r) /\ SameText(q, r)
      /\ SameReasoning(q, r) /\ SameOutput(q, r) /\ SameCalls(q, r)
  BY <1>5, <1>7, EmitIs
<1>9. Framed(s, r) /\ SameText(s, r) /\ SameCalls(s, r)
  BY <1>5, <1>6, <1>8, SameTrans
<1>10. SameOutput(s, r) /\ r.accReasoning = acc /\ r.reasonItemIx = s.reasonItemIx /\ Emits(s, r, <<e>>)
  BY <1>6, <1>8 DEF SameOutput, SameReasoning, Emits
<1>11. r = SummaryDelta(s, f)
  BY <1>1, <1>2, <1>3, <1>4, <1>7 DEF SummaryDelta
<1> QED BY <1>1, <1>2, <1>3, <1>8, <1>9, <1>10, <1>11

LEMMA TextDeltaIs ==
  ASSUME NEW s \in Converters, NEW f \in Fragments
  PROVE  /\ TextDelta(s, f) \in Converters
         /\ Emits(s, TextDelta(s, f), <<Rsp!Delta(MsgId(s), "message", f)>>)
         /\ Framed(s, TextDelta(s, f)) /\ SameReasoning(s, TextDelta(s, f))
         /\ SameOutput(s, TextDelta(s, f)) /\ SameCalls(s, TextDelta(s, f))
         /\ TextDelta(s, f).accText = Append(s.accText, f)
         /\ TextDelta(s, f).textItemIx = s.textItemIx /\ TextDelta(s, f).textPartIx = s.textPartIx
         /\ TextDelta(s, f).partIndex = s.partIndex
<1>1. PICK id \in ItemIds : id = MsgId(s)
  BY IdsTyped DEF Parted
<1>2. PICK e \in Rsp!Events : e = Rsp!Delta(id, "message", f)
  <2>1. "message" \in Rsp!ItemTypes
    BY DEF Rsp!ItemTypes
  <2>2. Rsp!Delta(id, "message", f) \in Rsp!Events
    BY <2>1 DEF Rsp!Delta, Rsp!Events
  <2> QED BY <2>2
<1>3. PICK acc \in Seq(Fragments) : acc = Append(s.accText, f)
  <2>1. Append(s.accText, f) \in Seq(Fragments)
    BY DEF Converters
  <2> QED BY <2>1
<1>4. PICK q : q = [s EXCEPT !.accText = acc]
  OBVIOUS
<1>5. q \in Converters
  BY <1>4 DEF Converters
<1>6. /\ Framed(s, q) /\ SameReasoning(s, q) /\ SameOutput(s, q) /\ SameCalls(s, q)
      /\ q.events = s.events /\ q.accText = acc /\ q.textItemIx = s.textItemIx
      /\ q.textPartIx = s.textPartIx /\ q.partIndex = s.partIndex
  BY <1>4 DEF Converters, Framed, SameReasoning, SameCalls, SameOutput
<1>7. PICK r : r = Emit(q, e)
  OBVIOUS
<1>8. /\ r \in Converters /\ Emits(q, r, <<e>>) /\ Framed(q, r) /\ SameText(q, r)
      /\ SameReasoning(q, r) /\ SameOutput(q, r) /\ SameCalls(q, r)
  BY <1>5, <1>7, EmitIs
<1>9. Framed(s, r) /\ SameReasoning(s, r) /\ SameCalls(s, r)
  BY <1>5, <1>6, <1>8, SameTrans
<1>10. /\ SameOutput(s, r) /\ r.accText = acc /\ r.textItemIx = s.textItemIx
       /\ r.textPartIx = s.textPartIx /\ r.partIndex = s.partIndex /\ Emits(s, r, <<e>>)
  BY <1>6, <1>8 DEF SameOutput, SameText, Emits
<1>11. r = TextDelta(s, f)
  BY <1>1, <1>2, <1>3, <1>4, <1>7 DEF TextDelta
<1> QED BY <1>1, <1>2, <1>3, <1>8, <1>9, <1>10, <1>11

(* The calls of r are those of s but for c's state.                        *)
CallIs(s, r, c, args, ix) ==
    /\ r.toolCallByIndex[c] = [args |-> args, itemIx |-> ix]
    /\ \A b \in Calls \ {c} : r.toolCallByIndex[b] = s.toolCallByIndex[b]

LEMMA CallSet ==
  ASSUME NEW s \in Converters, NEW c \in Calls, NEW args \in Seq(Fragments), NEW ix \in Nat,
         NEW r, r = [s EXCEPT !.toolCallByIndex = [s.toolCallByIndex EXCEPT ![c] = [args |-> args, itemIx |-> ix]]]
  PROVE  /\ r \in Converters /\ Framed(s, r) /\ SameText(s, r) /\ SameReasoning(s, r)
         /\ SameOutput(s, r) /\ r.events = s.events /\ CallIs(s, r, c, args, ix)
<1>1. PICK f : f = [s.toolCallByIndex EXCEPT ![c] = [args |-> args, itemIx |-> ix]]
  OBVIOUS
<1>2. s.toolCallByIndex \in [Calls -> CallStates \cup {None}]
  BY DEF Converters
<1>3. [args |-> args, itemIx |-> ix] \in CallStates
  BY CallStateFacts
<1>4. /\ f \in [Calls -> CallStates \cup {None}] /\ f[c] = [args |-> args, itemIx |-> ix]
      /\ \A b \in Calls \ {c} : f[b] = s.toolCallByIndex[b]
  BY <1>1, <1>2, <1>3
<1>5. r = [s EXCEPT !.toolCallByIndex = f]
  BY <1>1
<1>6. r \in Converters
  BY <1>4, <1>5 DEF Converters
<1>7. /\ Framed(s, r) /\ SameText(s, r) /\ SameReasoning(s, r) /\ SameOutput(s, r)
      /\ r.events = s.events /\ r.toolCallByIndex = f
  BY <1>5 DEF Converters, Framed, SameText, SameReasoning, SameOutput
<1> QED BY <1>4, <1>6, <1>7 DEF CallIs

OpenCall(s, index, c) ==
    [AddItem(s, index, CallId(c), "function_call")
       EXCEPT !.toolCallByIndex[c] = [args |-> <<>>, itemIx |-> s.itemIndex + 1]]

LEMMA OpenCallIs ==
  ASSUME NEW s \in Converters, Numbered(s), NEW c \in Calls, NEW index \in {None, Len(s.output)}
  PROVE  /\ OpenCall(s, index, c) \in Converters
         /\ Emits(s, OpenCall(s, index, c), <<Rsp!ItemAdded(index, CallId(c), "function_call")>>)
         /\ Framed(s, OpenCall(s, index, c)) /\ SameText(s, OpenCall(s, index, c))
         /\ SameReasoning(s, OpenCall(s, index, c))
         /\ MoreOutput(s, OpenCall(s, index, c), CallId(c), "function_call")
         /\ CallIs(s, OpenCall(s, index, c), c, <<>>, Len(s.output))
<1>1. PICK n \in Nat : n = s.itemIndex + 1 /\ n = Len(s.output)
  <2>1. Len(s.output) \in Nat
    BY DEF Converters
  <2>2. s.itemIndex = Len(s.output) - 1
    BY DEF Numbered
  <2> QED BY <2>1, <2>2
<1>2. PICK id \in ItemIds : id = CallId(c)
  BY IdsTyped
<1>3. "function_call" \in Rsp!ItemTypes /\ index \in Nat \cup {None} /\ <<>> \in Seq(Fragments)
  BY <1>1 DEF Rsp!ItemTypes
<1>4. PICK q : q = AddItem(s, index, id, "function_call")
  OBVIOUS
<1>5. /\ q \in Converters /\ Emits(s, q, <<Rsp!ItemAdded(index, id, "function_call")>>) /\ Framed(s, q)
      /\ SameText(s, q) /\ SameReasoning(s, q) /\ SameCalls(s, q) /\ MoreOutput(s, q, id, "function_call")
  BY <1>3, <1>4, AddItemIs
<1>6. PICK none \in Seq(Fragments) : none = <<>>
  BY <1>3
<1>7. PICK r : r = [q EXCEPT !.toolCallByIndex = [q.toolCallByIndex EXCEPT ![c] = [args |-> none, itemIx |-> n]]]
  OBVIOUS
<1>8. /\ r \in Converters /\ Framed(q, r) /\ SameText(q, r) /\ SameReasoning(q, r)
      /\ SameOutput(q, r) /\ r.events = q.events /\ CallIs(q, r, c, none, n)
  BY <1>5, <1>7, CallSet
<1>9. Framed(s, r) /\ SameText(s, r) /\ SameReasoning(s, r)
  BY <1>5, <1>8, SameTrans
<1>10. /\ MoreOutput(s, r, id, "function_call") /\ CallIs(s, r, c, none, n)
      /\ Emits(s, r, <<Rsp!ItemAdded(index, id, "function_call")>>)
  BY <1>5, <1>8 DEF MoreOutput, SameOutput, CallIs, SameCalls, Emits
<1>11. r = OpenCall(s, index, c)
  <2>1. OpenCall(s, index, c) = [q EXCEPT !.toolCallByIndex[c] = [args |-> <<>>, itemIx |-> n]]
    BY <1>1, <1>2, <1>4 DEF OpenCall
  <2> QED BY <1>7, <1>6, <2>1
<1> QED BY <1>1, <1>2, <1>8, <1>9, <1>10, <1>11, <1>6

LEMMA ArgumentsDeltaIs ==
  ASSUME NEW s \in Converters, NEW c \in Known(s), NEW f \in Fragments
  PROVE  /\ ArgumentsDelta(s, c, f) \in Converters
         /\ Emits(s, ArgumentsDelta(s, c, f), <<Rsp!Delta(CallId(c), "function_call", f)>>)
         /\ Framed(s, ArgumentsDelta(s, c, f)) /\ SameText(s, ArgumentsDelta(s, c, f))
         /\ SameReasoning(s, ArgumentsDelta(s, c, f)) /\ SameOutput(s, ArgumentsDelta(s, c, f))
         /\ CallIs(s, ArgumentsDelta(s, c, f), c, Append(s.toolCallByIndex[c].args, f),
                   s.toolCallByIndex[c].itemIx)
<1>1. c \in Calls /\ CallId(c) \in ItemIds
  BY IdsTyped, KnownState
<1>2. PICK e \in Rsp!Events : e = Rsp!Delta(CallId(c), "function_call", f)
  <2>1. "function_call" \in Rsp!ItemTypes
    BY DEF Rsp!ItemTypes
  <2>2. Rsp!Delta(CallId(c), "function_call", f) \in Rsp!Events
    BY <1>1, <2>1 DEF Rsp!Delta, Rsp!Events
  <2> QED BY <2>2
<1>3. PICK args \in Seq(Fragments) : args = Append(s.toolCallByIndex[c].args, f)
  <2>1. s.toolCallByIndex[c].args \in Seq(Fragments)
    BY KnownState
  <2>2. Append(s.toolCallByIndex[c].args, f) \in Seq(Fragments)
    BY <2>1
  <2> QED BY <2>2, Zenon
<1>4. PICK ix \in Nat : ix = s.toolCallByIndex[c].itemIx
  BY KnownState
<1>5. PICK q : q = [s EXCEPT !.toolCallByIndex = [s.toolCallByIndex EXCEPT ![c] = [args |-> args, itemIx |-> ix]]]
  OBVIOUS
<1>6. /\ q \in Converters /\ Framed(s, q) /\ SameText(s, q) /\ SameReasoning(s, q)
      /\ SameOutput(s, q) /\ q.events = s.events /\ CallIs(s, q, c, args, ix)
  BY <1>1, <1>5, CallSet
<1>7. PICK r : r = Emit(q, e)
  OBVIOUS
<1>8. /\ r \in Converters /\ Emits(q, r, <<e>>) /\ Framed(q, r) /\ SameText(q, r)
      /\ SameReasoning(q, r) /\ SameOutput(q, r) /\ SameCalls(q, r)
  BY <1>6, <1>7, EmitIs
<1>9. Framed(s, r) /\ SameText(s, r) /\ SameReasoning(s, r)
  BY <1>6, <1>8, SameTrans
<1>10. SameOutput(s, r) /\ CallIs(s, r, c, args, ix) /\ Emits(s, r, <<e>>)
  BY <1>6, <1>8 DEF SameOutput, SameCalls, CallIs, Emits
<1>11. r = ArgumentsDelta(s, c, f)
  <2>1. s.toolCallByIndex[c] = [args |-> s.toolCallByIndex[c].args, itemIx |-> ix]
    <3>1. s.toolCallByIndex[c] \in CallStates
      BY KnownState
    <3> QED BY <1>4, <3>1 DEF CallStates
  <2>2. [s.toolCallByIndex[c] EXCEPT !.args = args] = [args |-> args, itemIx |-> ix]
    BY <2>1
  <2>3. [s EXCEPT !.toolCallByIndex[c].args = Append(@, f)]
          = [s EXCEPT !.toolCallByIndex = [s.toolCallByIndex EXCEPT ![c] = [s.toolCallByIndex[c] EXCEPT !.args = args]]]
    BY <1>3
  <2> QED BY <1>2, <1>5, <1>7, <2>2, <2>3 DEF ArgumentsDelta
<1> QED BY <1>2, <1>3, <1>4, <1>8, <1>9, <1>10, <1>11

-----------------------------------------------------------------------------
(* What the handlers do to the client, by way of the events they emit.     *)

Good(c, s, tidy) ==
    /\ s \in Converters /\ Numbered(s) /\ PartsFit(s, tidy)
    /\ \E d \in Clients : /\ d.phase = "streaming" /\ Runs(c, s.events, d, tidy)
                          /\ Mirrors(s, d.items, tidy)

LEMMA OneEvent ==
  ASSUME NEW e \in Rsp!Events
  PROVE  <<e>> \in Seq(Rsp!Events)
OBVIOUS

LEMMA TwoTogether ==
  ASSUME NEW X, NEW e \in X, NEW f \in X
  PROVE  <<e>> \o <<f>> = <<e, f>>
<1>1. PICK a \in Seq(X) : a = <<e>> /\ Len(a) = 1 /\ a[1] = e
  <2>1. <<e>> \in Seq(X) /\ Len(<<e>>) = 1 /\ <<e>>[1] = e
    OBVIOUS
  <2> QED BY <2>1
<1>2. PICK b \in Seq(X) : b = <<f>> /\ Len(b) = 1 /\ b[1] = f
  <2>1. <<f>> \in Seq(X) /\ Len(<<f>>) = 1 /\ <<f>>[1] = f
    OBVIOUS
  <2> QED BY <2>1
<1>3. PICK y \in Seq(X) : y = <<e, f>> /\ Len(y) = 2 /\ y[1] = e /\ y[2] = f
  <2>1. <<e, f>> \in Seq(X) /\ Len(<<e, f>>) = 2 /\ <<e, f>>[1] = e /\ <<e, f>>[2] = f
    BY <1>1
  <2> QED BY <2>1
<1>4. PICK x : x = a \o b
  OBVIOUS
<1>5. x \in Seq(X) /\ Len(x) = 2 /\ x[1] = e /\ x[2] = f
  BY <1>1, <1>2, <1>4
<1>6. x = y
  BY <1>3, <1>5, SeqEqual
<1> QED BY <1>1, <1>2, <1>3, <1>4, <1>6

LEMMA TwoEvents ==
  ASSUME NEW e \in Rsp!Events, NEW f \in Rsp!Events
  PROVE  <<e, f>> \in Seq(Rsp!Events) /\ <<e>> \o <<f>> = <<e, f>>
<1>1. <<e, f>> \in Seq(Rsp!Events)
  OBVIOUS
<1> QED BY <1>1, TwoTogether

(* An item with the id given is not there yet.                             *)
LEMMA FreshPart ==
  ASSUME NEW s \in Converters, NEW d \in Clients, NEW t \in Parted, Mirrors(s, d.items, TRUE), Ix(s, t) < 0
  PROVE  Rsp!Positions(d, PartId(s, t)) = {}
<1>1. ASSUME NEW i \in 1 .. Len(d.items) PROVE d.items[i].id # PartId(s, t)
  <2>1. OfPart(s, d.items[i], i) \/ OfCall(s, d.items[i], i)
    BY DEF Mirrors, Placed
  <2>2. CASE OfPart(s, d.items[i], i)
    <3>1. d.items[i].type # t
      <4>1. Alone(s, d.items, t)
        BY DEF Mirrors
      <4>2. Ix(s, t) \in Nat \cup {-1}
        BY IxTyped
      <4> QED BY <4>1, <4>2 DEF Alone
    <3> QED BY <2>2, <3>1, IdsApart DEF OfPart
  <2>3. CASE OfCall(s, d.items[i], i)
    BY <2>3, IdsApart DEF OfCall, Known
  <2> QED BY <2>1, <2>2, <2>3
<1>2. DOMAIN d.items = 1 .. Len(d.items)
  BY DEF Clients
<1> QED BY <1>1, <1>2 DEF Rsp!Positions

LEMMA FreshCall ==
  ASSUME NEW s \in Converters, NEW d \in Clients, NEW c \in Calls \ Known(s), NEW tidy,
         Mirrors(s, d.items, tidy)
  PROVE  Rsp!Positions(d, CallId(c)) = {}
<1>1. ASSUME NEW i \in 1 .. Len(d.items) PROVE d.items[i].id # CallId(c)
  <2>1. OfPart(s, d.items[i], i) \/ OfCall(s, d.items[i], i)
    BY DEF Mirrors, Placed
  <2>2. CASE OfPart(s, d.items[i], i)
    BY <2>2, IdsApart DEF OfPart
  <2>3. CASE OfCall(s, d.items[i], i)
    BY <2>3, IdsApart DEF OfCall, Known
  <2> QED BY <2>1, <2>2, <2>3
<1>2. DOMAIN d.items = 1 .. Len(d.items)
  BY DEF Clients
<1> QED BY <1>1, <1>2 DEF Rsp!Positions

LEMMA ItemAddedRuns ==
  ASSUME NEW s \in Converters, NEW d \in Clients, d.phase = "streaming", NEW tidy \in BOOLEAN,
         Listed(s, d.items), NEW index \in {None, Len(s.output)}, NEW id \in ItemIds,
         NEW t \in Rsp!ItemTypes, tidy => Rsp!Positions(d, id) = {}
  PROVE  /\ Rsp!ItemAdded(index, id, t) \in Rsp!Events
         /\ \E x \in Clients :
              /\ x.phase = "streaming" /\ x.items = Append(d.items, NewItem(id, t, "none"))
              /\ Runs(d, <<Rsp!ItemAdded(index, id, t)>>, x, tidy)
<1>1. index \in Nat \cup {None} /\ Len(d.items) = Len(s.output)
  BY DEF Listed, Converters
<1>2. PICK e : e = Rsp!ItemAdded(index, id, t)
  OBVIOUS
<1>3. e \in Rsp!Events
  BY <1>1, <1>2 DEF Rsp!ItemAdded, Rsp!Events
<1>4. e.type = "item.added" /\ e.index = index /\ e.id = id /\ e.item = t
  BY <1>2 DEF Rsp!ItemAdded
<1>5. tidy => Rsp!Legal(d, e)
  BY <1>1, <1>4 DEF Rsp!Legal
<1>6. "streaming" \notin Rsp!FinalTypes
  BY DEF Rsp!FinalTypes
<1>7. PICK x : x = Rsp!Apply(d, e)
  OBVIOUS
<1>8. Seen(d, e, x, Append(d.items, NewItem(id, t, "none")))
  BY <1>3, <1>4, <1>7, AddedSeen DEF NewItem
<1>9. Runs(d, <<e>>, x, tidy)
  BY <1>5, <1>6, <1>7, RunsOne
<1> QED BY <1>2, <1>3, <1>8, <1>9 DEF Seen

LEMMA PartAddedRuns ==
  ASSUME NEW d \in Clients, d.phase = "streaming", NEW tidy \in BOOLEAN, NEW items \in Seq(Items),
         NEW id \in ItemIds, NEW t \in Parted, NEW p \in Nat, tidy => p = 0,
         d.items = Append(items, NewItem(id, t, "none"))
  PROVE  /\ Rsp!PartAdded(id, p) \in Rsp!Events
         /\ \E x \in Clients :
              /\ x.phase = "streaming" /\ x.items = Append(items, NewItem(id, t, "open"))
              /\ Runs(d, <<Rsp!PartAdded(id, p)>>, x, tidy)
<1>1. PICK n \in Nat : n = Len(items)
  OBVIOUS
<1>2. t \in Rsp!ItemTypes
  BY DEF Parted, Rsp!ItemTypes
<1>3. PICK it : it = NewItem(id, t, "none")
  OBVIOUS
<1>4. it \in Items /\ it.id = id /\ it.type = t /\ it.part = "none" /\ it.done = FALSE
  BY ZenonT(60), <1>2, <1>3, NewItemTyped
<1>5. Len(d.items) = n + 1 /\ d.items[n + 1] = it /\ \A i \in 1 .. n : d.items[i] = items[i]
  BY <1>1, <1>3, <1>4, Appended
<1>6. LatestAt(d.items, id, n + 1)
  BY <1>4, <1>5 DEF LatestAt
<1>7. PICK e : e = Rsp!PartAdded(id, p)
  OBVIOUS
<1>8. e \in Rsp!Events
  BY <1>7 DEF Rsp!PartAdded, Rsp!Events
<1>9. e.type = "part.added" /\ e.id = id /\ e.part = p
  BY <1>7 DEF Rsp!PartAdded
<1>10. Rsp!Position(d, e.id) = n + 1 /\ Rsp!Positions(d, e.id) # {}
  BY <1>6, <1>9, ItemAt
<1>11. tidy => Rsp!Legal(d, e)
  <2>1. t \in Rsp!Parted
    BY DEF Parted, Rsp!Parted
  <2> QED BY <1>4, <1>5, <1>9, <1>10, <2>1 DEF Rsp!Legal
<1>12. "streaming" \notin Rsp!FinalTypes
  BY DEF Rsp!FinalTypes
<1>13. PICK x : x = Rsp!Apply(d, e)
  OBVIOUS
<1>14. Seen(d, e, x, [d.items EXCEPT ![n + 1] = [@ EXCEPT !.part = "open"]])
  BY <1>6, <1>8, <1>9, <1>13, PartAddedSeen
<1>15. [d.items EXCEPT ![n + 1] = [@ EXCEPT !.part = "open"]] = Append(items, NewItem(id, t, "open"))
  <2>1. PICK new : new = NewItem(id, t, "open")
    OBVIOUS
  <2>2. new \in Items
    BY <1>2, <2>1, NewItemTyped
  <2>3. [it EXCEPT !.part = "open"] = new
    <3>1. it = [id |-> id, type |-> t, part |-> "none", content |-> <<>>, done |-> FALSE]
      BY <1>3 DEF NewItem
    <3>2. new = [id |-> id, type |-> t, part |-> "open", content |-> <<>>, done |-> FALSE]
      BY <2>1 DEF NewItem
    <3>3. PICK w : w = [it EXCEPT !.part = "open"]
      OBVIOUS
    <3>4. w \in Items /\ w.id = it.id /\ w.type = it.type /\ w.part = "open" /\ w.content = it.content /\ w.done = it.done
      BY <1>4, <3>3 DEF Items
    <3>5. it.content = <<>> /\ new.id = id /\ new.type = t /\ new.part = "open" /\ new.content = <<>> /\ new.done = FALSE
      BY <3>1, <3>2
    <3>6. w = new
      <4>1. w = [id |-> w.id, type |-> w.type, part |-> w.part, content |-> w.content, done |-> w.done]
        BY <3>4 DEF Items
      <4>2. w = [id |-> id, type |-> t, part |-> "open", content |-> <<>>, done |-> FALSE]
        BY <1>4, <3>4, <3>5, <4>1
      <4> QED BY <3>2, <4>2
    <3> QED BY <3>3, <3>6
  <2>4. PICK a : a = [d.items EXCEPT ![n + 1] = new]
    OBVIOUS
  <2>5. [d.items EXCEPT ![n + 1] = [@ EXCEPT !.part = "open"]] = a
    BY <1>5, <2>3, <2>4
  <2>6. Replaced(d.items, a, n + 1, new)
    <3>1. d.items \in Seq(Items) /\ n + 1 \in 1 .. Len(d.items)
      BY <1>5 DEF Clients
    <3> QED BY <2>2, <2>4, <3>1, ReplacedBy
  <2>7. PICK b : b = Append(items, new)
    OBVIOUS
  <2>8. b \in Seq(Items) /\ Len(b) = n + 1 /\ b[n + 1] = new /\ \A i \in 1 .. n : b[i] = items[i]
    BY <1>1, <2>2, <2>7, Appended
  <2>9. a \in Seq(Items) /\ Len(a) = n + 1 /\ a[n + 1] = new /\ \A i \in 1 .. n : a[i] = items[i]
    BY <1>5, <2>6 DEF Replaced
  <2>10. \A i \in 1 .. n + 1 : a[i] = b[i]
    BY <2>8, <2>9
  <2>11. a = b
    BY <2>8, <2>9, <2>10, SeqEqual
  <2> QED BY <2>1, <2>5, <2>7, <2>11
<1>16. Runs(d, <<e>>, x, tidy)
  BY <1>11, <1>12, <1>13, RunsOne
<1> QED BY <1>7, <1>8, <1>14, <1>15, <1>16 DEF Seen

LEMMA PartOpensGood ==
  ASSUME NEW c, NEW s, NEW r \in Converters, NEW tidy \in BOOLEAN, Good(c, s, tidy), NEW t \in Parted,
         OpensPart(s, r, t), PartsFit(r, tidy), NEW p \in Nat, tidy => Ix(s, t) < 0 /\ p = 0,
         NEW index \in {None, Len(s.output)},
         Emits(s, r, <<Rsp!ItemAdded(index, PartId(s, t), t), Rsp!PartAdded(PartId(s, t), p)>>)
  PROVE  Good(c, r, tidy)
<1>1. s \in Converters /\ Numbered(s)
  BY DEF Good
<1>2. PICK d \in Clients : d.phase = "streaming" /\ Runs(c, s.events, d, tidy) /\ Mirrors(s, d.items, tidy)
  BY DEF Good
<1>3. PICK id \in ItemIds : id = PartId(s, t)
  BY <1>1, IdsTyped
<1>4. Listed(s, d.items) /\ t \in Rsp!ItemTypes /\ d.items \in Seq(Items)
  BY <1>2 DEF Mirrors, Parted, Rsp!ItemTypes, Clients
<1>5. tidy => Rsp!Positions(d, id) = {}
  <2>1. SUFFICES ASSUME tidy PROVE Rsp!Positions(d, id) = {}
    OBVIOUS
  <2>2. Mirrors(s, d.items, TRUE)
    BY <1>2, <2>1
  <2> QED BY <1>1, <1>3, <2>1, <2>2, FreshPart
<1>6. PICK e : e = Rsp!ItemAdded(index, id, t)
  OBVIOUS
<1>7. PICK x \in Clients : /\ x.phase = "streaming" /\ x.items = Append(d.items, NewItem(id, t, "none"))
                           /\ Runs(d, <<e>>, x, tidy) /\ e \in Rsp!Events
  BY <1>1, <1>2, <1>4, <1>5, <1>6, ItemAddedRuns
<1>8. PICK f : f = Rsp!PartAdded(id, p)
  OBVIOUS
<1>9. PICK y \in Clients : /\ y.phase = "streaming" /\ y.items = Append(d.items, NewItem(id, t, "open"))
                           /\ Runs(x, <<f>>, y, tidy) /\ f \in Rsp!Events
  BY SMTT(60), <1>4, <1>7, <1>8, PartAddedRuns
<1>10. Runs(d, <<e, f>>, y, tidy)
  <2>1. PICK es : es = <<e>>
    OBVIOUS
  <2>2. PICK fs : fs = <<f>>
    OBVIOUS
  <2>3. es \o fs = <<e, f>> /\ es \in Seq(Rsp!Events) /\ fs \in Seq(Rsp!Events)
    BY <1>7, <1>9, <2>1, <2>2, OneEvent, TwoEvents
  <2>4. Runs(d, es, x, tidy) /\ Runs(x, fs, y, tidy)
    BY <1>7, <1>9, <2>1, <2>2
  <2>5. Runs(d, es \o fs, y, tidy)
    BY <2>3, <2>4, RunsJoin
  <2> QED BY <2>3, <2>5
<1>11. Runs(c, r.events, y, tidy)
  <2>1. PICK es : es = <<e, f>>
    OBVIOUS
  <2>2. es \in Seq(Rsp!Events)
    BY <1>7, <1>9, <2>1, TwoEvents
  <2>3. Emits(s, r, es) /\ Runs(d, es, y, tidy)
    BY <1>3, <1>6, <1>8, <1>10, <2>1
  <2>4. Runs(c, s.events, d, tidy)
    BY <1>2
  <2>5. PICK old \in Seq(Rsp!Events) : old = s.events
    BY <1>1 DEF Converters
  <2>6. Runs(c, old \o es, y, tidy)
    BY <2>3, <2>4, <2>2, <2>5, RunsJoin
  <2> QED BY <2>3, <2>5, <2>6 DEF Emits
<1>12. Mirrors(r, y.items, tidy) /\ Numbered(r)
  <2>1. Mirrors(r, Append(d.items, NewItem(PartId(s, t), t, "open")), tidy)
    BY <1>1, <1>2, <1>4, OpenedMirrors
  <2> QED BY <1>1, <1>3, <1>9, <2>1, OpenedNumbered
<1> QED BY <1>9, <1>11, <1>12 DEF Good

LEMMA CallOpensGood ==
  ASSUME NEW c, NEW s, NEW r \in Converters, NEW tidy \in BOOLEAN, Good(c, s, tidy),
         NEW b \in Calls \ Known(s), OpensCall(s, r, b), SameText(s, r), NEW index \in {None, Len(s.output)},
         Emits(s, r, <<Rsp!ItemAdded(index, CallId(b), "function_call")>>)
  PROVE  Good(c, r, tidy)
<1>1. s \in Converters /\ Numbered(s)
  BY DEF Good
<1>2. PICK d \in Clients : d.phase = "streaming" /\ Runs(c, s.events, d, tidy) /\ Mirrors(s, d.items, tidy)
  BY DEF Good
<1>3. PICK id \in ItemIds : id = CallId(b)
  BY <1>1, IdsTyped
<1>4. Listed(s, d.items) /\ "function_call" \in Rsp!ItemTypes /\ d.items \in Seq(Items)
  BY <1>2 DEF Mirrors, Rsp!ItemTypes, Clients
<1>5. Rsp!Positions(d, id) = {}
  BY <1>1, <1>2, <1>3, FreshCall
<1>6. PICK e : e = Rsp!ItemAdded(index, id, "function_call")
  OBVIOUS
<1>7. PICK x \in Clients : /\ x.phase = "streaming" /\ x.items = Append(d.items, NewItem(id, "function_call", "none"))
                           /\ Runs(d, <<e>>, x, tidy) /\ e \in Rsp!Events
  BY <1>1, <1>2, <1>4, <1>5, <1>6, ItemAddedRuns
<1>8. Runs(c, r.events, x, tidy)
  <2>1. PICK es : es = <<e>>
    OBVIOUS
  <2>2. es \in Seq(Rsp!Events)
    BY <1>7, <2>1, OneEvent
  <2>3. Emits(s, r, es) /\ Runs(d, es, x, tidy)
    BY <1>3, <1>6, <1>7, <2>1
  <2>4. Runs(c, s.events, d, tidy)
    BY <1>2
  <2>5. PICK old \in Seq(Rsp!Events) : old = s.events
    BY <1>1 DEF Converters
  <2>6. Runs(c, old \o es, x, tidy)
    BY <2>3, <2>4, <2>2, <2>5, RunsJoin
  <2> QED BY <2>3, <2>5, <2>6 DEF Emits
<1>9. Mirrors(r, x.items, tidy)
  <2>1. Mirrors(r, Append(d.items, NewItem(CallId(b), "function_call", "none")), tidy)
    BY <1>1, <1>2, <1>4, CallOpenedMirrors
  <2> QED BY <1>3, <1>7, <2>1
<1>10. Numbered(r)
  BY <1>1, CallOpenedNumbered
<1>11. PartsFit(r, tidy)
  BY DEF Good, PartsFit, SameText
<1> QED BY <1>7, <1>8, <1>9, <1>10, <1>11 DEF Good

LEMMA DeltaRuns ==
  ASSUME NEW d \in Clients, d.phase = "streaming", NEW tidy \in BOOLEAN, NEW id \in ItemIds,
         NEW t \in Rsp!ItemTypes, NEW f \in Fragments, NEW k, LatestAt(d.items, id, k),
         d.items[k].type = t, Underway(d.items[k])
  PROVE  /\ Rsp!Delta(id, t, f) \in Rsp!Events
         /\ \E x \in Clients :
              /\ x.phase = "streaming" /\ Replaced(d.items, x.items, k, Grown(d.items[k], f))
              /\ Runs(d, <<Rsp!Delta(id, t, f)>>, x, tidy)
<1>1. PICK e : e = Rsp!Delta(id, t, f)
  OBVIOUS
<1>2. e \in Rsp!Events
  BY <1>1 DEF Rsp!Delta, Rsp!Events
<1>3. e.type = "delta" /\ e.id = id /\ e.item = t /\ e.fragment = f
  BY <1>1 DEF Rsp!Delta
<1>4. /\ Rsp!Position(d, e.id) = k /\ Rsp!Positions(d, e.id) # {} /\ d.items \in Seq(Items)
      /\ d.items[k] \in Items /\ k \in 1 .. Len(d.items)
  BY <1>3, ItemAt
<1>5. Rsp!Legal(d, e)
  <2>1. ~ d.items[k].done /\ (t \in Rsp!Parted => d.items[k].part = "open")
    BY DEF Underway, Parted, Rsp!Parted
  <2> QED BY <1>3, <1>4, <2>1 DEF Rsp!Legal
<1>6. "streaming" \notin Rsp!FinalTypes
  BY DEF Rsp!FinalTypes
<1>7. PICK x : x = Rsp!Apply(d, e)
  OBVIOUS
<1>8. Seen(d, e, x, [d.items EXCEPT ![k] = Grown(d.items[k], f)])
  BY <1>2, <1>3, <1>7, DeltaSeen
<1>9. Replaced(d.items, [d.items EXCEPT ![k] = Grown(d.items[k], f)], k, Grown(d.items[k], f))
  <2>1. Grown(d.items[k], f) \in Items
    BY <1>4, ContentGrown
  <2> QED BY <1>4, <2>1, ReplacedBy
<1>10. Runs(d, <<e>>, x, tidy)
  BY <1>5, <1>6, <1>7, RunsOne
<1> QED BY <1>1, <1>2, <1>8, <1>9, <1>10 DEF Seen

LEMMA PartGrowsGood ==
  ASSUME NEW c, NEW s, NEW r \in Converters, NEW tidy \in BOOLEAN, Good(c, s, tidy), NEW t \in Parted,
         NEW f \in Fragments, Ix(s, t) >= 0, GrowsPart(s, r, t, f), PartsFit(r, tidy),
         Emits(s, r, <<Rsp!Delta(PartId(s, t), t, f)>>)
  PROVE  Good(c, r, tidy)
<1>1. s \in Converters /\ Numbered(s)
  BY DEF Good
<1>2. PICK d \in Clients : d.phase = "streaming" /\ Runs(c, s.events, d, tidy) /\ Mirrors(s, d.items, tidy)
  BY DEF Good
<1>3. PICK id \in ItemIds : id = PartId(s, t)
  BY <1>1, IdsTyped
<1>4. t \in Rsp!ItemTypes /\ d.items \in Seq(Items)
  BY DEF Parted, Rsp!ItemTypes, Clients
<1>5. PICK k : k = Ix(s, t) + 1
  OBVIOUS
<1>6. LatestAt(d.items, id, k) /\ d.items[k].type = t /\ Underway(d.items[k])
  BY <1>1, <1>2, <1>3, <1>4, <1>5, PartLatest
<1>7. PICK e : e = Rsp!Delta(id, t, f)
  OBVIOUS
<1>8. PICK x \in Clients : /\ x.phase = "streaming" /\ Replaced(d.items, x.items, k, Grown(d.items[k], f))
                           /\ Runs(d, <<e>>, x, tidy) /\ e \in Rsp!Events
  BY <1>2, <1>4, <1>6, <1>7, DeltaRuns
<1>9. Runs(c, r.events, x, tidy)
  <2>1. PICK es : es = <<e>>
    OBVIOUS
  <2>2. es \in Seq(Rsp!Events)
    BY <1>8, <2>1, OneEvent
  <2>3. Emits(s, r, es) /\ Runs(d, es, x, tidy)
    BY <1>3, <1>7, <1>8, <2>1
  <2>4. Runs(c, s.events, d, tidy)
    BY <1>2
  <2>5. PICK old \in Seq(Rsp!Events) : old = s.events
    BY <1>1 DEF Converters
  <2>6. Runs(c, old \o es, x, tidy)
    BY <2>3, <2>4, <2>2, <2>5, RunsJoin
  <2> QED BY <2>3, <2>5, <2>6 DEF Emits
<1>10. Mirrors(r, x.items, tidy) /\ Numbered(r)
  BY <1>1, <1>2, <1>4, <1>5, <1>8, PartGrownMirrors
<1> QED BY <1>8, <1>9, <1>10 DEF Good

LEMMA CallGrowsGood ==
  ASSUME NEW c, NEW s, NEW r \in Converters, NEW tidy \in BOOLEAN, Good(c, s, tidy), NEW b \in Known(s),
         NEW f \in Fragments, GrowsCall(s, r, b, f), SameText(s, r),
         Emits(s, r, <<Rsp!Delta(CallId(b), "function_call", f)>>)
  PROVE  Good(c, r, tidy)
<1>1. s \in Converters /\ Numbered(s)
  BY DEF Good
<1>2. PICK d \in Clients : d.phase = "streaming" /\ Runs(c, s.events, d, tidy) /\ Mirrors(s, d.items, tidy)
  BY DEF Good
<1>3. PICK id \in ItemIds : id = CallId(b)
  BY <1>1, IdsTyped, KnownState
<1>4. "function_call" \in Rsp!ItemTypes /\ d.items \in Seq(Items)
  BY DEF Rsp!ItemTypes, Clients
<1>5. PICK k : k = s.toolCallByIndex[b].itemIx + 1
  OBVIOUS
<1>6. LatestAt(d.items, id, k) /\ d.items[k].type = "function_call" /\ Underway(d.items[k])
  BY <1>1, <1>2, <1>3, <1>4, <1>5, CallLatest
<1>7. PICK e : e = Rsp!Delta(id, "function_call", f)
  OBVIOUS
<1>8. PICK x \in Clients : /\ x.phase = "streaming" /\ Replaced(d.items, x.items, k, Grown(d.items[k], f))
                           /\ Runs(d, <<e>>, x, tidy) /\ e \in Rsp!Events
  BY <1>2, <1>4, <1>6, <1>7, DeltaRuns
<1>9. Runs(c, r.events, x, tidy)
  <2>1. PICK es : es = <<e>>
    OBVIOUS
  <2>2. es \in Seq(Rsp!Events)
    BY <1>8, <2>1, OneEvent
  <2>3. Emits(s, r, es) /\ Runs(d, es, x, tidy)
    BY <1>3, <1>7, <1>8, <2>1
  <2>4. Runs(c, s.events, d, tidy)
    BY <1>2
  <2>5. PICK old \in Seq(Rsp!Events) : old = s.events
    BY <1>1 DEF Converters
  <2>6. Runs(c, old \o es, x, tidy)
    BY <2>3, <2>4, <2>2, <2>5, RunsJoin
  <2> QED BY <2>3, <2>5, <2>6 DEF Emits
<1>10. Mirrors(r, x.items, tidy) /\ Numbered(r)
  BY <1>1, <1>2, <1>4, <1>5, <1>8, CallGrownMirrors
<1>11. PartsFit(r, tidy)
  BY DEF Good, PartsFit, SameText
<1> QED BY <1>8, <1>9, <1>10, <1>11 DEF Good

(* At rest, a stream that is good is good for a stricter eye.              *)
LEMMA Retidied ==
  ASSUME NEW c, NEW s, NEW tidy \in BOOLEAN, NEW strict \in BOOLEAN, strict => tidy,
         Good(c, s, tidy), s.events = <<>>
  PROVE  Good(c, s, strict)
<1>1. PICK d \in Clients : d.phase = "streaming" /\ Runs(c, s.events, d, tidy) /\ Mirrors(s, d.items, tidy)
  BY DEF Good
<1>2. Runs(c, <<>>, d, tidy)
  BY <1>1
<1>3. d = c
  BY <1>2, RunsNowhere
<1>4. Runs(c, <<>>, c, strict)
  BY RunsNothing
<1>5. Runs(c, s.events, d, strict)
  BY <1>3, <1>4
<1>6. Mirrors(s, d.items, strict)
  BY <1>1 DEF Mirrors
<1>7. PartsFit(s, strict)
  BY DEF Good, PartsFit
<1> QED BY <1>1, <1>5, <1>6, <1>7 DEF Good

(* The status and the blocks noted are not the client's business.          *)
LEMMA MirrorsAside ==
  ASSUME NEW s, NEW r, NEW items, NEW tidy, Mirrors(s, items, tidy),
         SameOutput(s, r), SameCalls(s, r), SameParts(s, r)
  PROVE  Mirrors(r, items, tidy)
<1>1. Known(r) = Known(s)
  BY DEF Known, SameCalls
<1>2. Listed(r, items)
  BY DEF Mirrors, Listed, SameOutput
<1>3. Placed(r, items)
  BY <1>1 DEF Mirrors, Placed, OfPart, OfCall, SameCalls, SameParts
<1>4. \A t \in Parted : Flat(items, t) = Acc(r, t) /\ (Ix(r, t) < 0 => Acc(r, t) = <<>>)
  BY DEF Mirrors, SameParts
<1>5. ASSUME tidy, NEW t \in Parted PROVE Alone(r, items, t)
  <2>1. Alone(s, items, t)
    BY <1>5 DEF Mirrors
  <2> QED BY <2>1 DEF Alone, SameParts
<1> QED BY <1>2, <1>3, <1>4, <1>5 DEF Mirrors

LEMMA NumberedAside ==
  ASSUME NEW s, NEW r, Numbered(s), SameOutput(s, r), SameCalls(s, r), SameParts(s, r)
  PROVE  Numbered(r)
<1>1. Known(r) = Known(s)
  BY DEF Known, SameCalls
<1> QED BY <1>1 DEF Numbered, SameOutput, SameCalls, SameParts

LEMMA PartsSame ==
  ASSUME NEW s, NEW r, r.responseId = s.responseId, r.accText = s.accText, r.textItemIx = s.textItemIx,
         SameReasoning(s, r)
  PROVE  SameParts(s, r)
BY DEF SameParts, SameReasoning, Ix, Acc, PartId, MsgId, ReasonId

LEMMA GoodAside ==
  ASSUME NEW c, NEW s, NEW r \in Converters, NEW tidy \in BOOLEAN, Good(c, s, tidy), SameOutput(s, r),
         SameCalls(s, r), SameText(s, r), SameReasoning(s, r), r.responseId = s.responseId, r.events = s.events
  PROVE  Good(c, r, tidy)
<1>1. PICK d \in Clients : d.phase = "streaming" /\ Runs(c, s.events, d, tidy) /\ Mirrors(s, d.items, tidy)
  BY DEF Good
<1>2. SameParts(s, r)
  BY PartsSame DEF SameText
<1>3. Numbered(r) /\ PartsFit(r, tidy)
  BY <1>2, NumberedAside DEF Good, PartsFit, SameText
<1>4. Mirrors(r, d.items, tidy) /\ Runs(c, r.events, d, tidy)
  BY <1>1, <1>2, MirrorsAside
<1> QED BY <1>1, <1>3, <1>4 DEF Good

-----------------------------------------------------------------------------
(* The operators the handlers are made of keep a stream good.              *)

LEMMA ReasoningOpened ==
  ASSUME NEW c, NEW s, NEW tidy \in BOOLEAN, Good(c, s, tidy), tidy => s.reasonItemIx < 0,
         NEW r, r = StartReasoningItem(s)
  PROVE  /\ Good(c, r, tidy) /\ Framed(s, r) /\ SameText(s, r) /\ SameCalls(s, r)
         /\ r.accReasoning = s.accReasoning /\ r.reasonItemIx >= 0
<1>1. s \in Converters /\ Numbered(s) /\ PartsFit(s, tidy)
  BY DEF Good
<1>2. PICK index \in {None, Len(s.output)} :
         Emits(s, r, <<Rsp!ItemAdded(index, ReasonId(s), "reasoning"), Rsp!PartAdded(ReasonId(s), 0)>>)
  BY <1>1, StartReasoningIs
<1>3. /\ r \in Converters /\ Framed(s, r) /\ SameText(s, r) /\ SameCalls(s, r)
      /\ MoreOutput(s, r, ReasonId(s), "reasoning")
      /\ r.accReasoning = s.accReasoning /\ r.reasonItemIx = Len(s.output)
  BY <1>1, StartReasoningIs
<1>4. /\ "reasoning" \in Parted /\ PartId(s, "reasoning") = ReasonId(s)
      /\ Ix(s, "reasoning") = s.reasonItemIx
  BY <1>1, IdsTyped DEF Parted, Ix
<1>5. OpensPart(s, r, "reasoning")
  <2>1. \A u \in Parted : Acc(r, u) = Acc(s, u) /\ PartId(r, u) = PartId(s, u)
    BY <1>3 DEF Parted, Acc, PartId, MsgId, ReasonId, Framed, SameText
  <2>2. Ix(r, "reasoning") = Len(s.output) /\ \A u \in Parted \ {"reasoning"} : Ix(r, u) = Ix(s, u)
    BY <1>3 DEF Parted, Ix, SameText
  <2> QED BY <1>3, <1>4, <2>1, <2>2 DEF OpensPart
<1>6. PartsFit(r, tidy)
  BY <1>1, <1>3 DEF PartsFit, SameText
<1>7. Emits(s, r, <<Rsp!ItemAdded(index, PartId(s, "reasoning"), "reasoning"),
                    Rsp!PartAdded(PartId(s, "reasoning"), 0)>>)
  BY <1>2, <1>4
<1>8. tidy => Ix(s, "reasoning") < 0 /\ 0 = 0
  BY <1>4
<1>9. Good(c, r, tidy)
  BY <1>3, <1>4, <1>5, <1>6, <1>7, <1>8, PartOpensGood
<1>10. Len(s.output) \in Nat
  BY <1>1 DEF Converters
<1> QED BY <1>3, <1>9, <1>10

LEMMA SummaryGrown ==
  ASSUME NEW c, NEW s, NEW tidy \in BOOLEAN, Good(c, s, tidy), s.reasonItemIx >= 0,
         NEW f \in Fragments, NEW r, r = SummaryDelta(s, f)
  PROVE  /\ Good(c, r, tidy) /\ Framed(s, r) /\ SameText(s, r) /\ SameCalls(s, r)
         /\ r.accReasoning = Append(s.accReasoning, f) /\ r.reasonItemIx = s.reasonItemIx
<1>1. s \in Converters /\ Numbered(s) /\ PartsFit(s, tidy)
  BY DEF Good
<1>2. /\ r \in Converters /\ Emits(s, r, <<Rsp!Delta(ReasonId(s), "reasoning", f)>>)
      /\ Framed(s, r) /\ SameText(s, r) /\ SameOutput(s, r) /\ SameCalls(s, r)
      /\ r.accReasoning = Append(s.accReasoning, f) /\ r.reasonItemIx = s.reasonItemIx
  BY <1>1, SummaryDeltaIs
<1>3. /\ "reasoning" \in Parted /\ PartId(s, "reasoning") = ReasonId(s)
      /\ Ix(s, "reasoning") = s.reasonItemIx
  BY <1>1, IdsTyped DEF Parted, Ix
<1>4. GrowsPart(s, r, "reasoning", f)
  <2>1. \A u \in Parted : Ix(r, u) = Ix(s, u) /\ PartId(r, u) = PartId(s, u)
    BY <1>2 DEF Parted, Ix, PartId, MsgId, ReasonId, Framed, SameText
  <2>2. /\ Acc(r, "reasoning") = Append(Acc(s, "reasoning"), f)
        /\ \A u \in Parted \ {"reasoning"} : Acc(r, u) = Acc(s, u)
    BY <1>2 DEF Parted, Acc, SameText
  <2> QED BY <1>2, <2>1, <2>2 DEF GrowsPart
<1>5. PartsFit(r, tidy)
  BY <1>1, <1>2 DEF PartsFit, SameText
<1>6. Emits(s, r, <<Rsp!Delta(PartId(s, "reasoning"), "reasoning", f)>>) /\ Ix(s, "reasoning") >= 0
  BY <1>2, <1>3
<1>7. Good(c, r, tidy)
  BY <1>2, <1>3, <1>4, <1>5, <1>6, PartGrowsGood
<1> QED BY <1>2, <1>7

LEMMA TextOpened ==
  ASSUME NEW c, NEW s, NEW tidy \in BOOLEAN, Good(c, s, tidy), tidy => s.textItemIx < 0,
         NEW index \in {None, Len(s.output)}, NEW r, r = OpenText(s, index)
  PROVE  /\ Good(c, r, tidy) /\ Framed(s, r) /\ SameReasoning(s, r) /\ SameCalls(s, r)
         /\ r.accText = s.accText /\ r.textItemIx >= 0
<1>1. s \in Converters /\ Numbered(s) /\ PartsFit(s, tidy)
  BY DEF Good
<1>2. /\ r \in Converters
      /\ Emits(s, r, <<Rsp!ItemAdded(index, MsgId(s), "message"), Rsp!PartAdded(MsgId(s), s.partIndex + 1)>>)
      /\ Framed(s, r) /\ SameReasoning(s, r) /\ SameCalls(s, r) /\ MoreOutput(s, r, MsgId(s), "message")
      /\ r.accText = s.accText /\ r.textItemIx = Len(s.output)
      /\ r.partIndex = s.partIndex + 1 /\ r.textPartIx = s.partIndex + 1
  BY <1>1, OpenTextIs
<1>3. /\ "message" \in Parted /\ PartId(s, "message") = MsgId(s) /\ Ix(s, "message") = s.textItemIx
  BY <1>1, IdsTyped DEF Parted, Ix
<1>4. PICK p \in Nat : p = s.partIndex + 1
  <2>1. s.partIndex + 1 \in Nat
    BY <1>1 DEF Converters
  <2> QED BY <2>1
<1>5. OpensPart(s, r, "message")
  <2>1. \A u \in Parted : Acc(r, u) = Acc(s, u) /\ PartId(r, u) = PartId(s, u)
    BY <1>2 DEF Parted, Acc, PartId, MsgId, ReasonId, Framed, SameReasoning
  <2>2. Ix(r, "message") = Len(s.output) /\ \A u \in Parted \ {"message"} : Ix(r, u) = Ix(s, u)
    BY <1>2 DEF Parted, Ix, SameReasoning
  <2> QED BY <1>2, <1>3, <2>1, <2>2 DEF OpensPart
<1>6. tidy => Ix(s, "message") < 0 /\ p = 0
  BY <1>1, <1>3, <1>4 DEF PartsFit
<1>7. Len(s.output) \in Nat
  BY <1>1 DEF Converters
<1>8. PartsFit(r, tidy)
  BY <1>2, <1>4, <1>6, <1>7 DEF PartsFit
<1>9. Emits(s, r, <<Rsp!ItemAdded(index, PartId(s, "message"), "message"),
                    Rsp!PartAdded(PartId(s, "message"), p)>>)
  BY <1>2, <1>3, <1>4
<1>10. Good(c, r, tidy)
  BY <1>2, <1>3, <1>5, <1>6, <1>8, <1>9, PartOpensGood
<1> QED BY <1>2, <1>7, <1>10

LEMMA TextGrown ==
  ASSUME NEW c, NEW s, NEW tidy \in BOOLEAN, Good(c, s, tidy), s.textItemIx >= 0,
         NEW f \in Fragments, NEW r, r = TextDelta(s, f)
  PROVE  /\ Good(c, r, tidy) /\ Framed(s, r) /\ SameReasoning(s, r) /\ SameCalls(s, r)
         /\ r.accText = Append(s.accText, f) /\ r.textItemIx = s.textItemIx
<1>1. s \in Converters /\ Numbered(s) /\ PartsFit(s, tidy)
  BY DEF Good
<1>2. /\ r \in Converters /\ Emits(s, r, <<Rsp!Delta(MsgId(s), "message", f)>>)
      /\ Framed(s, r) /\ SameReasoning(s, r) /\ SameOutput(s, r) /\ SameCalls(s, r)
      /\ r.accText = Append(s.accText, f) /\ r.textItemIx = s.textItemIx
      /\ r.textPartIx = s.textPartIx /\ r.partIndex = s.partIndex
  BY <1>1, TextDeltaIs
<1>3. /\ "message" \in Parted /\ PartId(s, "message") = MsgId(s) /\ Ix(s, "message") = s.textItemIx
  BY <1>1, IdsTyped DEF Parted, Ix
<1>4. GrowsPart(s, r, "message", f)
  <2>1. \A u \in Parted : Ix(r, u) = Ix(s, u) /\ PartId(r, u) = PartId(s, u)
    BY <1>2 DEF Parted, Ix, PartId, MsgId, ReasonId, Framed, SameReasoning
  <2>2. /\ Acc(r, "message") = Append(Acc(s, "message"), f)
        /\ \A u \in Parted \ {"message"} : Acc(r, u) = Acc(s, u)
    BY <1>2 DEF Parted, Acc, SameReasoning
  <2> QED BY <1>2, <2>1, <2>2 DEF GrowsPart
<1>5. PartsFit(r, tidy)
  BY <1>1, <1>2 DEF PartsFit
<1>6. Emits(s, r, <<Rsp!Delta(PartId(s, "message"), "message", f)>>) /\ Ix(s, "message") >= 0
  BY <1>2, <1>3
<1>7. Good(c, r, tidy)
  BY <1>2, <1>3, <1>4, <1>5, <1>6, PartGrowsGood
<1> QED BY <1>2, <1>7

LEMMA CallOpened ==
  ASSUME NEW c, NEW s, NEW tidy \in BOOLEAN, Good(c, s, tidy), NEW b \in Calls \ Known(s),
         NEW index \in {None, Len(s.output)}, NEW r, r = OpenCall(s, index, b)
  PROVE  /\ Good(c, r, tidy) /\ Framed(s, r) /\ SameText(s, r) /\ SameReasoning(s, r)
         /\ CallIs(s, r, b, <<>>, Len(s.output))
<1>1. s \in Converters /\ Numbered(s)
  BY DEF Good
<1>2. /\ r \in Converters /\ Emits(s, r, <<Rsp!ItemAdded(index, CallId(b), "function_call")>>)
      /\ Framed(s, r) /\ SameText(s, r) /\ SameReasoning(s, r)
      /\ MoreOutput(s, r, CallId(b), "function_call") /\ CallIs(s, r, b, <<>>, Len(s.output))
  BY <1>1, OpenCallIs
<1>3. SameParts(s, r)
  BY <1>2, PartsSame DEF Framed, SameText
<1>4. OpensCall(s, r, b)
  BY <1>2, <1>3 DEF OpensCall, CallIs
<1>5. Good(c, r, tidy)
  BY <1>2, <1>4, CallOpensGood
<1> QED BY <1>2, <1>5

LEMMA ArgumentsGrown ==
  ASSUME NEW c, NEW s, NEW tidy \in BOOLEAN, Good(c, s, tidy), NEW b \in Known(s),
         NEW f \in Fragments, NEW r, r = ArgumentsDelta(s, b, f)
  PROVE  /\ Good(c, r, tidy) /\ Framed(s, r) /\ SameText(s, r) /\ SameReasoning(s, r)
         /\ CallIs(s, r, b, Append(s.toolCallByIndex[b].args, f), s.toolCallByIndex[b].itemIx)
<1>1. s \in Converters
  BY DEF Good
<1>2. /\ r \in Converters /\ Emits(s, r, <<Rsp!Delta(CallId(b), "function_call", f)>>)
      /\ Framed(s, r) /\ SameText(s, r) /\ SameReasoning(s, r) /\ SameOutput(s, r)
      /\ CallIs(s, r, b, Append(s.toolCallByIndex[b].args, f), s.toolCallByIndex[b].itemIx)
  BY <1>1, ArgumentsDeltaIs
<1>3. SameParts(s, r)
  BY <1>2, PartsSame DEF Framed, SameText
<1>4. GrowsCall(s, r, b, f)
  BY <1>2, <1>3 DEF GrowsCall, CallIs
<1>5. Good(c, r, tidy)
  BY <1>2, <1>4, CallGrowsGood
<1> QED BY <1>2, <1>5

-----------------------------------------------------------------------------
(* OpenAI chunks.                                                          *)

LEMMA GoodTyped ==
  ASSUME NEW c, NEW s, NEW tidy, Good(c, s, tidy)
  PROVE  /\ s \in Converters /\ Numbered(s) /\ PartsFit(s, tidy)
         /\ s.accText \in Seq(Fragments) /\ s.accReasoning \in Seq(Fragments)
         /\ Len(s.output) \in Nat /\ s.itemIndex + 1 = Len(s.output)
         /\ s.textItemIx \in Nat \cup {-1} /\ s.reasonItemIx \in Nat \cup {-1}
<1>1. s \in Converters /\ Numbered(s) /\ PartsFit(s, tidy)
  BY DEF Good
<1>2. s.output \in Seq(Rsp!OutputItems)
  BY <1>1 DEF Converters
<1>3. Len(s.output) \in Nat
  BY <1>2
<1>4. s.itemIndex + 1 = Len(s.output)
  BY <1>1, <1>3 DEF Numbered
<1> QED BY <1>1, <1>3, <1>4 DEF Converters

LEMMA ReasoningHandled ==
  ASSUME NEW c, NEW s, NEW tidy \in BOOLEAN, Good(c, s, tidy), NEW f \in Fragments,
         NEW r, r = HandleReasoning(s, f)
  PROVE  /\ Good(c, r, tidy) /\ Framed(s, r) /\ SameText(s, r) /\ SameCalls(s, r)
         /\ r.accReasoning = Append(s.accReasoning, f)
<1>1. s \in Converters /\ s.reasonItemIx \in Nat \cup {-1}
  BY GoodTyped
<1>2. CASE s.reasonItemIx < 0
  <2>1. PICK q : q = StartReasoningItem(s)
    OBVIOUS
  <2>2. /\ Good(c, q, tidy) /\ Framed(s, q) /\ SameText(s, q) /\ SameCalls(s, q)
        /\ q.accReasoning = s.accReasoning /\ q.reasonItemIx >= 0
    BY <1>2, <2>1, ReasoningOpened
  <2>3. r = SummaryDelta(q, f)
    BY <1>2, <2>1 DEF HandleReasoning
  <2>4. /\ Good(c, r, tidy) /\ Framed(q, r) /\ SameText(q, r) /\ SameCalls(q, r)
        /\ r.accReasoning = Append(q.accReasoning, f)
    BY <2>2, <2>3, SummaryGrown
  <2>5. q \in Converters /\ r \in Converters
    BY <2>2, <2>4, GoodTyped
  <2>6. Framed(s, r) /\ SameText(s, r) /\ SameCalls(s, r)
    BY <1>1, <2>2, <2>4, <2>5, SameTrans
  <2> QED BY <2>2, <2>4, <2>6
<1>3. CASE s.reasonItemIx >= 0
  <2>1. r = SummaryDelta(s, f)
    BY <1>1, <1>3 DEF HandleReasoning
  <2> QED BY <1>3, <2>1, SummaryGrown
<1> QED BY <1>1, <1>2, <1>3

LEMMA OpenTextOpenAI ==
  ASSUME NEW s \in Converters, s.textPartIx < 0
  PROVE  /\ StartContentPart(StartMessageItem(s)) = OpenText(s, s.itemIndex + 1)
         /\ StartMessageItem(s).textPartIx < 0
<1>1. StartContentPart(StartMessageItem(s)) = OpenText(s, s.itemIndex + 1)
  BY DEF StartMessageItem, OpenText
<1>2. PICK q : q = AddItem(s, s.itemIndex + 1, MsgId(s), "message")
  OBVIOUS
<1>3. q.textPartIx = s.textPartIx /\ DOMAIN q = DOMAIN s
  BY <1>2 DEF AddItem, Emit, Converters
<1>4. StartMessageItem(s) = [q EXCEPT !.textItemIx = s.itemIndex + 1]
  BY <1>2 DEF StartMessageItem
<1>5. "textPartIx" \in DOMAIN q
  BY <1>3 DEF Converters
<1>6. StartMessageItem(s).textPartIx = s.textPartIx
  BY <1>3, <1>4, <1>5
<1> QED BY <1>1, <1>6

LEMMA TextHandled ==
  ASSUME NEW c, NEW s, NEW tidy \in BOOLEAN, Good(c, s, tidy), NEW f \in Fragments,
         NEW r, r = HandleText(s, f)
  PROVE  /\ Good(c, r, tidy) /\ Framed(s, r) /\ SameReasoning(s, r) /\ SameCalls(s, r)
         /\ r.accText = Append(s.accText, f)
<1>1. /\ s \in Converters /\ s.textItemIx \in Nat \cup {-1} /\ PartsFit(s, tidy)
      /\ s.itemIndex + 1 = Len(s.output)
  BY GoodTyped
<1>2. s.textPartIx < 0 <=> s.textItemIx < 0
  BY <1>1 DEF PartsFit
<1>3. CASE s.textItemIx < 0
  <2>1. PICK q : q = OpenText(s, s.itemIndex + 1)
    OBVIOUS
  <2>2. /\ Good(c, q, tidy) /\ Framed(s, q) /\ SameReasoning(s, q) /\ SameCalls(s, q)
        /\ q.accText = s.accText /\ q.textItemIx >= 0
    BY <1>1, <1>3, <2>1, TextOpened
  <2>3. PICK item : item = StartMessageItem(s)
    OBVIOUS
  <2>4. item.textPartIx < 0 /\ StartContentPart(item) = q
    BY <1>1, <1>2, <1>3, <2>1, <2>3, OpenTextOpenAI
  <2>5. r = TextDelta(q, f)
    BY <1>3, <2>3, <2>4 DEF HandleText
  <2>6. /\ Good(c, r, tidy) /\ Framed(q, r) /\ SameReasoning(q, r) /\ SameCalls(q, r)
        /\ r.accText = Append(q.accText, f)
    BY <2>2, <2>5, TextGrown
  <2>7. q \in Converters /\ r \in Converters
    BY <2>2, <2>6, GoodTyped
  <2>8. Framed(s, r) /\ SameReasoning(s, r) /\ SameCalls(s, r)
    BY <1>1, <2>2, <2>6, <2>7, SameTrans
  <2> QED BY <2>2, <2>6, <2>8
<1>4. CASE s.textItemIx >= 0
  <2>1. ~ (s.textPartIx < 0) /\ ~ (s.textItemIx < 0)
    BY <1>1, <1>2, <1>4
  <2>2. r = TextDelta(s, f)
    BY <2>1 DEF HandleText
  <2> QED BY <1>4, <2>2, TextGrown
<1> QED BY <1>1, <1>3, <1>4

(* Call c, and no other, is told more arguments.                           *)
CallTold(s, r, c, args) ==
    /\ Known(r) = Known(s) \cup {c} /\ ArgsOf(r, c) = ArgsOf(s, c) \o args
    /\ \A b \in Calls \ {c} : ArgsOf(r, b) = ArgsOf(s, b)

(* Call c is known with the arguments given, and no other has changed.     *)
CallNow(s, r, c, args) ==
    /\ Known(r) = Known(s) \cup {c} /\ ArgsOf(r, c) = args
    /\ \A b \in Calls \ {c} : ArgsOf(r, b) = ArgsOf(s, b)

LEMMA CallKnown ==
  ASSUME NEW s, NEW r, NEW c \in Calls, NEW args \in Seq(Fragments), NEW ix \in Nat,
         CallIs(s, r, c, args, ix)
  PROVE  CallNow(s, r, c, args)
<1>1. r.toolCallByIndex[c] # None /\ r.toolCallByIndex[c].args = args
  BY CallStateFacts DEF CallIs
<1>2. Known(r) = Known(s) \cup {c}
  BY <1>1 DEF Known, CallIs
<1>3. ASSUME NEW b \in Calls \ {c} PROVE ArgsOf(r, b) = ArgsOf(s, b)
  BY <1>2 DEF ArgsOf, CallIs
<1> QED BY <1>1, <1>2, <1>3 DEF ArgsOf, CallNow

LEMMA CallHandled ==
  ASSUME NEW c, NEW s, NEW tidy \in BOOLEAN, Good(c, s, tidy), NEW b \in Calls,
         NEW d, d.index = b, d.args = <<>> \/ \E f \in Fragments : d.args = <<f>>,
         NEW r, r = HandleToolCall(s, d)
  PROVE  /\ Good(c, r, tidy) /\ Framed(s, r) /\ SameText(s, r) /\ SameReasoning(s, r)
         /\ CallTold(s, r, b, d.args)
<1>1. s \in Converters /\ Len(s.output) \in Nat /\ s.itemIndex + 1 = Len(s.output)
  BY GoodTyped
<1>2. PICK q : q = IF b \in Known(s) THEN s ELSE OpenCall(s, Len(s.output), b)
  OBVIOUS
<1>3. r = IF d.args = <<>> THEN q ELSE ArgumentsDelta(q, b, d.args[1])
  BY <1>1, <1>2 DEF HandleToolCall, OpenCall, Known
<1>4. /\ Good(c, q, tidy) /\ Framed(s, q) /\ SameText(s, q) /\ SameReasoning(s, q)
      /\ Known(q) = Known(s) \cup {b} /\ \A a \in Calls : ArgsOf(q, a) = ArgsOf(s, a)
  <2>1. CASE b \in Known(s)
    BY <1>2, <2>1 DEF Framed, SameText, SameReasoning
  <2>2. CASE b \notin Known(s)
    <3>1. q = OpenCall(s, Len(s.output), b) /\ b \in Calls \ Known(s)
      BY <1>2, <2>2
    <3>2. /\ Good(c, q, tidy) /\ Framed(s, q) /\ SameText(s, q) /\ SameReasoning(s, q)
          /\ CallIs(s, q, b, <<>>, Len(s.output))
      BY <3>1, CallOpened
    <3>3. PICK none : none = <<>>
      OBVIOUS
    <3>4. PICK n \in Nat : n = Len(s.output)
      BY <1>1
    <3>5. CallIs(s, q, b, none, n) /\ none \in Seq(Fragments)
      BY <3>2, <3>3, <3>4
    <3>6. CallNow(s, q, b, none)
      BY <3>5, CallKnown
    <3>7. ArgsOf(s, b) = <<>>
      BY <2>2 DEF ArgsOf
    <3> QED BY <3>2, <3>3, <3>6, <3>7 DEF CallNow
  <2> QED BY <2>1, <2>2
<1>5. q \in Converters /\ b \in Known(q)
  BY <1>4, GoodTyped
<1>6. q.toolCallByIndex[b].args \in Seq(Fragments) /\ q.toolCallByIndex[b].itemIx \in Nat
  BY <1>5, KnownState
<1>7. ArgsOf(q, b) = q.toolCallByIndex[b].args
  BY <1>5 DEF ArgsOf
<1>8. CASE d.args = <<>>
  <2>1. r = q
    BY <1>3, <1>8
  <2>2. ArgsOf(s, b) \o <<>> = ArgsOf(s, b)
    BY <1>4, <1>6, <1>7
  <2>3. CallTold(s, r, b, d.args)
    BY <1>4, <1>8, <2>1, <2>2 DEF CallTold
  <2> QED BY <1>4, <2>1, <2>3
<1>9. CASE \E f \in Fragments : d.args = <<f>>
  <2>1. PICK f \in Fragments : d.args = <<f>>
    BY <1>9
  <2>2. r = ArgumentsDelta(q, b, f)
    <3>1. d.args # <<>> /\ d.args[1] = f
      BY <2>1
    <3> QED BY <1>3, <3>1
  <2>3. PICK args : args = Append(q.toolCallByIndex[b].args, f)
    OBVIOUS
  <2>4. args \in Seq(Fragments) /\ args = ArgsOf(s, b) \o <<f>>
    BY <1>4, <1>6, <1>7, <2>3
  <2>5. /\ Good(c, r, tidy) /\ Framed(q, r) /\ SameText(q, r) /\ SameReasoning(q, r)
        /\ CallIs(q, r, b, args, q.toolCallByIndex[b].itemIx)
    BY <1>4, <1>5, <2>2, <2>3, ArgumentsGrown
  <2>6. PICK ix \in Nat : ix = q.toolCallByIndex[b].itemIx
    BY <1>6
  <2>7. CallIs(q, r, b, args, ix) /\ args \in Seq(Fragments)
    BY <2>4, <2>5, <2>6
  <2>8. CallNow(q, r, b, args)
    BY <2>7, CallKnown
  <2>9. r \in Converters
    BY <2>5, GoodTyped
  <2>10. Framed(s, r) /\ SameText(s, r) /\ SameReasoning(s, r)
    BY <1>1, <1>4, <1>5, <2>5, <2>9, SameTrans
  <2>11. CallTold(s, r, b, d.args)
    BY <1>4, <2>1, <2>4, <2>8 DEF CallTold, CallNow
  <2> QED BY <2>5, <2>10, <2>11
<1> QED BY <1>8, <1>9

-----------------------------------------------------------------------------
(* Fragments in order, and at most one more of them.                       *)

Few(fs) == fs = <<>> \/ \E f \in Fragments : fs = <<f>>

LEMMA InOrderMore ==
  ASSUME NEW of, NEW n \in Nat, NEW m \in Nat, m = n + 1
  PROVE  Append(InOrder(n, of), Fragment(of, m)) = InOrder(m, of)
<1>1. PICK E : E = {Fragment(of, i) : i \in Nat}
  OBVIOUS
<1>2. PICK q : q = InOrder(n, of)
  OBVIOUS
<1>3. q = [i \in 1 .. n |-> Fragment(of, i)]
  BY <1>2 DEF InOrder
<1>4. q \in Seq(E) /\ Len(q) = n /\ \A i \in 1 .. n : q[i] = Fragment(of, i)
  <2>1. q \in [1 .. n -> E]
    BY <1>1, <1>3
  <2> QED BY <1>3, <2>1
<1>5. PICK x \in E : x = Fragment(of, m)
  BY <1>1
<1>6. PICK a : a = Append(q, x)
  OBVIOUS
<1>7. a \in Seq(E) /\ Len(a) = m /\ a[m] = x /\ \A i \in 1 .. n : a[i] = q[i]
  BY <1>4, <1>6
<1>8. ASSUME NEW i \in 1 .. m PROVE a[i] = Fragment(of, i)
  <2>1. CASE i = m
    BY <1>5, <1>7, <2>1
  <2>2. CASE i # m
    <3>1. i \in 1 .. n
      BY <2>2
    <3> QED BY <1>4, <1>7, <3>1
  <2> QED BY <2>1, <2>2
<1>9. a = [i \in 1 .. m |-> a[i]]
  BY <1>7
<1>10. [i \in 1 .. m |-> a[i]] = [i \in 1 .. m |-> Fragment(of, i)]
  BY <1>8, Zenon
<1> QED BY <1>2, <1>5, <1>6, <1>9, <1>10 DEF InOrder

LEMMA InOrderNothing ==
  ASSUME NEW of
  PROVE  InOrder(0, of) = <<>>
BY DEF InOrder

LEMMA FragmentTyped ==
  ASSUME NEW of \in {"text", "reasoning"} \cup Calls, NEW n \in Nat
  PROVE  Fragment(of, n + 1) \in Fragments
<1>1. PICK m \in Nat \ {0} : m = n + 1
  OBVIOUS
<1>2. Fragment(of, m) \in Fragments
  BY DEF Fragment, Fragments
<1> QED BY <1>1, <1>2

LEMMA InOrderTyped ==
  ASSUME NEW of \in {"text", "reasoning"} \cup Calls, NEW n \in Nat
  PROVE  InOrder(n, of) \in Seq(Fragments) /\ Len(InOrder(n, of)) = n
<1>1. ASSUME NEW i \in 1 .. n PROVE Fragment(of, i) \in Fragments
  BY DEF Fragment, Fragments
<1>2. PICK q : q = [i \in 1 .. n |-> Fragment(of, i)]
  OBVIOUS
<1>3. q \in [1 .. n -> Fragments]
  BY <1>1, <1>2
<1>4. q \in Seq(Fragments) /\ Len(q) = n
  BY <1>3
<1> QED BY <1>2, <1>4 DEF InOrder

LEMMA OneMore ==
  ASSUME NEW of \in {"text", "reasoning"} \cup Calls, NEW n \in Nat,
         NEW fs \in Maybe(Fragment(of, n + 1))
  PROVE  /\ InOrder(n, of) \o fs = InOrder(n + Len(fs), of)
         /\ Few(fs) /\ Len(fs) \in Nat /\ fs \in Seq(Fragments)
<1>1. PICK q \in Seq(Fragments) : q = InOrder(n, of)
  BY InOrderTyped
<1>2. PICK f \in Fragments : f = Fragment(of, n + 1)
  BY FragmentTyped
<1>3. CASE fs = <<>>
  BY <1>1, <1>3 DEF Few
<1>4. CASE fs = <<f>>
  <2>1. PICK m \in Nat : m = n + 1
    OBVIOUS
  <2>2. Append(q, f) = InOrder(m, of)
    BY <1>1, <1>2, <2>1, InOrderMore
  <2>3. q \o fs = Append(q, f) /\ Len(fs) = 1 /\ fs \in Seq(Fragments)
    BY <1>4
  <2>4. Few(fs)
    BY <1>4 DEF Few
  <2> QED BY <1>1, <2>1, <2>2, <2>3, <2>4
<1> QED BY <1>2, <1>3, <1>4 DEF Maybe

(* The converter goes from s to r with fs more of reasoning, or of text.   *)
Thinks(s, r, fs) ==
    Framed(s, r) /\ SameText(s, r) /\ SameCalls(s, r) /\ r.accReasoning = s.accReasoning \o fs

Says(s, r, fs) ==
    Framed(s, r) /\ SameReasoning(s, r) /\ SameCalls(s, r) /\ r.accText = s.accText \o fs

LEMMA AllReasoningIs ==
  ASSUME NEW c, NEW s, NEW tidy \in BOOLEAN, Good(c, s, tidy), NEW fs, Few(fs),
         NEW r, r = AllReasoning(s, fs)
  PROVE  Good(c, r, tidy) /\ Thinks(s, r, fs)
<1>1. s.accReasoning \in Seq(Fragments)
  BY GoodTyped
<1>2. CASE fs = <<>>
  <2>1. r = s
    BY <1>2, HRFolded0
  <2> QED BY <1>1, <1>2, <2>1 DEF Thinks, Framed, SameText, SameCalls
<1>3. CASE \E f \in Fragments : fs = <<f>>
  <2>1. PICK f \in Fragments : fs = <<f>>
    BY <1>3
  <2>2. r = HandleReasoning(s, f)
    BY <2>1, HRFolded1
  <2>3. /\ Good(c, r, tidy) /\ Framed(s, r) /\ SameText(s, r) /\ SameCalls(s, r)
        /\ r.accReasoning = Append(s.accReasoning, f)
    BY <2>2, ReasoningHandled
  <2>4. Append(s.accReasoning, f) = s.accReasoning \o fs
    BY <1>1, <2>1
  <2> QED BY <2>3, <2>4 DEF Thinks
<1> QED BY <1>2, <1>3 DEF Few

LEMMA TwoTexts ==
  ASSUME NEW c, NEW s, NEW tidy \in BOOLEAN, Good(c, s, tidy), NEW f \in Fragments, NEW g \in Fragments,
         NEW r, r = HandleText(HandleText(s, f), g)
  PROVE  /\ Good(c, r, tidy) /\ Framed(s, r) /\ SameReasoning(s, r) /\ SameCalls(s, r)
         /\ r.accText = Append(Append(s.accText, f), g)
<1>1. PICK q : q = HandleText(s, f)
  OBVIOUS
<1>2. /\ Good(c, q, tidy) /\ Framed(s, q) /\ SameReasoning(s, q) /\ SameCalls(s, q)
      /\ q.accText = Append(s.accText, f)
  BY <1>1, TextHandled
<1>3. r = HandleText(q, g) /\ Good(c, q, tidy)
  BY <1>1, <1>2
<1>4. /\ Good(c, r, tidy) /\ Framed(q, r) /\ SameReasoning(q, r) /\ SameCalls(q, r)
      /\ r.accText = Append(q.accText, g)
  BY <1>3, TextHandled
<1>5. s \in Converters /\ q \in Converters /\ r \in Converters
  BY <1>2, <1>4, GoodTyped
<1>6. Framed(s, r) /\ SameReasoning(s, r) /\ SameCalls(s, r)
  BY <1>2, <1>4, <1>5, SameTrans
<1> QED BY <1>2, <1>4, <1>6

LEMMA AllTextIs ==
  ASSUME NEW c, NEW s, NEW tidy \in BOOLEAN, Good(c, s, tidy),
         NEW fs, Few(fs) \/ \E f, g \in Fragments : fs = <<f, g>>,
         NEW r, r = AllText(s, fs)
  PROVE  Good(c, r, tidy) /\ Says(s, r, fs)
<1>1. s.accText \in Seq(Fragments) /\ s \in Converters
  BY GoodTyped
<1>2. CASE fs = <<>>
  <2>1. r = s
    BY <1>2, HTFolded0
  <2> QED BY <1>1, <1>2, <2>1 DEF Says, Framed, SameReasoning, SameCalls
<1>3. CASE \E f \in Fragments : fs = <<f>>
  <2>1. PICK f \in Fragments : fs = <<f>>
    BY <1>3
  <2>2. r = HandleText(s, f)
    BY <2>1, HTFolded1
  <2>3. /\ Good(c, r, tidy) /\ Framed(s, r) /\ SameReasoning(s, r) /\ SameCalls(s, r)
        /\ r.accText = Append(s.accText, f)
    BY <2>2, TextHandled
  <2>4. Append(s.accText, f) = s.accText \o fs
    BY <1>1, <2>1
  <2> QED BY <2>3, <2>4 DEF Says
<1>4. CASE \E f, g \in Fragments : fs = <<f, g>>
  <2>1. PICK f \in Fragments, g \in Fragments : fs = <<f, g>>
    BY <1>4
  <2>2. AllText(s, fs) = HandleText(HandleText(s, f), g)
    BY <2>1, HTFolded2
  <2>3. r = HandleText(HandleText(s, f), g)
    BY <2>2
  <2>4. Append(Append(s.accText, f), g) = s.accText \o fs
    <3>1. Append(Append(s.accText, f), g) = s.accText \o <<f, g>>
      BY <1>1
    <3> QED BY <2>1, <3>1
  <2>5. /\ Good(c, r, tidy) /\ Framed(s, r) /\ SameReasoning(s, r) /\ SameCalls(s, r)
        /\ r.accText = Append(Append(s.accText, f), g)
    BY SMTT(60), <2>3, TwoTexts
  <2> QED BY <2>4, <2>5 DEF Says
<1> QED BY <1>2, <1>3, <1>4 DEF Few

(* A tool call entry, as one comes in a chunk.                             *)
Entry(d) == d.index \in Calls /\ Few(d.args)

LEMMA AllCallsIs ==
  ASSUME NEW c, NEW s, NEW tidy \in BOOLEAN, Good(c, s, tidy),
         NEW ds, ds = <<>> \/ \E d : Entry(d) /\ ds = <<d>>,
         NEW r, r = AllCalls(s, ds)
  PROVE  /\ Good(c, r, tidy) /\ Framed(s, r) /\ SameText(s, r) /\ SameReasoning(s, r)
         /\ ds = <<>> => SameCalls(s, r)
         /\ ds # <<>> => CallTold(s, r, ds[1].index, ds[1].args)
<1>1. CASE ds = <<>>
  <2>1. r = s
    BY <1>1, HCFolded0
  <2> QED BY <1>1, <2>1 DEF Framed, SameText, SameReasoning, SameCalls
<1>2. CASE \E d : Entry(d) /\ ds = <<d>>
  <2>1. PICK d : Entry(d) /\ ds = <<d>>
    BY <1>2
  <2>2. r = HandleToolCall(s, d)
    BY <2>1, HCFolded1
  <2>3. PICK b \in Calls : b = d.index
    BY <2>1 DEF Entry
  <2>4. d.args = <<>> \/ \E f \in Fragments : d.args = <<f>>
    BY <2>1 DEF Entry, Few
  <2>5. /\ Good(c, r, tidy) /\ Framed(s, r) /\ SameText(s, r) /\ SameReasoning(s, r)
        /\ CallTold(s, r, b, d.args)
    BY <2>2, <2>3, <2>4, CallHandled
  <2>6. ds # <<>> /\ ds[1] = d
    BY <2>1
  <2> QED BY <2>3, <2>5, <2>6
<1> QED BY <1>1, <1>2

LEMMA FewTyped ==
  ASSUME NEW fs, Few(fs)
  PROVE  fs \in Seq(Fragments)
<1>1. CASE fs = <<>>
  BY <1>1
<1>2. CASE \E f \in Fragments : fs = <<f>>
  <2>1. PICK f \in Fragments : fs = <<f>>
    BY <1>2
  <2>2. <<f>> \in Seq(Fragments)
    OBVIOUS
  <2> QED BY <2>1, <2>2
<1> QED BY <1>1, <1>2 DEF Few

(* A chunk the upstream may send.                                          *)
Chunk(chunk) ==
    /\ Few(chunk.content.thought) /\ Few(chunk.content.said) /\ Few(chunk.reasoning)
    /\ chunk.content.prefix \in BOOLEAN
    /\ chunk.tools = <<>> \/ \E d : Entry(d) /\ chunk.tools = <<d>>
    /\ chunk.finish \in Finishes \cup {None}

LEMMA SplitTyped ==
  ASSUME NEW chunk, Chunk(chunk), NEW split, split = SplitInlineThink(chunk.content)
  PROVE  /\ Few(split.think) /\ split.text \in Seq(Fragments)
         /\ Few(split.text) \/ \E f, g \in Fragments : split.text = <<f, g>>
         /\ chunk.content.thought = <<>> \/ chunk.content.prefix =>
               split.think = chunk.content.thought /\ split.text = chunk.content.said
<1>1. PICK a : a = chunk.content.thought
  OBVIOUS
<1>2. PICK b : b = chunk.content.said
  OBVIOUS
<1>3. Few(a) /\ Few(b) /\ Few(<<>>)
  BY <1>1, <1>2 DEF Chunk, Few
<1>4. a \in Seq(Fragments) /\ b \in Seq(Fragments)
  BY <1>3, FewTyped
<1>5. CASE chunk.content.prefix
  <2>1. split = [think |-> a, text |-> b]
    BY <1>1, <1>2, <1>5 DEF SplitInlineThink
  <2> QED BY <1>1, <1>2, <1>3, <1>4, <2>1
<1>6. CASE ~ chunk.content.prefix
  <2>1. split = [think |-> <<>>, text |-> a \o b]
    BY <1>1, <1>2, <1>6 DEF SplitInlineThink
  <2>2. Few(a \o b) \/ \E f, g \in Fragments : a \o b = <<f, g>>
    <3>1. CASE a = <<>>
      <4>1. a \o b = b
        BY <1>4, <3>1
      <4> QED BY <1>3, <4>1
    <3>2. CASE b = <<>>
      <4>1. a \o b = a
        BY <1>4, <3>2
      <4> QED BY <1>3, <4>1
    <3>3. CASE a # <<>> /\ b # <<>>
      <4>1. PICK f \in Fragments : a = <<f>>
        BY <1>3, <3>3 DEF Few
      <4>2. PICK g \in Fragments : b = <<g>>
        BY <1>3, <3>3 DEF Few
      <4>3. a \o b = <<f, g>>
        BY <4>1, <4>2, TwoTogether
      <4> QED BY <4>3
    <3> QED BY <3>1, <3>2, <3>3
  <2>3. a = <<>> => a \o b = b
    BY <1>4
  <2>4. a \o b \in Seq(Fragments)
    BY <1>4
  <2>5. split.think = <<>> /\ split.text = a \o b
    BY <2>1
  <2>6. Few(split.text) \/ \E f, g \in Fragments : split.text = <<f, g>>
    BY <2>2, <2>5
  <2>7. /\ Few(split.think) /\ split.text \in Seq(Fragments)
        /\ a = <<>> => split.think = a /\ split.text = b
    BY <1>3, <2>3, <2>4, <2>5
  <2> QED BY <1>1, <1>2, <1>6, <2>6, <2>7
<1> QED BY <1>5, <1>6 DEF Chunk

(* The converter's status after a chunk, or after a stop reason.           *)
LEMMA FinishStatusTyped ==
  ASSUME NEW reason
  PROVE  /\ FinishStatus(reason) \in Rsp!Statuses
         /\ reason \in Finishes => FinishStatus(reason) = OutcomeOf("openai", reason)
BY DEF FinishStatus, OutcomeOf, Rsp!Statuses, Finishes

(* What a chunk does to the converter but for the events.                  *)
ChunkTold(s, r, chunk, split) ==
    /\ r.via = s.via /\ r.started = s.started /\ r.finalized = s.finalized
    /\ r.responseId = s.responseId /\ r.contentBlocks = s.contentBlocks
    /\ r.status = IF chunk.finish = None THEN s.status ELSE FinishStatus(chunk.finish)
    /\ r.accText = s.accText \o split.text
    /\ r.accReasoning = (s.accReasoning \o split.think) \o chunk.reasoning
    /\ chunk.tools = <<>> => SameCalls(s, r)
    /\ chunk.tools # <<>> => CallTold(s, r, chunk.tools[1].index, chunk.tools[1].args)

LEMMA ChunkHandled ==
  ASSUME NEW c, NEW s, NEW tidy \in BOOLEAN, Good(c, s, tidy), NEW chunk, Chunk(chunk),
         NEW r, r = HandleOpenAIChunk(s, chunk), NEW split, split = SplitInlineThink(chunk.content)
  PROVE  Good(c, r, tidy) /\ ChunkTold(s, r, chunk, split)
<1>1. s \in Converters
  BY GoodTyped
<1>2. PICK status \in Rsp!Statuses : status = IF chunk.finish = None THEN s.status ELSE FinishStatus(chunk.finish)
  <2>1. s.status \in Rsp!Statuses /\ FinishStatus(chunk.finish) \in Rsp!Statuses
    BY <1>1, FinishStatusTyped DEF Converters
  <2> QED BY <2>1
<1>3. PICK told : told = [s EXCEPT !.status = status]
  OBVIOUS
<1>4. told \in Converters
  BY <1>1, <1>3 DEF Converters
<1>5. /\ SameOutput(s, told) /\ SameCalls(s, told) /\ SameText(s, told) /\ SameReasoning(s, told)
      /\ told.responseId = s.responseId /\ told.events = s.events /\ told.status = status
      /\ told.via = s.via /\ told.started = s.started /\ told.finalized = s.finalized
      /\ told.contentBlocks = s.contentBlocks
  BY <1>1, <1>3 DEF Converters, SameOutput, SameCalls, SameText, SameReasoning
<1>6. Good(c, told, tidy)
  BY <1>4, <1>5, GoodAside
<1>7. /\ Few(split.think) /\ Few(chunk.reasoning)
      /\ Few(split.text) \/ \E f, g \in Fragments : split.text = <<f, g>>
      /\ chunk.tools = <<>> \/ \E d : Entry(d) /\ chunk.tools = <<d>>
  BY SplitTyped DEF Chunk
<1>8. PICK th, tx, re : th = split.think /\ tx = split.text /\ re = chunk.reasoning
  OBVIOUS
<1>9. /\ Few(th) /\ Few(re) /\ (Few(tx) \/ \E f, g \in Fragments : tx = <<f, g>>)
  BY <1>7, <1>8
<1>10. PICK thought : thought = AllReasoning(told, th)
  OBVIOUS
<1>11. Good(c, thought, tidy) /\ Thinks(told, thought, th)
  BY <1>6, <1>9, <1>10, AllReasoningIs
<1>12. PICK said : said = AllText(thought, tx)
  OBVIOUS
<1>13. Good(c, said, tidy) /\ Says(thought, said, tx)
  BY <1>9, <1>11, <1>12, AllTextIs
<1>14. PICK more : more = AllReasoning(said, re)
  OBVIOUS
<1>15. Good(c, more, tidy) /\ Thinks(said, more, re)
  BY <1>9, <1>13, <1>14, AllReasoningIs
<1>16. r = AllCalls(more, chunk.tools)
  <2>1. told = [s EXCEPT !.status = IF chunk.finish = None THEN @ ELSE FinishStatus(chunk.finish)]
    BY <1>2, <1>3
  <2> QED BY <1>10, <1>12, <1>14, <1>8, <2>1 DEF HandleOpenAIChunk, AllReasoning, AllText, AllCalls
<1>17. /\ Good(c, r, tidy) /\ Framed(more, r) /\ SameText(more, r) /\ SameReasoning(more, r)
       /\ chunk.tools = <<>> => SameCalls(more, r)
       /\ chunk.tools # <<>> => CallTold(more, r, chunk.tools[1].index, chunk.tools[1].args)
  BY <1>7, <1>15, <1>16, AllCallsIs
<1>18. /\ r.via = s.via /\ r.started = s.started /\ r.finalized = s.finalized
       /\ r.responseId = s.responseId /\ r.contentBlocks = s.contentBlocks /\ r.status = status
  BY <1>5, <1>11, <1>13, <1>15, <1>17 DEF Thinks, Says, Framed
<1>19. r.accText = s.accText \o split.text
  BY <1>5, <1>11, <1>13, <1>15, <1>17, <1>8 DEF Thinks, Says, SameText
<1>20. r.accReasoning = (s.accReasoning \o split.think) \o chunk.reasoning
  BY <1>5, <1>11, <1>13, <1>15, <1>17, <1>8 DEF Thinks, Says, SameReasoning
<1>21. SameCalls(s, more) /\ (chunk.tools = <<>> => SameCalls(s, r))
  BY <1>5, <1>11, <1>13, <1>15, <1>17 DEF Thinks, Says, SameCalls
<1>22. Known(more) = Known(s) /\ \A b \in Calls : ArgsOf(more, b) = ArgsOf(s, b)
  BY <1>21 DEF SameCalls, Known, ArgsOf
<1>23. chunk.tools # <<>> => CallTold(s, r, chunk.tools[1].index, chunk.tools[1].args)
  <2>1. SUFFICES ASSUME chunk.tools # <<>>
                 PROVE  CallTold(s, r, chunk.tools[1].index, chunk.tools[1].args)
    OBVIOUS
  <2>2. PICK d : Entry(d) /\ chunk.tools = <<d>>
    BY <1>7, <2>1
  <2>3. chunk.tools[1] = d /\ d.index \in Calls
    BY <2>2 DEF Entry
  <2> QED BY <1>17, <1>22, <2>1, <2>3 DEF CallTold
<1> QED BY <1>2, <1>17, <1>18, <1>19, <1>20, <1>21, <1>23 DEF ChunkTold

(* What the upstream has sent after a chunk.                               *)
ContentTold(u, v, content, reasoning) ==
    /\ v \in Histories /\ v.text = u.text + Len(content.said)
    /\ v.reasoning = u.reasoning + Len(content.thought) + Len(reasoning)
    /\ v.split = (u.split \/ u.thinking) /\ v.calls = u.calls /\ v.args = u.args
    /\ v.blocks = u.blocks /\ v.finish = u.finish

LEMMA ContentSent ==
  ASSUME NEW u \in Histories, NEW content, NEW reasoning, NEW closed \in BOOLEAN,
         content.said \in Seq(Fragments), content.thought \in Seq(Fragments), reasoning \in Seq(Fragments),
         NEW v, v = SendContent(u, content, reasoning, closed)
  PROVE  ContentTold(u, v, content, reasoning)
<1>1. PICK n \in Nat : n = u.text + Len(content.said)
  <2>1. u.text + Len(content.said) \in Nat
    BY DEF Histories
  <2> QED BY <2>1
<1>2. PICK m \in Nat : m = u.reasoning + Len(content.thought) + Len(reasoning)
  <2>1. u.reasoning + Len(content.thought) + Len(reasoning) \in Nat
    BY SMTT(60) DEF Histories
  <2> QED BY <2>1
<1>3. PICK k \in Nat : k = u.chunks + 1
  <2>1. u.chunks + 1 \in Nat
    BY DEF Histories
  <2> QED BY <2>1
<1>4. PICK sp \in BOOLEAN : sp = (u.split \/ u.thinking)
  OBVIOUS
<1>5. PICK th \in BOOLEAN : th = (~ closed)
  OBVIOUS
<1>6. v = [u EXCEPT !.chunks = k, !.text = n, !.reasoning = m, !.thinking = th, !.split = sp]
  BY <1>1, <1>2, <1>3, <1>4, <1>5 DEF SendContent
<1>7. v \in Histories
  BY <1>6 DEF Histories
<1>8. /\ v.text = n /\ v.reasoning = m /\ v.split = sp /\ v.calls = u.calls /\ v.args = u.args
      /\ v.blocks = u.blocks /\ v.finish = u.finish
  BY <1>6 DEF Histories
<1> QED BY <1>1, <1>2, <1>4, <1>7, <1>8 DEF ContentTold

LEMMA EntryIs ==
  ASSUME NEW u \in Histories, NEW tools \in EntrySeqs(u)
  PROVE  \/ tools = <<>>
         \/ \E d : /\ tools = <<d>> /\ Entry(d)
                   /\ d.args \in Maybe(Fragment(d.index, u.args[d.index] + 1))
<1>1. SUFFICES ASSUME tools # <<>>
               PROVE  \E d : /\ tools = <<d>> /\ Entry(d)
                             /\ d.args \in Maybe(Fragment(d.index, u.args[d.index] + 1))
  OBVIOUS
<1>2. PICK d \in Entries(u) : tools = <<d>>
  BY <1>1 DEF EntrySeqs
<1>3. CASE d \in {[index |-> c, args |-> a] : c \in Calls, a \in {<<>>}}
  <2>1. d.index \in Calls /\ d.args = <<>>
    BY <1>3
  <2> QED BY <1>2, <2>1 DEF Entry, Few, Maybe
<1>4. CASE d \in {[index |-> c, args |-> <<Fragment(c, u.args[c] + 1)>>] : c \in Calls}
  <2>1. PICK c \in Calls : d = [index |-> c, args |-> <<Fragment(c, u.args[c] + 1)>>]
    BY <1>4
  <2>2. PICK n \in Nat : n = u.args[c]
    BY DEF Histories
  <2>3. d.index = c /\ d.args = <<Fragment(c, n + 1)>>
    BY <2>1, <2>2
  <2>4. Fragment(c, n + 1) \in Fragments
    BY FragmentTyped
  <2>5. Few(d.args)
    BY <2>3, <2>4 DEF Few
  <2>6. Entry(d)
    BY <2>3, <2>5 DEF Entry
  <2> QED BY <1>2, <2>2, <2>3, <2>6 DEF Maybe
<1> QED BY <1>2, <1>3, <1>4 DEF Entries

(* What has been sent of the calls goes from u to w.                       *)
CallsSent(u, w, tools) ==
    IF tools = <<>> THEN w.calls = u.calls /\ w.args = u.args
    ELSE LET d == tools[1] IN
         /\ w.calls = u.calls \cup {d.index}
         /\ w.args = [u.args EXCEPT ![d.index] = @ + Len(d.args)]

LEMMA EntriesSent ==
  ASSUME NEW u \in Histories, NEW tools, tools = <<>> \/ \E d : Entry(d) /\ tools = <<d>>,
         NEW w, w = AllSent(u, tools)
  PROVE  /\ w \in Histories /\ CallsSent(u, w, tools)
         /\ w.text = u.text /\ w.reasoning = u.reasoning /\ w.split = u.split
         /\ w.blocks = u.blocks /\ w.finish = u.finish
<1>1. CASE tools = <<>>
  <2>1. w = u
    BY <1>1, SEFolded0
  <2> QED BY <1>1, <2>1 DEF CallsSent
<1>2. CASE \E d : Entry(d) /\ tools = <<d>>
  <2>1. PICK d : Entry(d) /\ tools = <<d>>
    BY <1>2
  <2>2. w = SendEntry(u, d)
    BY <2>1, SEFolded1
  <2>3. d.index \in Calls /\ d.args \in Seq(Fragments)
    BY <2>1, FewTyped DEF Entry
  <2>4. PICK k \in Nat : k = u.entries + 1
    <3>1. u.entries + 1 \in Nat
      BY DEF Histories
    <3> QED BY <3>1
  <2>5. PICK args : args = [u.args EXCEPT ![d.index] = @ + Len(d.args)]
    OBVIOUS
  <2>6. args \in [Calls -> Nat]
    BY <2>3, <2>5 DEF Histories
  <2>7. PICK calls \in SUBSET Calls : calls = u.calls \cup {d.index}
    <3>1. u.calls \cup {d.index} \in SUBSET Calls
      BY <2>3 DEF Histories
    <3> QED BY <3>1
  <2>8. w = [u EXCEPT !.entries = k, !.calls = calls, !.args = args]
    BY <2>2, <2>4, <2>5, <2>7 DEF SendEntry
  <2>9. w \in Histories
    BY <2>6, <2>8 DEF Histories
  <2>10. /\ w.calls = calls /\ w.args = args /\ w.text = u.text /\ w.reasoning = u.reasoning
         /\ w.split = u.split /\ w.blocks = u.blocks /\ w.finish = u.finish
    BY <2>8 DEF Histories
  <2>11. tools # <<>> /\ tools[1] = d
    BY <2>1
  <2> QED BY <2>5, <2>7, <2>9, <2>10, <2>11 DEF CallsSent
<1> QED BY <1>1, <1>2

-----------------------------------------------------------------------------
(* Steps at rest.                                                          *)

LEMMA TidyBoolean == Tidy \in BOOLEAN /\ Tidy' \in BOOLEAN
BY DEF Tidy, Repeats

LEMMA Resting ==
  ASSUME IInv, Running
  PROVE  /\ sc \in Converters /\ client \in Clients /\ sent \in Histories
         /\ sc.events = <<>> /\ sc.started /\ ~ sc.finalized
         /\ Good(client, sc, Tidy) /\ StatusFits(sc, sent) /\ Told(sc, sent)
<1>1. sc.events = <<>> /\ sc.started /\ ~ sc.finalized
  BY DEF Running, Idle
<1>2. PICK d \in Clients : Runs(client, sc.events, d, Tidy) /\ Phased(sc, d, sent, Tidy)
  BY DEF IInv
<1>3. d.phase = "streaming" /\ Mirrors(sc, d.items, Tidy) /\ PartsFit(sc, Tidy) /\ StatusFits(sc, sent)
  BY <1>1, <1>2 DEF Phased
<1>4. sc \in Converters /\ Numbered(sc)
  BY DEF IInv
<1>5. Good(client, sc, Tidy)
  BY <1>2, <1>3, <1>4 DEF Good
<1> QED BY <1>1, <1>3, <1>5 DEF IInv

LEMMA Rested ==
  ASSUME NEW r, NEW u \in Histories, sc' = r, client' = client, sent' = u, client \in Clients,
         NEW tidy, tidy = Tidy', Good(client, r, tidy), r.started, ~ r.finalized,
         StatusFits(r, u), Told(r, u)
  PROVE  IInv'
<1>1. PICK d \in Clients : /\ d.phase = "streaming" /\ Runs(client, r.events, d, tidy)
                           /\ Mirrors(r, d.items, tidy)
  BY DEF Good
<1>2. r \in Converters /\ Numbered(r) /\ PartsFit(r, tidy)
  BY DEF Good
<1>3. Phased(r, d, u, tidy)
  BY <1>1, <1>2 DEF Phased
<1>4. Runs(client', (sc').events, d, Tidy') /\ Phased(sc', d, sent', Tidy')
  BY <1>1, <1>3
<1>5. sc' \in Converters /\ client' \in Clients /\ sent' \in Histories /\ Numbered(sc') /\ Told(sc', sent')
  BY <1>2
<1> QED BY <1>4, <1>5 DEF IInv

LEMMA ContentIs ==
  ASSUME NEW u, NEW content \in Contents(u)
  PROVE  /\ content.thought \in Maybe(Fragment("reasoning", u.reasoning + 1))
         /\ content.said \in Maybe(Fragment("text", u.text + 1)) /\ content.prefix \in BOOLEAN
         /\ ~ u.thinking => content.thought = <<>> \/ content.prefix
<1>1. PICK th : th = <<Fragment("reasoning", u.reasoning + 1)>>
  OBVIOUS
<1>2. PICK S : S = Maybe(Fragment("text", u.text + 1))
  OBVIOUS
<1>3. \/ u.thinking /\ \E sd \in S : content = [prefix |-> FALSE, thought |-> th, said |-> sd]
      \/ \E sd \in S : content = [prefix |-> FALSE, thought |-> <<>>, said |-> sd]
      \/ \E sd \in S : content = [prefix |-> TRUE, thought |-> th, said |-> sd]
  BY <1>1, <1>2 DEF Contents
<1>4. \/ u.thinking /\ content.prefix = FALSE /\ content.thought = th /\ content.said \in S
      \/ content.prefix = FALSE /\ content.thought = <<>> /\ content.said \in S
      \/ content.prefix = TRUE /\ content.thought = th /\ content.said \in S
  BY <1>3
<1>5. th \in Maybe(Fragment("reasoning", u.reasoning + 1)) /\ <<>> \in Maybe(Fragment("reasoning", u.reasoning + 1))
  BY <1>1 DEF Maybe
<1> QED BY <1>2, <1>4, <1>5

LEMMA Joined ==
  ASSUME NEW X, NEW a \in Seq(X), NEW b \in Seq(X)
  PROVE  a \o b \in Seq(X)
OBVIOUS

(* What a chunk adds to the text, the reasoning and the arguments is what  *)
(* the upstream sent in it.                                                *)
LEMMA ReasoningFollows ==
  ASSUME NEW n \in Nat, NEW th \in Maybe(Fragment("reasoning", n + 1)),
         NEW re \in IF th = <<>> THEN Maybe(Fragment("reasoning", n + 1)) ELSE {<<>>}
  PROVE  /\ (InOrder(n, "reasoning") \o th) \o re = InOrder(n + Len(th) + Len(re), "reasoning")
         /\ Few(th) /\ Few(re) /\ th \in Seq(Fragments) /\ re \in Seq(Fragments)
<1>1. PICK q \in Seq(Fragments) : q = InOrder(n, "reasoning")
  BY InOrderTyped
<1>2. "reasoning" \in {"text", "reasoning"} \cup Calls
  OBVIOUS
<1>3. q \o th = InOrder(n + Len(th), "reasoning") /\ Few(th) /\ Len(th) \in Nat /\ th \in Seq(Fragments)
  BY <1>1, <1>2, OneMore
<1>4. CASE th = <<>>
  <2>1. q \o re = InOrder(n + Len(re), "reasoning") /\ Few(re) /\ Len(re) \in Nat /\ re \in Seq(Fragments)
    BY <1>1, <1>2, <1>4, OneMore
  <2>2. q \o th = q /\ Len(th) = 0
    BY <1>1, <1>4
  <2>3. n + Len(th) + Len(re) = n + Len(re)
    BY <2>1, <2>2
  <2> QED BY <1>1, <1>3, <2>1, <2>2, <2>3
<1>5. CASE th # <<>>
  <2>1. re = <<>>
    BY <1>5
  <2>2. PICK p : p = q \o th
    OBVIOUS
  <2>3. p \in Seq(Fragments)
    BY <1>3, <2>2, Joined
  <2>4. p \o re = p /\ Len(re) = 0 /\ re \in Seq(Fragments) /\ Few(re)
    BY <2>1, <2>3 DEF Few
  <2>5. n + Len(th) + Len(re) = n + Len(th)
    BY <1>3, <2>4
  <2> QED BY <1>1, <1>3, <2>2, <2>4, <2>5
<1> QED BY <1>4, <1>5

CallsUpTo(s, u) == u.calls = Known(s) /\ \A c \in Calls : ArgsOf(s, c) = InOrder(u.args[c], c)

NextEntry(u, tools) ==
    \/ tools = <<>>
    \/ \E d : /\ tools = <<d>> /\ Entry(d)
              /\ d.args \in Maybe(Fragment(d.index, u.args[d.index] + 1))

LEMMA CallsFollow ==
  ASSUME NEW s, NEW r, NEW u \in Histories, NEW w,
         CallsUpTo(s, u), NEW tools, NextEntry(u, tools), CallsSent(u, w, tools),
         tools = <<>> => SameCalls(s, r), tools # <<>> => CallTold(s, r, tools[1].index, tools[1].args)
  PROVE  CallsUpTo(r, w)
<1>1. u.calls = Known(s) /\ \A b \in Calls : ArgsOf(s, b) = InOrder(u.args[b], b)
  BY DEF CallsUpTo
<1>2. CASE tools = <<>>
  <2>1. Known(r) = Known(s) /\ \A b \in Calls : ArgsOf(r, b) = ArgsOf(s, b)
    BY <1>2 DEF SameCalls, Known, ArgsOf
  <2> QED BY <1>1, <1>2, <2>1 DEF CallsSent, CallsUpTo
<1>3. CASE tools # <<>>
  <2>1. PICK d : /\ tools = <<d>> /\ Entry(d)
                 /\ d.args \in Maybe(Fragment(d.index, u.args[d.index] + 1))
    BY <1>3 DEF NextEntry
  <2>2. tools[1] = d
    BY <2>1
  <2>3. PICK c \in Calls : c = d.index
    BY <2>1 DEF Entry
  <2>4. PICK n \in Nat : n = u.args[c]
    BY DEF Histories
  <2>5. PICK args \in Maybe(Fragment(c, n + 1)) : args = d.args
    BY <2>1, <2>3, <2>4
  <2>6. InOrder(n, c) \o args = InOrder(n + Len(args), c)
    BY OneMore
  <2>7. CallTold(s, r, c, args)
    BY <1>3, <2>2, <2>3, <2>5
  <2>8. w.calls = u.calls \cup {c} /\ w.args = [u.args EXCEPT ![c] = n + Len(args)]
    BY <1>3, <2>2, <2>3, <2>4, <2>5 DEF CallsSent
  <2>9. w.args[c] = n + Len(args) /\ \A b \in Calls \ {c} : w.args[b] = u.args[b]
    BY <2>8 DEF Histories
  <2>10. ASSUME NEW b \in Calls PROVE ArgsOf(r, b) = InOrder(w.args[b], b)
    <3>1. CASE b = c
      BY <1>1, <2>4, <2>6, <2>7, <2>9, <3>1 DEF CallTold
    <3>2. CASE b # c
      BY <1>1, <2>7, <2>9, <3>2 DEF CallTold
    <3> QED BY <3>1, <3>2
  <2> QED BY <1>1, <2>7, <2>8, <2>10 DEF CallTold, CallsUpTo
<1> QED BY <1>2, <1>3

(* A chunk with the content and the reasoning given, after which the       *)
(* upstream has sent u and maybe a tool call entry.                        *)
Sends(u, content, reasoning) ==
    \E tools \in EntrySeqs(u) :
    \E finish \in {None} \cup FinishesOf(FoldLeft(SendEntry, u, tools)) :
       /\ sent' = [FoldLeft(SendEntry, u, tools) EXCEPT !.finish = finish]
       /\ sc' = HandleOpenAIChunk(sc, [content |-> content, reasoning |-> reasoning,
                                       tools |-> tools, finish |-> finish])

LEMMA OpenAIChunkStep ==
  ASSUME IInv, OpenAIChunk
  PROVE  IInv'
<1>1. Running /\ sc.via = "openai" /\ sent.finish = None /\ client' = client
  BY DEF OpenAIChunk
<1>2. /\ sc \in Converters /\ client \in Clients /\ sent \in Histories
      /\ sc.events = <<>> /\ sc.started /\ ~ sc.finalized
      /\ Good(client, sc, Tidy) /\ StatusFits(sc, sent) /\ Told(sc, sent)
  BY <1>1, Resting
<1>3. PICK content \in Contents(sent), closed \in BOOLEAN :
      \E reasoning \in IF content.thought = <<>>
                       THEN Maybe(Fragment("reasoning", sent.reasoning + 1)) ELSE {<<>>} :
         Sends(SendContent(sent, content, reasoning, closed), content, reasoning)
  <2>1. \E content \in Contents(sent), closed \in BOOLEAN :
        \E reasoning \in IF content.thought = <<>>
                         THEN Maybe(Fragment("reasoning", sent.reasoning + 1)) ELSE {<<>>} :
           /\ content.thought = <<>> \/ content.said # <<>> => closed
           /\ Sends(SendContent(sent, content, reasoning, closed), content, reasoning)
    BY DEF OpenAIChunk, Sends
  <2> QED BY <2>1
<1>4. PICK reasoning \in IF content.thought = <<>>
                         THEN Maybe(Fragment("reasoning", sent.reasoning + 1)) ELSE {<<>>} :
         Sends(SendContent(sent, content, reasoning, closed), content, reasoning)
  BY <1>3
<1>5. PICK u : u = SendContent(sent, content, reasoning, closed)
  OBVIOUS
<1>6. PICK tools \in EntrySeqs(u) :
      \E finish \in {None} \cup FinishesOf(AllSent(u, tools)) :
         /\ sent' = [AllSent(u, tools) EXCEPT !.finish = finish]
         /\ sc' = HandleOpenAIChunk(sc, [content |-> content, reasoning |-> reasoning,
                                         tools |-> tools, finish |-> finish])
  BY <1>4, <1>5 DEF Sends, AllSent
<1>7. PICK w : w = AllSent(u, tools)
  OBVIOUS
<1>8. PICK finish \in {None} \cup FinishesOf(w) :
         /\ sent' = [w EXCEPT !.finish = finish]
         /\ sc' = HandleOpenAIChunk(sc, [content |-> content, reasoning |-> reasoning,
                                         tools |-> tools, finish |-> finish])
  BY <1>6, <1>7
<1>9. PICK chunk : chunk = [content |-> content, reasoning |-> reasoning, tools |-> tools, finish |-> finish]
  OBVIOUS
<1>10. PICK r : r = HandleOpenAIChunk(sc, chunk)
  OBVIOUS
<1>11. sc' = r
  BY <1>8, <1>9, <1>10
<1>12. PICK tidy \in BOOLEAN : tidy = Tidy'
  BY TidyBoolean
<1>13. /\ content.thought \in Maybe(Fragment("reasoning", sent.reasoning + 1))
       /\ content.said \in Maybe(Fragment("text", sent.text + 1)) /\ content.prefix \in BOOLEAN
       /\ ~ sent.thinking => content.thought = <<>> \/ content.prefix
  BY ContentIs
<1>14. PICK n, m \in Nat : n = sent.text /\ m = sent.reasoning
  BY <1>2 DEF Histories
<1>15. PICK sd \in Maybe(Fragment("text", n + 1)) : sd = content.said
  BY <1>13, <1>14
<1>16. PICK th \in Maybe(Fragment("reasoning", m + 1)) : th = content.thought
  BY <1>13, <1>14
<1>17. reasoning \in IF th = <<>> THEN Maybe(Fragment("reasoning", m + 1)) ELSE {<<>>}
  BY <1>14, <1>16
<1>18. /\ InOrder(n, "text") \o sd = InOrder(n + Len(sd), "text") /\ Few(sd) /\ sd \in Seq(Fragments)
  BY OneMore
<1>19. /\ (InOrder(m, "reasoning") \o th) \o reasoning = InOrder(m + Len(th) + Len(reasoning), "reasoning")
       /\ Few(th) /\ Few(reasoning) /\ th \in Seq(Fragments) /\ reasoning \in Seq(Fragments)
  BY <1>17, ReasoningFollows
<1>20. /\ u \in Histories /\ u.text = n + Len(sd) /\ u.reasoning = m + Len(th) + Len(reasoning)
       /\ u.split = (sent.split \/ sent.thinking) /\ u.calls = sent.calls /\ u.args = sent.args
       /\ u.blocks = sent.blocks /\ u.finish = sent.finish
  <2>1. content.said \in Seq(Fragments) /\ content.thought \in Seq(Fragments) /\ reasoning \in Seq(Fragments)
    BY <1>15, <1>16, <1>18, <1>19
  <2>2. ContentTold(sent, u, content, reasoning)
    BY <1>2, <1>5, <2>1, ContentSent
  <2> QED BY <1>14, <1>15, <1>16, <2>2 DEF ContentTold
<1>21. NextEntry(u, tools)
  BY <1>20, EntryIs DEF NextEntry
<1>22. tools = <<>> \/ \E d : Entry(d) /\ tools = <<d>>
  BY <1>21 DEF NextEntry
<1>23. /\ w \in Histories /\ CallsSent(u, w, tools)
       /\ w.text = u.text /\ w.reasoning = u.reasoning /\ w.split = u.split
       /\ w.blocks = u.blocks /\ w.finish = u.finish
  BY <1>7, <1>20, <1>22, EntriesSent
<1>24. finish \in Finishes \cup {None}
  BY DEF FinishesOf
<1>25. PICK v : v = [w EXCEPT !.finish = finish]
  OBVIOUS
<1>26. /\ v \in Histories /\ v.finish = finish /\ v.calls = w.calls /\ v.args = w.args
       /\ v.text = w.text /\ v.reasoning = w.reasoning /\ v.split = w.split /\ v.blocks = w.blocks
  BY <1>23, <1>24, <1>25 DEF Histories
<1>27. sent' = v
  BY <1>8, <1>25
<1>28. Chunk(chunk)
  BY <1>9, <1>13, <1>15, <1>16, <1>18, <1>19, <1>22, <1>24 DEF Chunk
<1>29. tidy => Tidy
  <2>1. sent.finish # "content_filter"
    BY <1>1, NoneAssumption DEF Finishes
  <2>2. sent'.blocks = sent.blocks
    BY <1>20, <1>23, <1>26, <1>27
  <2> QED BY <1>12, <2>1, <2>2 DEF Tidy, Repeats
<1>30. Good(client, sc, tidy)
  <2>1. PICK before \in BOOLEAN : before = Tidy
    BY TidyBoolean
  <2> QED BY <1>2, <1>29, <2>1, Retidied
<1>31. PICK split : split = SplitInlineThink(chunk.content)
  OBVIOUS
<1>32. /\ Good(client, r, tidy) /\ r.via = sc.via /\ r.started = sc.started /\ r.finalized = sc.finalized
       /\ r.responseId = sc.responseId /\ r.contentBlocks = sc.contentBlocks
       /\ r.status = IF chunk.finish = None THEN sc.status ELSE FinishStatus(chunk.finish)
       /\ r.accText = sc.accText \o split.text
       /\ r.accReasoning = (sc.accReasoning \o split.think) \o chunk.reasoning
       /\ chunk.tools = <<>> => SameCalls(sc, r)
       /\ chunk.tools # <<>> => CallTold(sc, r, chunk.tools[1].index, chunk.tools[1].args)
  <2>1. Good(client, r, tidy) /\ ChunkTold(sc, r, chunk, split)
    BY <1>10, <1>28, <1>30, <1>31, ChunkHandled
  <2> QED BY <2>1 DEF ChunkTold
<1>33. chunk.finish = finish /\ chunk.reasoning = reasoning /\ chunk.tools = tools /\ chunk.content = content
  BY <1>9
<1>34. StatusFits(r, v)
  <2>1. StatusFits(sc, sent)
    BY <1>2
  <2>2. CASE finish = None
    BY <1>1, <1>26, <1>32, <1>33, <2>1, <2>2 DEF StatusFits
  <2>3. CASE finish # None
    <3>1. r.status = FinishStatus(finish) /\ finish \in Finishes
      BY <1>24, <1>32, <1>33, <2>3
    <3>2. FinishStatus(finish) = OutcomeOf("openai", finish)
      BY <3>1, FinishStatusTyped
    <3> QED BY <1>1, <1>26, <1>32, <2>3, <3>1, <3>2 DEF StatusFits
  <2> QED BY <2>2, <2>3
<1>35. Follows(sc, sent)
  BY <1>2 DEF Told
<1>36. Follows(r, v)
  <2>1. CallsUpTo(sc, u)
    BY <1>20, <1>35 DEF Follows, CallsUpTo
  <2>2. /\ tools = <<>> => SameCalls(sc, r)
        /\ tools # <<>> => CallTold(sc, r, tools[1].index, tools[1].args)
    BY <1>32, <1>33
  <2>3. CallsUpTo(r, w)
    BY <1>20, <1>21, <1>23, <2>1, <2>2, CallsFollow
  <2>4. SUFFICES ASSUME ~ v.split
                 PROVE  r.accText = InOrder(v.text, "text") /\ r.accReasoning = InOrder(v.reasoning, "reasoning")
    BY <1>26, <2>3 DEF Follows, CallsUpTo
  <2>5. ~ sent.split /\ ~ sent.thinking
    BY <1>20, <1>23, <1>26, <2>4
  <2>6. sc.accText = InOrder(n, "text") /\ sc.accReasoning = InOrder(m, "reasoning")
    BY <1>14, <1>35, <2>5 DEF Follows
  <2>7. split.think = th /\ split.text = sd
    <3>1. chunk.content.thought = <<>> \/ chunk.content.prefix
      BY <1>13, <1>33, <2>5
    <3> QED BY <1>15, <1>16, <1>28, <1>31, <1>33, <3>1, SplitTyped
  <2> QED BY <1>18, <1>19, <1>20, <1>23, <1>26, <1>32, <1>33, <2>6, <2>7
<1>37. Told(r, v)
  BY <1>1, <1>2, <1>20, <1>23, <1>26, <1>32, <1>36 DEF Told
<1> QED BY <1>2, <1>11, <1>12, <1>1, <1>26, <1>27, <1>32, <1>34, <1>37, Rested

(* A response begins with two events.                                      *)
LEMMA BegunRuns ==
  ASSUME NEW d \in Clients, d.phase = "idle", NEW tidy \in BOOLEAN
  PROVE  /\ Rsp!Created \in Rsp!Events /\ Rsp!InProgress \in Rsp!Events
         /\ \E x \in Clients : /\ x.phase = "streaming" /\ x.items = d.items
                               /\ Runs(d, <<Rsp!Created, Rsp!InProgress>>, x, tidy)
<1>1. PICK e \in Rsp!Events : e = Rsp!Created
  <2>1. Rsp!Created \in Rsp!Events
    BY DEF Rsp!Created, Rsp!Events
  <2> QED BY <2>1
<1>2. PICK f \in Rsp!Events : f = Rsp!InProgress
  <2>1. Rsp!InProgress \in Rsp!Events
    BY DEF Rsp!InProgress, Rsp!Events
  <2> QED BY <2>1
<1>3. e.type = "created" /\ f.type = "in_progress"
  BY <1>1, <1>2 DEF Rsp!Created, Rsp!InProgress
<1>4. PICK x : x = [d EXCEPT !.last = e, !.phase = "created"]
  OBVIOUS
<1>5. x \in Clients /\ x.phase = "created" /\ x.items = d.items
  BY <1>4 DEF Clients
<1>6. PICK y : y = [x EXCEPT !.last = f, !.phase = "streaming"]
  OBVIOUS
<1>7. y \in Clients /\ y.phase = "streaming" /\ y.items = d.items
  BY <1>5, <1>6 DEF Clients
<1>8. Rsp!Apply(d, e) = x /\ Rsp!Apply(x, f) = y
  <2>1. Rsp!Apply(d, e) = [[d EXCEPT !.last = e] EXCEPT !.phase = "created"]
    BY <1>3 DEF Rsp!Apply, Rsp!FinalTypes
  <2>2. Rsp!Apply(x, f) = [[x EXCEPT !.last = f] EXCEPT !.phase = "streaming"]
    BY <1>3 DEF Rsp!Apply, Rsp!FinalTypes
  <2>3. PICK v : v = [d EXCEPT !.last = e]
    OBVIOUS
  <2>4. PICK w : w = [x EXCEPT !.last = f]
    OBVIOUS
  <2>5. [v EXCEPT !.phase = "created"] = x
    BY <1>4, <2>3 DEF Clients
  <2>6. [w EXCEPT !.phase = "streaming"] = y
    BY <1>5, <1>6, <2>4 DEF Clients
  <2> QED BY <2>1, <2>2, <2>3, <2>4, <2>5, <2>6
<1>9. Rsp!Legal(d, e) /\ Rsp!Legal(x, f)
  BY <1>3, <1>5 DEF Rsp!Legal
<1>10. d.phase \notin Rsp!FinalTypes /\ x.phase \notin Rsp!FinalTypes
  BY <1>5 DEF Rsp!FinalTypes
<1>11. PICK es : es = <<e>>
  OBVIOUS
<1>12. PICK fs : fs = <<f>>
  OBVIOUS
<1>13. es \o fs = <<e, f>> /\ es \in Seq(Rsp!Events) /\ fs \in Seq(Rsp!Events)
  BY <1>11, <1>12, OneEvent, TwoEvents
<1>14. Runs(d, es, x, tidy)
  BY <1>8, <1>9, <1>10, <1>11, RunsOne
<1>15. Runs(x, fs, y, tidy)
  BY <1>8, <1>9, <1>10, <1>12, RunsOne
<1>16. Runs(d, es \o fs, y, tidy)
  BY <1>13, <1>14, <1>15, RunsJoin
<1> QED BY <1>1, <1>2, <1>7, <1>13, <1>16

LEMMA StartStep ==
  ASSUME IInv, Start
  PROVE  IInv'
<1>1. /\ ~ sc.started /\ client' = client /\ sent' = sent
      /\ sc' = EmitAll([sc EXCEPT !.started = TRUE], <<Rsp!Created, Rsp!InProgress>>)
  BY DEF Start
<1>2. /\ sc \in Converters /\ Numbered(sc) /\ Told(sc, sent) /\ sc.events = <<>> /\ ~ sc.finalized
      /\ client \in Clients /\ sent \in Histories
  BY <1>1 DEF IInv, Told
<1>3. PICK tidy \in BOOLEAN : tidy = Tidy
  BY TidyBoolean
<1>4. /\ client.phase = "idle" /\ Mirrors(sc, client.items, tidy) /\ PartsFit(sc, tidy)
      /\ StatusFits(sc, sent)
  <2>1. PICK d \in Clients : Runs(client, sc.events, d, tidy) /\ Phased(sc, d, sent, tidy)
    BY <1>3 DEF IInv
  <2>2. Runs(client, <<>>, d, tidy)
    BY <1>2, <2>1
  <2>3. d = client
    BY <2>2, RunsNowhere
  <2> QED BY <1>1, <1>2, <2>1, <2>3 DEF Phased
<1>5. PICK es : es = <<Rsp!Created, Rsp!InProgress>>
  OBVIOUS
<1>6. PICK x \in Clients : x.phase = "streaming" /\ x.items = client.items /\ Runs(client, es, x, tidy)
  BY <1>2, <1>4, <1>5, BegunRuns
<1>7. es \in Seq(Rsp!Events)
  BY <1>2, <1>4, <1>5, BegunRuns, TwoEvents
<1>8. PICK r : r = [sc EXCEPT !.started = TRUE, !.events = es]
  OBVIOUS
<1>9. sc' = r
  <2>1. sc.events \o es = es
    BY <1>2, <1>7
  <2>2. PICK q : q = [sc EXCEPT !.started = TRUE]
    OBVIOUS
  <2>3. q.events = sc.events
    BY <1>2, <2>2 DEF Converters
  <2>4. sc' = [q EXCEPT !.events = es]
    BY <1>1, <1>5, <2>1, <2>2, <2>3 DEF EmitAll
  <2> QED BY <1>8, <2>2, <2>4
<1>10. /\ r \in Converters /\ r.events = es /\ r.started /\ ~ r.finalized /\ SameOutput(sc, r) /\ SameCalls(sc, r)
       /\ SameText(sc, r) /\ SameReasoning(sc, r) /\ r.responseId = sc.responseId /\ r.via = sc.via
       /\ r.status = sc.status /\ r.contentBlocks = sc.contentBlocks
  BY <1>2, <1>7, <1>8 DEF Converters, SameOutput, SameCalls, SameText, SameReasoning
<1>11. SameParts(sc, r)
  BY <1>10, PartsSame DEF SameText
<1>12. Mirrors(r, x.items, tidy)
  BY <1>4, <1>6, <1>10, <1>11, MirrorsAside
<1>13. Good(client, r, tidy)
  <2>1. Numbered(r) /\ PartsFit(r, tidy)
    BY <1>2, <1>4, <1>10, <1>11, NumberedAside DEF PartsFit, SameText
  <2> QED BY <1>6, <1>10, <1>12, <2>1 DEF Good
<1>14. Known(r) = Known(sc) /\ \A c \in Calls : ArgsOf(r, c) = ArgsOf(sc, c)
  BY <1>10 DEF SameCalls, Known, ArgsOf
<1>15. StatusFits(r, sent)
  BY <1>4, <1>10 DEF StatusFits
<1>16. Told(r, sent)
  <2>1. Follows(r, sent)
    BY <1>2, <1>10, <1>14 DEF Told, Follows, SameText, SameReasoning
  <2>2. BlocksFollow(sc, sent) => BlocksFollow(r, sent)
    BY <1>10, <1>11, <1>14 DEF BlocksFollow, SameParts, SameOutput
  <2> QED BY <1>2, <1>10, <2>1, <2>2 DEF Told
<1>17. Tidy' = tidy
  BY <1>1, <1>3, <1>9, <1>10 DEF Tidy, Repeats
<1> QED BY <1>1, <1>2, <1>9, <1>10, <1>13, <1>15, <1>16, <1>17, Rested

LEMMA AnthropicResting ==
  ASSUME IInv, AnthropicRunning
  PROVE  /\ sc \in Converters /\ client \in Clients /\ sent \in Histories /\ sc.via = "anthropic"
         /\ sc.events = <<>> /\ sc.started /\ ~ sc.finalized /\ sent.finish = None /\ ~ sent.split
         /\ Good(client, sc, Tidy) /\ StatusFits(sc, sent) /\ Follows(sc, sent) /\ BlocksFollow(sc, sent)
<1>1. Running /\ sc.via = "anthropic" /\ sent.finish = None
  BY DEF AnthropicRunning
<1> QED BY <1>1, Resting DEF Told

(* Told, for a converter of Anthropic events under way.                    *)
LEMMA ToldAnthropic ==
  ASSUME NEW r, NEW u, r.via = "anthropic", r.started, Follows(r, u), BlocksFollow(r, u), ~ u.split
  PROVE  Told(r, u)
BY DEF Told

LEMMA MessageStartStep ==
  ASSUME IInv, MessageStart
  PROVE  IInv'
<1>1. /\ AnthropicRunning /\ ~ sent.begun /\ client' = client
      /\ sc' = [sc EXCEPT !.responseId = "upstream"] /\ sent' = [sent EXCEPT !.begun = TRUE]
  BY DEF MessageStart, HandleMessageStart
<1>2. /\ sc \in Converters /\ client \in Clients /\ sent \in Histories /\ sc.via = "anthropic"
      /\ sc.events = <<>> /\ sc.started /\ ~ sc.finalized /\ sent.finish = None /\ ~ sent.split
      /\ Good(client, sc, Tidy) /\ StatusFits(sc, sent) /\ Follows(sc, sent) /\ BlocksFollow(sc, sent)
  BY <1>1, AnthropicResting
<1>3. PICK tidy \in BOOLEAN : tidy = Tidy
  BY TidyBoolean
<1>4. PICK r : r = sc'
  OBVIOUS
<1>5. PICK u : u = sent'
  OBVIOUS
<1>6. u \in Histories /\ u.begun /\ u.finish = sent.finish /\ u.split = sent.split /\ u.text = sent.text
      /\ u.reasoning = sent.reasoning /\ u.args = sent.args /\ u.calls = sent.calls
      /\ u.blocks = sent.blocks /\ u.open = sent.open
  BY <1>1, <1>2, <1>5 DEF Histories
<1>7. /\ r \in Converters /\ SameOutput(sc, r) /\ SameCalls(sc, r) /\ SameText(sc, r) /\ SameReasoning(sc, r)
      /\ r.events = sc.events /\ r.via = sc.via /\ r.started = sc.started /\ r.finalized = sc.finalized
      /\ r.status = sc.status /\ r.contentBlocks = sc.contentBlocks
  BY <1>1, <1>2, <1>4 DEF Converters, ResponseIds, SameOutput, SameCalls, SameText, SameReasoning
<1>8. sc.output = <<>>
  BY <1>1, <1>2 DEF BlocksFollow
<1>9. Numbered(sc) /\ PartsFit(sc, tidy)
  BY <1>2, <1>3 DEF Good
<1>10. sc.itemIndex = -1 /\ \A t \in Parted : Ix(sc, t) < 0
  <2>1. sc.itemIndex = -1
    BY <1>8, <1>9 DEF Numbered
  <2>2. ASSUME NEW t \in Parted PROVE Ix(sc, t) < 0
    BY <1>2, <1>9, <2>1, IxTyped DEF Numbered
  <2> QED BY <2>1, <2>2
<1>11. Known(sc) = {} /\ Known(r) = {}
  <2>1. ASSUME NEW c \in Known(sc) PROVE FALSE
    BY <1>2, <1>9, <1>10, <2>1, KnownState DEF Numbered
  <2> QED BY <1>7, <2>1 DEF SameCalls, Known
<1>12. \A t \in Parted : Ix(r, t) = Ix(sc, t) /\ Acc(r, t) = Acc(sc, t)
  BY <1>7 DEF Ix, Acc, SameText, SameReasoning
<1>13. PICK d \in Clients : d.phase = "streaming" /\ Runs(client, sc.events, d, tidy) /\ Mirrors(sc, d.items, tidy)
  BY <1>2, <1>3 DEF Good
<1>14. Len(d.items) = 0
  BY <1>8, <1>13 DEF Mirrors, Listed
<1>15. Mirrors(r, d.items, tidy)
  <2>1. 1 .. Len(d.items) = {} /\ \A t \in Parted : ~ (Ix(r, t) >= 0)
    <3>1. ASSUME NEW t \in Parted PROVE ~ (Ix(r, t) >= 0)
      BY <1>7, <1>10, <1>12, IxTyped
    <3> QED BY <1>14, <3>1
  <2>2. Listed(r, d.items)
    BY <1>7, <1>13 DEF Mirrors, Listed, SameOutput
  <2>3. Placed(r, d.items)
    BY <1>11, <2>1 DEF Placed
  <2>4. \A t \in Parted : Flat(d.items, t) = Acc(r, t) /\ (Ix(r, t) < 0 => Acc(r, t) = <<>>)
    BY <1>12, <1>13 DEF Mirrors
  <2>5. \A t \in Parted : Alone(r, d.items, t)
    BY <2>1 DEF Alone
  <2> QED BY <1>14, <2>2, <2>3, <2>4, <2>5 DEF Mirrors
<1>16. Good(client, r, tidy)
  <2>1. Numbered(r)
    BY <1>7, <1>9, <1>11, <1>12 DEF Numbered, SameOutput
  <2>2. PartsFit(r, tidy)
    BY <1>7, <1>9 DEF PartsFit, SameText
  <2> QED BY <1>7, <1>13, <1>15, <2>1, <2>2 DEF Good
<1>17. StatusFits(r, u)
  BY <1>2, <1>6, <1>7 DEF StatusFits
<1>18. Follows(r, u)
  <2>1. \A c \in Calls : ArgsOf(r, c) = ArgsOf(sc, c)
    BY <1>11 DEF ArgsOf
  <2> QED BY <1>2, <1>6, <1>7, <1>11, <2>1 DEF Follows, SameText, SameReasoning
<1>19. BlocksFollow(r, u)
  BY <1>2, <1>6, <1>7, <1>11, <1>12 DEF BlocksFollow, SameOutput
<1>20. Told(r, u)
  BY <1>2, <1>6, <1>7, <1>18, <1>19, ToldAnthropic
<1>21. Tidy' = tidy
  BY <1>3, <1>4, <1>5, <1>6, <1>7 DEF Tidy, Repeats
<1> QED BY <1>1, <1>2, <1>4, <1>5, <1>6, <1>7, <1>16, <1>17, <1>20, <1>21, Rested

LEMMA ContentBlockStopStep ==
  ASSUME IInv, ContentBlockStop
  PROVE  IInv'
<1>1. /\ AnthropicRunning /\ client' = client /\ sc' = sc /\ sent' = [sent EXCEPT !.open = FALSE]
  BY DEF ContentBlockStop
<1>2. /\ sc \in Converters /\ client \in Clients /\ sent \in Histories /\ sc.via = "anthropic"
      /\ sc.events = <<>> /\ sc.started /\ ~ sc.finalized /\ sent.finish = None /\ ~ sent.split
      /\ Good(client, sc, Tidy) /\ StatusFits(sc, sent) /\ Follows(sc, sent) /\ BlocksFollow(sc, sent)
  BY <1>1, AnthropicResting
<1>3. PICK tidy \in BOOLEAN : tidy = Tidy
  BY TidyBoolean
<1>4. PICK u : u = sent'
  OBVIOUS
<1>5. u \in Histories /\ u.begun = sent.begun /\ u.finish = sent.finish /\ u.split = sent.split
      /\ u.text = sent.text /\ u.reasoning = sent.reasoning /\ u.args = sent.args
      /\ u.calls = sent.calls /\ u.blocks = sent.blocks /\ u.open = FALSE
  BY <1>1, <1>2, <1>4 DEF Histories
<1>6. StatusFits(sc, u) /\ Follows(sc, u) /\ BlocksFollow(sc, u)
  BY <1>2, <1>5 DEF StatusFits, Follows, BlocksFollow
<1>7. Told(sc, u)
  BY <1>2, <1>5, <1>6, ToldAnthropic
<1>8. Tidy' = tidy
  BY <1>1, <1>3, <1>4, <1>5 DEF Tidy, Repeats
<1>9. Good(client, sc, tidy)
  BY <1>2, <1>3
<1> QED BY <1>1, <1>2, <1>4, <1>5, <1>6, <1>7, <1>8, <1>9, Rested

LEMMA MessageDeltaStep ==
  ASSUME IInv, MessageDelta
  PROVE  IInv'
<1>1. AnthropicRunning /\ client' = client
  BY DEF MessageDelta
<1>2. PICK reason \in FinishesOf(sent) :
         sc' = HandleMessageDelta(sc, reason) /\ sent' = [sent EXCEPT !.finish = reason]
  BY DEF MessageDelta
<1>3. /\ sc \in Converters /\ client \in Clients /\ sent \in Histories /\ sc.via = "anthropic"
      /\ sc.events = <<>> /\ sc.started /\ ~ sc.finalized /\ sent.finish = None /\ ~ sent.split
      /\ Good(client, sc, Tidy) /\ StatusFits(sc, sent) /\ Follows(sc, sent) /\ BlocksFollow(sc, sent)
  BY <1>1, AnthropicResting
<1>4. PICK tidy \in BOOLEAN : tidy = Tidy
  BY TidyBoolean
<1>5. PICK u : u = sent'
  OBVIOUS
<1>6. reason \in Finishes
  BY DEF FinishesOf
<1>7. u \in Histories /\ u.begun = sent.begun /\ u.finish = reason /\ u.split = sent.split
      /\ u.text = sent.text /\ u.reasoning = sent.reasoning /\ u.args = sent.args
      /\ u.calls = sent.calls /\ u.blocks = sent.blocks /\ u.open = sent.open
  BY <1>2, <1>3, <1>5, <1>6 DEF Histories
<1>8. PICK status \in Rsp!Statuses : status = IF reason = "length" THEN "incomplete" ELSE "completed"
  BY DEF Rsp!Statuses
<1>9. PICK r : r = [sc EXCEPT !.status = status]
  OBVIOUS
<1>10. sc' = r
  BY <1>2, <1>8, <1>9 DEF HandleMessageDelta
<1>11. /\ r \in Converters /\ SameOutput(sc, r) /\ SameCalls(sc, r) /\ SameText(sc, r) /\ SameReasoning(sc, r)
       /\ r.events = sc.events /\ r.via = sc.via /\ r.started = sc.started /\ r.finalized = sc.finalized
       /\ r.status = status /\ r.contentBlocks = sc.contentBlocks /\ r.responseId = sc.responseId
  BY <1>3, <1>9 DEF Converters, SameOutput, SameCalls, SameText, SameReasoning
<1>12. Good(client, sc, tidy)
  BY <1>3, <1>4
<1>13. Good(client, r, tidy)
  BY <1>11, <1>12, GoodAside
<1>14. StatusFits(r, u)
  <2>1. status = OutcomeOf(r.via, reason) /\ reason # None
    BY <1>3, <1>6, <1>8, <1>11, NoneAssumption DEF OutcomeOf
  <2> QED BY <1>7, <1>11, <2>1 DEF StatusFits
<1>15. Known(r) = Known(sc) /\ \A c \in Calls : ArgsOf(r, c) = ArgsOf(sc, c)
  BY <1>11 DEF SameCalls, Known, ArgsOf
<1>16. Follows(r, u)
  BY <1>3, <1>7, <1>11, <1>15 DEF Follows, SameText, SameReasoning
<1>17. SameParts(sc, r)
  BY <1>11, PartsSame DEF SameText
<1>18. BlocksFollow(r, u)
  BY <1>3, <1>7, <1>11, <1>15, <1>17 DEF BlocksFollow, SameOutput, SameParts
<1>19. Told(r, u)
  BY <1>3, <1>7, <1>11, <1>16, <1>18, ToldAnthropic
<1>20. Tidy' = tidy
  BY <1>3, <1>4, <1>5, <1>7, <1>10, <1>11 DEF Tidy, Repeats
<1> QED BY <1>1, <1>3, <1>5, <1>7, <1>10, <1>11, <1>13, <1>14, <1>19, <1>20, Rested

-----------------------------------------------------------------------------
(* Anthropic blocks.                                                       *)

(* What starting a block does to the converter but for the events.         *)
BlockOpened(s, r, block, thinking) ==
    /\ r.via = s.via /\ r.started = s.started /\ r.finalized = s.finalized /\ r.status = s.status
    /\ r.responseId = s.responseId /\ r.contentBlocks = Append(s.contentBlocks, block)
    /\ r.accText = s.accText /\ r.accReasoning = s.accReasoning \o thinking
    /\ Known(r) = Known(s) \cup ({block.call} \ {None})
    /\ \A c \in Calls : ArgsOf(r, c) = ArgsOf(s, c)
    /\ IF block.type = "text" THEN r.textItemIx >= 0 ELSE r.textItemIx = s.textItemIx
    /\ IF block.type = "thinking" THEN r.reasonItemIx >= 0 ELSE r.reasonItemIx = s.reasonItemIx

(* The block noted, and nothing else done.                                 *)
Noted(s, q, block) ==
    /\ SameOutput(s, q) /\ SameCalls(s, q) /\ SameText(s, q) /\ SameReasoning(s, q)
    /\ q.via = s.via /\ q.started = s.started /\ q.finalized = s.finalized /\ q.status = s.status
    /\ q.responseId = s.responseId /\ q.events = s.events
    /\ q.contentBlocks = Append(s.contentBlocks, block)

LEMMA BlockNoted ==
  ASSUME NEW c, NEW s, NEW tidy \in BOOLEAN, Good(c, s, tidy), NEW block \in Blocks,
         NEW q, q = [s EXCEPT !.contentBlocks = Append(@, block)]
  PROVE  Good(c, q, tidy) /\ Noted(s, q, block)
<1>1. s \in Converters
  BY DEF Good
<1>2. PICK blocks \in Seq(Blocks) : blocks = Append(s.contentBlocks, block)
  <2>1. Append(s.contentBlocks, block) \in Seq(Blocks)
    BY <1>1 DEF Converters
  <2> QED BY <2>1
<1>3. q = [s EXCEPT !.contentBlocks = blocks]
  BY <1>2
<1>4. q \in Converters
  BY <1>1, <1>3 DEF Converters
<1>5. Noted(s, q, block)
  BY <1>1, <1>2, <1>3 DEF Noted, Converters, SameOutput, SameCalls, SameText, SameReasoning
<1>6. SameOutput(s, q) /\ SameCalls(s, q) /\ SameText(s, q) /\ SameReasoning(s, q)
      /\ q.responseId = s.responseId /\ q.events = s.events
  BY <1>5 DEF Noted
<1>7. PICK x \in Converters : x = q
  BY <1>4
<1>8. SameOutput(s, x) /\ SameCalls(s, x) /\ SameText(s, x) /\ SameReasoning(s, x)
      /\ x.responseId = s.responseId /\ x.events = s.events
  BY <1>6, <1>7
<1>9. Good(c, x, tidy)
  BY <1>8, GoodAside
<1> QED BY <1>5, <1>7, <1>9

LEMMA BlockHandled ==
  ASSUME NEW s, NEW block, NEW thinking, NEW q, q = [s EXCEPT !.contentBlocks = Append(@, block)],
         Noted(s, q, block)
  PROVE  /\ block.type = "text" => HandleContentBlockStart(s, block, thinking) = OpenText(q, None)
         /\ block.type = "tool_use" => HandleContentBlockStart(s, block, thinking) = OpenCall(q, None, block.call)
         /\ block.type = "thinking" =>
               HandleContentBlockStart(s, block, thinking) = AllSummaries(StartReasoningItem(q), thinking)
         /\ block.type = "redacted_thinking" => HandleContentBlockStart(s, block, thinking) = q
<1>1. q.itemIndex = s.itemIndex /\ MsgId(q) = MsgId(s)
  BY DEF Noted, SameOutput, MsgId
<1> QED BY <1>1 DEF HandleContentBlockStart, OpenText, OpenCall, AllSummaries

LEMMA AllSummariesIs ==
  ASSUME NEW c, NEW s, NEW tidy \in BOOLEAN, Good(c, s, tidy), s.reasonItemIx >= 0,
         NEW fs, Few(fs), NEW r, r = AllSummaries(s, fs)
  PROVE  Good(c, r, tidy) /\ Thinks(s, r, fs) /\ r.reasonItemIx >= 0
<1>1. s \in Converters /\ s.accReasoning \in Seq(Fragments)
  BY GoodTyped
<1>2. CASE fs = <<>>
  <2>1. r = s
    BY <1>2, SDFolded0
  <2>2. s.accReasoning \o fs = s.accReasoning
    BY <1>1, <1>2
  <2> QED BY <2>1, <2>2 DEF Thinks, Framed, SameText, SameCalls
<1>3. ASSUME NEW f \in Fragments, fs = <<f>>
      PROVE  Good(c, r, tidy) /\ Thinks(s, r, fs) /\ r.reasonItemIx >= 0
  <2>1. r = SummaryDelta(s, f)
    BY <1>3, SDFolded1
  <2>2. /\ Good(c, r, tidy) /\ Framed(s, r) /\ SameText(s, r) /\ SameCalls(s, r)
        /\ r.accReasoning = Append(s.accReasoning, f) /\ r.reasonItemIx = s.reasonItemIx
    BY <2>1, SummaryGrown
  <2>3. s.accReasoning \o fs = Append(s.accReasoning, f)
    BY <1>1, <1>3
  <2> QED BY <2>2, <2>3 DEF Thinks
<1> QED BY <1>2, <1>3 DEF Few

LEMMA BlockStarted ==
  ASSUME NEW c, NEW s, NEW tidy \in BOOLEAN, Good(c, s, tidy), NEW block \in Blocks,
         block.type = "tool_use" => block.call \in Calls \ Known(s),
         block.type # "tool_use" => block.call = None,
         tidy /\ block.type = "text" => s.textItemIx < 0,
         tidy /\ block.type = "thinking" => s.reasonItemIx < 0,
         NEW thinking, Few(thinking), block.type # "thinking" => thinking = <<>>,
         NEW r, r = HandleContentBlockStart(s, block, thinking)
  PROVE  Good(c, r, tidy) /\ BlockOpened(s, r, block, thinking)
<1>1. PICK q : q = [s EXCEPT !.contentBlocks = Append(@, block)]
  OBVIOUS
<1>2. Good(c, q, tidy) /\ Noted(s, q, block)
  BY <1>1, BlockNoted
<1>3. /\ block.type = "text" => r = OpenText(q, None)
      /\ block.type = "tool_use" => r = OpenCall(q, None, block.call)
      /\ block.type = "thinking" => r = AllSummaries(StartReasoningItem(q), thinking)
      /\ block.type = "redacted_thinking" => r = q
  BY <1>1, <1>2, BlockHandled
<1>4. /\ q.via = s.via /\ q.started = s.started /\ q.finalized = s.finalized /\ q.status = s.status
      /\ q.responseId = s.responseId /\ q.contentBlocks = Append(s.contentBlocks, block)
      /\ q.accText = s.accText /\ q.accReasoning = s.accReasoning
      /\ q.textItemIx = s.textItemIx /\ q.reasonItemIx = s.reasonItemIx
      /\ q.toolCallByIndex = s.toolCallByIndex
  BY <1>2 DEF Noted, SameText, SameReasoning, SameCalls
<1>5. Known(q) = Known(s) /\ \A b \in Calls : ArgsOf(q, b) = ArgsOf(s, b)
  BY <1>4 DEF Known, ArgsOf
<1>6. s.accReasoning \in Seq(Fragments)
  BY GoodTyped
<1>7. s.accReasoning \o <<>> = s.accReasoning
  BY <1>6
<1>8. PICK index : index = None
  OBVIOUS
<1>9. {None} \ {None} = {}
  OBVIOUS
<1>10. ASSUME block.type = "text"
       PROVE  Good(c, r, tidy) /\ BlockOpened(s, r, block, thinking)
  <2>1. index \in {None, Len(q.output)} /\ r = OpenText(q, index) /\ (tidy => q.textItemIx < 0)
    BY <1>3, <1>4, <1>8, <1>10
  <2>2. /\ Good(c, r, tidy) /\ Framed(q, r) /\ SameReasoning(q, r) /\ SameCalls(q, r)
        /\ r.accText = q.accText /\ r.textItemIx >= 0
    BY <1>2, <2>1, TextOpened
  <2>3. Known(r) = Known(q) /\ \A b \in Calls : ArgsOf(r, b) = ArgsOf(q, b)
    BY <2>2 DEF SameCalls, Known, ArgsOf
  <2>4. block.type # "thinking" /\ block.call = None /\ thinking = <<>>
    BY <1>10
  <2> QED BY <1>4, <1>5, <1>7, <1>9, <1>10, <2>2, <2>3, <2>4 DEF BlockOpened, Framed, SameReasoning
<1>11. ASSUME block.type = "tool_use"
       PROVE  Good(c, r, tidy) /\ BlockOpened(s, r, block, thinking)
  <2>1. PICK b \in Calls \ Known(q) : b = block.call
    BY <1>5, <1>11
  <2>2. index \in {None, Len(q.output)} /\ r = OpenCall(q, index, b)
    BY <1>3, <1>8, <1>11, <2>1
  <2>3. /\ Good(c, r, tidy) /\ Framed(q, r) /\ SameText(q, r) /\ SameReasoning(q, r)
        /\ CallIs(q, r, b, <<>>, Len(q.output))
    BY <1>2, <2>2, CallOpened
  <2>4. <<>> \in Seq(Fragments) /\ Len(q.output) \in Nat
    BY <1>2, GoodTyped
  <2>5. PICK args \in Seq(Fragments) : args = <<>>
    BY <2>4
  <2>6. PICK ix \in Nat : ix = Len(q.output)
    BY <2>4
  <2>7. CallNow(q, r, b, args)
    BY <2>3, <2>5, <2>6, CallKnown
  <2>8. ArgsOf(q, b) = <<>>
    BY <2>1 DEF ArgsOf
  <2>9. Known(r) = Known(q) \cup {b} /\ \A a \in Calls : ArgsOf(r, a) = ArgsOf(q, a)
    BY <2>5, <2>7, <2>8 DEF CallNow
  <2>10. b # None /\ block.type # "thinking" /\ block.type # "text" /\ thinking = <<>>
    BY <1>11, <2>1, NoneAssumption
  <2>11. {block.call} \ {None} = {b}
    BY <2>1, <2>10
  <2> QED BY <1>4, <1>5, <1>7, <2>3, <2>9, <2>10, <2>11 DEF BlockOpened, Framed, SameReasoning, SameText
<1>12. ASSUME block.type = "thinking"
       PROVE  Good(c, r, tidy) /\ BlockOpened(s, r, block, thinking)
  <2>1. PICK x : x = StartReasoningItem(q)
    OBVIOUS
  <2>2. tidy => q.reasonItemIx < 0
    BY <1>4, <1>12
  <2>3. /\ Good(c, x, tidy) /\ Framed(q, x) /\ SameText(q, x) /\ SameCalls(q, x)
        /\ x.accReasoning = q.accReasoning /\ x.reasonItemIx >= 0
    BY <1>2, <2>1, <2>2, ReasoningOpened
  <2>4. r = AllSummaries(x, thinking)
    BY <1>3, <1>12, <2>1
  <2>5. Good(c, r, tidy) /\ Thinks(x, r, thinking) /\ r.reasonItemIx >= 0
    BY <2>3, <2>4, AllSummariesIs
  <2>6. Known(r) = Known(q) /\ \A b \in Calls : ArgsOf(r, b) = ArgsOf(q, b)
    BY <2>3, <2>5 DEF Thinks, SameCalls, Known, ArgsOf
  <2>7. block.type # "text" /\ block.call = None
    BY <1>12
  <2> QED BY <1>4, <1>5, <1>9, <1>12, <2>3, <2>5, <2>6, <2>7 DEF BlockOpened, Thinks, Framed, SameText
<1>13. ASSUME block.type = "redacted_thinking"
       PROVE  Good(c, r, tidy) /\ BlockOpened(s, r, block, thinking)
  <2>1. block.type # "text" /\ block.type # "thinking" /\ block.call = None /\ thinking = <<>>
    BY <1>13
  <2>2. r = q
    BY <1>3, <1>13
  <2> QED BY <1>2, <1>4, <1>5, <1>7, <1>9, <2>1, <2>2 DEF BlockOpened
<1>14. block.type \in {"text", "thinking", "tool_use", "redacted_thinking"}
  BY DEF Blocks
<1> QED BY <1>10, <1>11, <1>12, <1>13, <1>14

(* The upstream starts a block of the type given, and for the call given.  *)
Opens(type, call) ==
    \E thinking \in IF type = "thinking" THEN Maybe(Fragment("reasoning", sent.reasoning + 1)) ELSE {<<>>} :
       /\ sc' = HandleContentBlockStart(sc, [type |-> type, call |-> call], thinking)
       /\ sent' = [sent EXCEPT !.blocks = Append(@, [type |-> type, call |-> call]), !.open = TRUE,
                               !.calls = @ \cup ({call} \ {None}),
                               !.reasoning = @ + Len(thinking)]

LEMMA ContentBlockStartStep ==
  ASSUME IInv, ContentBlockStart
  PROVE  IInv'
<1>1. AnthropicRunning /\ sent.begun /\ client' = client
  BY DEF ContentBlockStart
<1>2. PICK type \in {"text", "thinking", "tool_use", "redacted_thinking"} :
         \E call \in IF type = "tool_use" THEN Calls \ sent.calls ELSE {None} : Opens(type, call)
  BY DEF ContentBlockStart, Opens
<1>3. PICK call \in IF type = "tool_use" THEN Calls \ sent.calls ELSE {None} : Opens(type, call)
  BY <1>2
<1>4. PICK thinking \in IF type = "thinking" THEN Maybe(Fragment("reasoning", sent.reasoning + 1)) ELSE {<<>>} :
         /\ sc' = HandleContentBlockStart(sc, [type |-> type, call |-> call], thinking)
         /\ sent' = [sent EXCEPT !.blocks = Append(@, [type |-> type, call |-> call]), !.open = TRUE,
                                 !.calls = @ \cup ({call} \ {None}),
                                 !.reasoning = @ + Len(thinking)]
  BY <1>3 DEF Opens
<1>5. /\ sc \in Converters /\ client \in Clients /\ sent \in Histories /\ sc.via = "anthropic"
      /\ sc.events = <<>> /\ sc.started /\ ~ sc.finalized /\ sent.finish = None /\ ~ sent.split
      /\ Good(client, sc, Tidy) /\ StatusFits(sc, sent) /\ Follows(sc, sent) /\ BlocksFollow(sc, sent)
  BY <1>1, AnthropicResting
<1>6. call \in Calls \cup {None}
  OBVIOUS
<1>7. PICK block \in Blocks : block = [type |-> type, call |-> call]
  BY <1>6 DEF Blocks
<1>8. block.type = type /\ block.call = call
  BY <1>7
<1>9. PICK m \in Nat : m = sent.reasoning
  BY <1>5 DEF Histories
<1>10. PICK blocks \in Seq(Blocks) : blocks = sent.blocks
  BY <1>5 DEF Histories
<1>11. PICK k \in Nat : k = Len(blocks)
  OBVIOUS
<1>12. PICK more \in Seq(Blocks) : more = Append(blocks, block)
  <2>1. Append(blocks, block) \in Seq(Blocks)
    OBVIOUS
  <2> QED BY <2>1
<1>13. Len(more) = k + 1 /\ more[k + 1] = block /\ \A i \in 1 .. k : more[i] = blocks[i]
  BY <1>11, <1>12, Appended
<1>14. thinking \in Maybe(Fragment("reasoning", m + 1))
  BY <1>4, <1>9 DEF Maybe
<1>15. /\ InOrder(m, "reasoning") \o thinking = InOrder(m + Len(thinking), "reasoning")
       /\ Few(thinking) /\ Len(thinking) \in Nat
  BY <1>14, OneMore
<1>16. PICK calls \in SUBSET Calls : calls = sent.calls \cup ({call} \ {None})
  BY <1>5, <1>6 DEF Histories
<1>17. PICK n \in Nat : n = m + Len(thinking)
  BY <1>15
<1>18. PICK u : u = sent'
  OBVIOUS
<1>19. u = [sent EXCEPT !.blocks = more, !.open = TRUE, !.calls = calls, !.reasoning = n]
  BY <1>4, <1>7, <1>9, <1>10, <1>12, <1>16, <1>17, <1>18
<1>20. /\ u \in Histories /\ u.blocks = more /\ u.open = TRUE /\ u.calls = calls /\ u.reasoning = n
       /\ u.begun = sent.begun /\ u.finish = sent.finish /\ u.split = sent.split /\ u.text = sent.text
       /\ u.args = sent.args
  BY <1>5, <1>19 DEF Histories
<1>21. PICK tidy \in BOOLEAN : tidy = Tidy'
  BY TidyBoolean
<1>22. PICK r : r = HandleContentBlockStart(sc, block, thinking)
  OBVIOUS
<1>23. sc' = r
  BY <1>4, <1>7, <1>22
<1>24. tidy => Tidy
  <2>1. ASSUME NEW t, Repeats(t) PROVE Repeats(t)'
    <3>1. PICK i, j \in DOMAIN sent.blocks :
             i # j /\ sent.blocks[i].type = t /\ sent.blocks[j].type = t
      BY <2>1 DEF Repeats
    <3>2. i \in 1 .. k /\ j \in 1 .. k
      BY <1>10, <1>11
    <3>3. i \in DOMAIN more /\ j \in DOMAIN more /\ more[i].type = t /\ more[j].type = t
      BY <1>10, <1>11, <1>12, <1>13, <3>1, <3>2
    <3>4. sent'.blocks = more
      BY <1>18, <1>20
    <3> QED BY <3>1, <3>3, <3>4 DEF Repeats
  <2>2. sent'.finish = sent.finish
    BY <1>18, <1>20
  <2>3. SUFFICES ASSUME tidy PROVE Tidy
    OBVIOUS
  <2>4. ~ Repeats("text")' /\ ~ Repeats("thinking")'
    BY <1>21, <2>3 DEF Tidy
  <2> QED BY <1>5, <2>1, <2>4 DEF Tidy
<1>25. Good(client, sc, tidy)
  <2>1. PICK before \in BOOLEAN : before = Tidy
    BY TidyBoolean
  <2> QED BY <1>5, <1>24, <2>1, Retidied
<1>26. ASSUME tidy, NEW t \in Parted, type = BlockType(t) PROVE Ix(sc, t) < 0
  <2>1. ~ Repeats(type)'
    BY <1>21, <1>26 DEF Tidy, BlockType
  <2>2. ASSUME NEW i \in DOMAIN sent.blocks, sent.blocks[i].type = type PROVE FALSE
    <3>1. i \in 1 .. k
      BY <1>10, <1>11
    <3>2. i \in DOMAIN more /\ k + 1 \in DOMAIN more /\ i # k + 1
          /\ more[i].type = type /\ more[k + 1].type = type
      BY <1>8, <1>10, <1>11, <1>12, <1>13, <2>2, <3>1
    <3>3. sent'.blocks = more
      BY <1>18, <1>20
    <3> QED BY <2>1, <3>2, <3>3 DEF Repeats
  <2>3. ~ (Ix(sc, t) >= 0)
    BY <1>5, <1>26, <2>2 DEF BlocksFollow
  <2> QED BY <1>5, <2>3, IxTyped
<1>27. Good(client, r, tidy) /\ BlockOpened(sc, r, block, thinking)
  <2>1. block.type = "tool_use" => block.call \in Calls \ Known(sc)
    BY <1>5, <1>8 DEF Follows
  <2>2. block.type # "tool_use" => block.call = None
    BY <1>8
  <2>3. tidy /\ block.type = "text" => sc.textItemIx < 0
    BY <1>8, <1>26 DEF Parted, BlockType, Ix
  <2>4. tidy /\ block.type = "thinking" => sc.reasonItemIx < 0
    BY <1>8, <1>26 DEF Parted, BlockType, Ix
  <2>5. block.type # "thinking" => thinking = <<>>
    BY <1>8
  <2> QED BY <1>15, <1>22, <1>25, <2>1, <2>2, <2>3, <2>4, <2>5, BlockStarted
<1>28. /\ r.via = sc.via /\ r.started = sc.started /\ r.finalized = sc.finalized /\ r.status = sc.status
       /\ r.contentBlocks = Append(sc.contentBlocks, block)
       /\ r.accText = sc.accText /\ r.accReasoning = sc.accReasoning \o thinking
       /\ Known(r) = Known(sc) \cup ({block.call} \ {None})
       /\ \A c \in Calls : ArgsOf(r, c) = ArgsOf(sc, c)
       /\ IF type = "text" THEN r.textItemIx >= 0 ELSE r.textItemIx = sc.textItemIx
       /\ IF type = "thinking" THEN r.reasonItemIx >= 0 ELSE r.reasonItemIx = sc.reasonItemIx
  BY <1>8, <1>27 DEF BlockOpened
<1>29. StatusFits(r, u)
  BY <1>5, <1>20, <1>28 DEF StatusFits
<1>30. Follows(r, u)
  <2>1. sent.calls = Known(sc) /\ \A c \in Calls : ArgsOf(sc, c) = InOrder(sent.args[c], c)
    BY <1>5 DEF Follows
  <2>2. sc.accText = InOrder(sent.text, "text") /\ sc.accReasoning = InOrder(m, "reasoning")
    BY <1>5, <1>9 DEF Follows
  <2>3. u.calls = Known(r)
    BY <1>8, <1>16, <1>20, <1>28, <2>1
  <2>4. \A c \in Calls : ArgsOf(r, c) = InOrder(u.args[c], c)
    BY <1>20, <1>28, <2>1
  <2>5. r.accReasoning = InOrder(u.reasoning, "reasoning")
    BY <1>15, <1>17, <1>20, <1>28, <2>2
  <2>6. r.accText = InOrder(u.text, "text")
    BY <1>20, <1>28, <2>2
  <2> QED BY <2>3, <2>4, <2>5, <2>6 DEF Follows
<1>31. BlocksFollow(r, u)
  <2>1. r.contentBlocks = u.blocks /\ u.blocks # <<>> /\ u.begun
    BY <1>1, <1>5, <1>10, <1>12, <1>20, <1>28, <1>13 DEF BlocksFollow
  <2>2. ASSUME NEW i \in DOMAIN u.blocks, u.blocks[i].type = "tool_use" PROVE u.blocks[i].call \in Known(r)
    <3>1. i \in 1 .. k + 1
      BY <1>12, <1>13, <1>20
    <3>2. CASE i = k + 1
      <4>1. call \in Calls /\ type = "tool_use"
        BY <1>8, <1>13, <1>20, <2>2, <3>2
      <4> QED BY <1>8, <1>13, <1>20, <1>28, <3>2, <4>1, NoneAssumption
    <3>3. CASE i \in 1 .. k
      <4>1. u.blocks[i] = sent.blocks[i] /\ i \in DOMAIN sent.blocks
        BY <1>10, <1>11, <1>13, <1>20, <3>3
      <4>2. sent.blocks[i].call \in Known(sc)
        BY <1>5, <2>2, <4>1 DEF BlocksFollow
      <4> QED BY <1>28, <4>1, <4>2
    <3> QED BY <3>1, <3>2, <3>3
  <2>3. ASSUME NEW t \in Parted
        PROVE  Ix(r, t) >= 0 <=> \E i \in DOMAIN u.blocks : u.blocks[i].type = BlockType(t)
    <3>1. Ix(sc, t) >= 0 <=> \E i \in DOMAIN sent.blocks : sent.blocks[i].type = BlockType(t)
      BY <1>5 DEF BlocksFollow
    <3>2. (\E i \in DOMAIN u.blocks : u.blocks[i].type = BlockType(t))
            <=> (type = BlockType(t) \/ \E i \in DOMAIN sent.blocks : sent.blocks[i].type = BlockType(t))
      <4>1. DOMAIN u.blocks = 1 .. k + 1 /\ DOMAIN sent.blocks = 1 .. k /\ k + 1 \in 1 .. k + 1
        BY <1>10, <1>11, <1>12, <1>13, <1>20
      <4>2. u.blocks[k + 1].type = type
        BY <1>8, <1>13, <1>20
      <4>3. \A i \in 1 .. k : u.blocks[i] = sent.blocks[i]
        BY <1>10, <1>13, <1>20
      <4> QED BY SMTT(60), <4>1, <4>2, <4>3
    <3>3. type = BlockType(t) => Ix(r, t) >= 0
      BY <1>28 DEF BlockType, Ix, Parted
    <3>4. type # BlockType(t) => Ix(r, t) = Ix(sc, t)
      BY <1>28 DEF BlockType, Ix, Parted
    <3> QED BY <3>1, <3>2, <3>3, <3>4
  <2> QED BY <2>1, <2>2, <2>3 DEF BlocksFollow
<1>32. Told(r, u)
  BY <1>5, <1>20, <1>28, <1>30, <1>31, ToldAnthropic
<1> QED BY <1>1, <1>5, <1>18, <1>20, <1>21, <1>23, <1>27, <1>28, <1>29, <1>32, Rested

(* What a delta does to what follows from it.                              *)
Resumed(s, r, v) ==
    /\ Framed(s, r) /\ Known(r) = Known(s)
    /\ r.textItemIx = s.textItemIx /\ r.reasonItemIx = s.reasonItemIx /\ Follows(r, v)

(* v is what has been sent after a delta when it was u before.             *)
SameBlocks(u, v) ==
    /\ v \in Histories /\ v.begun = u.begun /\ v.finish = u.finish /\ v.split = u.split
    /\ v.blocks = u.blocks /\ v.open = u.open /\ v.calls = u.calls

LEMMA TextDeltaTold ==
  ASSUME NEW c, NEW s, NEW tidy \in BOOLEAN, Good(c, s, tidy), s.textItemIx >= 0,
         NEW u \in Histories, Follows(s, u), ~ u.split, NEW n \in Nat, n = u.text,
         NEW v, v = [[u EXCEPT !.chunks = @ + 1] EXCEPT !.text = n + 1],
         NEW r, r = TextDelta(s, Fragment("text", n + 1))
  PROVE  Good(c, r, tidy) /\ Resumed(s, r, v) /\ SameBlocks(u, v)
<1>1. PICK f \in Fragments : f = Fragment("text", n + 1)
  BY FragmentTyped
<1>2. /\ Good(c, r, tidy) /\ Framed(s, r) /\ SameReasoning(s, r) /\ SameCalls(s, r)
      /\ r.accText = Append(s.accText, f) /\ r.textItemIx = s.textItemIx
  BY <1>1, TextGrown
<1>3. PICK m \in Nat : m = n + 1
  OBVIOUS
<1>4. PICK k \in Nat : k = u.chunks + 1
  BY DEF Histories
<1>5. PICK w : w = [u EXCEPT !.chunks = k]
  OBVIOUS
<1>6. v = [w EXCEPT !.text = m]
  BY <1>3, <1>4, <1>5
<1>7. w \in Histories /\ w.begun = u.begun /\ w.finish = u.finish /\ w.split = u.split /\ w.blocks = u.blocks
      /\ w.open = u.open /\ w.calls = u.calls /\ w.args = u.args /\ w.reasoning = u.reasoning
  BY <1>5 DEF Histories
<1>8. SameBlocks(u, v) /\ v.args = u.args /\ v.reasoning = u.reasoning /\ v.text = m
  BY <1>6, <1>7 DEF Histories, SameBlocks
<1>9. Append(InOrder(n, "text"), f) = InOrder(m, "text")
  BY <1>1, <1>3, InOrderMore
<1>10. Known(r) = Known(s) /\ \A b \in Calls : ArgsOf(r, b) = ArgsOf(s, b)
  BY <1>2 DEF SameCalls, Known, ArgsOf
<1>11. Follows(r, v)
  BY <1>2, <1>8, <1>9, <1>10 DEF Follows, SameBlocks, SameReasoning
<1> QED BY <1>2, <1>8, <1>10, <1>11 DEF Resumed, SameReasoning

LEMMA SummaryDeltaTold ==
  ASSUME NEW c, NEW s, NEW tidy \in BOOLEAN, Good(c, s, tidy), s.reasonItemIx >= 0,
         NEW u \in Histories, Follows(s, u), ~ u.split, NEW n \in Nat, n = u.reasoning,
         NEW v, v = [[u EXCEPT !.chunks = @ + 1] EXCEPT !.reasoning = n + 1],
         NEW r, r = SummaryDelta(s, Fragment("reasoning", n + 1))
  PROVE  Good(c, r, tidy) /\ Resumed(s, r, v) /\ SameBlocks(u, v)
<1>1. PICK f \in Fragments : f = Fragment("reasoning", n + 1)
  BY FragmentTyped
<1>2. /\ Good(c, r, tidy) /\ Framed(s, r) /\ SameText(s, r) /\ SameCalls(s, r)
      /\ r.accReasoning = Append(s.accReasoning, f) /\ r.reasonItemIx = s.reasonItemIx
  BY <1>1, SummaryGrown
<1>3. PICK m \in Nat : m = n + 1
  OBVIOUS
<1>4. PICK k \in Nat : k = u.chunks + 1
  BY DEF Histories
<1>5. PICK w : w = [u EXCEPT !.chunks = k]
  OBVIOUS
<1>6. v = [w EXCEPT !.reasoning = m]
  BY <1>3, <1>4, <1>5
<1>7. w \in Histories /\ w.begun = u.begun /\ w.finish = u.finish /\ w.split = u.split /\ w.blocks = u.blocks
      /\ w.open = u.open /\ w.calls = u.calls /\ w.args = u.args /\ w.text = u.text
  BY <1>5 DEF Histories
<1>8. SameBlocks(u, v) /\ v.args = u.args /\ v.text = u.text /\ v.reasoning = m
  BY <1>6, <1>7 DEF Histories, SameBlocks
<1>9. Append(InOrder(n, "reasoning"), f) = InOrder(m, "reasoning")
  BY <1>1, <1>3, InOrderMore
<1>10. Known(r) = Known(s) /\ \A b \in Calls : ArgsOf(r, b) = ArgsOf(s, b)
  BY <1>2 DEF SameCalls, Known, ArgsOf
<1>11. Follows(r, v)
  BY <1>2, <1>8, <1>9, <1>10 DEF Follows, SameBlocks, SameText
<1> QED BY <1>2, <1>8, <1>10, <1>11 DEF Resumed, SameText

LEMMA ArgumentsDeltaTold ==
  ASSUME NEW c, NEW s, NEW tidy \in BOOLEAN, Good(c, s, tidy), NEW b \in Known(s),
         NEW u \in Histories, Follows(s, u), ~ u.split, NEW n \in Nat, n = u.args[b],
         NEW v, v = [[u EXCEPT !.chunks = @ + 1] EXCEPT !.args[b] = n + 1],
         NEW r, r = ArgumentsDelta(s, b, Fragment(b, n + 1))
  PROVE  Good(c, r, tidy) /\ Resumed(s, r, v) /\ SameBlocks(u, v)
<1>1. PICK f \in Fragments : f = Fragment(b, n + 1)
  BY FragmentTyped DEF Known
<1>2. s \in Converters
  BY GoodTyped
<1>3. /\ b \in Calls /\ s.toolCallByIndex[b].args \in Seq(Fragments) /\ s.toolCallByIndex[b].itemIx \in Nat
      /\ s.toolCallByIndex[b] # None
  BY <1>2, KnownState
<1>4. PICK args \in Seq(Fragments) : args = s.toolCallByIndex[b].args
  BY <1>3
<1>5. PICK ix \in Nat : ix = s.toolCallByIndex[b].itemIx
  BY <1>3
<1>6. PICK more \in Seq(Fragments) : more = Append(args, f)
  <2>1. Append(args, f) \in Seq(Fragments)
    OBVIOUS
  <2> QED BY <2>1
<1>7. /\ Good(c, r, tidy) /\ Framed(s, r) /\ SameText(s, r) /\ SameReasoning(s, r)
      /\ CallIs(s, r, b, more, ix)
  BY <1>1, <1>4, <1>5, <1>6, ArgumentsGrown
<1>8. CallNow(s, r, b, more)
  BY <1>3, <1>7, CallKnown
<1>9. PICK m \in Nat : m = n + 1
  OBVIOUS
<1>10. PICK k \in Nat : k = u.chunks + 1
  BY DEF Histories
<1>11. PICK w : w = [u EXCEPT !.chunks = k]
  OBVIOUS
<1>12. w \in Histories /\ w.begun = u.begun /\ w.finish = u.finish /\ w.split = u.split /\ w.blocks = u.blocks
      /\ w.open = u.open /\ w.calls = u.calls /\ w.args = u.args /\ w.text = u.text /\ w.reasoning = u.reasoning
  BY <1>11 DEF Histories
<1>13. PICK told \in [Calls -> Nat] : told = [u.args EXCEPT ![b] = m]
  <2>1. [u.args EXCEPT ![b] = m] \in [Calls -> Nat]
    BY <1>3 DEF Histories
  <2> QED BY <2>1
<1>14. v = [w EXCEPT !.args = told]
  BY <1>9, <1>10, <1>11, <1>12, <1>13
<1>15. SameBlocks(u, v) /\ v.args = told /\ v.text = u.text /\ v.reasoning = u.reasoning
  BY <1>12, <1>14 DEF Histories, SameBlocks
<1>16. Append(InOrder(n, b), f) = InOrder(m, b)
  BY <1>1, <1>9, InOrderMore
<1>17. Known(r) = Known(s)
  BY <1>8 DEF CallNow
<1>18. \A d \in Calls : ArgsOf(r, d) = InOrder(v.args[d], d)
  <2>1. \A d \in Calls : ArgsOf(s, d) = InOrder(u.args[d], d)
    BY DEF Follows
  <2>2. ArgsOf(s, b) = args
    BY <1>4 DEF ArgsOf
  <2>3. told[b] = m /\ \A d \in Calls \ {b} : told[d] = u.args[d]
    BY <1>3, <1>13 DEF Histories
  <2>4. ArgsOf(r, b) = more /\ \A d \in Calls \ {b} : ArgsOf(r, d) = ArgsOf(s, d)
    BY <1>8 DEF CallNow
  <2>5. ArgsOf(r, b) = InOrder(told[b], b)
    BY <1>3, <1>6, <1>16, <2>1, <2>2, <2>3, <2>4
  <2> QED BY <1>15, <2>1, <2>3, <2>4, <2>5
<1>19. Follows(r, v)
  BY <1>7, <1>15, <1>17, <1>18 DEF Follows, SameBlocks, SameText, SameReasoning
<1> QED BY <1>7, <1>15, <1>17, <1>19 DEF Resumed, SameText, SameReasoning

(* What is left to show of a delta once its block is known.                *)
LEMMA DeltaRested ==
  ASSUME IInv, AnthropicRunning, sent.open, client' = client, NEW tidy \in BOOLEAN, tidy = Tidy,
         NEW r, sc' = r, NEW v, sent' = v, Good(client, r, tidy), Resumed(sc, r, v), SameBlocks(sent, v)
  PROVE  IInv'
<1>1. /\ sc \in Converters /\ client \in Clients /\ sent \in Histories /\ sc.via = "anthropic"
      /\ sc.events = <<>> /\ sc.started /\ ~ sc.finalized /\ sent.finish = None /\ ~ sent.split
      /\ Good(client, sc, Tidy) /\ StatusFits(sc, sent) /\ Follows(sc, sent) /\ BlocksFollow(sc, sent)
  BY AnthropicResting
<1>2. /\ v \in Histories /\ v.begun = sent.begun /\ v.finish = sent.finish /\ v.split = sent.split
      /\ v.blocks = sent.blocks /\ v.open = sent.open /\ v.calls = sent.calls
  BY DEF SameBlocks
<1>3. /\ r.via = sc.via /\ r.started = sc.started /\ r.finalized = sc.finalized
      /\ r.responseId = sc.responseId /\ r.status = sc.status /\ r.contentBlocks = sc.contentBlocks
      /\ Known(r) = Known(sc) /\ Follows(r, v)
  BY DEF Resumed, Framed
<1>4. \A t \in Parted : Ix(r, t) = Ix(sc, t)
  BY DEF Resumed, Ix
<1>5. sent.blocks # <<>>
  BY <1>1 DEF BlocksFollow
<1>6. BlocksFollow(r, v)
  BY <1>1, <1>2, <1>3, <1>4, <1>5 DEF BlocksFollow
<1>7. StatusFits(r, v)
  BY <1>1, <1>2, <1>3 DEF StatusFits
<1>8. Told(r, v)
  BY <1>1, <1>2, <1>3, <1>6, ToldAnthropic
<1>9. Tidy' = tidy
  BY <1>2, <1>3 DEF Tidy, Repeats
<1> QED BY <1>1, <1>2, <1>3, <1>7, <1>8, <1>9, Rested

LEMMA ContentBlockDeltaStep ==
  ASSUME IInv, ContentBlockDelta
  PROVE  IInv'
<1>1. AnthropicRunning /\ sent.open /\ client' = client
  BY DEF ContentBlockDelta
<1>2. /\ sc \in Converters /\ client \in Clients /\ sent \in Histories /\ sc.via = "anthropic"
      /\ sc.events = <<>> /\ sc.started /\ ~ sc.finalized /\ sent.finish = None /\ ~ sent.split
      /\ Good(client, sc, Tidy) /\ StatusFits(sc, sent) /\ Follows(sc, sent) /\ BlocksFollow(sc, sent)
  BY <1>1, AnthropicResting
<1>3. PICK tidy \in BOOLEAN : tidy = Tidy
  BY TidyBoolean
<1>4. PICK blocks \in Seq(Blocks) : blocks = sent.blocks
  BY <1>2 DEF Histories
<1>5. PICK k \in Nat : k = Len(blocks)
  OBVIOUS
<1>6. k # 0
  BY <1>1, <1>2, <1>4, <1>5 DEF BlocksFollow
<1>7. PICK block \in Blocks : block = blocks[k]
  BY <1>5, <1>6
<1>8. Last(sent.blocks) = block /\ sc.contentBlocks[(Len(sent.blocks) - 1) + 1] = block
  BY <1>2, <1>4, <1>5, <1>7 DEF Last, BlocksFollow
<1>9. k \in DOMAIN sent.blocks
  BY <1>4, <1>5, <1>6
<1>10. Good(client, sc, tidy)
  BY <1>2, <1>3
<1>11. CASE block.type = "text"
  <2>1. PICK n \in Nat : n = sent.text
    BY <1>2 DEF Histories
  <2>2. PICK v : v = [[sent EXCEPT !.chunks = @ + 1] EXCEPT !.text = n + 1]
    OBVIOUS
  <2>3. PICK r : r = TextDelta(sc, Fragment("text", n + 1))
    OBVIOUS
  <2>4. sent' = v /\ sc' = r
    BY <1>8, <1>11, <2>1, <2>2, <2>3 DEF ContentBlockDelta, HandleContentBlockDelta
  <2>5. sc.textItemIx >= 0
    BY <1>2, <1>4, <1>7, <1>9, <1>11 DEF BlocksFollow, BlockType, Parted, Ix
  <2>6. Good(client, r, tidy) /\ Resumed(sc, r, v) /\ SameBlocks(sent, v)
    BY <1>2, <1>10, <2>1, <2>2, <2>3, <2>5, TextDeltaTold
  <2> QED BY <1>1, <1>3, <2>4, <2>6, DeltaRested
<1>12. CASE block.type = "thinking"
  <2>1. PICK n \in Nat : n = sent.reasoning
    BY <1>2 DEF Histories
  <2>2. PICK v : v = [[sent EXCEPT !.chunks = @ + 1] EXCEPT !.reasoning = n + 1]
    OBVIOUS
  <2>3. PICK r : r = SummaryDelta(sc, Fragment("reasoning", n + 1))
    OBVIOUS
  <2>4. sent' = v /\ sc' = r
    BY <1>8, <1>12, <2>1, <2>2, <2>3 DEF ContentBlockDelta, HandleContentBlockDelta
  <2>5. sc.reasonItemIx >= 0
    BY <1>2, <1>4, <1>7, <1>9, <1>12 DEF BlocksFollow, BlockType, Parted, Ix
  <2>6. Good(client, r, tidy) /\ Resumed(sc, r, v) /\ SameBlocks(sent, v)
    BY <1>2, <1>10, <2>1, <2>2, <2>3, <2>5, SummaryDeltaTold
  <2> QED BY <1>1, <1>3, <2>4, <2>6, DeltaRested
<1>13. CASE block.type = "tool_use"
  <2>1. PICK b \in Known(sc) : b = block.call
    BY <1>2, <1>4, <1>7, <1>9, <1>13 DEF BlocksFollow
  <2>2. PICK n \in Nat : n = sent.args[b]
    BY <1>2 DEF Histories, Known
  <2>3. PICK v : v = [[sent EXCEPT !.chunks = @ + 1] EXCEPT !.args[b] = n + 1]
    OBVIOUS
  <2>4. PICK r : r = ArgumentsDelta(sc, b, Fragment(b, n + 1))
    OBVIOUS
  <2>5. sent' = v /\ sc' = r
    BY <1>8, <1>13, <2>1, <2>2, <2>3, <2>4 DEF ContentBlockDelta, HandleContentBlockDelta
  <2>6. Good(client, r, tidy) /\ Resumed(sc, r, v) /\ SameBlocks(sent, v)
    BY ZenonT(60), <1>2, <1>10, <2>2, <2>3, <2>4, ArgumentsDeltaTold
  <2> QED BY <1>1, <1>3, <2>5, <2>6, DeltaRested
<1>14. CASE block.type = "redacted_thinking"
  <2>1. PICK v : v = [sent EXCEPT !.chunks = @ + 1]
    OBVIOUS
  <2>2. sent' = v /\ sc' = sc
    BY <1>8, <1>14, <2>1 DEF ContentBlockDelta, HandleContentBlockDelta
  <2>3. SameBlocks(sent, v) /\ v.text = sent.text /\ v.reasoning = sent.reasoning /\ v.args = sent.args
    <3>1. PICK n \in Nat : n = sent.chunks + 1
      BY <1>2 DEF Histories
    <3>2. v = [sent EXCEPT !.chunks = n]
      BY <2>1, <3>1
    <3> QED BY <1>2, <3>2 DEF Histories, SameBlocks
  <2>4. Resumed(sc, sc, v)
    BY <1>2, <2>3 DEF Resumed, Framed, Follows, SameBlocks
  <2> QED BY <1>1, <1>3, <1>10, <2>2, <2>3, <2>4, DeltaRested
<1>15. block.type \in {"text", "thinking", "tool_use", "redacted_thinking"}
  BY DEF Blocks
<1> QED BY <1>11, <1>12, <1>13, <1>14, <1>15

LEMMA Initially == Init => IInv
<1> SUFFICES ASSUME Init PROVE IInv
  OBVIOUS
<1>1. PICK via \in Upstreams : sc = NewConverter(via)
  BY DEF Init
<1>2. client = Rsp!NewClient /\ sent = NothingSent
  BY DEF Init
<1>3. sc \in Converters
  BY <1>1 DEF NewConverter, Converters, ResponseIds, Rsp!Statuses
<1>4. client \in Clients
  BY <1>2 DEF Rsp!NewClient, Clients
<1>5. sent \in Histories
  BY <1>2 DEF NothingSent, Histories
<1>6. /\ ~ sc.started /\ ~ sc.finalized /\ sc.responseId = "own" /\ sc.status = "in_progress"
      /\ sc.output = <<>> /\ sc.accText = <<>> /\ sc.accReasoning = <<>> /\ sc.itemIndex = -1
      /\ sc.partIndex = -1 /\ sc.textItemIx = -1 /\ sc.textPartIx = -1 /\ sc.reasonItemIx = -1
      /\ sc.contentBlocks = <<>> /\ sc.events = <<>> /\ Known(sc) = {}
  BY <1>1 DEF NewConverter, Known
<1>7. /\ sent.begun = FALSE /\ sent.text = 0 /\ sent.reasoning = 0 /\ sent.calls = {} /\ sent.finish = None
      /\ sent.split = FALSE /\ sent.blocks = <<>> /\ sent.open = FALSE /\ \A c \in Calls : sent.args[c] = 0
  BY <1>2 DEF NothingSent
<1>8. \A t \in Parted : Ix(sc, t) = -1 /\ Acc(sc, t) = <<>>
  BY <1>6 DEF Ix, Acc
<1>9. Numbered(sc)
  BY <1>6, <1>8 DEF Numbered
<1>10. Follows(sc, sent)
  <2>1. \A c \in Calls : ArgsOf(sc, c) = InOrder(sent.args[c], c)
    BY <1>6, <1>7, InOrderNothing DEF ArgsOf
  <2> QED BY <1>6, <1>7, <2>1, InOrderNothing DEF Follows
<1>11. BlocksFollow(sc, sent)
  BY <1>6, <1>7, <1>8 DEF BlocksFollow
<1>12. Told(sc, sent)
  BY <1>6, <1>7, <1>10, <1>11 DEF Told
<1>13. PICK tidy \in BOOLEAN : tidy = Tidy
  BY TidyBoolean
<1>14. client.phase = "idle" /\ client.items = <<>>
  BY <1>2 DEF Rsp!NewClient
<1>15. Mirrors(sc, client.items, tidy)
  <2>1. 1 .. Len(client.items) = {} /\ Len(client.items) = 0 /\ \A t \in Parted : ~ (Ix(sc, t) >= 0)
    BY <1>8, <1>14
  <2>2. Listed(sc, client.items)
    BY <1>6, <2>1 DEF Listed
  <2>3. Placed(sc, client.items)
    BY <1>6, <2>1 DEF Placed
  <2>4. \A t \in Parted : Alone(sc, client.items, t)
    BY <2>1 DEF Alone
  <2> QED BY <1>8, <1>14, <2>1, <2>2, <2>3, <2>4, FlatNone DEF Mirrors
<1>16. PartsFit(sc, tidy) /\ StatusFits(sc, sent)
  BY <1>6, <1>7, NoneAssumption DEF PartsFit, StatusFits, Finishes
<1>17. Runs(client, sc.events, client, tidy)
  BY <1>6, RunsNothing
<1>18. Phased(sc, client, sent, tidy)
  BY <1>6, <1>14, <1>15, <1>16 DEF Phased
<1> QED BY <1>3, <1>4, <1>5, <1>9, <1>12, <1>13, <1>17, <1>18 DEF IInv

-----------------------------------------------------------------------------
(* The closing events.                                                     *)

SameItem(a, b) == b.id = a.id /\ b.type = a.type /\ b.content = a.content
PartClosed(it) == [it EXCEPT !.part = "done"]
Finished(it) == [it EXCEPT !.done = TRUE]

LEMMA Closes ==
  ASSUME NEW it \in Items
  PROVE  /\ PartClosed(it) \in Items /\ SameItem(it, PartClosed(it))
         /\ PartClosed(it).part = "done" /\ PartClosed(it).done = it.done
         /\ Finished(it) \in Items /\ SameItem(it, Finished(it)) /\ Finished(it).done
BY DEF Items, PartClosed, Finished, SameItem

LEMMA LatestKept ==
  ASSUME NEW items \in Seq(Items), NEW more, NEW k, NEW id, LatestAt(items, id, k),
         NEW it, Replaced(items, more, k, it), SameItem(items[k], it)
  PROVE  LatestAt(more, id, k) /\ more[k] = it
<1>1. /\ k \in 1 .. Len(items) /\ items[k].id = id
      /\ \A i \in 1 .. Len(items) : items[i].id = id => i <= k
  BY DEF LatestAt
<1>2. Len(more) = Len(items) /\ more[k] = it /\ \A i \in 1 .. Len(items) : i # k => more[i] = items[i]
  BY DEF Replaced
<1>3. it.id = id
  BY <1>1 DEF SameItem
<1> QED BY <1>1, <1>2, <1>3 DEF LatestAt

LEMMA ReplacedTwice ==
  ASSUME NEW items, NEW more, NEW most, NEW k, NEW it, NEW jt, k \in 1 .. Len(items),
         Replaced(items, more, k, it), Replaced(more, most, k, jt)
  PROVE  Replaced(items, most, k, jt)
BY DEF Replaced

LEMMA ContentDoneRuns ==
  ASSUME NEW d \in Clients, d.phase = "streaming", NEW tidy \in BOOLEAN, NEW id \in ItemIds,
         NEW content \in Seq(Fragments), NEW k, LatestAt(d.items, id, k), ~ d.items[k].done,
         tidy => content = d.items[k].content
  PROVE  /\ Rsp!ContentDone(id, content) \in Rsp!Events
         /\ \E x \in Clients : /\ x.phase = "streaming" /\ x.items = d.items
                               /\ Runs(d, <<Rsp!ContentDone(id, content)>>, x, tidy)
<1>1. PICK e : e = Rsp!ContentDone(id, content)
  OBVIOUS
<1>2. e \in Rsp!Events
  BY <1>1 DEF Rsp!ContentDone, Rsp!Events
<1>3. e.type = "content.done" /\ e.id = id /\ e.content = content
  BY <1>1 DEF Rsp!ContentDone
<1>4. Rsp!Position(d, e.id) = k /\ Rsp!Positions(d, e.id) # {}
  BY <1>3, ItemAt
<1>5. tidy => Rsp!Legal(d, e)
  BY <1>3, <1>4 DEF Rsp!Legal
<1>6. "streaming" \notin Rsp!FinalTypes
  BY DEF Rsp!FinalTypes
<1>7. PICK x : x = Rsp!Apply(d, e)
  OBVIOUS
<1>8. Seen(d, e, x, d.items)
  BY <1>2, <1>3, <1>7, ContentDoneSeen
<1>9. Runs(d, <<e>>, x, tidy)
  BY <1>5, <1>6, <1>7, RunsOne
<1> QED BY <1>1, <1>2, <1>8, <1>9 DEF Seen

LEMMA PartDoneRuns ==
  ASSUME NEW d \in Clients, d.phase = "streaming", NEW tidy \in BOOLEAN, NEW id \in ItemIds,
         NEW p \in Nat, NEW k, LatestAt(d.items, id, k), ~ d.items[k].done, d.items[k].part = "open",
         tidy => p = 0
  PROVE  /\ Rsp!PartDone(id, p) \in Rsp!Events
         /\ \E x \in Clients : /\ x.phase = "streaming"
                               /\ Replaced(d.items, x.items, k, PartClosed(d.items[k]))
                               /\ Runs(d, <<Rsp!PartDone(id, p)>>, x, tidy)
<1>1. PICK e : e = Rsp!PartDone(id, p)
  OBVIOUS
<1>2. e \in Rsp!Events
  BY <1>1 DEF Rsp!PartDone, Rsp!Events
<1>3. e.type = "part.done" /\ e.id = id /\ e.part = p
  BY <1>1 DEF Rsp!PartDone
<1>4. /\ Rsp!Position(d, e.id) = k /\ Rsp!Positions(d, e.id) # {} /\ d.items \in Seq(Items)
      /\ d.items[k] \in Items /\ k \in 1 .. Len(d.items)
  BY <1>3, ItemAt
<1>5. tidy => Rsp!Legal(d, e)
  BY <1>3, <1>4 DEF Rsp!Legal
<1>6. "streaming" \notin Rsp!FinalTypes
  BY DEF Rsp!FinalTypes
<1>7. PICK x : x = Rsp!Apply(d, e)
  OBVIOUS
<1>8. Seen(d, e, x, [d.items EXCEPT ![k] = [@ EXCEPT !.part = "done"]])
  BY <1>2, <1>3, <1>7, PartDoneSeen
<1>9. Replaced(d.items, [d.items EXCEPT ![k] = PartClosed(d.items[k])], k, PartClosed(d.items[k]))
  <2>1. PartClosed(d.items[k]) \in Items
    BY <1>4, Closes
  <2> QED BY <1>4, <2>1, ReplacedBy
<1>10. [d.items EXCEPT ![k] = [@ EXCEPT !.part = "done"]] = [d.items EXCEPT ![k] = PartClosed(d.items[k])]
  BY DEF PartClosed
<1>11. Runs(d, <<e>>, x, tidy)
  BY <1>5, <1>6, <1>7, RunsOne
<1> QED BY <1>1, <1>2, <1>8, <1>9, <1>10, <1>11 DEF Seen

LEMMA ItemDoneRuns ==
  ASSUME NEW d \in Clients, d.phase = "streaming", NEW tidy \in BOOLEAN, NEW id \in ItemIds,
         NEW t \in Rsp!ItemTypes, NEW content \in Seq(Fragments), NEW k, LatestAt(d.items, id, k),
         NEW n \in Nat, n = k - 1, ~ d.items[k].done, d.items[k].part # "open", d.items[k].type = t,
         tidy => content = d.items[k].content
  PROVE  /\ Rsp!ItemDone(n, id, t, content) \in Rsp!Events
         /\ \E x \in Clients : /\ x.phase = "streaming"
                               /\ Replaced(d.items, x.items, k, Finished(d.items[k]))
                               /\ Runs(d, <<Rsp!ItemDone(n, id, t, content)>>, x, tidy)
<1>1. PICK e : e = Rsp!ItemDone(n, id, t, content)
  OBVIOUS
<1>2. e \in Rsp!Events
  BY <1>1 DEF Rsp!ItemDone, Rsp!Events
<1>3. e.type = "item.done" /\ e.id = id /\ e.item = t /\ e.content = content /\ e.index = n
  BY <1>1 DEF Rsp!ItemDone
<1>4. /\ Rsp!Position(d, e.id) = k /\ Rsp!Positions(d, e.id) # {} /\ d.items \in Seq(Items)
      /\ d.items[k] \in Items /\ k \in 1 .. Len(d.items)
  BY <1>3, ItemAt
<1>5. tidy => Rsp!Legal(d, e)
  BY <1>3, <1>4 DEF Rsp!Legal
<1>6. "streaming" \notin Rsp!FinalTypes
  BY DEF Rsp!FinalTypes
<1>7. PICK x : x = Rsp!Apply(d, e)
  OBVIOUS
<1>8. Seen(d, e, x, [d.items EXCEPT ![k] = [@ EXCEPT !.done = TRUE, !.type = e.item]])
  BY <1>2, <1>3, <1>7, ItemDoneSeen
<1>9. PICK it \in Items : it = d.items[k]
  BY <1>4
<1>10. [it EXCEPT !.done = TRUE, !.type = t] = Finished(it)
  BY <1>9 DEF Items, Finished
<1>11. Replaced(d.items, [d.items EXCEPT ![k] = Finished(it)], k, Finished(it))
  <2>1. Finished(it) \in Items
    BY Closes
  <2> QED BY <1>4, <2>1, ReplacedBy
<1>12. [d.items EXCEPT ![k] = [@ EXCEPT !.done = TRUE, !.type = e.item]] = [d.items EXCEPT ![k] = Finished(it)]
  BY <1>3, <1>9, <1>10
<1>13. Runs(d, <<e>>, x, tidy)
  BY <1>5, <1>6, <1>7, RunsOne
<1> QED BY <1>1, <1>2, <1>8, <1>9, <1>11, <1>12, <1>13 DEF Seen

(* d with item k said to be done, in whatever steps, is y.                 *)
FinishedAt(d, y, k) ==
    /\ y \in Clients /\ y.phase = "streaming"
    /\ \E it \in Items : Replaced(d.items, y.items, k, it) /\ SameItem(d.items[k], it) /\ it.done

LEMMA ThreeTogether ==
  ASSUME NEW X, NEW e \in X, NEW f \in X, NEW g \in X
  PROVE  (<<e>> \o <<f>>) \o <<g>> = <<e, f, g>> /\ <<e, f, g>> \in Seq(X)
<1>1. PICK a \in Seq(X) : a = <<e, f>> /\ Len(a) = 2 /\ a[1] = e /\ a[2] = f
  <2>1. <<e, f>> \in Seq(X) /\ Len(<<e, f>>) = 2 /\ <<e, f>>[1] = e /\ <<e, f>>[2] = f
    OBVIOUS
  <2> QED BY <2>1
<1>2. PICK b \in Seq(X) : b = <<g>> /\ Len(b) = 1 /\ b[1] = g
  <2>1. <<g>> \in Seq(X) /\ Len(<<g>>) = 1 /\ <<g>>[1] = g
    OBVIOUS
  <2> QED BY <2>1
<1>3. PICK y \in Seq(X) : y = <<e, f, g>> /\ Len(y) = 3 /\ y[1] = e /\ y[2] = f /\ y[3] = g
  <2>1. <<e, f, g>> \in Seq(X)
    OBVIOUS
  <2>2. Len(<<e, f, g>>) = 3 /\ <<e, f, g>>[1] = e /\ <<e, f, g>>[2] = f /\ <<e, f, g>>[3] = g
    OBVIOUS
  <2> QED BY <2>1, <2>2
<1>4. PICK x : x = a \o b
  OBVIOUS
<1>5. x \in Seq(X) /\ Len(x) = 3 /\ x[1] = e /\ x[2] = f /\ x[3] = g
  BY <1>1, <1>2, <1>4
<1>6. x = y
  BY <1>3, <1>5, SeqEqual
<1>7. <<e>> \o <<f>> = a
  BY <1>1, TwoTogether
<1> QED BY <1>2, <1>3, <1>4, <1>6, <1>7

LEMMA ThreeRun ==
  ASSUME NEW a \in Rsp!Events, NEW b \in Rsp!Events, NEW e \in Rsp!Events, NEW tidy \in BOOLEAN,
         NEW d, NEW x, NEW y, NEW z,
         Runs(d, <<a>>, x, tidy), Runs(x, <<b>>, y, tidy), Runs(y, <<e>>, z, tidy)
  PROVE  <<a, b, e>> \in Seq(Rsp!Events) /\ Runs(d, <<a, b, e>>, z, tidy)
<1>1. PICK is : is = <<a>>
  OBVIOUS
<1>2. PICK bs : bs = <<b>>
  OBVIOUS
<1>3. PICK es : es = <<e>>
  OBVIOUS
<1>4. Runs(d, is, x, tidy) /\ Runs(x, bs, y, tidy) /\ Runs(y, es, z, tidy)
  BY <1>1, <1>2, <1>3
<1>5. is \in Seq(Rsp!Events) /\ bs \in Seq(Rsp!Events) /\ es \in Seq(Rsp!Events)
  BY <1>1, <1>2, <1>3, OneEvent
<1>6. PICK fs : fs = is \o bs
  OBVIOUS
<1>7. fs \in Seq(Rsp!Events)
  BY <1>5, <1>6
<1>8. Runs(d, fs, y, tidy)
  BY <1>4, <1>5, <1>6, RunsJoin
<1>9. Runs(d, fs \o es, z, tidy)
  BY <1>4, <1>5, <1>7, <1>8, RunsJoin
<1>10. PICK all : all = <<a, b, e>>
  OBVIOUS
<1>11. fs \o es = all /\ all \in Seq(Rsp!Events)
  BY <1>1, <1>2, <1>3, <1>6, <1>10, ThreeTogether
<1> QED BY <1>9, <1>10, <1>11

LEMMA PartCloses ==
  ASSUME NEW d \in Clients, d.phase = "streaming", NEW tidy \in BOOLEAN, NEW id \in ItemIds,
         NEW t \in Parted, NEW k, LatestAt(d.items, id, k), d.items[k].type = t, Underway(d.items[k]),
         NEW content \in Seq(Fragments), tidy => content = d.items[k].content,
         NEW p \in Nat, tidy => p = 0, NEW n \in Nat, n = k - 1,
         NEW a, a = Rsp!ContentDone(id, content), NEW b, b = Rsp!PartDone(id, p),
         NEW e, e = Rsp!ItemDone(n, id, t, content), NEW es, es = <<a, b, e>> \/ es = <<b, a, e>>
  PROVE  es \in Seq(Rsp!Events) /\ \E y : FinishedAt(d, y, k) /\ Runs(d, es, y, tidy)
<1>1. /\ d.items \in Seq(Items) /\ d.items[k] \in Items /\ k \in 1 .. Len(d.items)
  BY ItemAt
<1>2. PICK it \in Items : it = d.items[k]
  BY <1>1
<1>3. ~ it.done /\ it.part = "open" /\ it.type = t /\ (tidy => content = it.content)
  BY <1>2 DEF Underway
<1>4. t \in Rsp!ItemTypes
  BY DEF Parted, Rsp!ItemTypes
<1>5. PICK it2 \in Items : it2 = PartClosed(it) /\ SameItem(it, it2) /\ it2.part = "done" /\ it2.done = it.done
  BY Closes
<1>6. PICK it3 \in Items : it3 = Finished(it2) /\ SameItem(it2, it3) /\ it3.done
  BY Closes
<1>7. SameItem(it, it3)
  BY <1>5, <1>6 DEF SameItem
<1>8. it2.type = t /\ (tidy => content = it2.content) /\ ~ it2.done /\ it2.part # "open"
  BY <1>3, <1>5 DEF SameItem
<1>9. SameItem(d.items[k], it2)
  BY <1>2, <1>5
<1>10. ASSUME NEW more, Replaced(d.items, more, k, it2)
       PROVE  LatestAt(more, id, k) /\ more[k] = it2
  BY ZenonT(60), <1>1, <1>9, <1>10, LatestKept
<1>11. CASE es = <<a, b, e>>
  <2>1. PICK x1 \in Clients : x1.phase = "streaming" /\ x1.items = d.items /\ Runs(d, <<a>>, x1, tidy)
    BY <1>2, <1>3, ContentDoneRuns
  <2>2. a \in Rsp!Events
    BY <1>2, <1>3, ContentDoneRuns
  <2>3. LatestAt(x1.items, id, k) /\ x1.items[k] = it
    BY <1>2, <2>1
  <2>4. PICK x2 \in Clients : /\ x2.phase = "streaming" /\ Replaced(x1.items, x2.items, k, PartClosed(x1.items[k]))
                              /\ Runs(x1, <<b>>, x2, tidy)
    BY <1>3, <2>1, <2>3, PartDoneRuns
  <2>5. b \in Rsp!Events
    BY <1>3, <2>1, <2>3, PartDoneRuns
  <2>6. Replaced(d.items, x2.items, k, it2)
    BY <1>5, <2>1, <2>3, <2>4
  <2>7. LatestAt(x2.items, id, k) /\ x2.items[k] = it2
    BY <1>10, <2>6
  <2>8. PICK x3 \in Clients : /\ x3.phase = "streaming" /\ Replaced(x2.items, x3.items, k, Finished(x2.items[k]))
                              /\ Runs(x2, <<e>>, x3, tidy)
    BY <1>4, <1>8, <2>4, <2>7, ItemDoneRuns
  <2>9. e \in Rsp!Events
    BY <1>4, <1>8, <2>4, <2>7, ItemDoneRuns
  <2>10. Replaced(x2.items, x3.items, k, it3)
    BY <1>6, <2>7, <2>8
  <2>11. Replaced(d.items, x3.items, k, it3)
    BY <1>1, <2>6, <2>10, ReplacedTwice
  <2>12. FinishedAt(d, x3, k)
    BY <1>2, <1>6, <1>7, <2>8, <2>11 DEF FinishedAt
  <2>13. <<a, b, e>> \in Seq(Rsp!Events) /\ Runs(d, <<a, b, e>>, x3, tidy)
    BY <2>1, <2>2, <2>4, <2>5, <2>8, <2>9, ThreeRun
  <2> QED BY <1>11, <2>12, <2>13
<1>12. CASE es = <<b, a, e>>
  <2>1. PICK x1 \in Clients : /\ x1.phase = "streaming" /\ Replaced(d.items, x1.items, k, PartClosed(d.items[k]))
                              /\ Runs(d, <<b>>, x1, tidy)
    BY <1>2, <1>3, PartDoneRuns
  <2>2. b \in Rsp!Events
    BY <1>2, <1>3, PartDoneRuns
  <2>3. Replaced(d.items, x1.items, k, it2)
    BY <1>2, <1>5, <2>1
  <2>4. LatestAt(x1.items, id, k) /\ x1.items[k] = it2
    BY <1>10, <2>3
  <2>5. PICK x2 \in Clients : /\ x2.phase = "streaming" /\ x2.items = x1.items /\ Runs(x1, <<a>>, x2, tidy)
    BY <1>8, <2>1, <2>4, ContentDoneRuns
  <2>6. a \in Rsp!Events
    BY <1>8, <2>1, <2>4, ContentDoneRuns
  <2>7. LatestAt(x2.items, id, k) /\ x2.items[k] = it2
    BY <2>4, <2>5
  <2>8. PICK x3 \in Clients : /\ x3.phase = "streaming" /\ Replaced(x2.items, x3.items, k, Finished(x2.items[k]))
                              /\ Runs(x2, <<e>>, x3, tidy)
    BY <1>4, <1>8, <2>5, <2>7, ItemDoneRuns
  <2>9. e \in Rsp!Events
    BY <1>4, <1>8, <2>5, <2>7, ItemDoneRuns
  <2>10. Replaced(x1.items, x3.items, k, it3)
    BY <1>6, <2>5, <2>7, <2>8
  <2>11. Replaced(d.items, x3.items, k, it3)
    BY <1>1, <2>3, <2>10, ReplacedTwice
  <2>12. FinishedAt(d, x3, k)
    BY <1>2, <1>6, <1>7, <2>8, <2>11 DEF FinishedAt
  <2>13. <<b, a, e>> \in Seq(Rsp!Events) /\ Runs(d, <<b, a, e>>, x3, tidy)
    BY <2>1, <2>2, <2>5, <2>6, <2>8, <2>9, ThreeRun
  <2> QED BY <1>12, <2>12, <2>13
<1> QED BY <1>11, <1>12

LEMMA CallCloses ==
  ASSUME NEW d \in Clients, d.phase = "streaming", NEW tidy \in BOOLEAN, NEW id \in ItemIds,
         NEW k, LatestAt(d.items, id, k), d.items[k].type = "function_call", Underway(d.items[k]),
         NEW content \in Seq(Fragments), content = d.items[k].content, NEW n \in Nat, n = k - 1,
         NEW a, a = Rsp!ContentDone(id, content), NEW e, e = Rsp!ItemDone(n, id, "function_call", content),
         NEW es, es = (IF content = <<>> THEN <<>> ELSE <<a>>) \o <<e>>
  PROVE  es \in Seq(Rsp!Events) /\ \E y : FinishedAt(d, y, k) /\ Runs(d, es, y, tidy)
<1>1. /\ d.items \in Seq(Items) /\ d.items[k] \in Items /\ k \in 1 .. Len(d.items)
  BY ItemAt
<1>2. PICK it \in Items : it = d.items[k]
  BY <1>1
<1>3. ~ it.done /\ it.part # "open" /\ it.type = "function_call" /\ content = it.content
  BY <1>2 DEF Underway, Parted
<1>4. "function_call" \in Rsp!ItemTypes
  BY DEF Rsp!ItemTypes
<1>5. PICK it2 \in Items : it2 = Finished(it) /\ SameItem(it, it2) /\ it2.done
  BY Closes
<1>6. PICK fs : fs = <<e>>
  OBVIOUS
<1>7. ASSUME NEW x \in Clients, x.phase = "streaming", x.items = d.items
      PROVE  /\ fs \in Seq(Rsp!Events)
             /\ \E y : FinishedAt(d, y, k) /\ Runs(x, fs, y, tidy)
  <2>1. LatestAt(x.items, id, k) /\ x.items[k] = it
    BY <1>2, <1>7
  <2>2. PICK y \in Clients : /\ y.phase = "streaming" /\ Replaced(x.items, y.items, k, Finished(x.items[k]))
                             /\ Runs(x, <<e>>, y, tidy)
    BY <1>3, <1>4, <1>7, <2>1, ItemDoneRuns
  <2>3. e \in Rsp!Events
    BY <1>3, <1>4, <1>7, <2>1, ItemDoneRuns
  <2>4. Replaced(d.items, y.items, k, it2)
    BY <1>5, <1>7, <2>1, <2>2
  <2>5. FinishedAt(d, y, k)
    BY <1>2, <1>5, <2>2, <2>4 DEF FinishedAt
  <2> QED BY <1>6, <2>2, <2>3, <2>5, OneEvent
<1>8. CASE content = <<>>
  <2>1. fs \in Seq(Rsp!Events) /\ \E y : FinishedAt(d, y, k) /\ Runs(d, fs, y, tidy)
    BY <1>7
  <2>2. es = fs
    BY <1>6, <1>8, <2>1
  <2> QED BY <2>1, <2>2
<1>9. CASE content # <<>>
  <2>1. PICK x \in Clients : x.phase = "streaming" /\ x.items = d.items /\ Runs(d, <<a>>, x, tidy)
    BY <1>2, <1>3, ContentDoneRuns
  <2>2. a \in Rsp!Events
    BY <1>2, <1>3, ContentDoneRuns
  <2>3. PICK as : as = <<a>>
    OBVIOUS
  <2>4. as \in Seq(Rsp!Events) /\ Runs(d, as, x, tidy)
    BY <2>1, <2>2, <2>3, OneEvent
  <2>5. PICK y : FinishedAt(d, y, k) /\ Runs(x, fs, y, tidy)
    BY <1>7, <2>1
  <2>6. fs \in Seq(Rsp!Events)
    BY <1>7, <2>1
  <2>7. Runs(d, as \o fs, y, tidy)
    BY <2>4, <2>5, <2>6, RunsJoin
  <2>8. es = as \o fs /\ es \in Seq(Rsp!Events)
    BY <1>6, <1>9, <2>3, <2>4, <2>6
  <2> QED BY <2>5, <2>7, <2>8
<1> QED BY <1>8, <1>9

(* x is a client with the items at D done and the others as they were.     *)
Closed(items, x, D) ==
    /\ x \in Clients /\ x.phase = "streaming" /\ Len(x.items) = Len(items)
    /\ \A i \in 1 .. Len(items) :
          /\ SameItem(items[i], x.items[i])
          /\ IF i \in D THEN x.items[i].done ELSE x.items[i] = items[i]

LEMMA ClosedMore ==
  ASSUME NEW items, NEW x, NEW D, Closed(items, x, D), NEW k, k \in 1 .. Len(items), k \notin D,
         NEW y, FinishedAt(x, y, k)
  PROVE  Closed(items, y, D \cup {k})
<1>1. PICK it \in Items : Replaced(x.items, y.items, k, it) /\ SameItem(x.items[k], it) /\ it.done
  BY DEF FinishedAt
<1>2. y \in Clients /\ y.phase = "streaming"
  BY DEF FinishedAt
<1>3. Len(x.items) = Len(items) /\ x.items[k] = items[k]
  BY DEF Closed
<1>4. Len(y.items) = Len(items) /\ y.items[k] = it /\ \A i \in 1 .. Len(items) : i # k => y.items[i] = x.items[i]
  BY <1>1, <1>3 DEF Replaced
<1>5. ASSUME NEW i \in 1 .. Len(items)
      PROVE  /\ SameItem(items[i], y.items[i])
             /\ IF i \in D \cup {k} THEN y.items[i].done ELSE y.items[i] = items[i]
  <2>1. CASE i = k
    BY <1>1, <1>3, <1>4, <2>1
  <2>2. CASE i # k
    BY <1>4, <2>2 DEF Closed
  <2> QED BY <2>1, <2>2
<1> QED BY <1>2, <1>4, <1>5 DEF Closed

LEMMA ClosedLatest ==
  ASSUME NEW items, NEW x, NEW D, Closed(items, x, D), NEW id, NEW k, LatestAt(items, id, k), k \notin D
  PROVE  LatestAt(x.items, id, k) /\ x.items[k] = items[k] /\ x \in Clients /\ x.phase = "streaming"
BY DEF Closed, LatestAt, SameItem

(* What HandleStreamEnd says of the items of a type with parts.            *)
TypeDone(s, t) == IF t = "message" THEN MessageDone(s) ELSE ReasoningDone(s)
PartAt(s, t) == IF Ix(s, t) < 0 THEN {} ELSE {Ix(s, t) + 1}
CallAt(s, c) == s.toolCallByIndex[c].itemIx + 1

(* The events es close, for a client with the items at D done, those at E. *)
CloseMore(items, x, D, es, E, tidy) ==
    es \in Seq(Rsp!Events) /\ \E y : Closed(items, y, D \cup E) /\ Runs(x, es, y, tidy)

LEMMA TypeCloses ==
  ASSUME NEW s \in Converters, Numbered(s), NEW items \in Seq(Items), NEW tidy \in BOOLEAN,
         Mirrors(s, items, tidy), PartsFit(s, tidy), NEW t \in Parted, NEW x, NEW D, Closed(items, x, D),
         PartAt(s, t) \cap D = {}, NEW es, es = TypeDone(s, t)
  PROVE  CloseMore(items, x, D, es, PartAt(s, t), tidy)
<1>1. Ix(s, t) \in Nat \cup {-1} /\ Acc(s, t) \in Seq(Fragments)
  BY IxTyped
<1>2. t \in {"message", "reasoning"}
  BY DEF Parted
<1>3. CASE Ix(s, t) < 0
  <2>1. es = <<>> /\ PartAt(s, t) = {}
    BY <1>2, <1>3 DEF TypeDone, MessageDone, ReasoningDone, Ix, PartAt
  <2>2. Runs(x, es, x, tidy) /\ es \in Seq(Rsp!Events)
    BY <2>1, RunsNothing
  <2>3. D \cup PartAt(s, t) = D
    BY <2>1
  <2> QED BY <2>2, <2>3 DEF CloseMore
<1>4. CASE ~ (Ix(s, t) < 0)
  <2>1. PICK n \in Nat : n = Ix(s, t)
    BY <1>1, <1>4
  <2>2. PICK k : k = n + 1
    OBVIOUS
  <2>3. k \in 1 .. Len(items) /\ LatestAt(items, PartId(s, t), k) /\ items[k].type = t /\ Underway(items[k])
    BY <2>1, <2>2, PartLatest
  <2>4. PartAt(s, t) = {k} /\ k \notin D
    BY <1>4, <2>1, <2>2 DEF PartAt
  <2>5. PICK id \in ItemIds : id = PartId(s, t)
    BY IdsTyped
  <2>6. PICK content \in Seq(Fragments) : content = Acc(s, t)
    BY <1>1
  <2>7. tidy => content = items[k].content
    BY <2>1, <2>2, <2>6 DEF Mirrors, Alone
  <2>8. LatestAt(x.items, id, k) /\ x.items[k] = items[k] /\ x \in Clients /\ x.phase = "streaming"
    BY <2>3, <2>4, <2>5, ClosedLatest
  <2>9. PICK p \in Nat : p = (IF t = "message" THEN s.textPartIx ELSE 0) /\ (tidy => p = 0)
    <3>1. CASE t = "message"
      BY <1>4, <3>1 DEF PartsFit, Ix, Converters
    <3>2. CASE t # "message"
      BY <3>2
    <3> QED BY <3>1, <3>2
  <2>10. PICK a : a = Rsp!ContentDone(id, content)
    OBVIOUS
  <2>11. PICK b : b = Rsp!PartDone(id, p)
    OBVIOUS
  <2>12. PICK e : e = Rsp!ItemDone(n, id, t, content)
    OBVIOUS
  <2>13. es = <<a, b, e>> \/ es = <<b, a, e>>
    <3>1. CASE t = "message"
      <4>1. id = MsgId(s) /\ content = s.accText /\ n = s.textItemIx /\ p = s.textPartIx
        BY <2>1, <2>5, <2>6, <2>9, <3>1 DEF Ix, Acc, PartId
      <4>2. es = <<b, a, e>>
        BY <1>4, <2>1, <2>10, <2>11, <2>12, <3>1, <4>1 DEF TypeDone, MessageDone
      <4> QED BY <4>2
    <3>2. CASE t = "reasoning"
      <4>1. id = ReasonId(s) /\ content = s.accReasoning /\ n = s.reasonItemIx /\ p = 0
        BY <2>1, <2>5, <2>6, <2>9, <3>2 DEF Ix, Acc, PartId
      <4>2. es = <<a, b, e>>
        BY <1>4, <2>1, <2>10, <2>11, <2>12, <3>2, <4>1 DEF TypeDone, ReasoningDone
      <4> QED BY <4>2
    <3> QED BY <1>2, <3>1, <3>2
  <2>14. x.items[k].type = t /\ Underway(x.items[k]) /\ (tidy => content = x.items[k].content) /\ n = k - 1
    BY <2>2, <2>3, <2>7, <2>8
  <2>15. es \in Seq(Rsp!Events) /\ \E y : FinishedAt(x, y, k) /\ Runs(x, es, y, tidy)
    BY SMTT(60), <2>8, <2>9, <2>10, <2>11, <2>12, <2>13, <2>14, PartCloses
  <2>16. PICK y : FinishedAt(x, y, k) /\ Runs(x, es, y, tidy)
    BY <2>15
  <2>17. Closed(items, y, D \cup {k})
    BY <2>3, <2>4, <2>16, ClosedMore
  <2> QED BY <2>4, <2>15, <2>16, <2>17 DEF CloseMore
<1> QED BY <1>3, <1>4

LEMMA OneCallCloses ==
  ASSUME NEW s \in Converters, Numbered(s), NEW items \in Seq(Items), NEW tidy \in BOOLEAN,
         Mirrors(s, items, tidy), NEW c \in Known(s), NEW x, NEW D, Closed(items, x, D),
         CallAt(s, c) \notin D, NEW es, es = CallDone(s, c)
  PROVE  CloseMore(items, x, D, es, {CallAt(s, c)}, tidy)
<1>1. /\ c \in Calls /\ s.toolCallByIndex[c].args \in Seq(Fragments) /\ s.toolCallByIndex[c].itemIx \in Nat
  BY KnownState
<1>2. PICK n \in Nat : n = s.toolCallByIndex[c].itemIx
  BY <1>1
<1>3. PICK k : k = n + 1
  OBVIOUS
<1>4. /\ k \in 1 .. Len(items) /\ LatestAt(items, CallId(c), k)
      /\ items[k].type = "function_call" /\ items[k].id = CallId(c)
      /\ items[k].content = s.toolCallByIndex[c].args /\ Underway(items[k])
  BY <1>2, <1>3, CallLatest
<1>5. CallAt(s, c) = k
  BY <1>2, <1>3 DEF CallAt
<1>6. PICK id \in ItemIds : id = CallId(c)
  BY <1>1, IdsTyped
<1>7. PICK content \in Seq(Fragments) : content = s.toolCallByIndex[c].args
  BY <1>1
<1>8. LatestAt(x.items, id, k) /\ x.items[k] = items[k] /\ x \in Clients /\ x.phase = "streaming"
  BY <1>4, <1>5, <1>6, ClosedLatest
<1>9. PICK a : a = Rsp!ContentDone(id, content)
  OBVIOUS
<1>10. PICK e : e = Rsp!ItemDone(n, id, "function_call", content)
  OBVIOUS
<1>11. es = (IF content = <<>> THEN <<>> ELSE <<a>>) \o <<e>>
  BY <1>2, <1>6, <1>7, <1>9, <1>10 DEF CallDone
<1>12. x.items[k].type = "function_call" /\ Underway(x.items[k]) /\ content = x.items[k].content /\ n = k - 1
  BY <1>3, <1>4, <1>7, <1>8
<1>13. es \in Seq(Rsp!Events) /\ \E y : FinishedAt(x, y, k) /\ Runs(x, es, y, tidy)
  BY <1>8, <1>9, <1>10, <1>11, <1>12, CallCloses
<1>14. PICK y : FinishedAt(x, y, k) /\ Runs(x, es, y, tidy)
  BY <1>13
<1>15. Closed(items, y, D \cup {k})
  BY <1>4, <1>5, <1>14, ClosedMore
<1> QED BY <1>5, <1>13, <1>14, <1>15 DEF CloseMore

(* They do so for every such client.                                       *)
ClosesNext(items, D, es, E, tidy) == \A y : Closed(items, y, D) => CloseMore(items, y, D, es, E, tidy)

LEMMA CloseJoin ==
  ASSUME NEW items, NEW x, NEW D, NEW es, NEW E, NEW tidy \in BOOLEAN, CloseMore(items, x, D, es, E, tidy),
         NEW fs, NEW F, ClosesNext(items, D \cup E, fs, F, tidy)
  PROVE  CloseMore(items, x, D, es \o fs, E \cup F, tidy)
<1>1. PICK y : Closed(items, y, D \cup E) /\ Runs(x, es, y, tidy)
  BY DEF CloseMore
<1>2. CloseMore(items, y, D \cup E, fs, F, tidy)
  BY <1>1 DEF ClosesNext
<1>3. PICK z : Closed(items, z, (D \cup E) \cup F) /\ Runs(y, fs, z, tidy)
  BY <1>2 DEF CloseMore
<1>4. es \in Seq(Rsp!Events) /\ fs \in Seq(Rsp!Events)
  BY <1>2 DEF CloseMore
<1>5. Runs(x, es \o fs, z, tidy)
  BY <1>1, <1>3, <1>4, RunsJoin
<1>6. es \o fs \in Seq(Rsp!Events)
  BY <1>4
<1>7. (D \cup E) \cup F = D \cup (E \cup F)
  OBVIOUS
<1> QED BY <1>3, <1>5, <1>6, <1>7 DEF CloseMore

LEMMA CallDoneTyped ==
  ASSUME NEW s \in Converters, NEW c \in Known(s)
  PROVE  CallDone(s, c) \in Seq(Rsp!Events)
<1>1. /\ c \in Calls /\ s.toolCallByIndex[c].args \in Seq(Fragments) /\ s.toolCallByIndex[c].itemIx \in Nat
  BY KnownState
<1>2. PICK args \in Seq(Fragments) : args = s.toolCallByIndex[c].args
  BY <1>1
<1>3. PICK n \in Nat : n = s.toolCallByIndex[c].itemIx
  BY <1>1
<1>4. PICK id \in ItemIds : id = CallId(c)
  BY <1>1, IdsTyped
<1>5. PICK a \in Rsp!Events : a = Rsp!ContentDone(id, args)
  <2>1. Rsp!ContentDone(id, args) \in Rsp!Events
    BY DEF Rsp!ContentDone, Rsp!Events
  <2> QED BY <2>1
<1>6. PICK e \in Rsp!Events : e = Rsp!ItemDone(n, id, "function_call", args)
  <2>1. "function_call" \in Rsp!ItemTypes
    BY DEF Rsp!ItemTypes
  <2>2. Rsp!ItemDone(n, id, "function_call", args) \in Rsp!Events
    BY <2>1 DEF Rsp!ItemDone, Rsp!Events
  <2> QED BY <2>2
<1>7. PICK is \in Seq(Rsp!Events) : is = IF args = <<>> THEN <<>> ELSE <<a>>
  <2>1. <<>> \in Seq(Rsp!Events) /\ <<a>> \in Seq(Rsp!Events)
    BY OneEvent
  <2> QED BY <2>1
<1>8. PICK fs \in Seq(Rsp!Events) : fs = <<e>>
  <2>1. <<e>> \in Seq(Rsp!Events)
    BY OneEvent
  <2> QED BY <2>1
<1>9. CallDone(s, c) = is \o fs
  BY <1>2, <1>3, <1>4, <1>5, <1>6, <1>7, <1>8 DEF CallDone
<1> QED BY <1>9

(* The closing events of the first n calls, and where their items are.     *)
CallsDone(s, calls, n) == [i \in 1 .. n |-> CallDone(s, calls[i])]
CallsAt(s, calls, n) == {CallAt(s, calls[i]) : i \in 1 .. n}

LEMMA CallsDoneTyped ==
  ASSUME NEW s \in Converters, NEW calls \in Seq(Known(s)), NEW n \in Nat, n <= Len(calls)
  PROVE  /\ CallsDone(s, calls, n) \in Seq(Seq(Rsp!Events)) /\ Len(CallsDone(s, calls, n)) = n
         /\ \A i \in 1 .. n : CallsDone(s, calls, n)[i] = CallDone(s, calls[i])
<1>1. ASSUME NEW i \in 1 .. n PROVE CallDone(s, calls[i]) \in Seq(Rsp!Events)
  <2>1. PICK c \in Known(s) : c = calls[i]
    OBVIOUS
  <2> QED BY <2>1, CallDoneTyped
<1> QED BY <1>1 DEF CallsDone

LEMMA CallsDoneMore ==
  ASSUME NEW s \in Converters, NEW calls \in Seq(Known(s)), NEW n \in Nat, n + 1 <= Len(calls)
  PROVE  /\ CallsDone(s, calls, n + 1) = Append(CallsDone(s, calls, n), CallDone(s, calls[n + 1]))
         /\ CallDone(s, calls[n + 1]) \in Seq(Rsp!Events)
<1>1. PICK q \in Seq(Seq(Rsp!Events)) : /\ q = CallsDone(s, calls, n) /\ Len(q) = n
                                        /\ \A i \in 1 .. n : q[i] = CallDone(s, calls[i])
  <2>1. n <= Len(calls)
    OBVIOUS
  <2> QED BY <2>1, CallsDoneTyped
<1>2. PICK m \in Nat : m = n + 1
  OBVIOUS
<1>3. PICK r \in Seq(Seq(Rsp!Events)) : /\ r = CallsDone(s, calls, m) /\ Len(r) = m
                                        /\ \A i \in 1 .. m : r[i] = CallDone(s, calls[i])
  BY <1>2, CallsDoneTyped
<1>4. PICK v \in Seq(Rsp!Events) : v = CallDone(s, calls[m])
  <2>1. PICK c \in Known(s) : c = calls[m]
    BY <1>2
  <2> QED BY <2>1, CallDoneTyped
<1>5. PICK p : p = Append(q, v)
  OBVIOUS
<1>6. p \in Seq(Seq(Rsp!Events)) /\ Len(p) = m /\ p[m] = v /\ \A i \in 1 .. n : p[i] = q[i]
  BY <1>1, <1>2, <1>5, Appended
<1>7. \A i \in 1 .. m : p[i] = r[i]
  <2>1. SUFFICES ASSUME NEW i \in 1 .. m PROVE p[i] = r[i]
    OBVIOUS
  <2>2. CASE i = m
    BY <1>3, <1>4, <1>6, <2>2
  <2>3. CASE i # m
    <3>1. i \in 1 .. n
      BY <1>2, <2>3
    <3> QED BY <1>1, <1>3, <1>6, <3>1
  <2> QED BY <2>2, <2>3
<1>8. p = r
  BY <1>3, <1>6, <1>7, SeqEqual
<1> QED BY <1>1, <1>2, <1>3, <1>4, <1>5, <1>8

(* Each call has an item of its own.                                       *)
LEMMA CallsApart ==
  ASSUME NEW s \in Converters, Numbered(s), NEW b \in Known(s), NEW c \in Known(s), b # c
  PROVE  CallAt(s, b) # CallAt(s, c)
<1>1. /\ s.output[s.toolCallByIndex[b].itemIx + 1].id = CallId(b)
      /\ s.output[s.toolCallByIndex[c].itemIx + 1].id = CallId(c)
  BY DEF Numbered
<1>2. CallId(b) # CallId(c)
  BY DEF CallId
<1> QED BY <1>1, <1>2 DEF CallAt

LEMMA CallsClose ==
  ASSUME NEW s \in Converters, Numbered(s), NEW items \in Seq(Items), NEW tidy \in BOOLEAN,
         Mirrors(s, items, tidy), NEW calls \in SetToSeqs(Known(s)), NEW x, NEW D, Closed(items, x, D),
         \A c \in Known(s) : CallAt(s, c) \notin D,
         NEW es, es = FlattenSeq([i \in DOMAIN calls |-> CallDone(s, calls[i])])
  PROVE  CloseMore(items, x, D, es, {CallAt(s, c) : c \in Known(s)}, tidy)
<1>1. IsFiniteSet(Known(s))
  BY CallsAssumption, FS_Subset DEF Known
<1>2. /\ calls \in Seq(Known(s)) /\ Range(calls) = Known(s)
      /\ \A i, j \in 1 .. Len(calls) : i # j => calls[i] # calls[j]
  BY <1>1, SetToSeqsProperties
<1>3. PICK m \in Nat : m = Len(calls)
  BY <1>2
<1>4. PICK T \in SUBSET Nat :
         T = {n \in Nat : n <= m => CloseMore(items, x, D, FlattenSeq(CallsDone(s, calls, n)),
                                              CallsAt(s, calls, n), tidy)}
  <2>1. {n \in Nat : n <= m => CloseMore(items, x, D, FlattenSeq(CallsDone(s, calls, n)),
                                         CallsAt(s, calls, n), tidy)} \in SUBSET Nat
    OBVIOUS
  <2> QED BY <2>1
<1>5. 0 \in T
  <2>1. CallsDone(s, calls, 0) = <<>>
    <3>1. PICK q \in Seq(Seq(Rsp!Events)) : q = CallsDone(s, calls, 0) /\ Len(q) = 0
      <4>1. PICK z \in Nat : z = 0 /\ z <= Len(calls)
        BY <1>2, <1>3
      <4> QED BY <1>2, <4>1, CallsDoneTyped
    <3> QED BY <3>1
  <2>2. CallsAt(s, calls, 0) = {}
    BY DEF CallsAt
  <2>3. D \cup {} = D
    OBVIOUS
  <2>4. PICK fs : fs = <<>>
    OBVIOUS
  <2>5. fs \in Seq(Rsp!Events) /\ Runs(x, fs, x, tidy)
    BY <2>4, RunsNothing
  <2>6. CloseMore(items, x, D, fs, {}, tidy)
    BY <2>3, <2>5 DEF CloseMore
  <2> QED BY <1>4, <2>1, <2>2, <2>4, <2>6, FlattenEmpty
<1>6. ASSUME NEW n \in Nat, n \in T PROVE n + 1 \in T
  <2>1. SUFFICES ASSUME n + 1 <= m
                 PROVE  CloseMore(items, x, D, FlattenSeq(CallsDone(s, calls, n + 1)),
                                  CallsAt(s, calls, n + 1), tidy)
    BY <1>4
  <2>2. PICK fs : fs = FlattenSeq(CallsDone(s, calls, n))
    OBVIOUS
  <2>3. PICK E : E = CallsAt(s, calls, n)
    OBVIOUS
  <2>4. CloseMore(items, x, D, fs, E, tidy)
    BY <1>4, <1>6, <2>1, <2>2, <2>3
  <2>5. PICK c \in Known(s) : c = calls[n + 1]
    BY <1>2, <1>3, <2>1
  <2>6. PICK gs : gs = CallDone(s, c)
    OBVIOUS
  <2>7. PICK F : F = {CallAt(s, c)}
    OBVIOUS
  <2>8. CallAt(s, c) \notin D \cup E
    <3>1. ASSUME NEW i \in 1 .. n PROVE CallAt(s, calls[i]) # CallAt(s, c)
      <4>1. PICK b \in Known(s) : b = calls[i]
        BY <1>2, <1>3, <2>1
      <4>2. b # c
        BY <1>2, <1>3, <2>1, <2>5, <4>1
      <4> QED BY <4>1, <4>2, CallsApart
    <3> QED BY <2>3, <3>1 DEF CallsAt
  <2>9. ClosesNext(items, D \cup E, gs, F, tidy)
    <3>1. ASSUME NEW y, Closed(items, y, D \cup E) PROVE CloseMore(items, y, D \cup E, gs, F, tidy)
      BY <2>6, <2>7, <2>8, <3>1, OneCallCloses
    <3> QED BY <3>1 DEF ClosesNext
  <2>10. CloseMore(items, x, D, fs \o gs, E \cup F, tidy)
    BY <2>4, <2>9, CloseJoin
  <2>11. FlattenSeq(CallsDone(s, calls, n + 1)) = fs \o gs
    <3>1. n + 1 <= Len(calls) /\ n <= Len(calls)
      BY <1>2, <1>3, <2>1
    <3>2. PICK q \in Seq(Seq(Rsp!Events)) : q = CallsDone(s, calls, n)
      BY <1>2, <3>1, CallsDoneTyped
    <3>3. CallsDone(s, calls, n + 1) = Append(q, gs) /\ gs \in Seq(Rsp!Events)
      BY <1>2, <2>5, <2>6, <3>1, <3>2, CallsDoneMore
    <3> QED BY <2>2, <3>2, <3>3, FlattenSnoc
  <2>12. CallsAt(s, calls, n + 1) = E \cup F
    <3>1. 1 .. n + 1 = (1 .. n) \cup {n + 1}
      OBVIOUS
    <3> QED BY <2>3, <2>5, <2>7, <3>1 DEF CallsAt
  <2> QED BY <2>10, <2>11, <2>12
<1>7. m \in T
  BY <1>5, <1>6, Induction
<1>8. CloseMore(items, x, D, FlattenSeq(CallsDone(s, calls, m)), CallsAt(s, calls, m), tidy)
  BY <1>4, <1>7
<1>9. CallsDone(s, calls, m) = [i \in DOMAIN calls |-> CallDone(s, calls[i])]
  BY <1>2, <1>3 DEF CallsDone
<1>10. CallsAt(s, calls, m) = {CallAt(s, c) : c \in Known(s)}
  BY <1>2, <1>3 DEF CallsAt, Range
<1> QED BY <1>8, <1>9, <1>10

AllAt(s) == (PartAt(s, "message") \cup PartAt(s, "reasoning")) \cup {CallAt(s, c) : c \in Known(s)}

(* No two of the converter's own items are at the same place.              *)
LEMMA ItemsApart ==
  ASSUME NEW s \in Converters, Numbered(s), NEW items \in Seq(Items), NEW tidy, Mirrors(s, items, tidy)
  PROVE  /\ PartAt(s, "message") \cap PartAt(s, "reasoning") = {}
         /\ \A t \in Parted : \A c \in Known(s) : CallAt(s, c) \notin PartAt(s, t)
<1>1. ASSUME NEW t \in Parted, NEW i \in PartAt(s, t) PROVE items[i].type = t
  <2>1. ~ (Ix(s, t) < 0) /\ i = Ix(s, t) + 1
    BY <1>1 DEF PartAt
  <2>2. Ix(s, t) >= 0
    BY <2>1, IxTyped
  <2> QED BY <2>1, <2>2, PartLatest
<1>2. ASSUME NEW c \in Known(s) PROVE items[CallAt(s, c)].type = "function_call"
  <2>1. PICK k : k = s.toolCallByIndex[c].itemIx + 1
    OBVIOUS
  <2> QED BY <2>1, CallLatest DEF CallAt
<1>3. Parted = {"message", "reasoning"}
  BY DEF Parted
<1> QED BY <1>1, <1>2, <1>3

LEMMA DoneCloses ==
  ASSUME NEW s \in Converters, Numbered(s), NEW x \in Clients, x.phase = "streaming",
         NEW items \in Seq(Items), items = x.items, NEW tidy \in BOOLEAN, Mirrors(s, items, tidy),
         PartsFit(s, tidy), NEW calls \in SetToSeqs(Known(s)), s.via \in {"openai", "anthropic"},
         NEW es, es = DoneEvents(s, calls)
  PROVE  CloseMore(items, x, {}, es, AllAt(s), tidy)
<1>1. Closed(items, x, {})
  BY DEF Closed, SameItem
<1>2. PICK cs : cs = FlattenSeq([i \in DOMAIN calls |-> CallDone(s, calls[i])])
  OBVIOUS
<1>3. PICK C : C = {CallAt(s, c) : c \in Known(s)}
  OBVIOUS
<1>4. ASSUME NEW t \in Parted, NEW v \in Parted, PartAt(s, t) \cap PartAt(s, v) = {},
             \A c \in Known(s) : CallAt(s, c) \notin PartAt(s, t) \cup PartAt(s, v)
      PROVE  CloseMore(items, x, {}, (TypeDone(s, t) \o TypeDone(s, v)) \o cs,
                       (PartAt(s, t) \cup PartAt(s, v)) \cup C, tidy)
  <2>1. PICK ts : ts = TypeDone(s, t)
    OBVIOUS
  <2>2. PICK vs : vs = TypeDone(s, v)
    OBVIOUS
  <2>3. PICK T : T = PartAt(s, t)
    OBVIOUS
  <2>4. PICK V : V = PartAt(s, v)
    OBVIOUS
  <2>5. CloseMore(items, x, {}, ts, T, tidy)
    <3>1. PartAt(s, t) \cap {} = {}
      OBVIOUS
    <3> QED BY <1>1, <2>1, <2>3, <3>1, TypeCloses
  <2>6. ClosesNext(items, {} \cup T, vs, V, tidy)
    <3>1. {} \cup T = T /\ PartAt(s, v) \cap T = {}
      BY <1>4, <2>3
    <3>2. ASSUME NEW y, Closed(items, y, T) PROVE CloseMore(items, y, T, vs, V, tidy)
      BY <2>2, <2>4, <3>1, <3>2, TypeCloses
    <3> QED BY <3>1, <3>2 DEF ClosesNext
  <2>7. CloseMore(items, x, {}, ts \o vs, T \cup V, tidy)
    BY <2>5, <2>6, CloseJoin
  <2>8. PICK tvs : tvs = ts \o vs
    OBVIOUS
  <2>9. PICK TV : TV = T \cup V
    OBVIOUS
  <2>10. ClosesNext(items, {} \cup TV, cs, C, tidy)
    <3>1. {} \cup TV = TV /\ \A c \in Known(s) : CallAt(s, c) \notin TV
      BY <1>4, <2>3, <2>4, <2>9
    <3>2. ASSUME NEW y, Closed(items, y, TV) PROVE CloseMore(items, y, TV, cs, C, tidy)
      BY <1>2, <1>3, <3>1, <3>2, CallsClose
    <3> QED BY <3>1, <3>2 DEF ClosesNext
  <2>11. CloseMore(items, x, {}, tvs, TV, tidy)
    BY <2>7, <2>8, <2>9
  <2>12. CloseMore(items, x, {}, tvs \o cs, TV \cup C, tidy)
    BY <2>10, <2>11, CloseJoin
  <2> QED BY <2>1, <2>2, <2>3, <2>4, <2>8, <2>9, <2>12
<1>5. "message" \in Parted /\ "reasoning" \in Parted
  BY DEF Parted
<1>6. /\ PartAt(s, "message") \cap PartAt(s, "reasoning") = {}
      /\ PartAt(s, "reasoning") \cap PartAt(s, "message") = {}
      /\ \A t \in Parted : \A c \in Known(s) : CallAt(s, c) \notin PartAt(s, t)
  BY ItemsApart
<1>7. CASE s.via = "openai"
  <2>1. es = (TypeDone(s, "reasoning") \o TypeDone(s, "message")) \o cs
    BY <1>2, <1>7 DEF DoneEvents, TypeDone
  <2>2. AllAt(s) = (PartAt(s, "reasoning") \cup PartAt(s, "message")) \cup C
    BY <1>3 DEF AllAt
  <2> QED BY <1>4, <1>5, <1>6, <2>1, <2>2
<1>8. CASE s.via = "anthropic"
  <2>1. es = (TypeDone(s, "message") \o TypeDone(s, "reasoning")) \o cs
    BY <1>2, <1>8 DEF DoneEvents, TypeDone
  <2>2. AllAt(s) = (PartAt(s, "message") \cup PartAt(s, "reasoning")) \cup C
    BY <1>3 DEF AllAt
  <2> QED BY <1>4, <1>5, <1>6, <2>1, <2>2
<1> QED BY <1>7, <1>8

(* In a tidy stream, those are all the items there are.                    *)
LEMMA AllCovered ==
  ASSUME NEW s \in Converters, NEW items \in Seq(Items), Mirrors(s, items, TRUE), NEW i \in 1 .. Len(items)
  PROVE  i \in AllAt(s)
<1>1. OfPart(s, items[i], i) \/ OfCall(s, items[i], i)
  BY DEF Mirrors, Placed
<1>2. CASE OfPart(s, items[i], i)
  <2>1. PICK t \in Parted : t = items[i].type
    BY <1>2 DEF OfPart
  <2>2. i = Ix(s, t) + 1
    BY <2>1 DEF Mirrors, Alone
  <2>3. ~ (Ix(s, t) < 0)
    BY <2>2, IxTyped
  <2>4. i \in PartAt(s, t)
    BY <2>2, <2>3 DEF PartAt
  <2> QED BY <2>4 DEF AllAt, Parted
<1>3. CASE OfCall(s, items[i], i)
  <2>1. PICK c \in Known(s) : s.toolCallByIndex[c].itemIx = i - 1
    BY <1>3 DEF OfCall
  <2>2. CallAt(s, c) = i
    BY <2>1 DEF CallAt
  <2> QED BY <2>2 DEF AllAt
<1> QED BY <1>1, <1>2, <1>3

(* What becomes of an item of the output.                                  *)
FinalItem(out, text) ==
    [out EXCEPT !.status = "completed", !.content = IF out.type = "message" THEN text ELSE @]

LEMMA FinalItemIs ==
  ASSUME NEW out \in Rsp!OutputItems, NEW text \in Seq(Fragments)
  PROVE  /\ FinalItem(out, text) \in Rsp!OutputItems
         /\ FinalItem(out, text).id = out.id /\ FinalItem(out, text).type = out.type
         /\ FinalItem(out, text).status = "completed"
         /\ out.type = "message" => FinalItem(out, text).content = text
<1>1. "completed" \in Rsp!Statuses
  BY DEF Rsp!Statuses
<1> QED BY <1>1 DEF FinalItem, Rsp!OutputItems

LEMMA FinalOutputIs ==
  ASSUME NEW s \in Converters
  PROVE  /\ FinalOutput(s) \in Seq(Rsp!OutputItems) /\ Len(FinalOutput(s)) = Len(s.output)
         /\ \A i \in 1 .. Len(s.output) :
               /\ FinalOutput(s)[i].id = s.output[i].id /\ FinalOutput(s)[i].type = s.output[i].type
               /\ FinalOutput(s)[i].status = "completed"
               /\ s.output[i].type = "message" => FinalOutput(s)[i].content = s.accText
<1>1. PICK output \in Seq(Rsp!OutputItems) : output = s.output
  BY DEF Converters
<1>2. PICK text \in Seq(Fragments) : text = s.accText
  BY DEF Converters
<1>3. PICK n \in Nat : n = Len(output)
  OBVIOUS
<1>4. PICK f : f = FinalOutput(s)
  OBVIOUS
<1>5. f = [i \in 1 .. n |-> FinalItem(output[i], text)]
  <2>1. f = [i \in DOMAIN s.output |-> FinalItem(s.output[i], s.accText)]
    BY <1>4 DEF FinalOutput, FinalItem
  <2>2. DOMAIN s.output = 1 .. n
    BY <1>1, <1>3
  <2> QED BY <1>1, <1>2, <2>1, <2>2
<1>6. ASSUME NEW i \in 1 .. n
      PROVE  /\ f[i] \in Rsp!OutputItems /\ f[i].id = output[i].id /\ f[i].type = output[i].type
             /\ f[i].status = "completed" /\ (output[i].type = "message" => f[i].content = text)
  <2>1. PICK out \in Rsp!OutputItems : out = output[i]
    BY <1>3
  <2>2. f[i] = FinalItem(out, text)
    BY <1>3, <1>5, <2>1
  <2> QED BY <2>1, <2>2, FinalItemIs
<1>7. f \in Seq(Rsp!OutputItems) /\ Len(f) = n
  <2>1. f = [i \in 1 .. n |-> f[i]]
    BY <1>5
  <2> QED BY <1>6, <2>1
<1> QED BY <1>1, <1>2, <1>3, <1>4, <1>6, <1>7

(* The last event, after the closing ones or instead of them.              *)
LEMMA FinalRuns ==
  ASSUME NEW y \in Clients, y.phase = "streaming", NEW tidy \in BOOLEAN,
         NEW t \in Rsp!FinalTypes, NEW status \in Rsp!Statuses, NEW output \in Seq(Rsp!OutputItems),
         NEW e, e = Rsp!Final(t, status, output), tidy => Rsp!Legal(y, e)
  PROVE  /\ e \in Rsp!Events
         /\ \E z \in Clients : /\ z.phase = t /\ z.items = y.items /\ z.status = status
                               /\ Runs(y, <<e>>, z, tidy)
<1>1. PICK z : z = Rsp!Apply(y, e)
  OBVIOUS
<1>2. e \in Rsp!Events /\ z \in Clients /\ z.items = y.items /\ z.phase = t /\ z.status = status
  BY <1>1, FinalSeen
<1>3. "streaming" \notin Rsp!FinalTypes
  BY DEF Rsp!FinalTypes
<1>4. Runs(y, <<e>>, z, tidy)
  BY <1>1, <1>3, RunsOne
<1> QED BY <1>2, <1>4

LEMMA FinalLegal ==
  ASSUME NEW s \in Converters, NEW items \in Seq(Items), Mirrors(s, items, TRUE), NEW y,
         Closed(items, y, AllAt(s)), NEW t \in {"completed", "incomplete"},
         NEW e, e = Rsp!Final(t, t, FinalOutput(s))
  PROVE  Rsp!Legal(y, e)
<1>1. PICK output \in Seq(Rsp!OutputItems) : output = FinalOutput(s)
  BY FinalOutputIs
<1>2. e.type = t /\ e.status = t /\ e.output = output
  BY <1>1 DEF Rsp!Final
<1>3. y \in Clients /\ y.phase = "streaming" /\ Len(y.items) = Len(items)
  BY DEF Closed
<1>4. PICK n \in Nat : n = Len(items)
  OBVIOUS
<1>5. DOMAIN y.items = 1 .. n /\ Len(y.items) = n
  BY <1>3, <1>4 DEF Clients
<1>6. Len(output) = n /\ Len(s.output) = n
  BY <1>1, <1>4, FinalOutputIs DEF Mirrors, Listed
<1>7. ASSUME NEW i \in 1 .. n
      PROVE  /\ y.items[i].done /\ output[i].id = y.items[i].id /\ output[i].type = y.items[i].type
             /\ output[i].status = "completed"
             /\ y.items[i].type = "message" => output[i].content = y.items[i].content
  <2>1. i \in AllAt(s)
    BY <1>4, AllCovered
  <2>2. /\ y.items[i].done /\ y.items[i].id = items[i].id /\ y.items[i].type = items[i].type
        /\ y.items[i].content = items[i].content
    BY <1>4, <2>1 DEF Closed, SameItem
  <2>3. s.output[i].id = items[i].id /\ s.output[i].type = items[i].type
    BY <1>4 DEF Mirrors, Listed
  <2>4. /\ output[i].id = s.output[i].id /\ output[i].type = s.output[i].type
        /\ output[i].status = "completed" /\ (s.output[i].type = "message" => output[i].content = s.accText)
    BY <1>1, <1>6, FinalOutputIs
  <2>5. ASSUME items[i].type = "message" PROVE items[i].content = s.accText
    <3>1. Alone(s, items, "message")
      BY DEF Mirrors, Parted
    <3>2. i = Ix(s, "message") + 1
      BY <1>4, <2>5, <3>1 DEF Alone
    <3>3. Ix(s, "message") >= 0
      BY <3>2, IxTyped
    <3> QED BY <3>1, <3>2, <3>3 DEF Alone, Acc
  <2> QED BY <2>2, <2>3, <2>4, <2>5
<1>8. t \notin {"created", "in_progress", "item.added", "part.added", "part.done", "delta",
                "content.done", "item.done", "failed"}
  OBVIOUS
<1> QED BY <1>2, <1>3, <1>5, <1>6, <1>7, <1>8 DEF Rsp!Legal

(* The client keeps what the converter has given it.                       *)
LEMMA KeptBy ==
  ASSUME NEW s \in Converters, Numbered(s), NEW items \in Seq(Items), NEW tidy, Mirrors(s, items, tidy),
         NEW r, SameText(s, r), SameReasoning(s, r), SameCalls(s, r), NEW z \in Clients, Len(z.items) = Len(items),
         \A i \in 1 .. Len(items) : SameItem(items[i], z.items[i]),
         z.phase # "failed" => \A i \in 1 .. Len(items) : i \in AllAt(s) => z.items[i].done
  PROVE  Kept(r, z)
<1>1. z.items \in Seq(Items)
  BY DEF Clients
<1>2. ASSUME NEW t \in Parted PROVE Flat(z.items, t) = Acc(r, t)
  <2>1. \A i \in 1 .. Len(items) : ContentAs(items[i], t) = ContentAs(z.items[i], t)
    BY DEF SameItem, ContentAs
  <2>2. PICK others \in Seq(Items) : others = z.items
    BY <1>1
  <2>3. Flat(items, t) = Flat(others, t)
    BY <2>1, <2>2, FlatSame
  <2>4. Acc(r, t) = Acc(s, t)
    BY DEF Acc, SameText, SameReasoning
  <2> QED BY <2>2, <2>3, <2>4 DEF Mirrors
<1>3. Known(r) = Known(s) /\ \A c \in Known(s) : r.toolCallByIndex[c] = s.toolCallByIndex[c]
  BY DEF Known, SameCalls
<1>4. ASSUME NEW c \in Known(s)
      PROVE  \E i \in DOMAIN z.items :
                /\ z.items[i].id = CallId(c) /\ z.items[i].content = s.toolCallByIndex[c].args
                /\ z.phase # "failed" => z.items[i].done
  <2>1. PICK k : k = s.toolCallByIndex[c].itemIx + 1
    OBVIOUS
  <2>2. /\ k \in 1 .. Len(items) /\ items[k].id = CallId(c) /\ items[k].content = s.toolCallByIndex[c].args
    BY <2>1, CallLatest
  <2>3. k \in AllAt(s)
    BY <2>1 DEF AllAt, CallAt
  <2>4. DOMAIN z.items = 1 .. Len(items)
    BY <1>1
  <2> QED BY <2>2, <2>3, <2>4 DEF SameItem
<1> QED BY <1>2, <1>3, <1>4 DEF Kept

(* Re-establishing the invariant when a response is over.                  *)
LEMMA Finalizes ==
  ASSUME NEW r \in Converters, sc' = r, client' = client, sent' = sent, client \in Clients, sent \in Histories,
         r.finalized, Numbered(r), Told(r, sent), NEW tidy, tidy = Tidy', NEW z \in Clients,
         Runs(client, r.events, z, tidy), Kept(r, z), Outcome(r, z, sent)
  PROVE  IInv'
<1>1. Phased(r, z, sent, tidy)
  BY DEF Phased
<1>2. Runs(client', (sc').events, z, Tidy') /\ Phased(sc', z, sent', Tidy')
  BY <1>1
<1>3. sc' \in Converters /\ client' \in Clients /\ sent' \in Histories /\ Numbered(sc') /\ Told(sc', sent')
  OBVIOUS
<1> QED BY <1>2, <1>3 DEF IInv

(* What the end of a stream leaves of the converter.                       *)
Over(s, r, status, output) ==
    /\ r \in Converters /\ r.finalized /\ r.via = s.via /\ r.started = s.started
    /\ r.responseId = s.responseId /\ r.contentBlocks = s.contentBlocks
    /\ SameText(s, r) /\ SameReasoning(s, r) /\ SameCalls(s, r) /\ r.itemIndex = s.itemIndex
    /\ r.status = status /\ r.output = output

LEMMA OverTold ==
  ASSUME NEW s \in Converters, NEW u, Told(s, u), NEW r, NEW status, NEW output \in Seq(Rsp!OutputItems),
         Over(s, r, status, output), Len(output) = Len(s.output), s.started
  PROVE  Told(r, u)
<1>1. Known(r) = Known(s) /\ \A c \in Calls : ArgsOf(r, c) = ArgsOf(s, c)
  BY DEF Over, SameCalls, Known, ArgsOf
<1>2. Follows(r, u)
  BY <1>1 DEF Told, Follows, Over, SameText, SameReasoning
<1>3. s.output = <<>> => output = <<>>
  BY DEF Converters
<1>4. \A t \in Parted : Ix(r, t) = Ix(s, t)
  BY DEF Ix, Over, SameText, SameReasoning
<1>5. ASSUME BlocksFollow(s, u) PROVE BlocksFollow(r, u)
  BY <1>1, <1>3, <1>4, <1>5 DEF BlocksFollow, Over
<1> QED BY <1>2, <1>5 DEF Told, Over

LEMMA OverNumbered ==
  ASSUME NEW s \in Converters, Numbered(s), NEW r, NEW status, NEW output \in Seq(Rsp!OutputItems),
         Over(s, r, status, output), Len(output) = Len(s.output),
         \A i \in 1 .. Len(s.output) : output[i].id = s.output[i].id
  PROVE  Numbered(r)
<1>1. Known(r) = Known(s) /\ \A c \in Known(s) : r.toolCallByIndex[c] = s.toolCallByIndex[c]
  BY DEF Over, SameCalls, Known
<1>2. \A t \in Parted : Ix(r, t) = Ix(s, t)
  BY DEF Ix, Over, SameText, SameReasoning
<1>3. r.itemIndex = s.itemIndex /\ r.output = output
  BY DEF Over
<1>4. ASSUME NEW c \in Known(s)
      PROVE  /\ s.toolCallByIndex[c].itemIx <= s.itemIndex
             /\ output[s.toolCallByIndex[c].itemIx + 1].id = CallId(c)
  <2>1. PICK n \in Nat : n = s.toolCallByIndex[c].itemIx
    BY KnownState
  <2>2. n <= s.itemIndex /\ s.output[n + 1].id = CallId(c) /\ s.itemIndex = Len(s.output) - 1
    BY <2>1 DEF Numbered
  <2>3. n + 1 \in 1 .. Len(s.output)
    BY <2>2 DEF Converters
  <2> QED BY <2>1, <2>2, <2>3
<1> QED BY <1>1, <1>2, <1>3, <1>4 DEF Numbered

EndsWith(s, r, status, output, es, e) == Over(s, r, status, output) /\ r.events = es \o <<e>>

LEMMA StreamEnded ==
  ASSUME NEW s \in Converters, s.events = <<>>, NEW calls, NEW es \in Seq(Rsp!Events), es = DoneEvents(s, calls),
         NEW status \in Rsp!Statuses, status = IF s.status = "in_progress" THEN "completed" ELSE s.status,
         NEW t, t = IF status = "incomplete" THEN "incomplete" ELSE "completed",
         NEW output \in Seq(Rsp!OutputItems), output = FinalOutput(s),
         NEW e \in Rsp!Events, e = Rsp!Final(t, status, output), NEW r, r = HandleStreamEnd(s, calls)
  PROVE  EndsWith(s, r, status, output, es, e)
<1>1. PICK q : q = EmitAll(s, es)
  OBVIOUS
<1>2. q = [s EXCEPT !.events = es]
  <2>1. s.events \o es = es
    OBVIOUS
  <2> QED BY <1>1, <2>1 DEF EmitAll
<1>3. q \in Converters /\ q.events = es
  BY <1>2 DEF Converters
<1>4. PICK v : v = Emit(q, e)
  OBVIOUS
<1>5. PICK fs : fs = es \o <<e>>
  OBVIOUS
<1>6. fs \in Seq(Rsp!Events) /\ Append(es, e) = fs
  <2>1. PICK one \in Seq(Rsp!Events) : one = <<e>>
    <3>1. <<e>> \in Seq(Rsp!Events)
      BY OneEvent
    <3> QED BY <3>1
  <2> QED BY <1>5, <2>1, AppendIsConcat
<1>7. v = [q EXCEPT !.events = fs]
  BY <1>3, <1>4, <1>6 DEF Emit
<1>8. v = [s EXCEPT !.events = fs]
  BY <1>2, <1>7
<1>9. r = [v EXCEPT !.finalized = TRUE, !.status = status, !.output = output]
  BY <1>1, <1>4 DEF HandleStreamEnd
<1>10. v \in Converters
  BY ZenonT(60), <1>6, <1>8 DEF Converters
<1>11. Framed(s, v) /\ SameText(s, v) /\ SameReasoning(s, v) /\ SameCalls(s, v) /\ v.itemIndex = s.itemIndex
       /\ v.events = fs
  BY <1>8 DEF Converters, Framed, SameText, SameReasoning, SameCalls
<1>12. r \in Converters /\ r.finalized /\ r.status = status /\ r.output = output /\ r.events = fs
  BY <1>9, <1>10, <1>11 DEF Converters
<1>13. Over(s, r, status, output)
  BY <1>9, <1>10, <1>11, <1>12 DEF Converters, Over, Framed, SameText, SameReasoning, SameCalls
<1> QED BY <1>5, <1>12, <1>13 DEF EndsWith

LEMMA RestingClient ==
  ASSUME IInv, Running, NEW tidy \in BOOLEAN, tidy = Tidy
  PROVE  /\ client.phase = "streaming" /\ client.items \in Seq(Items)
         /\ Mirrors(sc, client.items, tidy) /\ Numbered(sc) /\ PartsFit(sc, tidy)
<1>1. sc \in Converters /\ client \in Clients /\ sc.events = <<>> /\ Good(client, sc, tidy)
  BY Resting
<1>2. PICK d \in Clients : d.phase = "streaming" /\ Runs(client, sc.events, d, tidy) /\ Mirrors(sc, d.items, tidy)
  BY <1>1 DEF Good
<1>3. Runs(client, <<>>, d, tidy)
  BY <1>1, <1>2
<1>4. d = client
  BY <1>3, RunsNowhere
<1>5. client.items \in Seq(Items)
  BY <1>1 DEF Clients
<1> QED BY <1>1, <1>2, <1>4, <1>5 DEF Good

LEMMA EndStep ==
  ASSUME IInv, End
  PROVE  IInv'
<1>1. Running /\ client' = client /\ sent' = sent
  BY DEF End
<1>2. PICK calls \in SetToSeqs(Known(sc)) : sc' = HandleStreamEnd(sc, calls)
  BY DEF End, Known
<1>3. /\ sc \in Converters /\ client \in Clients /\ sent \in Histories
      /\ sc.events = <<>> /\ sc.started /\ ~ sc.finalized /\ StatusFits(sc, sent) /\ Told(sc, sent)
  BY <1>1, Resting
<1>4. PICK tidy \in BOOLEAN : tidy = Tidy
  BY TidyBoolean
<1>5. /\ client.phase = "streaming" /\ client.items \in Seq(Items)
      /\ Mirrors(sc, client.items, tidy) /\ Numbered(sc) /\ PartsFit(sc, tidy)
  BY <1>1, <1>4, RestingClient
<1>6. PICK items \in Seq(Items) : items = client.items
  BY <1>5
<1>7. sc.via \in {"openai", "anthropic"}
  BY <1>3, UpstreamsAssumption DEF Converters
<1>8. PICK es : es = DoneEvents(sc, calls)
  OBVIOUS
<1>9. Mirrors(sc, items, tidy)
  BY <1>5, <1>6
<1>10. CloseMore(items, client, {}, es, AllAt(sc), tidy)
  BY <1>3, <1>5, <1>6, <1>7, <1>8, <1>9, DoneCloses
<1>11. PICK y : Closed(items, y, {} \cup AllAt(sc)) /\ Runs(client, es, y, tidy)
  BY <1>10 DEF CloseMore
<1>12. Closed(items, y, AllAt(sc)) /\ es \in Seq(Rsp!Events)
  <2>1. {} \cup AllAt(sc) = AllAt(sc)
    OBVIOUS
  <2> QED BY <1>10, <1>11, <2>1 DEF CloseMore
<1>13. PICK status \in Rsp!Statuses : status = IF sc.status = "in_progress" THEN "completed" ELSE sc.status
  BY <1>3 DEF Converters, Rsp!Statuses
<1>14. PICK t \in {"completed", "incomplete"} : t = IF status = "incomplete" THEN "incomplete" ELSE "completed"
  OBVIOUS
<1>15. t \in Rsp!FinalTypes
  BY DEF Rsp!FinalTypes
<1>16. PICK output \in Seq(Rsp!OutputItems) : output = FinalOutput(sc)
  BY <1>3, FinalOutputIs
<1>17. PICK e : e = Rsp!Final(t, status, output)
  OBVIOUS
<1>18. tidy => status = t
  <2>1. SUFFICES ASSUME tidy PROVE status = t
    OBVIOUS
  <2>2. sc.via = "openai" => sent.finish # "content_filter"
    BY <1>4, <2>1 DEF Tidy
  <2>3. sc.status # "failed"
    BY <1>3, <1>7, <2>2, NoneAssumption DEF StatusFits, OutcomeOf
  <2> QED BY <1>13, <1>14, <2>3 DEF Rsp!Statuses
<1>19. tidy => Rsp!Legal(y, e)
  <2>1. SUFFICES ASSUME tidy PROVE Rsp!Legal(y, e)
    OBVIOUS
  <2>2. Mirrors(sc, items, TRUE)
    BY <1>9, <2>1
  <2>3. e = Rsp!Final(t, t, FinalOutput(sc))
    BY <1>16, <1>17, <1>18, <2>1
  <2> QED BY <1>3, <1>12, <2>2, <2>3, FinalLegal
<1>20. y \in Clients /\ y.phase = "streaming"
  BY <1>12 DEF Closed
<1>21. PICK z \in Clients : z.phase = t /\ z.items = y.items /\ z.status = status /\ Runs(y, <<e>>, z, tidy)
  BY <1>15, <1>17, <1>19, <1>20, FinalRuns
<1>22. e \in Rsp!Events
  BY <1>15, <1>17, <1>19, <1>20, FinalRuns
<1>23. PICK r : r = HandleStreamEnd(sc, calls)
  OBVIOUS
<1>24. Over(sc, r, status, output) /\ r.events = es \o <<e>>
  <2>1. sc \in Converters /\ sc.events = <<>> /\ es \in Seq(Rsp!Events) /\ e \in Rsp!Events
    BY <1>3, <1>12, <1>22
  <2>2. EndsWith(sc, r, status, output, es, e)
    BY <1>8, <1>13, <1>14, <1>16, <1>17, <1>23, <2>1, StreamEnded
  <2> QED BY <2>2 DEF EndsWith
<1>25. /\ r \in Converters /\ r.finalized /\ r.via = sc.via
       /\ SameText(sc, r) /\ SameReasoning(sc, r) /\ SameCalls(sc, r)
  BY <1>24 DEF Over
<1>26. Len(output) = Len(sc.output) /\ \A i \in 1 .. Len(sc.output) : output[i].id = sc.output[i].id
  BY <1>3, <1>16, FinalOutputIs
<1>27. Numbered(r)
  BY <1>3, <1>5, <1>24, <1>26, OverNumbered
<1>28. Told(r, sent)
  BY <1>3, <1>24, <1>26, OverTold
<1>29. Runs(client, r.events, z, tidy)
  <2>1. PICK one : one = <<e>>
    OBVIOUS
  <2>2. one \in Seq(Rsp!Events) /\ Runs(y, one, z, tidy)
    BY <1>21, <1>22, <2>1, OneEvent
  <2>3. Runs(client, es \o one, z, tidy)
    BY <1>11, <1>12, <2>2, RunsJoin
  <2> QED BY <1>24, <2>1, <2>3
<1>30. Kept(r, z)
  <2>1. Len(z.items) = Len(items) /\ \A i \in 1 .. Len(items) : SameItem(items[i], z.items[i])
    BY <1>12, <1>21 DEF Closed
  <2>2. \A i \in 1 .. Len(items) : i \in AllAt(sc) => z.items[i].done
    BY <1>12, <1>21 DEF Closed
  <2> QED BY <1>3, <1>5, <1>9, <1>25, <2>1, <2>2, KeptBy
<1>31. Outcome(r, z, sent)
  <2>1. status = OutcomeOf(r.via, sent.finish)
    BY <1>3, <1>13, <1>25, NoneAssumption DEF StatusFits, OutcomeOf, Finishes
  <2>2. t = "incomplete" <=> sent.finish = "length"
    BY <1>14, <2>1 DEF OutcomeOf
  <2> QED BY <1>15, <1>21, <2>1, <2>2 DEF Outcome
<1>32. Tidy' = tidy
  BY <1>1, <1>2, <1>4, <1>23, <1>25 DEF Tidy, Repeats
<1> QED BY <1>1, <1>2, <1>3, <1>23, <1>25, <1>27, <1>28, <1>29, <1>30, <1>31, <1>32, Finalizes

LEMMA EmitErrorStep ==
  ASSUME IInv, EmitError
  PROVE  IInv'
<1>1. Running /\ client' = client /\ sent' = sent /\ sc' = HandleError(sc)
  BY DEF EmitError
<1>2. /\ sc \in Converters /\ client \in Clients /\ sent \in Histories
      /\ sc.events = <<>> /\ sc.started /\ ~ sc.finalized /\ StatusFits(sc, sent) /\ Told(sc, sent)
  BY <1>1, Resting
<1>3. PICK tidy \in BOOLEAN : tidy = Tidy
  BY TidyBoolean
<1>4. /\ client.phase = "streaming" /\ client.items \in Seq(Items)
      /\ Mirrors(sc, client.items, tidy) /\ Numbered(sc) /\ PartsFit(sc, tidy)
  BY <1>1, <1>3, RestingClient
<1>5. PICK output \in Seq(Rsp!OutputItems) : output = sc.output
  BY <1>2 DEF Converters
<1>6. PICK status \in Rsp!Statuses : status = "failed"
  BY DEF Rsp!Statuses
<1>7. PICK t \in Rsp!FinalTypes : t = "failed"
  BY DEF Rsp!FinalTypes
<1>8. PICK e : e = Rsp!Final(t, status, output)
  OBVIOUS
<1>9. Rsp!Legal(client, e)
  <2>1. e.type = "failed" /\ e.status = "failed"
    BY <1>6, <1>7, <1>8 DEF Rsp!Final
  <2> QED BY <1>4, <2>1 DEF Rsp!Legal
<1>10. PICK z \in Clients : z.phase = t /\ z.items = client.items /\ z.status = status
                            /\ Runs(client, <<e>>, z, tidy)
  BY <1>2, <1>4, <1>8, <1>9, FinalRuns
<1>11. e \in Rsp!Events
  BY <1>2, <1>4, <1>8, <1>9, FinalRuns
<1>12. PICK r : r = HandleError(sc)
  OBVIOUS
<1>13. PICK es : es = <<e>>
  OBVIOUS
<1>14. es \in Seq(Rsp!Events)
  BY <1>11, <1>13, OneEvent
<1>15. PICK q : q = [sc EXCEPT !.events = es]
  OBVIOUS
<1>16. q \in Converters
  BY <1>2, <1>14, <1>15 DEF Converters
<1>17. r = [q EXCEPT !.finalized = TRUE, !.status = status]
  <2>1. Append(sc.events, e) = es
    BY <1>2, <1>13
  <2>2. Emit(sc, e) = q
    BY <1>15, <2>1 DEF Emit
  <2> QED BY <1>5, <1>6, <1>7, <1>8, <1>12, <2>2 DEF HandleError
<1>18. Over(sc, r, status, output) /\ r.events = es
  <2>1. r \in Converters /\ r.finalized /\ r.status = status /\ r.events = es /\ r.output = q.output
    BY <1>15, <1>16, <1>17, <1>2 DEF Converters
  <2>2. q.output = output
    BY <1>2, <1>5, <1>15 DEF Converters
  <2> QED BY <1>2, <1>15, <1>16, <1>17, <2>1, <2>2 DEF Converters, Over, SameText, SameReasoning, SameCalls
<1>19. /\ r \in Converters /\ r.finalized /\ r.via = sc.via
       /\ SameText(sc, r) /\ SameReasoning(sc, r) /\ SameCalls(sc, r)
  BY <1>18 DEF Over
<1>20. Len(output) = Len(sc.output) /\ \A i \in 1 .. Len(sc.output) : output[i].id = sc.output[i].id
  BY <1>5
<1>21. Numbered(r)
  BY <1>2, <1>4, <1>18, <1>20, OverNumbered
<1>22. Told(r, sent)
  BY <1>2, <1>18, <1>20, OverTold
<1>23. Runs(client, r.events, z, tidy)
  BY <1>10, <1>13, <1>18
<1>24. Kept(r, z)
  <2>1. Len(z.items) = Len(client.items) /\ \A i \in 1 .. Len(client.items) : SameItem(client.items[i], z.items[i])
    BY <1>10 DEF SameItem
  <2>2. z.phase = "failed"
    BY <1>7, <1>10
  <2> QED BY <1>2, <1>4, <1>19, <2>1, <2>2, KeptBy
<1>25. Outcome(r, z, sent)
  BY <1>6, <1>7, <1>10 DEF Outcome
<1>26. Tidy' = tidy
  BY <1>1, <1>3, <1>12, <1>19 DEF Tidy, Repeats
<1> QED BY <1>1, <1>2, <1>12, <1>19, <1>21, <1>22, <1>23, <1>24, <1>25, <1>26, Finalizes

-----------------------------------------------------------------------------
(* Deliver: the client takes the next event, whatever it is.               *)

LEMMA GreatestNumber ==
  ASSUME NEW n \in Nat, NEW T \in SUBSET (1 .. n), T # {}
  PROVE  \E k \in T : \A i \in T : i <= k
<1>1. PICK S : S = {m \in Nat : n - m \in T}
  OBVIOUS
<1>2. S \in SUBSET Nat
  BY <1>1
<1>3. ASSUME NEW i \in T PROVE n - i \in S
  <2>1. i \in 1 .. n /\ n - i \in Nat /\ n - (n - i) = i
    OBVIOUS
  <2> QED BY <1>1, <2>1
<1>4. S # {}
  BY <1>3
<1>5. PICK m \in S : \A j \in S : m <= j
  BY <1>2, <1>4, LeastNumber
<1>6. m \in Nat /\ n - m \in T
  BY <1>1, <1>5
<1>7. ASSUME NEW i \in T PROVE i <= n - m
  <2>1. m <= n - i
    BY <1>3, <1>5
  <2>2. i \in 1 .. n
    OBVIOUS
  <2> QED BY <1>6, <2>1, <2>2
<1> QED BY <1>6, <1>7

(* The item an event is about, if there is one.                            *)
LEMMA Locates ==
  ASSUME NEW c \in Clients, NEW id, Rsp!Positions(c, id) # {}
  PROVE  \E k : LatestAt(c.items, id, k)
<1>1. PICK T : T = Rsp!Positions(c, id)
  OBVIOUS
<1>2. PICK n \in Nat : n = Len(c.items) /\ DOMAIN c.items = 1 .. n
  BY DEF Clients
<1>3. T \in SUBSET (1 .. n) /\ T # {}
  BY <1>1, <1>2 DEF Rsp!Positions
<1>4. PICK k \in T : \A i \in T : i <= k
  BY <1>3, GreatestNumber
<1>5. LatestAt(c.items, id, k)
  BY <1>1, <1>2, <1>4 DEF LatestAt, Rsp!Positions
<1> QED BY <1>5

TakenWell(c, e) == Rsp!Apply(c, e) \in Clients /\ Rsp!Apply(c, e).last = e

(* An event about no item leaves the items alone.                          *)
LEMMA Unplaced ==
  ASSUME NEW c \in Clients, NEW e \in Rsp!Events, NEW it, Rsp!Positions(c, e.id) = {}
  PROVE  /\ Rsp!Change([c EXCEPT !.last = e], e, it) \in Clients
         /\ Rsp!Change([c EXCEPT !.last = e], e, it).last = e
<1>1. PICK b : b = [c EXCEPT !.last = e]
  OBVIOUS
<1>2. b \in Clients /\ b.items = c.items /\ b.last = e
  BY <1>1 DEF Clients
<1>3. Rsp!Positions(b, e.id) = {}
  BY <1>2 DEF Rsp!Positions
<1>4. Rsp!Change(b, e, it) = b
  BY <1>3 DEF Rsp!Change
<1> QED BY <1>1, <1>2, <1>4

LEMMA AboutTyped ==
  ASSUME NEW c \in Clients, NEW e \in Rsp!Events,
         e.type \in {"part.added", "part.done", "delta", "item.done"}
  PROVE  TakenWell(c, e)
<1>1. CASE Rsp!Positions(c, e.id) = {}
  <2>1. \E it : Rsp!Apply(c, e) = Rsp!Change([c EXCEPT !.last = e], e, it)
    BY DEF Rsp!Apply, Rsp!FinalTypes
  <2> QED BY <1>1, <2>1, Unplaced DEF TakenWell
<1>2. CASE Rsp!Positions(c, e.id) # {}
  <2>1. PICK k : LatestAt(c.items, e.id, k)
    BY <1>2, Locates
  <2>2. \E items : Seen(c, e, Rsp!Apply(c, e), items)
    <3>1. CASE e.type = "part.added"
      BY <2>1, <3>1, PartAddedSeen
    <3>2. CASE e.type = "part.done"
      BY <2>1, <3>2, PartDoneSeen
    <3>3. CASE e.type = "delta"
      <4>1. e.fragment \in Fragments
        BY <3>3 DEF Rsp!Events, Rsp!FinalTypes
      <4> QED BY <2>1, <3>3, <4>1, DeltaSeen
    <3>4. CASE e.type = "item.done"
      BY <2>1, <3>4, ItemDoneSeen
    <3> QED BY <3>1, <3>2, <3>3, <3>4
  <2> QED BY <2>2 DEF Seen, TakenWell
<1> QED BY <1>1, <1>2

LEMMA EventTyped ==
  ASSUME NEW c \in Clients, NEW e \in Rsp!Events
  PROVE  Rsp!Apply(c, e) \in Clients /\ Rsp!Apply(c, e).last = e
<1>1. CASE e.type \in {"part.added", "part.done", "delta", "item.done"}
  BY <1>1, AboutTyped DEF TakenWell
<1>2. CASE e.type = "item.added"
  BY <1>2, AddedSeen DEF Seen
<1>3. CASE e.type = "content.done"
  BY <1>3, ContentDoneSeen DEF Seen
<1>4. CASE e.type \in {"created", "in_progress"}
  <2>1. PICK p \in {"created", "streaming"} :
           Rsp!Apply(c, e) = [[c EXCEPT !.last = e] EXCEPT !.phase = p]
    BY <1>4 DEF Rsp!Apply, Rsp!FinalTypes
  <2> QED BY <2>1 DEF Clients
<1>5. CASE e.type \in Rsp!FinalTypes
  <2>1. e \in [type : Rsp!FinalTypes, status : Rsp!Statuses, output : Seq(Rsp!OutputItems)]
    BY <1>5 DEF Rsp!Events, Rsp!FinalTypes
  <2>2. PICK t \in Rsp!FinalTypes, status \in Rsp!Statuses, output \in Seq(Rsp!OutputItems) :
           t = e.type /\ status = e.status /\ output = e.output
    BY <2>1
  <2>3. e = Rsp!Final(t, status, output)
    BY <2>1, <2>2 DEF Rsp!Final
  <2> QED BY <2>3, FinalSeen
<1>6. e.type \in {"created", "in_progress", "item.added", "item.done", "part.added", "part.done",
                  "delta", "content.done"} \cup Rsp!FinalTypes
  BY DEF Rsp!Events
<1> QED BY <1>1, <1>2, <1>3, <1>4, <1>5, <1>6

(* What the next event is, and what it does: also what ResponsesSpec asks. *)
LEMMA Delivered ==
  ASSUME IInv, Deliver
  PROVE  /\ client' \in Clients /\ (client').last \in Rsp!Events
         /\ client' = Rsp!Apply(client, (client').last)
         /\ client.phase \notin Rsp!FinalTypes
         /\ Tidy => Rsp!Legal(client, (client').last)
         /\ \A d : Runs(client, sc.events, d, Tidy) => Runs(client', Tail(sc.events), d, Tidy)
<1>1. /\ sc.events # <<>> /\ client' = Rsp!Apply(client, Head(sc.events))
  BY DEF Deliver, Idle
<1>2. sc.events \in Seq(Rsp!Events) /\ client \in Clients
  BY DEF IInv, Converters
<1>3. PICK e \in Rsp!Events : e = Head(sc.events)
  BY <1>1, <1>2
<1>4. Rsp!Apply(client, e) \in Clients /\ Rsp!Apply(client, e).last = e
  BY <1>2, EventTyped
<1>5. client' \in Clients /\ (client').last = e /\ client' = Rsp!Apply(client, e)
  BY <1>1, <1>3, <1>4
<1>6. PICK tidy \in BOOLEAN : tidy = Tidy
  BY TidyBoolean
<1>7. PICK d : Runs(client, sc.events, d, tidy)
  BY <1>6 DEF IInv
<1>8. client.phase \notin Rsp!FinalTypes /\ (tidy => Rsp!Legal(client, e))
  BY <1>1, <1>2, <1>3, <1>7, RunsFrom
<1>9. ASSUME NEW x, Runs(client, sc.events, x, Tidy)
      PROVE  Runs(client', Tail(sc.events), x, Tidy)
  <2>1. Runs(Rsp!Apply(client, Head(sc.events)), Tail(sc.events), x, tidy)
    BY <1>1, <1>2, <1>6, <1>9, RunsFrom
  <2> QED BY <1>1, <1>6, <2>1
<1> QED BY <1>5, <1>6, <1>8, <1>9

LEMMA DeliverStep ==
  ASSUME IInv, Deliver
  PROVE  IInv'
<1>1. sc.events # <<>> /\ sc' = [sc EXCEPT !.events = Tail(sc.events)] /\ sent' = sent
  BY DEF Deliver, Idle
<1>2. sc \in Converters /\ Numbered(sc) /\ Told(sc, sent) /\ sent \in Histories
  BY DEF IInv
<1>3. PICK es : es = Tail(sc.events)
  OBVIOUS
<1>4. es \in Seq(Rsp!Events)
  BY <1>1, <1>2, <1>3 DEF Converters
<1>5. PICK r : r = [sc EXCEPT !.events = es]
  OBVIOUS
<1>6. /\ r \in Converters /\ r.events = es /\ r.started = sc.started /\ r.finalized = sc.finalized
      /\ SameOutput(sc, r) /\ SameCalls(sc, r) /\ SameText(sc, r) /\ SameReasoning(sc, r)
      /\ r.responseId = sc.responseId /\ r.via = sc.via
      /\ r.status = sc.status /\ r.contentBlocks = sc.contentBlocks
  BY <1>2, <1>4, <1>5 DEF Converters, SameOutput, SameCalls, SameText, SameReasoning
<1>7. SameParts(sc, r)
  BY <1>6, PartsSame DEF SameText
<1>8. PICK tidy \in BOOLEAN : tidy = Tidy
  BY TidyBoolean
<1>9. PICK d \in Clients : Runs(client, sc.events, d, tidy) /\ Phased(sc, d, sent, tidy)
  BY <1>8 DEF IInv
<1>10. client' \in Clients /\ Runs(client', es, d, tidy)
  BY <1>3, <1>8, <1>9, Delivered
<1>11. Known(r) = Known(sc) /\ \A c \in Calls : ArgsOf(r, c) = ArgsOf(sc, c)
  BY <1>6 DEF SameCalls, Known, ArgsOf
<1>12. Phased(r, d, sent, tidy)
  <2>1. CASE sc.finalized
    <3>1. Kept(sc, d) /\ Outcome(r, d, sent)
      BY <1>6, <1>9, <2>1 DEF Phased, Outcome
    <3>2. \A c \in Known(sc) : r.toolCallByIndex[c] = sc.toolCallByIndex[c]
      BY <1>6 DEF SameCalls, Known
    <3>3. \A t \in Parted : Acc(r, t) = Acc(sc, t)
      BY <1>7 DEF SameParts
    <3>4. Kept(r, d)
      BY <1>11, <3>1, <3>2, <3>3 DEF Kept
    <3> QED BY <1>6, <2>1, <3>1, <3>4 DEF Phased
  <2>2. CASE ~ sc.finalized
    <3>1. /\ d.phase = IF sc.started THEN "streaming" ELSE "idle"
          /\ Mirrors(sc, d.items, tidy) /\ PartsFit(sc, tidy) /\ StatusFits(sc, sent)
      BY <1>9, <2>2 DEF Phased
    <3>2. Mirrors(r, d.items, tidy)
      BY <1>6, <1>7, <3>1, MirrorsAside
    <3>3. PartsFit(r, tidy) /\ StatusFits(r, sent)
      BY <1>6, <3>1 DEF PartsFit, StatusFits, SameText
    <3> QED BY <1>6, <2>2, <3>1, <3>2, <3>3 DEF Phased
  <2> QED BY <2>1, <2>2
<1>13. Told(r, sent)
  <2>1. Follows(r, sent)
    BY <1>2, <1>6, <1>11 DEF Told, Follows, SameText, SameReasoning
  <2>2. BlocksFollow(sc, sent) => BlocksFollow(r, sent)
    BY <1>6, <1>7, <1>11 DEF BlocksFollow, SameParts, SameOutput
  <2>3. sc.started
    BY <1>1, <1>2 DEF Told
  <2> QED BY <1>2, <1>6, <2>1, <2>2, <2>3 DEF Told
<1>14. Numbered(r)
  BY <1>2, <1>6, <1>7, NumberedAside
<1>15. sc' = r
  BY <1>1, <1>3, <1>5
<1>16. Tidy' = tidy
  BY <1>1, <1>6, <1>8, <1>15 DEF Tidy, Repeats
<1>17. Runs(client', (sc').events, d, Tidy') /\ Phased(sc', d, sent', Tidy')
  BY <1>1, <1>6, <1>10, <1>12, <1>15, <1>16
<1>18. sc' \in Converters /\ sent' \in Histories /\ Numbered(sc') /\ Told(sc', sent')
  BY <1>1, <1>2, <1>6, <1>13, <1>14, <1>15
<1> QED BY <1>10, <1>17, <1>18 DEF IInv

LEMMA Stutter ==
  ASSUME IInv, UNCHANGED vars
  PROVE  IInv'
<1>1. sc' = sc /\ client' = client /\ sent' = sent
  BY DEF vars
<1>2. Tidy' = Tidy
  BY <1>1 DEF Tidy, Repeats
<1>3. PICK d \in Clients : Runs(client, sc.events, d, Tidy) /\ Phased(sc, d, sent, Tidy)
  BY DEF IInv
<1>4. Runs(client', (sc').events, d, Tidy') /\ Phased(sc', d, sent', Tidy')
  BY <1>1, <1>2, <1>3
<1>5. /\ sc' \in Converters /\ client' \in Clients /\ sent' \in Histories
      /\ Numbered(sc') /\ Told(sc', sent')
  BY <1>1 DEF IInv
<1> QED BY <1>4, <1>5 DEF IInv

-----------------------------------------------------------------------------
(* The theorems.                                                           *)

LEMMA Invariance == Spec => []IInv
<1>1. Init => IInv
  BY Initially
<1>2. IInv /\ [Next]_vars => IInv'
  <2> SUFFICES ASSUME IInv, [Next]_vars
               PROVE  IInv'
    OBVIOUS
  <2>1. CASE Start
    BY <2>1, StartStep
  <2>2. CASE OpenAIChunk
    BY <2>2, OpenAIChunkStep
  <2>3. CASE MessageStart
    BY <2>3, MessageStartStep
  <2>4. CASE ContentBlockStart
    BY <2>4, ContentBlockStartStep
  <2>5. CASE ContentBlockDelta
    BY <2>5, ContentBlockDeltaStep
  <2>6. CASE ContentBlockStop
    BY <2>6, ContentBlockStopStep
  <2>7. CASE MessageDelta
    BY <2>7, MessageDeltaStep
  <2>8. CASE End
    BY <2>8, EndStep
  <2>9. CASE EmitError
    BY <2>9, EmitErrorStep
  <2>10. CASE Deliver
    BY <2>10, DeliverStep
  <2>11. CASE UNCHANGED vars
    BY <2>11, Stutter
  <2> QED BY <2>1, <2>2, <2>3, <2>4, <2>5, <2>6, <2>7, <2>8, <2>9, <2>10, <2>11 DEF Next
<1> QED BY <1>1, <1>2, PTL DEF Spec

(* The converter's items, indices and calls agree in number, each call is  *)
(* the item its index says, and what is emitted are events of the protocol.*)
THEOREM TypeCorrect == Spec => []TypeOK
<1>1. IInv => TypeOK
  <2> SUFFICES ASSUME IInv
               PROVE  TypeOK
    OBVIOUS
  <2>1. sc \in Converters /\ Numbered(sc)
    BY DEF IInv
  <2>2. /\ sc.via \in Upstreams /\ {sc.started, sc.finalized} \subseteq BOOLEAN
        /\ sc.responseId \in ResponseIds /\ sc.status \in Rsp!Statuses
    BY <2>1 DEF Converters
  <2>3. sc.itemIndex = Len(sc.output) - 1
    BY <2>1 DEF Numbered
  <2>4. {sc.textItemIx, sc.reasonItemIx} \subseteq -1 .. sc.itemIndex
    <3>1. Ix(sc, "message") <= sc.itemIndex /\ Ix(sc, "reasoning") <= sc.itemIndex
      BY <2>1 DEF Numbered, Parted
    <3>2. sc.textItemIx <= sc.itemIndex /\ sc.reasonItemIx <= sc.itemIndex
      BY <3>1 DEF Ix
    <3>3. /\ sc.textItemIx \in Nat \cup {-1} /\ sc.reasonItemIx \in Nat \cup {-1}
          /\ sc.itemIndex \in Nat \cup {-1}
      BY <2>1 DEF Converters
    <3> QED BY <3>2, <3>3
  <2>5. \A c \in Calls : sc.toolCallByIndex[c] # None =>
           sc.output[sc.toolCallByIndex[c].itemIx + 1].id = CallId(c)
    BY <2>1 DEF Numbered, Known
  <2>6. \A i \in DOMAIN sc.events : sc.events[i] \in Rsp!Events
    BY <2>1 DEF Converters
  <2> QED BY <2>2, <2>3, <2>4, <2>5, <2>6 DEF TypeOK
<1> QED BY <1>1, Invariance, PTL

(* However an upstream mixes text, reasoning and calls, and whichever of   *)
(* stream_responses.go and stream_anthropic.go converts it, the client gets*)
(* what the protocol allows, event for event, as long as the stream is     *)
(* tidy: the converters implement ResponsesSSE.                            *)
THEOREM LegalStream == Spec => ResponsesSpec
<1>1. Init => Rsp!Init
  BY DEF Init, Rsp!Init
<1>2. IInv /\ [Next]_vars => [Tidy => Rsp!Next]_client
  <2> SUFFICES ASSUME IInv, [Next]_vars, client' # client, Tidy
               PROVE  Rsp!Next
    OBVIOUS
  <2>1. Deliver
    BY DEF Next, vars, Start, OpenAIChunk, MessageStart, ContentBlockStart, ContentBlockDelta,
           ContentBlockStop, MessageDelta, End, EmitError
  <2>2. /\ (client').last \in Rsp!Events /\ client' = Rsp!Apply(client, (client').last)
        /\ Rsp!Legal(client, (client').last)
    BY <2>1, Delivered
  <2> QED BY <2>2 DEF Rsp!Next, Rsp!Accept
<1> QED BY <1>1, <1>2, Invariance, PTL DEF Spec, ResponsesSpec

(* With nothing pending the client is where the events lead.               *)
LEMMA Caught ==
  ASSUME IInv, Idle
  PROVE  Phased(sc, client, sent, Tidy)
<1>1. PICK d \in Clients : Runs(client, sc.events, d, Tidy) /\ Phased(sc, d, sent, Tidy)
  BY DEF IInv
<1>2. PICK tidy \in BOOLEAN : tidy = Tidy
  BY TidyBoolean
<1>3. Runs(client, <<>>, d, tidy)
  BY <1>1, <1>2 DEF Idle
<1>4. d = client
  BY <1>3, RunsNowhere
<1> QED BY <1>1, <1>4

(* Nothing is pending once the last event of a response has arrived.       *)
LEMMA AtTheEnd ==
  ASSUME IInv, client.phase \in Rsp!FinalTypes
  PROVE  Idle /\ sc.finalized
<1>1. PICK d \in Clients : Runs(client, sc.events, d, Tidy) /\ Phased(sc, d, sent, Tidy)
  BY DEF IInv
<1>2. PICK tidy \in BOOLEAN : tidy = Tidy
  BY TidyBoolean
<1>3. sc.events \in Seq(Rsp!Events)
  BY DEF IInv, Converters
<1>4. sc.events = <<>>
  BY <1>1, <1>2, <1>3, RunsFrom
<1>5. Phased(sc, client, sent, Tidy)
  BY <1>4, Caught DEF Idle
<1> QED BY <1>4, <1>5 DEF Idle, Phased, Rsp!FinalTypes

(* The status in the last event of a response is the one that belongs to   *)
(* what the upstream gave as its reason, however many chunks or blocks ago *)
(* (or to its giving none), and the event is response.incomplete exactly   *)
(* when the limit was the reason.                                          *)
THEOREM OutcomeArrives == Spec => []OutcomeReported
<1>1. IInv => OutcomeReported
  <2> SUFFICES ASSUME IInv, client.phase \in Rsp!FinalTypes
               PROVE  OutcomeReported
    BY DEF OutcomeReported, Ended, Rsp!FinalTypes
  <2>1. Outcome(sc, client, sent)
    BY AtTheEnd, Caught DEF Phased
  <2> QED BY <2>1 DEF Outcome, OutcomeReported, Ended
<1> QED BY <1>1, Invariance, PTL

(* What the client has, when nothing is pending.                           *)
LEMMA Arrived ==
  ASSUME IInv, Idle
  PROVE  /\ \A t \in Parted : Flat(client.items, t) = Acc(sc, t)
         /\ \A c \in Known(sc) : \E i \in DOMAIN client.items :
               /\ client.items[i].id = CallId(c) /\ client.items[i].content = sc.toolCallByIndex[c].args
               /\ Ended => client.items[i].done
<1>1. Phased(sc, client, sent, Tidy)
  BY Caught
<1>2. CASE sc.finalized
  <2>1. Kept(sc, client)
    BY <1>1, <1>2 DEF Phased
  <2> QED BY <2>1 DEF Kept, Ended
<1>3. CASE ~ sc.finalized
  <2>1. Mirrors(sc, client.items, Tidy) /\ ~ Ended
    BY <1>1, <1>3 DEF Phased, Ended
  <2>2. ASSUME NEW c \in Known(sc)
        PROVE  \E i \in DOMAIN client.items :
                  client.items[i].id = CallId(c) /\ client.items[i].content = sc.toolCallByIndex[c].args
    <3>1. PICK items \in Seq(Items) : items = client.items
      BY DEF IInv, Clients
    <3>2. PICK k : k = sc.toolCallByIndex[c].itemIx + 1
      OBVIOUS
    <3>3. sc \in Converters /\ Numbered(sc) /\ Mirrors(sc, items, Tidy)
      BY <2>1, <3>1 DEF IInv
    <3>4. k \in 1 .. Len(items) /\ items[k].id = CallId(c) /\ items[k].content = sc.toolCallByIndex[c].args
      BY <3>2, <3>3, CallLatest
    <3> QED BY <3>1, <3>4
  <2>3. \A t \in Parted : Flat(client.items, t) = Acc(sc, t)
    BY <2>1 DEF Mirrors
  <2> QED BY <2>1, <2>2, <2>3
<1> QED BY <1>2, <1>3

(* All of the text, of the reasoning and of the arguments of each call the *)
(* upstream sent is in the response the client has put together, in order  *)
(* and under the item it belongs to, for any number of chunks, blocks and  *)
(* calls; only a think block that spans two chunks mixes text and reasoning*)
(* (stream_responses.go:382).                                              *)
THEOREM ContentArrives == Spec => []ContentComplete
<1>1. IInv => ContentComplete
  <2> SUFFICES ASSUME IInv, Idle
               PROVE  ContentComplete
    BY DEF ContentComplete
  <2>1. Follows(sc, sent)
    BY DEF IInv, Told
  <2>2. \A t \in Parted : ContentOf(t) = Acc(sc, t)
    <3>1. ASSUME NEW t \in Parted PROVE ContentOf(t) = Flat(client.items, t)
      BY DEF ContentOf, Flat, ContentAs
    <3> QED BY <3>1, Arrived
  <2>3. ContentOf("message") = sc.accText /\ ContentOf("reasoning") = sc.accReasoning
    <3>1. "message" \in Parted /\ "reasoning" \in Parted
      BY DEF Parted
    <3> QED BY <2>2, <3>1 DEF Acc
  <2>4. ~ sent.split =>
           /\ ContentOf("message") = InOrder(sent.text, "text")
           /\ ContentOf("reasoning") = InOrder(sent.reasoning, "reasoning")
    BY <2>1, <2>3 DEF Follows
  <2>5. ASSUME NEW c \in sent.calls
        PROVE  \E i \in DOMAIN client.items :
                  /\ client.items[i].id = CallId(c)
                  /\ client.items[i].content = InOrder(sent.args[c], c)
                  /\ Ended => client.items[i].done
    <3>1. c \in Known(sc) /\ c \in Calls
      BY <2>1 DEF Follows, Known
    <3>2. sc.toolCallByIndex[c].args = InOrder(sent.args[c], c)
      BY <2>1, <3>1 DEF Follows, ArgsOf
    <3> QED BY <3>1, <3>2, Arrived
  <2> QED BY <2>4, <2>5 DEF ContentComplete
<1> QED BY <1>1, Invariance, PTL
=============================================================================
