-------------------------- MODULE GeminiStreamProofs --------------------------
(***************************************************************************)
(* Proofs about the converters of a Gemini stream: the client gets a legal *)
(* stream of its protocol with every part of every chunk in it, for any    *)
(* number of chunks and parts.                                             *)
(*                                                                         *)
(* As in StreamConverterProofs, what a handler leaves is judged by the     *)
(* client the pending events lead to: Runs says that they take the client  *)
(* from c to d.                                                            *)
(***************************************************************************)
EXTENDS GeminiStream, SequenceTheorems, WellFoundedInduction, TLAPS

Fragments == TextParts \cup CallParts
Kinds == {"text", "tool_use"}
KindOf(part) == IF IsText(part) THEN "text" ELSE "tool_use"

Blocks == [type : Kinds, tool : Names \cup {None}, content : Seq(Fragments), signed : {FALSE}]
NewBlock(t, tool) == [type |-> t, tool |-> tool, content |-> <<>>, signed |-> FALSE]

SseClients == [phase : {"idle", "streaming", "closing", "stopped", "failed"}, blocks : Seq(Blocks),
               open : Nat \cup {None}, reason : AnthropicReasons \cup {None},
               last : Sse!Events \cup {None}]

ChatClients == [phase : {"streaming", "finished", "failed", "done"}, content : Seq(TextParts),
                calls : [0 .. MaxParts -> Seq(CallParts)], reason : OpenAIReasons \cup {None},
                last : Chat!Events \cup {None}]

-----------------------------------------------------------------------------
(* Sequences.                                                              *)

(* Induction over the natural numbers, for a set: < is well-founded.        *)
Less == {p \in Nat \X Nat : p[1] < p[2]}

LEMMA LeastNumber ==
  ASSUME NEW T \in SUBSET Nat, T # {}
  PROVE  \E n \in T : \A m \in T : n <= m
<1>1. IsWellFoundedOn(Less, Nat)
  BY NatLessThanWellFounded DEF OpToRel, Less
<1>2. \E x \in T : \A y \in T : ~ (<<y, x>> \in Less)
  BY <1>1, WFMin
<1>3. PICK x \in T : \A y \in T : ~ (<<y, x>> \in Less)
  BY <1>2
<1>4. ASSUME NEW y \in T PROVE x <= y
  <2>1. <<y, x>> \in Nat \X Nat /\ <<y, x>>[1] = y /\ <<y, x>>[2] = x
    OBVIOUS
  <2>2. ~ (y < x)
    BY <1>3, <2>1 DEF Less
  <2> QED BY <2>2
<1> QED BY <1>4

LEMMA Induction ==
  ASSUME NEW T, 0 \in T, \A n \in Nat : n \in T => n + 1 \in T
  PROVE  Nat \subseteq T
<1>1. SUFFICES ASSUME Nat \ T # {} PROVE FALSE
  OBVIOUS
<1>2. PICK n \in Nat \ T : \A m \in Nat \ T : n <= m
  BY <1>1, LeastNumber
<1>3. n # 0 /\ n - 1 \in Nat
  BY <1>2
<1>4. n - 1 \in T
  BY <1>2, <1>3
<1> QED BY <1>2, <1>3, <1>4

Regroups(q, r, v) == (q \o r) \o v = q \o (r \o v)

LEMMA Regrouped ==
  ASSUME NEW X, NEW q \in Seq(X), NEW r \in Seq(X), NEW v \in Seq(X)
  PROVE  Regroups(q, r, v)
BY DEF Regroups

(* FlattenSeq, one element at a time.                                      *)
FlatSteps(s, k, f) == f = [i \in 1 .. k |-> IF i = 1 THEN s[i] ELSE f[i - 1] \o s[i]]

LEMMA FlatUnfolded ==
  ASSUME NEW s, Len(s) # 0
  PROVE  FlattenSeq(s) = (CHOOSE f : FlatSteps(s, Len(s), f))[Len(s)]
BY DEF FlattenSeq, FlatSteps

LEMMA FlatExists ==
  ASSUME NEW s, NEW k \in Nat
  PROVE  \E f : FlatSteps(s, k, f)
<1>1. PICK T : T = {n \in Nat : \E f : FlatSteps(s, n, f)}
  OBVIOUS
<1>2. 0 \in T
  <2>1. PICK f : f = [i \in 1 .. 0 |-> 0]
    OBVIOUS
  <2>2. FlatSteps(s, 0, f)
    BY <2>1 DEF FlatSteps
  <2> QED BY <1>1, <2>2
<1>3. ASSUME NEW n \in Nat, n \in T
      PROVE  n + 1 \in T
  <2>1. PICK f : FlatSteps(s, n, f)
    BY <1>1, <1>3
  <2>2. PICK g : g = [i \in 1 .. n + 1 |-> IF i \in 1 .. n THEN f[i]
                                           ELSE IF i = 1 THEN s[i] ELSE f[i - 1] \o s[i]]
    OBVIOUS
  <2>3. ASSUME NEW i \in 1 .. n + 1
        PROVE  g[i] = IF i = 1 THEN s[i] ELSE g[i - 1] \o s[i]
    <3>1. i # 1 => i - 1 \in 1 .. n /\ g[i - 1] = f[i - 1]
      BY <2>2
    <3>2. CASE i \in 1 .. n
      BY <2>1, <2>2, <3>1, <3>2 DEF FlatSteps
    <3>3. CASE i \notin 1 .. n
      BY <2>2, <3>1, <3>3
    <3> QED BY <3>2, <3>3
  <2>4. DOMAIN g = 1 .. n + 1
    BY <2>2
  <2>5. FlatSteps(s, n + 1, g)
    <3>1. g = [i \in 1 .. n + 1 |-> g[i]]
      BY <2>2
    <3>2. [i \in 1 .. n + 1 |-> g[i]] = [i \in 1 .. n + 1 |-> IF i = 1 THEN s[i] ELSE g[i - 1] \o s[i]]
      BY <2>3, Zenon
    <3> QED BY <3>1, <3>2, Zenon DEF FlatSteps
  <2> QED BY <1>1, <2>5
<1>4. Nat \subseteq T
  BY <1>2, <1>3, Induction
<1> QED BY <1>1, <1>4

LEMMA FlatStep ==
  ASSUME NEW s, NEW k \in Nat, NEW f, FlatSteps(s, k, f), NEW i \in 1 .. k
  PROVE  (i = 1 => f[i] = s[i]) /\ (i # 1 => f[i] = f[i - 1] \o s[i])
BY DEF FlatSteps

LEMMA FlattenEmpty == FlattenSeq(<<>>) = <<>>
BY DEF FlattenSeq

LEMMA FlattenSnoc ==
  ASSUME NEW X, NEW s \in Seq(Seq(X)), NEW x \in Seq(X)
  PROVE  FlattenSeq(s) \in Seq(X) /\ FlattenSeq(Append(s, x)) = FlattenSeq(s) \o x
<1>1. PICK n \in Nat : n = Len(s)
  OBVIOUS
<1>2. PICK t : t = Append(s, x)
  OBVIOUS
<1>3. t \in Seq(Seq(X)) /\ Len(t) = n + 1 /\ t[n + 1] = x /\ \A i \in 1 .. n : t[i] = s[i] /\ s[i] \in Seq(X)
  BY <1>1, <1>2
<1>4. PICK f : f = CHOOSE h : FlatSteps(s, n, h)
  OBVIOUS
<1>0. PICK m \in Nat : m = n + 1
  OBVIOUS
<1>5. PICK g : g = CHOOSE h : FlatSteps(t, m, h)
  OBVIOUS
<1>6. FlatSteps(s, n, f)
  BY <1>4, FlatExists
<1>7. FlatSteps(t, m, g)
  BY <1>5, FlatExists
<1>8. PICK T : T = {k \in Nat : k \in 1 .. n => f[k] \in Seq(X) /\ g[k] = f[k]}
  OBVIOUS
<1>9. 0 \in T
  BY <1>8
<1>10. ASSUME NEW k \in Nat, k \in T
       PROVE  k + 1 \in T
  <2>1. SUFFICES ASSUME k + 1 \in 1 .. n
                 PROVE  f[k + 1] \in Seq(X) /\ g[k + 1] = f[k + 1]
    BY <1>8
  <2>3. PICK j \in Nat : j = k + 1
    OBVIOUS
  <2>7. j \in 1 .. n /\ j \in 1 .. m /\ j - 1 = k
    BY <1>0, <2>1, <2>3
  <2>2. (j = 1 => f[j] = s[j]) /\ (j # 1 => f[j] = f[j - 1] \o s[j])
    BY <1>6, <2>7, FlatStep, ZenonT(30)
  <2>6. (j = 1 => g[j] = t[j]) /\ (j # 1 => g[j] = g[j - 1] \o t[j])
    BY <1>7, <2>7, FlatStep, ZenonT(30)
  <2>4. CASE k = 0
    BY <1>3, <2>1, <2>2, <2>3, <2>4, <2>6
  <2>5. CASE k # 0
    <3>1. f[k] \in Seq(X) /\ g[k] = f[k]
      BY <1>8, <1>10, <2>1, <2>5
    <3>2. f[j] = f[j - 1] \o s[j] /\ g[j] = g[j - 1] \o t[j]
      <4>1. j # 1
        BY <2>3, <2>5
      <4> QED BY <2>2, <2>6, <4>1
    <3>3. t[j] = s[j] /\ s[j] \in Seq(X)
      BY <1>3, <2>7
    <3>4. f[j] \in Seq(X) /\ g[j] = f[j]
      <4>1. f[j - 1] \in Seq(X) /\ g[j - 1] = f[j - 1]
        BY <2>7, <3>1
      <4>2. f[j - 1] \o s[j] \in Seq(X)
        BY <3>3, <4>1
      <4>3. g[j - 1] \o t[j] = f[j - 1] \o s[j]
        BY <3>3, <4>1
      <4> QED BY <3>2, <4>2, <4>3
    <3> QED BY <2>3, <3>4
  <2> QED BY <2>4, <2>5
<1>11. Nat \subseteq T
  BY <1>9, <1>10, Induction
<1>12. FlattenSeq(t) = g[n + 1]
  <2>1. Len(t) = m /\ m # 0
    BY <1>0, <1>3
  <2> QED BY <1>0, <1>5, <2>1, FlatUnfolded
<1>13. (n = 0 => g[n + 1] = x) /\ (n # 0 => g[n + 1] = g[n] \o x)
  <2>1. m \in 1 .. m /\ m - 1 = n
    BY <1>0
  <2>2. (m = 1 => g[m] = t[m]) /\ (m # 1 => g[m] = g[m - 1] \o t[m])
    BY <1>7, <2>1, FlatStep
  <2> QED BY <1>0, <1>3, <2>1, <2>2
<1>14. CASE n = 0
  <2>1. s = <<>> /\ FlattenSeq(s) = <<>>
    BY <1>1, <1>14, FlattenEmpty, EmptySeq
  <2>2. <<>> \o x = x /\ <<>> \in Seq(X)
    OBVIOUS
  <2> QED BY <1>2, <1>12, <1>13, <1>14, <2>1, <2>2
<1>15. CASE n # 0
  <2>1. FlattenSeq(s) = f[n]
    BY <1>1, <1>4, <1>15, FlatUnfolded
  <2>2. n \in 1 .. n
    BY <1>15
  <2>3. f[n] \in Seq(X) /\ g[n] = f[n]
    BY <1>8, <1>11, <2>2
  <2> QED BY <1>2, <1>12, <1>13, <1>15, <2>1, <2>3
<1> QED BY <1>14, <1>15

(* What the properties say of parts and blocks, one of them at a time.     *)
Adjacent(parts) == \E i \in 2 .. Len(parts) : ~ IsText(parts[i - 1]) /\ ~ IsText(parts[i])
AsBlocks(parts) == [i \in DOMAIN parts |-> AsBlock(parts[i])]
PartsOf(blocks) == FlattenSeq([i \in DOMAIN blocks |-> PartsIn(blocks[i])])

Units == Fragments \cup [tool : Names \cup {None}, content : Seq(Fragments)]

LEMMA PartKinds ==
  ASSUME NEW part \in Fragments
  PROVE  /\ IsText(part) => part \in TextParts
         /\ ~ IsText(part) => part \in CallParts /\ part.name \in Names /\ part.args \in BOOLEAN
         /\ AsBlock(part) \in Units
<1>1. CASE part \in TextParts
  <2>1. DOMAIN part = {"n"}
    BY <1>1 DEF TextParts
  <2>2. IsText(part)
    BY <2>1 DEF IsText
  <2> QED BY <1>1, <2>2 DEF AsBlock, Units, Fragments
<1>2. CASE part \in CallParts
  <2>1. DOMAIN part = {"n", "name", "args"} /\ part.name \in Names /\ part.args \in BOOLEAN
    BY <1>2 DEF CallParts
  <2>2. ~ IsText(part)
    BY <2>1 DEF IsText
  <2>3. PICK content : content = IF part.args THEN <<part>> ELSE <<>>
    OBVIOUS
  <2>4. content \in Seq(Fragments)
    BY <2>3
  <2>5. AsBlock(part) = [tool |-> part.name, content |-> content]
    BY <2>2, <2>3 DEF AsBlock
  <2>6. AsBlock(part) \in Units
    BY <2>1, <2>4, <2>5 DEF Units
  <2> QED BY <1>2, <2>1, <2>2, <2>6
<1> QED BY <1>1, <1>2 DEF Fragments

LEMMA UnitsIn ==
  ASSUME NEW b \in Blocks
  PROVE  PartsIn(b) \in Seq(Units)
<1>1. b.content \in Seq(Fragments) /\ b.tool \in Names \cup {None}
  BY DEF Blocks
<1>2. b.content \in Seq(Units)
  BY <1>1 DEF Units
<1>3. <<[tool |-> b.tool, content |-> b.content]>> \in Seq(Units)
  BY <1>1 DEF Units
<1> QED BY <1>2, <1>3 DEF PartsIn

TextOf(b) == IF b.type = "text" THEN b.content ELSE <<>>

LEMMA TextTyped ==
  ASSUME NEW b \in Blocks
  PROVE  TextOf(b) \in Seq(Fragments)
<1>1. b.content \in Seq(Fragments)
  BY DEF Blocks
<1>2. <<>> \in Seq(Fragments)
  OBVIOUS
<1> QED BY <1>1, <1>2 DEF TextOf

LEMMA TextInSnoc ==
  ASSUME NEW bs \in Seq(Blocks), NEW b \in Blocks
  PROVE  /\ TextIn(bs) \in Seq(Fragments)
         /\ TextIn(Append(bs, b)) = TextIn(bs) \o TextOf(b)
<1>1. PICK xs : xs = [i \in DOMAIN bs |-> TextOf(bs[i])]
  OBVIOUS
<1>2. xs \in Seq(Seq(Fragments))
  <2>1. \A i \in DOMAIN bs : TextOf(bs[i]) \in Seq(Fragments)
    BY TextTyped
  <2> QED BY <1>1, <2>1
<1>3. PICK x : x = TextOf(b)
  OBVIOUS
<1>4. x \in Seq(Fragments)
  BY <1>3, TextTyped
<1>5. PICK cs : cs = Append(bs, b)
  OBVIOUS
<1>6. PICK ys : ys = [i \in DOMAIN cs |-> TextOf(cs[i])]
  OBVIOUS
<1>7. ys = Append(xs, x)
  BY <1>1, <1>3, <1>5, <1>6
<1>8. FlattenSeq(xs) \in Seq(Fragments) /\ FlattenSeq(Append(xs, x)) = FlattenSeq(xs) \o x
  BY <1>2, <1>4, FlattenSnoc
<1>9. TextIn(bs) = FlattenSeq(xs) /\ TextIn(cs) = FlattenSeq(ys)
  BY <1>1, <1>6 DEF TextIn, TextOf
<1> QED BY <1>3, <1>5, <1>7, <1>8, <1>9

LEMMA PartsOfSnoc ==
  ASSUME NEW bs \in Seq(Blocks), NEW b \in Blocks
  PROVE  /\ PartsOf(bs) \in Seq(Units)
         /\ PartsOf(Append(bs, b)) = PartsOf(bs) \o PartsIn(b)
<1>1. PICK xs : xs = [i \in DOMAIN bs |-> PartsIn(bs[i])]
  OBVIOUS
<1>2. xs \in Seq(Seq(Units))
  <2>1. \A i \in DOMAIN bs : PartsIn(bs[i]) \in Seq(Units)
    BY UnitsIn
  <2> QED BY <1>1, <2>1
<1>3. PICK x : x = PartsIn(b)
  OBVIOUS
<1>4. x \in Seq(Units)
  BY <1>3, UnitsIn
<1>5. PICK cs : cs = Append(bs, b)
  OBVIOUS
<1>6. PICK ys : ys = [i \in DOMAIN cs |-> PartsIn(cs[i])]
  OBVIOUS
<1>7. ys = Append(xs, x)
  BY <1>1, <1>3, <1>5, <1>6
<1>8. FlattenSeq(xs) \in Seq(Units) /\ FlattenSeq(Append(xs, x)) = FlattenSeq(xs) \o x
  BY <1>2, <1>4, FlattenSnoc
<1>9. PartsOf(bs) = FlattenSeq(xs) /\ PartsOf(cs) = FlattenSeq(ys)
  BY <1>1, <1>6 DEF PartsOf
<1> QED BY <1>3, <1>5, <1>7, <1>8, <1>9

OnlyText(part) == IF IsText(part) THEN <<part>> ELSE <<>>
OnlyCall(part) == IF IsText(part) THEN <<>> ELSE <<part>>

LEMMA PartsSnoc ==
  ASSUME NEW ps \in Seq(Fragments), NEW p \in Fragments
  PROVE  /\ TextsOf(ps) \in Seq(Fragments) /\ CallsOf(ps) \in Seq(Fragments)
         /\ TextsOf(Append(ps, p)) = TextsOf(ps) \o OnlyText(p)
         /\ CallsOf(Append(ps, p)) = CallsOf(ps) \o OnlyCall(p)
<1>1. PICK xs : xs = [i \in DOMAIN ps |-> OnlyText(ps[i])]
  OBVIOUS
<1>2. PICK ys : ys = [i \in DOMAIN ps |-> OnlyCall(ps[i])]
  OBVIOUS
<1>a. \A q \in Fragments : OnlyText(q) \in Seq(Fragments) /\ OnlyCall(q) \in Seq(Fragments)
  <2>1. <<>> \in Seq(Fragments) /\ \A q \in Fragments : <<q>> \in Seq(Fragments)
    OBVIOUS
  <2> QED BY <2>1 DEF OnlyText, OnlyCall
<1>3. xs \in Seq(Seq(Fragments)) /\ ys \in Seq(Seq(Fragments))
  <2>1. \A i \in DOMAIN ps : OnlyText(ps[i]) \in Seq(Fragments) /\ OnlyCall(ps[i]) \in Seq(Fragments)
    BY <1>a
  <2>2. xs \in Seq(Seq(Fragments))
    BY <1>1, <2>1
  <2>3. ys \in Seq(Seq(Fragments))
    BY <1>2, <2>1
  <2> QED BY <2>2, <2>3
<1>4. PICK x : x = OnlyText(p)
  OBVIOUS
<1>5. PICK y : y = OnlyCall(p)
  OBVIOUS
<1>6. x \in Seq(Fragments) /\ y \in Seq(Fragments)
  BY <1>4, <1>5, <1>a
<1>7. PICK qs : qs = Append(ps, p)
  OBVIOUS
<1>8. /\ [i \in DOMAIN qs |-> OnlyText(qs[i])] = Append(xs, x)
      /\ [i \in DOMAIN qs |-> OnlyCall(qs[i])] = Append(ys, y)
  BY <1>1, <1>2, <1>4, <1>5, <1>7
<1>9. FlattenSeq(xs) \in Seq(Fragments) /\ FlattenSeq(Append(xs, x)) = FlattenSeq(xs) \o x
  BY <1>3, <1>6, FlattenSnoc
<1>10. FlattenSeq(ys) \in Seq(Fragments) /\ FlattenSeq(Append(ys, y)) = FlattenSeq(ys) \o y
  BY <1>3, <1>6, FlattenSnoc
<1>11. TextsOf(ps) = FlattenSeq(xs) /\ CallsOf(ps) = FlattenSeq(ys)
  BY <1>1, <1>2 DEF TextsOf, CallsOf, OnlyText, OnlyCall
<1>12. TextsOf(qs) = FlattenSeq(Append(xs, x)) /\ CallsOf(qs) = FlattenSeq(Append(ys, y))
  BY <1>8 DEF TextsOf, CallsOf, OnlyText, OnlyCall
<1> QED BY <1>4, <1>5, <1>7, <1>9, <1>10, <1>11, <1>12

LEMMA NoParts ==
  /\ TextsOf(<<>>) = <<>> /\ CallsOf(<<>>) = <<>> /\ AsBlocks(<<>>) = <<>>
  /\ TextIn(<<>>) = <<>> /\ PartsOf(<<>>) = <<>> /\ ~ Adjacent(<<>>)
<1>1. AsBlocks(<<>>) = <<>> /\ ~ Adjacent(<<>>)
  BY DEF AsBlocks, Adjacent
<1>2. /\ [i \in DOMAIN <<>> |-> IF IsText(<<>>[i]) THEN <<<<>>[i]>> ELSE <<>>] = <<>>
      /\ [i \in DOMAIN <<>> |-> IF IsText(<<>>[i]) THEN <<>> ELSE <<<<>>[i]>>] = <<>>
      /\ [i \in DOMAIN <<>> |-> IF <<>>[i].type = "text" THEN <<>>[i].content ELSE <<>>] = <<>>
      /\ [i \in DOMAIN <<>> |-> PartsIn(<<>>[i])] = <<>>
  OBVIOUS
<1> QED BY <1>1, <1>2, FlattenEmpty DEF TextsOf, CallsOf, TextIn, PartsOf

LEMMA BlocksSnoc ==
  ASSUME NEW ps \in Seq(Fragments), NEW p \in Fragments
  PROVE  /\ AsBlocks(ps) \in Seq(Units)
         /\ AsBlocks(Append(ps, p)) = AsBlocks(ps) \o <<AsBlock(p)>>
         /\ Adjacent(ps) => Adjacent(Append(ps, p))
         /\ Len(ps) > 0 /\ ~ IsText(ps[Len(ps)]) /\ ~ IsText(p) => Adjacent(Append(ps, p))
<1>1. \A q \in Fragments : AsBlock(q) \in Units
  BY PartKinds
<1>2. AsBlocks(ps) \in Seq(Units)
  BY <1>1 DEF AsBlocks
<1>3. AsBlocks(Append(ps, p)) = AsBlocks(ps) \o <<AsBlock(p)>>
  BY <1>1 DEF AsBlocks
<1>4. PICK qs : qs = Append(ps, p)
  OBVIOUS
<1>5. Len(qs) = Len(ps) + 1 /\ qs[Len(ps) + 1] = p /\ \A i \in 1 .. Len(ps) : qs[i] = ps[i]
  BY <1>4
<1>6. Adjacent(ps) => Adjacent(qs)
  <2>1. SUFFICES ASSUME NEW i \in 2 .. Len(ps), ~ IsText(ps[i - 1]), ~ IsText(ps[i])
                 PROVE  Adjacent(qs)
    BY DEF Adjacent
  <2>2. i \in 2 .. Len(qs) /\ qs[i - 1] = ps[i - 1] /\ qs[i] = ps[i]
    BY <1>5
  <2> QED BY <2>1, <2>2 DEF Adjacent
<1>7. Len(ps) > 0 /\ ~ IsText(ps[Len(ps)]) /\ ~ IsText(p) => Adjacent(qs)
  <2>1. SUFFICES ASSUME Len(ps) > 0, ~ IsText(ps[Len(ps)]), ~ IsText(p)
                 PROVE  Adjacent(qs)
    OBVIOUS
  <2>2. PICK i \in Nat : i = Len(ps) + 1
    OBVIOUS
  <2>3. i \in 2 .. Len(qs) /\ qs[i - 1] = ps[Len(ps)] /\ qs[i] = p
    BY <1>5, <2>1, <2>2
  <2> QED BY <2>1, <2>3 DEF Adjacent
<1> QED BY <1>2, <1>3, <1>4, <1>6, <1>7

(* A change of the last element.                                           *)
LEMMA LastChanged ==
  ASSUME NEW X, NEW s \in Seq(X), NEW n, n = Len(s), n > 0, NEW x \in X
  PROVE  \E f \in Seq(X) : s = Append(f, s[n]) /\ [s EXCEPT ![n] = x] = Append(f, x)
<1>1. PICK f : f = SubSeq(s, 1, n - 1)
  OBVIOUS
<1>2. f \in Seq(X) /\ Len(f) = n - 1 /\ \A i \in 1 .. n - 1 : f[i] = s[i]
  BY <1>1
<1>3. s = Append(f, s[n])
  <2>1. Append(f, s[n]) \in Seq(X) /\ Len(Append(f, s[n])) = Len(s)
    BY <1>2
  <2>2. \A i \in 1 .. Len(s) : Append(f, s[n])[i] = s[i]
    BY <1>2
  <2> QED BY <2>1, <2>2, SeqEqual
<1>4. PICK t : t = [s EXCEPT ![n] = x]
  OBVIOUS
<1>5. t \in Seq(X) /\ Len(t) = n /\ t[n] = x /\ \A i \in 1 .. n - 1 : t[i] = s[i]
  BY <1>4
<1>6. t = Append(f, x)
  <2>1. Append(f, x) \in Seq(X) /\ Len(Append(f, x)) = Len(t)
    BY <1>2, <1>5
  <2>2. \A i \in 1 .. Len(t) : t[i] = Append(f, x)[i]
    BY <1>2, <1>5
  <2> QED BY <1>5, <2>1, <2>2, SeqEqual
<1> QED BY <1>2, <1>3, <1>4, <1>6

-----------------------------------------------------------------------------
(* What an Anthropic client has of the parts ps, in its blocks bs.         *)
BlocksHold(bs, ps) ==
    /\ TextIn(bs) = TextsOf(ps)
    /\ ~ Adjacent(ps) => PartsOf(bs) = AsBlocks(ps)

LEMMA NothingHeld == BlocksHold(<<>>, <<>>)
BY NoParts DEF BlocksHold

(* Another block, still empty: no difference when it is for text.          *)
LEMMA TextOpened ==
  ASSUME NEW bs \in Seq(Blocks), NEW ps, BlocksHold(bs, ps)
  PROVE  BlocksHold(Append(bs, NewBlock("text", None)), ps)
<1>1. PICK b : b = NewBlock("text", None)
  OBVIOUS
<1>2. <<>> \in Seq(Fragments)
  OBVIOUS
<1>3. b \in Blocks /\ b.content = <<>> /\ b.type = "text"
  BY <1>1, <1>2 DEF NewBlock, Blocks, Kinds
<1>4. TextOf(b) = <<>> /\ PartsIn(b) = <<>>
  BY <1>3 DEF TextOf, PartsIn
<1>5. /\ TextIn(bs) \in Seq(Fragments) /\ TextIn(Append(bs, b)) = TextIn(bs) \o <<>>
      /\ PartsOf(bs) \in Seq(Units) /\ PartsOf(Append(bs, b)) = PartsOf(bs) \o <<>>
  BY <1>3, <1>4, TextInSnoc, PartsOfSnoc
<1>6. TextIn(Append(bs, b)) = TextIn(bs) /\ PartsOf(Append(bs, b)) = PartsOf(bs)
  BY <1>5
<1> QED BY <1>1, <1>6 DEF BlocksHold

(* A piece of text more in the last block.                                 *)
LEMMA TextAdded ==
  ASSUME NEW f \in Seq(Blocks), NEW b \in Blocks, NEW g \in Blocks, NEW ps \in Seq(Fragments), NEW p \in Fragments,
         IsText(p), b.type = "text", g.type = "text", g.content = Append(b.content, p),
         BlocksHold(Append(f, b), ps)
  PROVE  BlocksHold(Append(f, g), Append(ps, p))
<1>1. b.content \in Seq(Fragments)
  BY DEF Blocks
<1>0. PICK one : one = <<p>>
  OBVIOUS
<1>2. g.content = b.content \o one
  BY <1>0, <1>1, AppendIsConcat, Zenon
<1>a. one \in Seq(Fragments)
  BY <1>0
<1>3. TextOf(b) = b.content /\ TextOf(g) = g.content /\ PartsIn(b) = b.content /\ PartsIn(g) = g.content
  BY DEF TextOf, PartsIn
<1>4. PICK x \in Seq(Fragments) : x = TextIn(f)
  BY TextInSnoc
<1>5. TextIn(Append(f, b)) = x \o b.content /\ TextIn(Append(f, g)) = x \o (b.content \o one)
  BY <1>2, <1>3, <1>4, TextInSnoc
<1>6. x \o (b.content \o one) = (x \o b.content) \o one
  <2>1. PICK c \in Seq(Fragments) : c = b.content
    BY <1>1
  <2>2. PICK e \in Seq(Fragments) : e = one
    BY <1>a
  <2>3. x \o (c \o e) = (x \o c) \o e
    <3>1. Regroups(x, c, e)
      BY Regrouped
    <3> QED BY <3>1, Zenon DEF Regroups
  <2> QED BY <2>1, <2>2, <2>3
<1>7. PICK u \in Seq(Units) : u = PartsOf(f)
  BY PartsOfSnoc
<1>8. PartsOf(Append(f, b)) = u \o b.content /\ PartsOf(Append(f, g)) = u \o (b.content \o one)
  BY <1>2, <1>3, <1>7, PartsOfSnoc
<1>9. b.content \in Seq(Units) /\ one \in Seq(Units)
  BY <1>0, <1>1 DEF Units
<1>10. u \o (b.content \o one) = (u \o b.content) \o one
  <2>1. PICK c \in Seq(Units) : c = b.content
    BY <1>9
  <2>2. PICK e \in Seq(Units) : e = one
    BY <1>9
  <2>3. u \o (c \o e) = (u \o c) \o e
    <3>1. Regroups(u, c, e)
      BY Regrouped
    <3> QED BY <3>1, Zenon DEF Regroups
  <2> QED BY <2>1, <2>2, <2>3
<1>11. TextsOf(Append(ps, p)) = TextsOf(ps) \o one
  BY <1>0, PartsSnoc DEF OnlyText
<1>12. AsBlocks(Append(ps, p)) = AsBlocks(ps) \o one /\ (Adjacent(ps) => Adjacent(Append(ps, p)))
  BY <1>0, BlocksSnoc DEF AsBlock
<1> QED BY <1>5, <1>6, <1>8, <1>10, <1>11, <1>12 DEF BlocksHold

(* Another block, with a call in it.                                       *)
LEMMA CallOpened ==
  ASSUME NEW bs \in Seq(Blocks), NEW b \in Blocks, NEW ps \in Seq(Fragments), NEW p \in Fragments,
         ~ IsText(p), b.type = "tool_use", b.tool = p.name, b.content = IF p.args THEN <<p>> ELSE <<>>,
         BlocksHold(bs, ps)
  PROVE  BlocksHold(Append(bs, b), Append(ps, p))
<1>1. TextOf(b) = <<>> /\ PartsIn(b) = <<AsBlock(p)>>
  BY DEF TextOf, PartsIn, AsBlock
<1>2. /\ TextIn(bs) \in Seq(Fragments) /\ TextIn(Append(bs, b)) = TextIn(bs) \o <<>>
      /\ PartsOf(Append(bs, b)) = PartsOf(bs) \o <<AsBlock(p)>>
  BY <1>1, TextInSnoc, PartsOfSnoc
<1>3. TextIn(Append(bs, b)) = TextIn(bs)
  BY <1>2
<1>4. TextsOf(Append(ps, p)) = TextsOf(ps)
  <2>1. TextsOf(ps) \in Seq(Fragments) /\ TextsOf(Append(ps, p)) = TextsOf(ps) \o <<>>
    BY PartsSnoc DEF OnlyText
  <2> QED BY <2>1
<1>5. AsBlocks(Append(ps, p)) = AsBlocks(ps) \o <<AsBlock(p)>> /\ (Adjacent(ps) => Adjacent(Append(ps, p)))
  BY BlocksSnoc
<1> QED BY <1>2, <1>3, <1>4, <1>5 DEF BlocksHold

(* A call in the block of the one before it, which keeps its name.         *)
LEMMA CallMerged ==
  ASSUME NEW f \in Seq(Blocks), NEW b \in Blocks, NEW g \in Blocks, NEW ps \in Seq(Fragments), NEW p \in Fragments,
         ~ IsText(p), b.type = "tool_use", g.type = "tool_use",
         Len(ps) > 0, ~ IsText(ps[Len(ps)]), BlocksHold(Append(f, b), ps)
  PROVE  BlocksHold(Append(f, g), Append(ps, p))
<1>1. TextOf(b) = <<>> /\ TextOf(g) = <<>>
  BY DEF TextOf
<1>2. TextIn(Append(f, g)) = TextIn(Append(f, b))
  BY <1>1, TextInSnoc
<1>3. TextsOf(Append(ps, p)) = TextsOf(ps)
  <2>1. TextsOf(ps) \in Seq(Fragments) /\ TextsOf(Append(ps, p)) = TextsOf(ps) \o <<>>
    BY PartsSnoc DEF OnlyText
  <2> QED BY <2>1
<1>4. Adjacent(Append(ps, p))
  BY BlocksSnoc
<1> QED BY <1>2, <1>3, <1>4 DEF BlocksHold

-----------------------------------------------------------------------------
(* The mode of a client: its protocol, the phases in which anything may    *)
(* come (those in which the stream is not tidy), and the reason it may be  *)
(* told.                                                                   *)
Phases == {"idle", "streaming", "closing", "stopped", "failed", "finished", "done"}
Told(s) == IF Anthropic(s) THEN MapFinishToAnthropic(s.finishReason) ELSE MapFinishToOpenAI(s.finishReason)

Free(s, u) ==
    IF IF Anthropic(s) THEN s.finalized /\ u.parts = <<>> ELSE u.withCalls > 1 THEN Phases
    ELSE IF u.blocked THEN {"failed"} ELSE {}

Mode(s, u) == [target |-> s.target, free |-> Free(s, u), told |-> Told(s)]

ClientsOf(target) == IF target = "anthropic" THEN SseClients ELSE ChatClients
EventsOf(target) == IF target = "anthropic" THEN Sse!Events ELSE Chat!Events

(* The event e takes the client from c to d, and is one it may get.        *)
Took(m, c, e, d) ==
    /\ e \in EventsOf(m.target) /\ d \in ClientsOf(m.target)
    /\ d.last = e /\ d.reason \in {None, m.told}
    /\ d = IF m.target = "anthropic" THEN Sse!Apply(c, e) ELSE Chat!Apply(c, e)
    /\ c.phase \notin m.free => IF m.target = "anthropic" THEN Sse!Legal(c, e) ELSE Chat!Legal(c, e)

(* The pending events es take the client from c to d.                      *)
Runs(m, c, es, d) ==
    \E p : /\ p[1] = c /\ p[Len(es) + 1] = d
           /\ \A i \in 1 .. Len(es) : Took(m, p[i], es[i], p[i + 1])

LEMMA RunsNothing ==
  ASSUME NEW m, NEW c
  PROVE  Runs(m, c, <<>>, c)
<1>1. PICK p : p = [i \in {1} |-> c]
  OBVIOUS
<1> QED BY <1>1 DEF Runs

LEMMA RunsNowhere ==
  ASSUME NEW m, NEW c, NEW d, Runs(m, c, <<>>, d)
  PROVE  d = c
BY DEF Runs

LEMMA RunsOn ==
  ASSUME NEW m, NEW c, NEW d, NEW e, NEW x, NEW E, NEW es \in Seq(E), Runs(m, c, es, d), Took(m, d, e, x)
  PROVE  Runs(m, c, Append(es, e), x)
<1>1. PICK p : /\ p[1] = c /\ p[Len(es) + 1] = d
               /\ \A i \in 1 .. Len(es) : Took(m, p[i], es[i], p[i + 1])
  BY DEF Runs
<1>2. PICK n \in Nat : n = Len(es)
  OBVIOUS
<1>3. PICK q : q = [i \in 1 .. n + 2 |-> IF i = n + 2 THEN x ELSE p[i]]
  OBVIOUS
<1>4. PICK fs : fs = Append(es, e)
  OBVIOUS
<1>5. Len(fs) = n + 1 /\ fs[n + 1] = e /\ \A i \in 1 .. n : fs[i] = es[i]
  BY <1>2, <1>4
<1>6. q[1] = c /\ q[n + 2] = x /\ q[n + 1] = d
  BY <1>1, <1>2, <1>3
<1>7. ASSUME NEW i \in 1 .. n + 1
      PROVE  Took(m, q[i], fs[i], q[i + 1])
  <2>1. CASE i = n + 1
    BY <1>5, <1>6, <2>1
  <2>2. CASE i \in 1 .. n
    <3>1. q[i] = p[i] /\ q[i + 1] = p[i + 1] /\ fs[i] = es[i]
      BY <1>3, <1>5, <2>2
    <3> QED BY <1>1, <1>2, <2>2, <3>1
  <2> QED BY <2>1, <2>2
<1>8. q[Len(fs) + 1] = x
  BY <1>5, <1>6
<1>9. Runs(m, c, fs, x)
  BY <1>5, <1>6, <1>7, <1>8 DEF Runs
<1> QED BY <1>4, <1>9

LEMMA RunsFrom ==
  ASSUME NEW m, NEW c, NEW d, NEW E, NEW es \in Seq(E), es # <<>>, Runs(m, c, es, d)
  PROVE  \E x : Took(m, c, Head(es), x) /\ Runs(m, x, Tail(es), d)
<1>1. PICK p : /\ p[1] = c /\ p[Len(es) + 1] = d
               /\ \A i \in 1 .. Len(es) : Took(m, p[i], es[i], p[i + 1])
  BY DEF Runs
<1>2. PICK n \in Nat : Len(es) = n + 1
  <2>1. Len(es) \in Nat /\ Len(es) > 0
    OBVIOUS
  <2> QED BY <2>1
<1>3. PICK fs : fs = Tail(es)
  OBVIOUS
<1>4. Len(fs) = n /\ (\A i \in 1 .. n : fs[i] = es[i + 1]) /\ Head(es) = es[1]
  BY <1>2, <1>3
<1>5. PICK q : q = [i \in 1 .. n + 1 |-> p[i + 1]]
  OBVIOUS
<1>6. Took(m, c, Head(es), p[2])
  BY <1>1, <1>2, <1>4
<1>7. q[1] = p[2] /\ q[n + 1] = d
  BY <1>1, <1>2, <1>5
<1>8. ASSUME NEW i \in 1 .. n
      PROVE  Took(m, q[i], fs[i], q[i + 1])
  <2>1. q[i] = p[i + 1] /\ q[i + 1] = p[(i + 1) + 1] /\ fs[i] = es[i + 1]
    BY <1>4, <1>5
  <2>2. i + 1 \in 1 .. Len(es)
    BY <1>2
  <2> QED BY <1>1, <2>1, <2>2
<1>9. Runs(m, p[2], fs, d)
  BY <1>4, <1>7, <1>8 DEF Runs
<1> QED BY <1>3, <1>6, <1>9

(* Every pending event is one of the client's protocol.                    *)
LEMMA RunsEvents ==
  ASSUME NEW m, NEW c, NEW d, NEW es, Runs(m, c, es, d)
  PROVE  \A i \in 1 .. Len(es) : es[i] \in EventsOf(m.target)
BY DEF Runs, Took

-----------------------------------------------------------------------------
(* What the events of an Anthropic stream do to its client.                *)
ToAnthropic(m) == m.target = "anthropic"

LEMMA Bounds == MaxChunks \in Nat /\ MaxParts \in Nat
BY BoundsAssumption

LEMMA SseEvents ==
  /\ Sse!MessageStart \in Sse!Events /\ Sse!Ping \in Sse!Events /\ Sse!MessageStop \in Sse!Events
  /\ Sse!Error \in Sse!Events
  /\ \A r \in AnthropicReasons : Sse!MessageDelta(r) \in Sse!Events
  /\ \A i \in 0 .. MaxParts - 1 :
        /\ Sse!BlockStop(i) \in Sse!Events
        /\ \A t \in Kinds, tool \in Names \cup {None} : Sse!BlockStart(i, t, tool) \in Sse!Events
        /\ \A t \in Kinds, part \in Fragments : Sse!BlockDelta(i, Sse!DeltaOf[t], part) \in Sse!Events
<1>1. /\ Sse!MessageStart \in Sse!Events /\ Sse!Ping \in Sse!Events /\ Sse!MessageStop \in Sse!Events
      /\ Sse!Error \in Sse!Events
      /\ \A r \in AnthropicReasons : Sse!MessageDelta(r) \in Sse!Events
  BY DEF Sse!MessageStart, Sse!Ping, Sse!MessageStop, Sse!Error, Sse!MessageDelta, Sse!Events
<1>2. ASSUME NEW i \in 0 .. MaxParts - 1
      PROVE  /\ Sse!BlockStop(i) \in Sse!Events
             /\ \A t \in Kinds, tool \in Names \cup {None} : Sse!BlockStart(i, t, tool) \in Sse!Events
             /\ \A t \in Kinds, part \in Fragments : Sse!BlockDelta(i, Sse!DeltaOf[t], part) \in Sse!Events
  <2>1. Sse!BlockStop(i) \in Sse!Events
    BY DEF Sse!BlockStop, Sse!Events, Sse!Indices
  <2>2. ASSUME NEW t \in Kinds, NEW tool \in Names \cup {None}
        PROVE  Sse!BlockStart(i, t, tool) \in Sse!Events
    BY DEF Sse!BlockStart, Sse!Events, Sse!Indices, Sse!BlockTypes, Kinds
  <2>3. ASSUME NEW t \in Kinds, NEW part \in Fragments
        PROVE  Sse!BlockDelta(i, Sse!DeltaOf[t], part) \in Sse!Events
    <3>1. t \in Sse!BlockTypes
      BY DEF Sse!BlockTypes, Kinds
    <3>2. PICK k : k = Sse!DeltaOf[t]
      OBVIOUS
    <3>3. k \in {Sse!DeltaOf[u] : u \in Sse!BlockTypes} \cup {"signature_delta"}
      BY <3>1, <3>2
    <3>4. part \in (TextParts \cup CallParts) \cup {None}
      BY DEF Fragments
    <3>5. Sse!BlockDelta(i, k, part) \in Sse!Events
      BY <3>3, <3>4 DEF Sse!BlockDelta, Sse!Events, Sse!Indices
    <3> QED BY <3>2, <3>5
  <2> QED BY <2>1, <2>2, <2>3
<1> QED BY <1>1, <1>2

Fits(t, tool) == t = "tool_use" <=> tool # None

LEMMA TookStart ==
  ASSUME NEW m, ToAnthropic(m), NEW d \in SseClients, d.reason = None,
         NEW i \in 0 .. MaxParts - 1, NEW t \in Kinds, NEW tool \in Names \cup {None},
         Fits(t, tool), d.phase = "streaming", d.open = None, i = Len(d.blocks)
  PROVE  \E x : /\ Took(m, d, Sse!BlockStart(i, t, tool), x)
                /\ x \in SseClients /\ x.phase = d.phase /\ x.reason = None /\ x.open = i
                /\ x.blocks = Append(d.blocks, NewBlock(t, tool))
<1>1. PICK e : e = Sse!BlockStart(i, t, tool)
  OBVIOUS
<1>2. e \in Sse!Events
  BY <1>1, SseEvents
<1>3. /\ e.type = "content_block_start" /\ e.index = i /\ e.block = t
      /\ e.tool = tool
  BY <1>1 DEF Sse!BlockStart
<1>4. PICK b : b = NewBlock(t, tool)
  OBVIOUS
<1>5. <<>> \in Seq(Fragments)
  OBVIOUS
<1>6. b \in Blocks
  BY <1>4, <1>5 DEF Blocks, NewBlock
<1>7. PICK bs : bs = Append(d.blocks, b)
  OBVIOUS
<1>8. bs \in Seq(Blocks)
  BY <1>6, <1>7 DEF SseClients
<1>9. PICK x : x = Sse!Apply(d, e)
  OBVIOUS
<1>10. x = [d EXCEPT !.last = e, !.open = i, !.blocks = bs]
  BY <1>3, <1>4, <1>7, <1>9 DEF Sse!Apply, NewBlock, SseClients
<1>11. i \in Nat
  OBVIOUS
<1>12. /\ x \in SseClients /\ x.phase = d.phase /\ x.reason = None /\ x.open = i
       /\ x.blocks = bs /\ x.last = e
  BY <1>2, <1>8, <1>10, <1>11 DEF SseClients
<1>13. Sse!Legal(d, e)
  BY <1>3 DEF Sse!Legal, Fits
<1>14. Took(m, d, e, x)
  BY <1>2, <1>9, <1>12, <1>13 DEF Took, ToAnthropic, EventsOf, ClientsOf
<1> QED BY <1>1, <1>4, <1>7, <1>12, <1>14

(* The event e takes d to a client whose last block b has become g.        *)
Grows(m, d, e, i, f, b, part) ==
    \E x, g : /\ Took(m, d, e, x)
              /\ x \in SseClients /\ x.phase = d.phase /\ x.reason = None /\ x.open = i
              /\ x.blocks = Append(f, g) /\ g \in Blocks
              /\ g.type = b.type /\ g.tool = b.tool /\ g.content = Append(b.content, part)

LEMMA TookDelta ==
  ASSUME NEW m, ToAnthropic(m), NEW d \in SseClients, d.reason = None,
         NEW f \in Seq(Blocks), NEW b \in Blocks, d.blocks = Append(f, b),
         NEW i \in 0 .. MaxParts - 1, i = Len(f), NEW part \in Fragments,
         d.phase = "streaming", d.open = i, NEW e, e = Sse!BlockDelta(i, Sse!DeltaOf[b.type], part)
  PROVE  Grows(m, d, e, i, f, b, part)
<1>1. PICK k : k = Sse!DeltaOf[b.type]
  OBVIOUS
<1>2. e = Sse!BlockDelta(i, k, part)
  BY <1>1
<1>3. e \in Sse!Events
  <2>1. b.type \in Kinds
    BY DEF Blocks
  <2> QED BY <1>1, <1>2, <2>1, SseEvents
<1>4. e.type = "content_block_delta" /\ e.index = i /\ e.delta = k /\ e.fragment = part
  BY <1>2 DEF Sse!BlockDelta
<1>a. k # "signature_delta"
  BY <1>1 DEF Sse!DeltaOf, Blocks, Kinds
<1>5. PICK n \in Nat : n = i + 1
  OBVIOUS
<1>6. PICK bs : bs = d.blocks
  OBVIOUS
<1>7. bs \in Seq(Blocks) /\ Len(bs) = n /\ n \in DOMAIN bs /\ bs[n] = b /\ \A j \in 1 .. i : bs[j] = f[j]
  BY <1>5, <1>6
<1>8. PICK g : g = [b EXCEPT !.content = Append(b.content, part)]
  OBVIOUS
<1>9. /\ g \in Blocks /\ g.type = b.type /\ g.tool = b.tool
      /\ g.content = Append(b.content, part)
  <2>1. Append(b.content, part) \in Seq(Fragments)
    BY DEF Blocks
  <2> QED BY <1>8, <2>1 DEF Blocks
<1>10. PICK gs : gs = [bs EXCEPT ![n] = g]
  OBVIOUS
<1>11. gs = Append(f, g)
  <2>1. gs \in Seq(Blocks) /\ Len(gs) = n /\ gs[n] = g /\ \A j \in 1 .. i : gs[j] = f[j]
    BY <1>5, <1>7, <1>9, <1>10
  <2>2. Append(f, g) \in Seq(Blocks) /\ Len(Append(f, g)) = n
    BY <1>5, <1>9
  <2>3. \A j \in 1 .. Len(gs) : gs[j] = Append(f, g)[j]
    BY <1>5, <1>9, <2>1
  <2> QED BY <2>1, <2>2, <2>3, SeqEqual
<1>12. Sse!Grow(bs, e) = gs
  BY <1>1, <1>4, <1>5, <1>7, <1>8, <1>10, <1>a DEF Sse!Grow
<1>13. PICK x : x = Sse!Apply(d, e)
  OBVIOUS
<1>14. x = [d EXCEPT !.last = e, !.blocks = gs]
  BY <1>4, <1>6, <1>12, <1>13 DEF Sse!Apply, SseClients
<1>15. gs \in Seq(Blocks)
  BY <1>9, <1>11
<1>16. /\ x \in SseClients /\ x.phase = d.phase /\ x.reason = None /\ x.open = i
       /\ x.blocks = gs /\ x.last = e
  BY <1>3, <1>14, <1>15 DEF SseClients
<1>17. Sse!Legal(d, e)
  <2>1. ~ b.signed
    BY DEF Blocks
  <2>2. d.blocks[e.index + 1] = b
    BY <1>4, <1>5, <1>6, <1>7
  <2> QED BY <1>1, <1>4, <1>a, <2>1, <2>2 DEF Sse!Legal
<1>18. Took(m, d, e, x)
  BY <1>3, <1>13, <1>16, <1>17 DEF Took, ToAnthropic, EventsOf, ClientsOf
<1> QED BY <1>9, <1>11, <1>16, <1>18 DEF Grows

LEMMA TookStop ==
  ASSUME NEW m, ToAnthropic(m), NEW d \in SseClients, d.reason = None, NEW i \in 0 .. MaxParts - 1,
         d.phase \in m.free \/ (d.phase = "streaming" /\ d.open = i /\ Len(d.blocks) = i + 1)
  PROVE  \E x : /\ Took(m, d, Sse!BlockStop(i), x)
                /\ x \in SseClients /\ x.phase = d.phase /\ x.reason = None /\ x.open = None
                /\ x.blocks = d.blocks
<1>1. PICK e : e = Sse!BlockStop(i)
  OBVIOUS
<1>2. e \in Sse!Events
  BY <1>1, SseEvents
<1>3. e.type = "content_block_stop" /\ e.index = i
  BY <1>1 DEF Sse!BlockStop
<1>4. PICK x : x = Sse!Apply(d, e)
  OBVIOUS
<1>5. x = [d EXCEPT !.last = e, !.open = None]
  BY <1>3, <1>4 DEF Sse!Apply, SseClients
<1>6. /\ x \in SseClients /\ x.phase = d.phase /\ x.reason = None /\ x.open = None
      /\ x.blocks = d.blocks /\ x.last = e
  BY <1>2, <1>5 DEF SseClients
<1>7. d.phase \notin m.free => Sse!Legal(d, e)
  <2> SUFFICES ASSUME d.phase = "streaming", d.open = i, Len(d.blocks) = i + 1
               PROVE  Sse!Legal(d, e)
    OBVIOUS
  <2>1. d.blocks[i + 1] \in Blocks
    BY DEF SseClients
  <2>2. d.blocks[i + 1].type # "thinking"
    BY <2>1 DEF Blocks, Kinds
  <2> QED BY <1>3, <2>2 DEF Sse!Legal
<1>8. Took(m, d, e, x)
  BY <1>2, <1>4, <1>6, <1>7 DEF Took, ToAnthropic, EventsOf, ClientsOf
<1> QED BY <1>1, <1>6, <1>8

LEMMA TookMessageStart ==
  ASSUME NEW m, ToAnthropic(m)
  PROVE  \E x : /\ Took(m, Sse!NewClient, Sse!MessageStart, x)
                /\ x \in SseClients /\ x.phase = "streaming" /\ x.reason = None /\ x.open = None
                /\ x.blocks = <<>>
<1>1. PICK e : e = Sse!MessageStart
  OBVIOUS
<1>2. e \in Sse!Events
  BY <1>1, SseEvents
<1>3. e.type = "message_start"
  BY <1>1 DEF Sse!MessageStart
<1>4. PICK x : x = Sse!Apply(Sse!NewClient, e)
  OBVIOUS
<1>5. x = [Sse!NewClient EXCEPT !.phase = "streaming", !.last = e]
  BY <1>3, <1>4 DEF Sse!Apply
<1>6. <<>> \in Seq(Blocks)
  OBVIOUS
<1>7. /\ x \in SseClients /\ x.phase = "streaming" /\ x.reason = None /\ x.open = None
      /\ x.blocks = <<>> /\ x.last = e
  BY <1>2, <1>5, <1>6 DEF SseClients, Sse!NewClient
<1>8. Sse!Legal(Sse!NewClient, e)
  BY <1>3 DEF Sse!Legal, Sse!NewClient
<1>9. Took(m, Sse!NewClient, e, x)
  BY <1>2, <1>4, <1>7, <1>8 DEF Took, ToAnthropic, EventsOf, ClientsOf
<1> QED BY <1>1, <1>7, <1>9

LEMMA TookPing ==
  ASSUME NEW m, ToAnthropic(m), NEW d \in SseClients, d.reason = None, d.phase = "streaming"
  PROVE  \E x : /\ Took(m, d, Sse!Ping, x)
                /\ x \in SseClients /\ x.phase = d.phase /\ x.reason = None /\ x.open = d.open
                /\ x.blocks = d.blocks
<1>1. PICK e : e = Sse!Ping
  OBVIOUS
<1>2. e \in Sse!Events
  BY <1>1, SseEvents
<1>3. e.type = "ping"
  BY <1>1 DEF Sse!Ping
<1>4. PICK x : x = Sse!Apply(d, e)
  OBVIOUS
<1>5. x = [d EXCEPT !.last = e]
  BY <1>3, <1>4 DEF Sse!Apply
<1>6. /\ x \in SseClients /\ x.phase = d.phase /\ x.reason = None /\ x.open = d.open
      /\ x.blocks = d.blocks /\ x.last = e
  BY <1>2, <1>5 DEF SseClients
<1>7. Sse!Legal(d, e)
  BY <1>3 DEF Sse!Legal
<1>8. Took(m, d, e, x)
  BY <1>2, <1>4, <1>6, <1>7 DEF Took, ToAnthropic, EventsOf, ClientsOf
<1> QED BY <1>1, <1>6, <1>8

LEMMA TookError ==
  ASSUME NEW m, ToAnthropic(m), NEW d \in SseClients, d.reason = None,
         d.phase \in m.free \/ d.phase = "streaming"
  PROVE  \E x : /\ Took(m, d, Sse!Error, x)
                /\ x \in SseClients /\ x.phase = "failed" /\ x.reason = None /\ x.open = d.open
                /\ x.blocks = d.blocks
<1>1. PICK e : e = Sse!Error
  OBVIOUS
<1>2. e \in Sse!Events
  BY <1>1, SseEvents
<1>3. e.type = "error"
  BY <1>1 DEF Sse!Error
<1>4. PICK x : x = Sse!Apply(d, e)
  OBVIOUS
<1>5. x = [d EXCEPT !.last = e, !.phase = "failed"]
  BY <1>3, <1>4 DEF Sse!Apply, SseClients
<1>6. /\ x \in SseClients /\ x.phase = "failed" /\ x.reason = None /\ x.open = d.open
      /\ x.blocks = d.blocks /\ x.last = e
  BY <1>2, <1>5 DEF SseClients
<1>7. d.phase \notin m.free => Sse!Legal(d, e)
  BY <1>3 DEF Sse!Legal
<1>8. Took(m, d, e, x)
  BY <1>2, <1>4, <1>6, <1>7 DEF Took, ToAnthropic, EventsOf, ClientsOf
<1> QED BY <1>1, <1>6, <1>8

LEMMA TookMessageDelta ==
  ASSUME NEW m, ToAnthropic(m), m.told \in AnthropicReasons, NEW d \in SseClients,
         d.phase \in m.free \/ (d.phase = "streaming" /\ d.open = None /\ d.blocks # <<>>)
  PROVE  \E x : /\ Took(m, d, Sse!MessageDelta(m.told), x)
                /\ x \in SseClients /\ x.phase = "closing" /\ x.reason = m.told /\ x.blocks = d.blocks
<1>1. PICK e : e = Sse!MessageDelta(m.told)
  OBVIOUS
<1>2. e \in Sse!Events
  BY <1>1, SseEvents
<1>3. e.type = "message_delta" /\ e.reason = m.told
  BY <1>1 DEF Sse!MessageDelta
<1>4. PICK x : x = Sse!Apply(d, e)
  OBVIOUS
<1>5. x = [d EXCEPT !.last = e, !.phase = "closing", !.reason = m.told]
  BY <1>3, <1>4 DEF Sse!Apply, SseClients
<1>6. /\ x \in SseClients /\ x.phase = "closing" /\ x.reason = m.told /\ x.blocks = d.blocks
      /\ x.last = e
  BY <1>2, <1>5 DEF SseClients
<1>7. d.phase \notin m.free => Sse!Legal(d, e)
  BY <1>3 DEF Sse!Legal
<1>8. Took(m, d, e, x)
  BY <1>2, <1>4, <1>6, <1>7 DEF Took, ToAnthropic, EventsOf, ClientsOf
<1> QED BY <1>1, <1>6, <1>8

LEMMA TookMessageStop ==
  ASSUME NEW m, ToAnthropic(m), NEW d \in SseClients, d.phase = "closing", d.reason = m.told
  PROVE  \E x : /\ Took(m, d, Sse!MessageStop, x)
                /\ x \in SseClients /\ x.blocks = d.blocks
<1>1. PICK e : e = Sse!MessageStop
  OBVIOUS
<1>2. e \in Sse!Events
  BY <1>1, SseEvents
<1>3. e.type = "message_stop"
  BY <1>1 DEF Sse!MessageStop
<1>4. PICK x : x = Sse!Apply(d, e)
  OBVIOUS
<1>5. x = [d EXCEPT !.last = e, !.phase = "stopped"]
  BY <1>3, <1>4 DEF Sse!Apply, SseClients
<1>6. x \in SseClients /\ x.reason = d.reason /\ x.blocks = d.blocks /\ x.last = e
  BY <1>2, <1>5 DEF SseClients
<1>7. Sse!Legal(d, e)
  BY <1>3 DEF Sse!Legal
<1>8. Took(m, d, e, x)
  BY <1>2, <1>4, <1>6, <1>7 DEF Took, ToAnthropic, EventsOf, ClientsOf
<1> QED BY <1>1, <1>6, <1>8

-----------------------------------------------------------------------------
(* Converters, and what their helpers leave.                               *)
AllEvents == Sse!Events \cup Chat!Events

Converters ==
    [target : Targets, started : BOOLEAN, finalized : BOOLEAN, curBlockType : Kinds \cup {NoBlock},
     curBlockIndex : Nat, nextBlockIndex : Nat, finishReason : GeminiReasons \cup {NoFinish},
     usage : BOOLEAN, events : Seq(AllEvents)]

LEMMA NoBlockIsNone == NoBlock \notin Kinds /\ NoFinish \notin GeminiReasons
<1>1. NoBlock \notin Kinds
  BY Zenon DEF NoBlock, Kinds
<1>2. NoFinish \notin GeminiReasons
  BY Zenon DEF NoFinish, GeminiReasons
<1> QED BY <1>1, <1>2

Framed(s, r) ==
    /\ r.target = s.target /\ r.started = s.started /\ r.finalized = s.finalized
    /\ r.finishReason = s.finishReason /\ r.usage = s.usage

SameBlock(s, r) ==
    /\ r.curBlockType = s.curBlockType /\ r.curBlockIndex = s.curBlockIndex
    /\ r.nextBlockIndex = s.nextBlockIndex

LEMMA Emitted ==
  ASSUME NEW s \in Converters, NEW e \in AllEvents
  PROVE  /\ Emit(s, e) \in Converters /\ Framed(s, Emit(s, e)) /\ SameBlock(s, Emit(s, e))
         /\ Emit(s, e).events = Append(s.events, e)
<1>1. PICK es : es = Append(s.events, e)
  OBVIOUS
<1>2. es \in Seq(AllEvents)
  BY <1>1 DEF Converters
<1>3. Emit(s, e) = [s EXCEPT !.events = es]
  BY <1>1 DEF Emit, Converters
<1> QED BY <1>1, <1>2, <1>3 DEF Converters, Framed, SameBlock

(* The client of a stream that runs agrees with the converter on which     *)
(* block is open: that of the last part, for there has been no other since.*)
Agree(s, d, ps) ==
    /\ d \in SseClients /\ d.reason = None
    /\ Len(d.blocks) = s.nextBlockIndex /\ s.nextBlockIndex <= Len(ps)
    /\ ps = <<>> => s.curBlockType = NoBlock /\ d.open = None
    /\ ps # <<>> =>
          /\ s.curBlockType = KindOf(ps[Len(ps)]) /\ s.nextBlockIndex > 0
          /\ s.curBlockIndex = s.nextBlockIndex - 1 /\ d.open = s.curBlockIndex
          /\ d.blocks[s.nextBlockIndex].type = s.curBlockType

Good(m, c, s, ps) ==
    \E d : /\ Runs(m, c, s.events, d)
           /\ d.phase = "streaming" /\ Agree(s, d, ps) /\ BlocksHold(d.blocks, ps)

(* r says one more fragment in the last block b, which becomes g.           *)
HasSaid(m, c, s, r, open, f, b, part) ==
    /\ r \in Converters /\ Framed(s, r) /\ SameBlock(s, r)
    /\ \E x, g : /\ Runs(m, c, r.events, x)
                 /\ x \in SseClients /\ x.phase = "streaming" /\ x.reason = None
                 /\ x.open = open /\ x.blocks = Append(f, g)
                 /\ g \in Blocks /\ g.type = b.type /\ g.tool = b.tool
                 /\ g.content = Append(b.content, part)

LEMMA Said ==
  ASSUME NEW m, ToAnthropic(m), NEW c, NEW s \in Converters, NEW d \in SseClients, Runs(m, c, s.events, d),
         d.phase = "streaming", d.reason = None, NEW f \in Seq(Blocks), NEW b \in Blocks,
         d.blocks = Append(f, b), s.curBlockIndex = Len(f), d.open = s.curBlockIndex,
         Len(f) < MaxParts, NEW part \in Fragments, NEW r, r = BlockDelta(s, b.type, part)
  PROVE  HasSaid(m, c, s, r, d.open, f, b, part)
<1>1. PICK i \in 0 .. MaxParts - 1 : i = Len(f)
  BY Bounds
<1>2. PICK e : e = Sse!BlockDelta(i, Sse!DeltaOf[b.type], part)
  OBVIOUS
<1>3. PICK x, g : /\ Took(m, d, e, x)
                  /\ x \in SseClients /\ x.phase = d.phase /\ x.reason = None /\ x.open = i
                  /\ x.blocks = Append(f, g) /\ g \in Blocks
                  /\ g.type = b.type /\ g.tool = b.tool /\ g.content = Append(b.content, part)
  <2>1. d.open = i
    BY <1>1
  <2>2. Grows(m, d, e, i, f, b, part)
    BY <1>1, <1>2, <2>1, TookDelta
  <2> QED BY <2>2 DEF Grows
<1>4. e \in AllEvents
  BY <1>3 DEF Took, EventsOf, ToAnthropic, AllEvents
<1>6. r = Emit(s, e)
  BY <1>1, <1>2 DEF BlockDelta
<1>7. r \in Converters /\ Framed(s, r) /\ SameBlock(s, r) /\ r.events = Append(s.events, e)
  BY <1>4, <1>6, Emitted
<1>8. Runs(m, c, r.events, x)
  <2>1. s.events \in Seq(AllEvents)
    BY DEF Converters
  <2> QED BY <1>3, <1>7, <2>1, RunsOn
<1> QED BY <1>1, <1>3, <1>7, <1>8 DEF HasSaid

Other(t) == IF t = "text" THEN "tool_use" ELSE "text"

(* r has opened a block of type t next, after those of d.                  *)
HasOpened(m, c, s, r, d, t, tool) ==
    /\ r \in Converters /\ Framed(s, r) /\ r.curBlockType = t
    /\ r.curBlockIndex = s.nextBlockIndex /\ r.nextBlockIndex = s.nextBlockIndex + 1
    /\ \E x : /\ Runs(m, c, r.events, x) /\ x \in SseClients /\ x.phase = "streaming"
              /\ x.reason = None /\ x.open = r.curBlockIndex
              /\ x.blocks = Append(d.blocks, NewBlock(t, tool))

(* The block that was open is closed, and one of the other kind is opened. *)
LEMMA Opened ==
  ASSUME NEW m, ToAnthropic(m), NEW c, NEW s \in Converters, NEW ps \in Seq(Fragments), Len(ps) < MaxParts,
         NEW d, Runs(m, c, s.events, d), d.phase = "streaming", Agree(s, d, ps),
         NEW t \in Kinds, NEW tool \in Names \cup {None}, Fits(t, tool),
         s.curBlockType # t, NEW r, r = EnsureBlock(StopIfOpen(s, Other(t)), t, tool)
  PROVE  HasOpened(m, c, s, r, d, t, tool)
<1>1. PICK q : q = StopIfOpen(s, Other(t))
  OBVIOUS
<1>2. /\ d \in SseClients /\ d.reason = None /\ Len(d.blocks) = s.nextBlockIndex
      /\ s.nextBlockIndex <= Len(ps) /\ s.nextBlockIndex \in Nat
  BY DEF Agree, Converters
<1>3. PICK i \in 0 .. MaxParts - 1 : i = s.nextBlockIndex
  BY <1>2, Bounds
<1>4. /\ q \in Converters /\ Framed(s, q) /\ SameBlock(s, q)
      /\ \E y : /\ Runs(m, c, q.events, y) /\ y \in SseClients /\ y.phase = "streaming"
                /\ y.reason = None /\ y.open = None /\ y.blocks = d.blocks
  <2>1. CASE ps = <<>>
    <3>1. s.curBlockType = NoBlock /\ d.open = None
      BY <2>1 DEF Agree
    <3>2. s.curBlockType # Other(t)
      BY <3>1, NoBlockIsNone DEF Other, Kinds
    <3>3. q = s
      BY <1>1, <3>2 DEF StopIfOpen
    <3> QED BY <1>2, <3>1, <3>3 DEF Framed, SameBlock
  <2>2. CASE ps # <<>>
    <3>1. /\ s.curBlockType = KindOf(ps[Len(ps)]) /\ s.nextBlockIndex > 0
          /\ s.curBlockIndex = s.nextBlockIndex - 1 /\ d.open = s.curBlockIndex
      BY <2>2 DEF Agree
    <3>2. s.curBlockType = Other(t)
      BY <3>1 DEF KindOf, Other, Kinds
    <3>3. q = Emit(s, Sse!BlockStop(s.curBlockIndex))
      BY <1>1, <3>2 DEF StopIfOpen, ContentBlockStop
    <3>4. PICK j \in 0 .. MaxParts - 1 : j = s.curBlockIndex
      BY <1>2, <3>1, Bounds
    <3>5. d.open = j /\ Len(d.blocks) = j + 1
      BY <1>2, <3>1, <3>4
    <3>6. PICK y : /\ Took(m, d, Sse!BlockStop(j), y)
                   /\ y \in SseClients /\ y.phase = d.phase /\ y.reason = None /\ y.open = None
                   /\ y.blocks = d.blocks
      BY <1>2, <3>5, TookStop
    <3>7. PICK e : e = Sse!BlockStop(j)
      OBVIOUS
    <3>8. e \in AllEvents
      BY <3>6, <3>7 DEF Took, EventsOf, ToAnthropic, AllEvents
    <3>9. q \in Converters /\ Framed(s, q) /\ SameBlock(s, q) /\ q.events = Append(s.events, e)
      BY <3>3, <3>4, <3>7, <3>8, Emitted
    <3>10. s.events \in Seq(AllEvents)
      BY DEF Converters
    <3>11. Took(m, d, e, y)
      BY <3>6, <3>7
    <3>12. Runs(m, c, q.events, y)
      BY <3>9, <3>10, <3>11, RunsOn
    <3> QED BY <3>6, <3>9, <3>12
  <2> QED BY <2>1, <2>2
<1>5. PICK y : /\ Runs(m, c, q.events, y) /\ y \in SseClients /\ y.phase = "streaming"
               /\ y.reason = None /\ y.open = None /\ y.blocks = d.blocks
  BY <1>4
<1>6. PICK e : e = Sse!BlockStart(i, t, tool)
  OBVIOUS
<1>7. PICK x : /\ Took(m, y, e, x)
               /\ x \in SseClients /\ x.phase = y.phase /\ x.reason = None /\ x.open = i
               /\ x.blocks = Append(y.blocks, NewBlock(t, tool))
  <2>1. i = Len(y.blocks)
    BY <1>2, <1>3, <1>5
  <2>2. \E x : /\ Took(m, y, Sse!BlockStart(i, t, tool), x)
               /\ x \in SseClients /\ x.phase = y.phase /\ x.reason = None /\ x.open = i
               /\ x.blocks = Append(y.blocks, NewBlock(t, tool))
    BY <1>5, <2>1, TookStart
  <2> QED BY <1>6, <2>2
<1>8. e \in AllEvents
  BY <1>7 DEF Took, EventsOf, ToAnthropic, AllEvents
<1>9. PICK z : z = [q EXCEPT !.curBlockType = t, !.curBlockIndex = i, !.nextBlockIndex = i + 1]
  OBVIOUS
<1>10. /\ z \in Converters /\ Framed(s, z) /\ z.curBlockType = t /\ z.curBlockIndex = i
       /\ z.nextBlockIndex = i + 1 /\ z.events = q.events
  <2>1. i \in Nat /\ i + 1 \in Nat /\ t \in Kinds \cup {NoBlock}
    OBVIOUS
  <2>2. /\ z \in Converters /\ z.curBlockType = t /\ z.curBlockIndex = i
        /\ z.nextBlockIndex = i + 1 /\ z.events = q.events
    BY <1>4, <1>9, <2>1 DEF Converters
  <2>3. Framed(q, z)
    BY <1>4, <1>9 DEF Framed, Converters
  <2> QED BY <1>4, <2>2, <2>3 DEF Framed
<1>11. r = Emit(z, e)
  <2>1. q.curBlockType # t /\ q.nextBlockIndex = i
    BY <1>3, <1>4 DEF SameBlock
  <2>2. z = [q EXCEPT !.curBlockType = t, !.curBlockIndex = q.nextBlockIndex, !.nextBlockIndex = @ + 1]
    BY <1>4, <1>9, <2>1 DEF Converters
  <2> QED BY <1>1, <1>6, <2>1, <2>2 DEF EnsureBlock
<1>12. /\ r \in Converters /\ Framed(z, r) /\ SameBlock(z, r)
       /\ r.events = Append(q.events, e)
  BY <1>8, <1>10, <1>11, Emitted
<1>13. Runs(m, c, r.events, x)
  <2>1. q.events \in Seq(AllEvents)
    BY <1>4 DEF Converters
  <2> QED BY <1>5, <1>7, <1>12, <2>1, RunsOn
<1>14. /\ Framed(s, r) /\ r.curBlockType = t /\ r.curBlockIndex = i /\ r.nextBlockIndex = i + 1
  BY <1>10, <1>12 DEF Framed, SameBlock
<1> QED BY <1>3, <1>5, <1>7, <1>12, <1>13, <1>14 DEF HasOpened

(* A sequence of blocks or of parts, and its last element.                 *)
LEMMA LastOne ==
  ASSUME NEW X, NEW s \in Seq(X), NEW n \in Nat, n = Len(s), n > 0
  PROVE  \E f \in Seq(X) : s = Append(f, s[n]) /\ Len(f) = n - 1 /\ s[n] \in X
<1>1. PICK f \in Seq(X), e \in X : s = Append(f, e)
  BY SequenceEmptyOrAppend
<1>2. Len(f) = n - 1 /\ s[n] = e
  BY <1>1
<1> QED BY <1>1, <1>2

(* The block of the last part is the last block.                           *)
LEMMA Agreed ==
  ASSUME NEW m, NEW c, NEW r \in Converters, NEW ps \in Seq(Fragments), NEW p \in Fragments,
         NEW x \in SseClients, Runs(m, c, r.events, x), x.phase = "streaming", x.reason = None,
         NEW f \in Seq(Blocks), NEW g \in Blocks, x.blocks = Append(f, g), g.type = KindOf(p),
         r.curBlockType = KindOf(p), r.curBlockIndex = Len(f), r.nextBlockIndex = Len(f) + 1,
         x.open = r.curBlockIndex, Len(f) <= Len(ps), BlocksHold(Append(f, g), Append(ps, p))
  PROVE  Good(m, c, r, Append(ps, p))
<1>1. PICK qs : qs = Append(ps, p)
  OBVIOUS
<1>2. qs # <<>> /\ Len(qs) = Len(ps) + 1 /\ qs[Len(qs)] = p /\ Len(ps) \in Nat
  BY <1>1, AppendProperties
<1>3. PICK bs : bs = x.blocks
  OBVIOUS
<1>4. Len(bs) = Len(f) + 1 /\ bs[Len(f) + 1] = g /\ Len(f) \in Nat
  <2>1. bs = Append(f, g)
    BY <1>3
  <2> QED BY <2>1, SMTT(30)
<1>5. KindOf(p) = KindOf(qs[Len(qs)])
  BY <1>2
<1>6. Agree(r, x, qs)
  BY <1>2, <1>3, <1>4, <1>5 DEF Agree
<1> QED BY <1>1, <1>6 DEF Good

LEMMA PartHandled ==
  ASSUME NEW m, ToAnthropic(m), NEW c, NEW s \in Converters, NEW ps \in Seq(Fragments), Len(ps) < MaxParts,
         NEW p \in Fragments, Good(m, c, s, ps)
  PROVE  /\ HandlePart(s, p) \in Converters /\ Framed(s, HandlePart(s, p))
         /\ Good(m, c, HandlePart(s, p), Append(ps, p))
<1>1. PICK d : /\ Runs(m, c, s.events, d)
               /\ d.phase = "streaming" /\ Agree(s, d, ps) /\ BlocksHold(d.blocks, ps)
  BY DEF Good
<1>2. /\ d \in SseClients /\ d.reason = None /\ Len(d.blocks) = s.nextBlockIndex
      /\ s.nextBlockIndex <= Len(ps) /\ s.nextBlockIndex \in Nat /\ d.blocks \in Seq(Blocks)
  BY <1>1 DEF Agree, Converters, SseClients
<1>3. PICK r : r = HandlePart(s, p)
  OBVIOUS
<1>4. /\ s.curBlockType = "text" => s.curBlockType # "tool_use"
      /\ Other("text") = "tool_use" /\ Other("tool_use") = "text"
      /\ "text" \in Kinds /\ "tool_use" \in Kinds
  BY DEF Other, Kinds
(* The block of the last part takes one more of its kind.                  *)
<1>5. ASSUME NEW t \in Kinds, s.curBlockType = t
      PROVE  /\ Len(ps) > 0 /\ KindOf(ps[Len(ps)]) = t
             /\ \E f \in Seq(Blocks), b \in Blocks :
                   /\ d.blocks = Append(f, b) /\ b.type = t
                   /\ s.curBlockIndex = Len(f) /\ d.open = s.curBlockIndex
                   /\ s.nextBlockIndex = Len(f) + 1 /\ Len(f) < MaxParts /\ Len(f) <= Len(ps)
  <2>1. ps # <<>>
    BY <1>1, <1>5, NoBlockIsNone DEF Agree
  <2>2. /\ s.curBlockType = KindOf(ps[Len(ps)]) /\ s.nextBlockIndex > 0
        /\ s.curBlockIndex = s.nextBlockIndex - 1 /\ d.open = s.curBlockIndex
        /\ d.blocks[s.nextBlockIndex].type = s.curBlockType
    BY <1>1, <2>1 DEF Agree
  <2>3. PICK n \in Nat : n = s.nextBlockIndex
    BY <1>2
  <2>4. PICK bs \in Seq(Blocks) : bs = d.blocks
    BY <1>2
  <2>5. Len(bs) = n /\ n > 0
    BY <1>2, <2>2, <2>3, <2>4
  <2>6. PICK f \in Seq(Blocks) : bs = Append(f, bs[n]) /\ Len(f) = n - 1 /\ bs[n] \in Blocks
    BY <2>5, LastOne
  <2>7. bs[n].type = t
    BY <1>5, <2>2, <2>3, <2>4
  <2>8. Len(ps) > 0
    BY <2>1
  <2>9. Len(f) \in Nat /\ s.nextBlockIndex = Len(f) + 1 /\ Len(f) < MaxParts /\ Len(f) <= Len(ps) /\ s.curBlockIndex = Len(f)
    BY <1>2, <2>2, <2>3, <2>6, Bounds
  <2> QED BY <1>5, <2>2, <2>4, <2>6, <2>7, <2>8, <2>9
<1>6. CASE IsText(p)
  <2>1. KindOf(p) = "text"
    BY <1>6 DEF KindOf
  <2>2. CASE s.curBlockType = "text"
    <3>1. r = BlockDelta(s, "text", p)
      BY <1>3, <1>4, <1>6, <2>2 DEF HandlePart, StopIfOpen, EnsureBlock
    <3>2. PICK f \in Seq(Blocks), b \in Blocks :
                   /\ d.blocks = Append(f, b) /\ b.type = "text"
                   /\ s.curBlockIndex = Len(f) /\ d.open = s.curBlockIndex
                   /\ s.nextBlockIndex = Len(f) + 1 /\ Len(f) < MaxParts /\ Len(f) <= Len(ps)
      BY <1>4, <1>5, <2>2
    <3>3. /\ r \in Converters /\ Framed(s, r) /\ SameBlock(s, r)
          /\ \E x, g : /\ Runs(m, c, r.events, x)
                       /\ x \in SseClients /\ x.phase = "streaming" /\ x.reason = None
                       /\ x.open = d.open /\ x.blocks = Append(f, g)
                       /\ g \in Blocks /\ g.type = b.type /\ g.tool = b.tool
                       /\ g.content = Append(b.content, p)
      <4>1. r = BlockDelta(s, b.type, p)
        BY <3>1, <3>2
      <4>2. HasSaid(m, c, s, r, d.open, f, b, p)
        BY <1>1, <1>2, <3>2, <4>1, Said
      <4> QED BY <4>2 DEF HasSaid
    <3>4. PICK x, g : /\ Runs(m, c, r.events, x)
                       /\ x \in SseClients /\ x.phase = "streaming" /\ x.reason = None
                       /\ x.open = d.open /\ x.blocks = Append(f, g)
                       /\ g \in Blocks /\ g.type = b.type /\ g.tool = b.tool
                       /\ g.content = Append(b.content, p)
      BY <3>3
    <3>5. BlocksHold(Append(f, g), Append(ps, p))
      BY <1>1, <1>6, <3>2, <3>4, TextAdded
    <3>6. /\ r.curBlockType = KindOf(p) /\ r.curBlockIndex = Len(f)
          /\ r.nextBlockIndex = Len(f) + 1 /\ x.open = r.curBlockIndex /\ g.type = KindOf(p)
      BY <2>1, <2>2, <3>2, <3>3, <3>4 DEF SameBlock
    <3>7. Good(m, c, r, Append(ps, p))
      BY <3>2, <3>3, <3>4, <3>5, <3>6, Agreed
    <3> QED BY <1>3, <3>3, <3>7
  <2>3. CASE s.curBlockType # "text"
    <3>1. PICK q : q = EnsureBlock(StopIfOpen(s, "tool_use"), "text", None)
      OBVIOUS
    <3>2. /\ q \in Converters /\ Framed(s, q) /\ q.curBlockType = "text"
          /\ q.curBlockIndex = s.nextBlockIndex /\ q.nextBlockIndex = s.nextBlockIndex + 1
          /\ \E x : /\ Runs(m, c, q.events, x) /\ x \in SseClients /\ x.phase = "streaming"
                    /\ x.reason = None /\ x.open = q.curBlockIndex
                    /\ x.blocks = Append(d.blocks, NewBlock("text", None))
      <4>1. Fits("text", None)
        BY DEF Fits
      <4>2. q = EnsureBlock(StopIfOpen(s, Other("text")), "text", None)
        BY <1>4, <3>1
      <4>3. HasOpened(m, c, s, q, d, "text", None)
        BY <1>1, <1>4, <2>3, <4>1, <4>2, Opened
      <4> QED BY <4>3 DEF HasOpened
    <3>3. PICK b : b = NewBlock("text", None)
      OBVIOUS
    <3>4. PICK x : /\ Runs(m, c, q.events, x) /\ x \in SseClients /\ x.phase = "streaming"
                   /\ x.reason = None /\ x.open = q.curBlockIndex
                   /\ x.blocks = Append(d.blocks, b)
      BY <3>2, <3>3
    <3>5. <<>> \in Seq(Fragments)
      OBVIOUS
    <3>6. b \in Blocks /\ b.type = "text"
      BY <3>3, <3>5 DEF Blocks, NewBlock, Kinds
    <3>7. BlocksHold(Append(d.blocks, b), ps)
      BY <1>1, <1>2, <3>3, TextOpened
    <3>8. PICK f \in Seq(Blocks) : f = d.blocks
      BY <1>2
    <3>9. r = BlockDelta(q, "text", p)
      BY <1>3, <1>6, <3>1 DEF HandlePart
    <3>10. /\ r \in Converters /\ Framed(q, r) /\ SameBlock(q, r)
           /\ \E y, g : /\ Runs(m, c, r.events, y)
                        /\ y \in SseClients /\ y.phase = "streaming" /\ y.reason = None
                        /\ y.open = x.open /\ y.blocks = Append(f, g)
                        /\ g \in Blocks /\ g.type = b.type /\ g.tool = b.tool
                        /\ g.content = Append(b.content, p)
      <4>1. /\ r = BlockDelta(q, b.type, p) /\ x.blocks = Append(f, b) /\ q.curBlockIndex = Len(f)
            /\ Len(f) < MaxParts
        BY <1>2, <3>2, <3>4, <3>6, <3>8, <3>9, Bounds
      <4>2. HasSaid(m, c, q, r, x.open, f, b, p)
        BY <3>2, <3>4, <3>6, <4>1, Said
      <4> QED BY <4>2 DEF HasSaid
    <3>11. PICK y, g : /\ Runs(m, c, r.events, y)
                        /\ y \in SseClients /\ y.phase = "streaming" /\ y.reason = None
                        /\ y.open = x.open /\ y.blocks = Append(f, g)
                        /\ g \in Blocks /\ g.type = b.type /\ g.tool = b.tool
                        /\ g.content = Append(b.content, p)
      BY <3>10
    <3>12. BlocksHold(Append(f, g), Append(ps, p))
      <4>1. BlocksHold(Append(f, b), ps)
        BY <3>7, <3>8
      <4>2. g.type = "text"
        BY <3>6, <3>11
      <4> QED BY <1>6, <3>6, <3>11, <4>1, <4>2, TextAdded
    <3>13. /\ r.curBlockType = KindOf(p) /\ r.curBlockIndex = Len(f) /\ r.nextBlockIndex = Len(f) + 1
           /\ y.open = r.curBlockIndex /\ g.type = KindOf(p) /\ Len(f) <= Len(ps)
      BY <1>2, <2>1, <3>2, <3>4, <3>6, <3>8, <3>10, <3>11 DEF SameBlock
    <3>14. Good(m, c, r, Append(ps, p))
      BY <3>10, <3>11, <3>12, <3>13, Agreed
    <3>15. Framed(s, r)
      BY <3>2, <3>10 DEF Framed
    <3> QED BY <1>3, <3>10, <3>14, <3>15
  <2> QED BY <2>2, <2>3
<1>7. CASE ~ IsText(p)
  <2>1. KindOf(p) = "tool_use" /\ p.name \in Names /\ p.args \in BOOLEAN
    BY <1>7, PartKinds DEF KindOf
  <2>2. CASE s.curBlockType = "tool_use"
    <3>1. r = IF p.args THEN BlockDelta(s, "tool_use", p) ELSE s
      BY <1>3, <1>4, <1>7, <2>2 DEF HandlePart, StopIfOpen, EnsureBlock
    <3>2. PICK f \in Seq(Blocks), b \in Blocks :
                   /\ d.blocks = Append(f, b) /\ b.type = "tool_use"
                   /\ s.curBlockIndex = Len(f) /\ d.open = s.curBlockIndex
                   /\ s.nextBlockIndex = Len(f) + 1 /\ Len(f) < MaxParts /\ Len(f) <= Len(ps)
      BY <1>4, <1>5, <2>2
    <3>3. Len(ps) > 0 /\ ~ IsText(ps[Len(ps)])
      <4>1. Len(ps) > 0 /\ KindOf(ps[Len(ps)]) = "tool_use"
        BY <1>4, <1>5, <2>2
      <4> QED BY <4>1 DEF KindOf
    <3>4. /\ r \in Converters /\ Framed(s, r) /\ SameBlock(s, r)
          /\ \E x, g : /\ Runs(m, c, r.events, x)
                       /\ x \in SseClients /\ x.phase = "streaming" /\ x.reason = None
                       /\ x.open = d.open /\ x.blocks = Append(f, g)
                       /\ g \in Blocks /\ g.type = b.type
      <4>1. CASE p.args
        <5>1. r = BlockDelta(s, b.type, p)
          BY <3>1, <3>2, <4>1
        <5>2. HasSaid(m, c, s, r, d.open, f, b, p)
          BY <1>1, <1>2, <3>2, <5>1, Said
        <5> QED BY <5>2 DEF HasSaid
      <4>2. CASE ~ p.args
        <5>1. r = s
          BY <3>1, <4>2
        <5> QED BY <1>1, <1>2, <3>2, <5>1 DEF Framed, SameBlock
      <4> QED BY <4>1, <4>2
    <3>5. PICK x, g : /\ Runs(m, c, r.events, x)
                       /\ x \in SseClients /\ x.phase = "streaming" /\ x.reason = None
                       /\ x.open = d.open /\ x.blocks = Append(f, g)
                       /\ g \in Blocks /\ g.type = b.type
      BY <3>4
    <3>6. BlocksHold(Append(f, g), Append(ps, p))
      <4>1. BlocksHold(Append(f, b), ps) /\ g.type = "tool_use"
        BY <1>1, <3>2, <3>5
      <4> QED BY <1>7, <3>2, <3>3, <3>5, <4>1, CallMerged
    <3>7. /\ r.curBlockType = KindOf(p) /\ r.curBlockIndex = Len(f) /\ r.nextBlockIndex = Len(f) + 1
          /\ x.open = r.curBlockIndex /\ g.type = KindOf(p)
      BY <2>1, <2>2, <3>2, <3>4, <3>5 DEF SameBlock
    <3>8. Good(m, c, r, Append(ps, p))
      BY <3>2, <3>4, <3>5, <3>6, <3>7, Agreed
    <3> QED BY <1>3, <3>4, <3>8
  <2>3. CASE s.curBlockType # "tool_use"
    <3>1. PICK q : q = EnsureBlock(StopIfOpen(s, "text"), "tool_use", p.name)
      OBVIOUS
    <3>2. /\ q \in Converters /\ Framed(s, q) /\ q.curBlockType = "tool_use"
          /\ q.curBlockIndex = s.nextBlockIndex /\ q.nextBlockIndex = s.nextBlockIndex + 1
          /\ \E x : /\ Runs(m, c, q.events, x) /\ x \in SseClients /\ x.phase = "streaming"
                    /\ x.reason = None /\ x.open = q.curBlockIndex
                    /\ x.blocks = Append(d.blocks, NewBlock("tool_use", p.name))
      <4>1. Fits("tool_use", p.name)
        BY <2>1, NoneAssumption DEF Fits
      <4>2. PICK name \in Names \cup {None} : name = p.name
        BY <2>1
      <4>3. q = EnsureBlock(StopIfOpen(s, Other("tool_use")), "tool_use", name) /\ Fits("tool_use", name)
        BY <1>4, <3>1, <4>1, <4>2
      <4>4. HasOpened(m, c, s, q, d, "tool_use", name)
        BY <1>1, <1>4, <2>3, <4>3, Opened
      <4> QED BY <4>2, <4>4 DEF HasOpened
    <3>3. PICK b : b = NewBlock("tool_use", p.name)
      OBVIOUS
    <3>4. PICK x : /\ Runs(m, c, q.events, x) /\ x \in SseClients /\ x.phase = "streaming"
                   /\ x.reason = None /\ x.open = q.curBlockIndex
                   /\ x.blocks = Append(d.blocks, b)
      BY <3>2, <3>3
    <3>5. <<>> \in Seq(Fragments) /\ Append(<<>>, p) = <<p>>
      OBVIOUS
    <3>6. b \in Blocks /\ b.type = "tool_use" /\ b.tool = p.name /\ b.content = <<>>
      BY <2>1, <3>3, <3>5 DEF Blocks, NewBlock, Kinds
    <3>7. PICK f \in Seq(Blocks) : f = d.blocks
      BY <1>2
    <3>8. r = IF p.args THEN BlockDelta(q, "tool_use", p) ELSE q
      BY <1>3, <1>7, <3>1 DEF HandlePart
    <3>9. /\ r \in Converters /\ Framed(q, r) /\ SameBlock(q, r)
          /\ \E y, g : /\ Runs(m, c, r.events, y)
                       /\ y \in SseClients /\ y.phase = "streaming" /\ y.reason = None
                       /\ y.open = x.open /\ y.blocks = Append(f, g)
                       /\ g \in Blocks /\ g.type = b.type /\ g.tool = b.tool
                       /\ g.content = IF p.args THEN <<p>> ELSE <<>>
      <4>1. CASE p.args
        <5>1. /\ x.blocks = Append(f, b) /\ q.curBlockIndex = Len(f)
              /\ Len(f) < MaxParts /\ r = BlockDelta(q, b.type, p)
          BY <1>2, <3>2, <3>4, <3>6, <3>7, <3>8, <4>1, Bounds
        <5>2. HasSaid(m, c, q, r, x.open, f, b, p)
          BY <3>2, <3>4, <3>6, <5>1, Said
        <5>3. Append(b.content, p) = IF p.args THEN <<p>> ELSE <<>>
          BY <3>5, <3>6, <4>1
        <5> QED BY <5>2, <5>3 DEF HasSaid
      <4>2. CASE ~ p.args
        <5>1. r = q /\ x.blocks = Append(f, b) /\ b.content = IF p.args THEN <<p>> ELSE <<>>
          BY <3>4, <3>6, <3>7, <3>8, <4>2
        <5> QED BY <3>2, <3>4, <3>6, <5>1 DEF Framed, SameBlock
      <4> QED BY <4>1, <4>2
    <3>10. PICK y, g : /\ Runs(m, c, r.events, y)
                       /\ y \in SseClients /\ y.phase = "streaming" /\ y.reason = None
                       /\ y.open = x.open /\ y.blocks = Append(f, g)
                       /\ g \in Blocks /\ g.type = b.type /\ g.tool = b.tool
                       /\ g.content = IF p.args THEN <<p>> ELSE <<>>
      BY <3>9
    <3>11. BlocksHold(Append(f, g), Append(ps, p))
      <4>1. BlocksHold(f, ps) /\ g.type = "tool_use" /\ g.tool = p.name
        BY <1>1, <3>6, <3>7, <3>10
      <4> QED BY <1>7, <3>10, <4>1, CallOpened
    <3>12. /\ r.curBlockType = KindOf(p) /\ r.curBlockIndex = Len(f) /\ r.nextBlockIndex = Len(f) + 1
           /\ y.open = r.curBlockIndex /\ g.type = KindOf(p) /\ Len(f) <= Len(ps)
      BY <1>2, <2>1, <3>2, <3>4, <3>6, <3>7, <3>9, <3>10 DEF SameBlock
    <3>13. Good(m, c, r, Append(ps, p))
      BY <3>9, <3>10, <3>11, <3>12, Agreed
    <3>14. Framed(s, r)
      BY <3>2, <3>9 DEF Framed
    <3> QED BY <1>3, <3>9, <3>13, <3>14
  <2> QED BY <2>2, <2>3
<1> QED BY <1>6, <1>7

-----------------------------------------------------------------------------
(* FoldLeft over the at most two parts of a chunk, and over their calls.   *)
LEMMA Maxima == Max({1}) = 1 /\ Max({2}) = 2 /\ Max({1, 2}) = 2
<1>1. Max({1}) = 1
  BY DEF Max
<1>2. Max({2}) = 2
  BY DEF Max
<1>3. Max({1, 2}) = 2
  BY DEF Max
<1> QED BY <1>1, <1>2, <1>3

LEMMA Subsets ==
  /\ SUBSET {1} = {{}, {1}} /\ SUBSET {1, 2} = {{}, {1}, {2}, {1, 2}}
  /\ {1} \ {1} = {} /\ {2} \ {2} = {} /\ {1, 2} \ {2} = {1}
  /\ {1} # {} /\ {2} # {} /\ {1, 2} # {} /\ {1} # {2} /\ {1, 2} # {1} /\ {1, 2} # {2}
OBVIOUS

AllParts(base, seq) == FoldLeft(HandlePart, base, seq)

PartSteps(base, seq, it) ==
    it = [s \in SUBSET (DOMAIN seq) |->
            IF s = {} THEN base ELSE HandlePart(it[s \ {Max(s)}], seq[Max(s)])]

LEMMA PartUnfolded ==
  ASSUME NEW base, NEW seq
  PROVE  AllParts(base, seq) = (CHOOSE it : PartSteps(base, seq, it))[DOMAIN seq]
BY DEF AllParts, FoldLeft, MapThenFoldSet, PartSteps

LEMMA PartFolded0 ==
  ASSUME NEW base
  PROVE  AllParts(base, <<>>) = base
<1>1. PICK it : it = CHOOSE i : PartSteps(base, <<>>, i)
  OBVIOUS
<1>2. DOMAIN <<>> = {} /\ SUBSET {} = {{}}
  OBVIOUS
<1>3. PICK w : w = [s \in SUBSET {} |-> base]
  OBVIOUS
<1>4. w = [s \in SUBSET {} |-> IF s = {} THEN base ELSE HandlePart(w[s \ {Max(s)}], <<>>[Max(s)])]
  BY <1>2, <1>3
<1>5. PartSteps(base, <<>>, w)
  BY <1>2, <1>4 DEF PartSteps
<1>6. PartSteps(base, <<>>, it)
  BY <1>1, <1>5
<1>7. it[{}] = base
  BY <1>2, <1>6 DEF PartSteps
<1> QED BY <1>1, <1>2, <1>7, PartUnfolded

LEMMA PartFolded1 ==
  ASSUME NEW base, NEW x
  PROVE  AllParts(base, <<x>>) = HandlePart(base, x)
<1>1. PICK it : it = CHOOSE i : PartSteps(base, <<x>>, i)
  OBVIOUS
<1>2. DOMAIN <<x>> = {1} /\ <<x>>[1] = x
  OBVIOUS
<1>3. PICK w : w = [s \in SUBSET {1} |-> IF s = {} THEN base ELSE HandlePart(base, x)]
  OBVIOUS
<1>4. w[{}] = base /\ w[{1}] = HandlePart(base, x)
  BY <1>3, Subsets
<1>5. ASSUME NEW s \in SUBSET {1}
      PROVE  w[s] = IF s = {} THEN base ELSE HandlePart(w[s \ {Max(s)}], <<x>>[Max(s)])
  <2>1. CASE s = {}
    BY <1>4, <2>1
  <2>2. CASE s = {1}
    BY <1>2, <1>4, <2>2, Maxima, Subsets
  <2> QED BY <2>1, <2>2, Subsets
<1>6. PartSteps(base, <<x>>, w)
  BY <1>2, <1>3, <1>5, Zenon DEF PartSteps
<1>7. PartSteps(base, <<x>>, it)
  BY <1>1, <1>6
<1>8. it[{}] = base /\ it[{1}] = HandlePart(it[{1} \ {Max({1})}], <<x>>[Max({1})])
  <2>1. {} \in SUBSET {1} /\ {1} \in SUBSET {1} /\ {1} # {}
    OBVIOUS
  <2> QED BY <1>2, <1>7, <2>1 DEF PartSteps
<1>9. it[{1}] = HandlePart(base, x)
  BY <1>2, <1>8, Maxima, Subsets
<1> QED BY <1>1, <1>2, <1>9, PartUnfolded

LEMMA PartFolded2 ==
  ASSUME NEW base, NEW x, NEW y
  PROVE  AllParts(base, <<x, y>>) = HandlePart(HandlePart(base, x), y)
<1>1. PICK it : it = CHOOSE i : PartSteps(base, <<x, y>>, i)
  OBVIOUS
<1>2. DOMAIN <<x, y>> = {1, 2} /\ <<x, y>>[1] = x /\ <<x, y>>[2] = y
  OBVIOUS
<1>3. PICK w : w = [s \in SUBSET {1, 2} |->
                      IF s = {} THEN base ELSE IF s = {1} THEN HandlePart(base, x)
                      ELSE IF s = {2} THEN HandlePart(base, y) ELSE HandlePart(HandlePart(base, x), y)]
  OBVIOUS
<1>4. /\ w[{}] = base /\ w[{1}] = HandlePart(base, x) /\ w[{2}] = HandlePart(base, y)
      /\ w[{1, 2}] = HandlePart(HandlePart(base, x), y)
  BY <1>3, Subsets
<1>5. ASSUME NEW s \in SUBSET {1, 2}
      PROVE  w[s] = IF s = {} THEN base ELSE HandlePart(w[s \ {Max(s)}], <<x, y>>[Max(s)])
  <2>1. CASE s = {}
    BY <1>4, <2>1
  <2>2. CASE s = {1}
    BY <1>2, <1>4, <2>2, Maxima, Subsets
  <2>3. CASE s = {2}
    BY <1>2, <1>4, <2>3, Maxima, Subsets
  <2>4. CASE s = {1, 2}
    BY <1>2, <1>4, <2>4, Maxima, Subsets
  <2> QED BY <2>1, <2>2, <2>3, <2>4, Subsets
<1>6. PartSteps(base, <<x, y>>, w)
  BY <1>2, <1>3, <1>5, Zenon DEF PartSteps
<1>7. PartSteps(base, <<x, y>>, it)
  BY <1>1, <1>6
<1>8. /\ it[{}] = base /\ it[{1}] = HandlePart(it[{1} \ {Max({1})}], <<x, y>>[Max({1})])
      /\ it[{1, 2}] = HandlePart(it[{1, 2} \ {Max({1, 2})}], <<x, y>>[Max({1, 2})])
  <2>1. {} \in SUBSET {1, 2} /\ {1} \in SUBSET {1, 2} /\ {1, 2} \in SUBSET {1, 2}
       /\ {1} # {} /\ {1, 2} # {}
    OBVIOUS
  <2> QED BY <1>2, <1>7, <2>1 DEF PartSteps
<1>9. it[{1}] = HandlePart(base, x)
  BY <1>2, <1>8, Maxima, Subsets
<1>10. it[{1, 2}] = HandlePart(HandlePart(base, x), y)
  BY <1>2, <1>8, <1>9, Maxima, Subsets
<1> QED BY <1>1, <1>2, <1>10, PartUnfolded

AllAdded(base, seq) == FoldLeft(AddPart, base, seq)

AddSteps(base, seq, it) ==
    it = [s \in SUBSET (DOMAIN seq) |->
            IF s = {} THEN base ELSE AddPart(it[s \ {Max(s)}], seq[Max(s)])]

LEMMA AddUnfolded ==
  ASSUME NEW base, NEW seq
  PROVE  AllAdded(base, seq) = (CHOOSE it : AddSteps(base, seq, it))[DOMAIN seq]
BY DEF AllAdded, FoldLeft, MapThenFoldSet, AddSteps

LEMMA AddFolded0 ==
  ASSUME NEW base
  PROVE  AllAdded(base, <<>>) = base
<1>1. PICK it : it = CHOOSE i : AddSteps(base, <<>>, i)
  OBVIOUS
<1>2. DOMAIN <<>> = {} /\ SUBSET {} = {{}}
  OBVIOUS
<1>3. PICK w : w = [s \in SUBSET {} |-> base]
  OBVIOUS
<1>4. w = [s \in SUBSET {} |-> IF s = {} THEN base ELSE AddPart(w[s \ {Max(s)}], <<>>[Max(s)])]
  BY <1>2, <1>3
<1>5. AddSteps(base, <<>>, w)
  BY <1>2, <1>4 DEF AddSteps
<1>6. AddSteps(base, <<>>, it)
  BY <1>1, <1>5
<1>7. it[{}] = base
  BY <1>2, <1>6 DEF AddSteps
<1> QED BY <1>1, <1>2, <1>7, AddUnfolded

LEMMA AddFolded1 ==
  ASSUME NEW base, NEW x
  PROVE  AllAdded(base, <<x>>) = AddPart(base, x)
<1>1. PICK it : it = CHOOSE i : AddSteps(base, <<x>>, i)
  OBVIOUS
<1>2. DOMAIN <<x>> = {1} /\ <<x>>[1] = x
  OBVIOUS
<1>3. PICK w : w = [s \in SUBSET {1} |-> IF s = {} THEN base ELSE AddPart(base, x)]
  OBVIOUS
<1>4. w[{}] = base /\ w[{1}] = AddPart(base, x)
  BY <1>3, Subsets
<1>5. ASSUME NEW s \in SUBSET {1}
      PROVE  w[s] = IF s = {} THEN base ELSE AddPart(w[s \ {Max(s)}], <<x>>[Max(s)])
  <2>1. CASE s = {}
    BY <1>4, <2>1
  <2>2. CASE s = {1}
    BY <1>2, <1>4, <2>2, Maxima, Subsets
  <2> QED BY <2>1, <2>2, Subsets
<1>6. AddSteps(base, <<x>>, w)
  BY <1>2, <1>3, <1>5 DEF AddSteps
<1>7. AddSteps(base, <<x>>, it)
  BY <1>1, <1>6
<1>8. it[{}] = base /\ it[{1}] = AddPart(it[{1} \ {Max({1})}], <<x>>[Max({1})])
  <2>1. {} \in SUBSET {1} /\ {1} \in SUBSET {1} /\ {1} # {}
    OBVIOUS
  <2> QED BY <1>2, <1>7, <2>1 DEF AddSteps
<1>9. it[{1}] = AddPart(base, x)
  BY <1>2, <1>8, Maxima, Subsets
<1> QED BY <1>1, <1>2, <1>9, AddUnfolded

LEMMA AddFolded2 ==
  ASSUME NEW base, NEW x, NEW y
  PROVE  AllAdded(base, <<x, y>>) = AddPart(AddPart(base, x), y)
<1>1. PICK it : it = CHOOSE i : AddSteps(base, <<x, y>>, i)
  OBVIOUS
<1>2. DOMAIN <<x, y>> = {1, 2} /\ <<x, y>>[1] = x /\ <<x, y>>[2] = y
  OBVIOUS
<1>3. PICK w : w = [s \in SUBSET {1, 2} |->
                      IF s = {} THEN base ELSE IF s = {1} THEN AddPart(base, x)
                      ELSE IF s = {2} THEN AddPart(base, y) ELSE AddPart(AddPart(base, x), y)]
  OBVIOUS
<1>4. /\ w[{}] = base /\ w[{1}] = AddPart(base, x) /\ w[{2}] = AddPart(base, y)
      /\ w[{1, 2}] = AddPart(AddPart(base, x), y)
  BY <1>3, Subsets
<1>5. ASSUME NEW s \in SUBSET {1, 2}
      PROVE  w[s] = IF s = {} THEN base ELSE AddPart(w[s \ {Max(s)}], <<x, y>>[Max(s)])
  <2>1. CASE s = {}
    BY <1>4, <2>1
  <2>2. CASE s = {1}
    BY <1>2, <1>4, <2>2, Maxima, Subsets
  <2>3. CASE s = {2}
    BY <1>2, <1>4, <2>3, Maxima, Subsets
  <2>4. CASE s = {1, 2}
    BY <1>2, <1>4, <2>4, Maxima, Subsets
  <2> QED BY <2>1, <2>2, <2>3, <2>4, Subsets
<1>6. AddSteps(base, <<x, y>>, w)
  BY <1>2, <1>3, <1>5 DEF AddSteps
<1>7. AddSteps(base, <<x, y>>, it)
  BY <1>1, <1>6
<1>8. /\ it[{}] = base /\ it[{1}] = AddPart(it[{1} \ {Max({1})}], <<x, y>>[Max({1})])
      /\ it[{1, 2}] = AddPart(it[{1, 2} \ {Max({1, 2})}], <<x, y>>[Max({1, 2})])
  <2>1. {} \in SUBSET {1, 2} /\ {1} \in SUBSET {1, 2} /\ {1, 2} \in SUBSET {1, 2}
       /\ {1} # {} /\ {1, 2} # {}
    OBVIOUS
  <2> QED BY <1>2, <1>7, <2>1 DEF AddSteps
<1>9. it[{1}] = AddPart(base, x)
  BY <1>2, <1>8, Maxima, Subsets
<1>10. it[{1, 2}] = AddPart(AddPart(base, x), y)
  BY <1>2, <1>8, <1>9, Maxima, Subsets
<1> QED BY <1>1, <1>2, <1>10, AddUnfolded

LEMMA ChatMaxima == Chat!Max({1}) = 1 /\ Chat!Max({2}) = 2 /\ Chat!Max({1, 2}) = 2
<1>1. Chat!Max({1}) = 1
  BY DEF Chat!Max
<1>2. Chat!Max({2}) = 2
  BY DEF Chat!Max
<1>3. Chat!Max({1, 2}) = 2
  BY DEF Chat!Max
<1> QED BY <1>1, <1>2, <1>3

AllJoined(base, seq) == Chat!FoldLeft(Chat!Join, base, seq)

JoinSteps(base, seq, it) ==
    it = [s \in SUBSET (DOMAIN seq) |->
            IF s = {} THEN base ELSE Chat!Join(it[s \ {Chat!Max(s)}], seq[Chat!Max(s)])]

LEMMA JoinUnfolded ==
  ASSUME NEW base, NEW seq
  PROVE  AllJoined(base, seq) = (CHOOSE it : JoinSteps(base, seq, it))[DOMAIN seq]
BY DEF AllJoined, Chat!FoldLeft, Chat!MapThenFoldSet, JoinSteps

LEMMA JoinFolded0 ==
  ASSUME NEW base
  PROVE  AllJoined(base, <<>>) = base
<1>1. PICK it : it = CHOOSE i : JoinSteps(base, <<>>, i)
  OBVIOUS
<1>2. DOMAIN <<>> = {} /\ SUBSET {} = {{}}
  OBVIOUS
<1>3. PICK w : w = [s \in SUBSET {} |-> base]
  OBVIOUS
<1>4. w = [s \in SUBSET {} |-> IF s = {} THEN base ELSE Chat!Join(w[s \ {Chat!Max(s)}], <<>>[Chat!Max(s)])]
  BY <1>2, <1>3
<1>5. JoinSteps(base, <<>>, w)
  BY <1>2, <1>4 DEF JoinSteps
<1>6. JoinSteps(base, <<>>, it)
  BY <1>1, <1>5
<1>7. it[{}] = base
  BY <1>2, <1>6 DEF JoinSteps
<1> QED BY <1>1, <1>2, <1>7, JoinUnfolded

LEMMA JoinFolded1 ==
  ASSUME NEW base, NEW x
  PROVE  AllJoined(base, <<x>>) = Chat!Join(base, x)
<1>1. PICK it : it = CHOOSE i : JoinSteps(base, <<x>>, i)
  OBVIOUS
<1>2. DOMAIN <<x>> = {1} /\ <<x>>[1] = x
  OBVIOUS
<1>3. PICK w : w = [s \in SUBSET {1} |-> IF s = {} THEN base ELSE Chat!Join(base, x)]
  OBVIOUS
<1>4. w[{}] = base /\ w[{1}] = Chat!Join(base, x)
  BY <1>3, Subsets
<1>5. ASSUME NEW s \in SUBSET {1}
      PROVE  w[s] = IF s = {} THEN base ELSE Chat!Join(w[s \ {Chat!Max(s)}], <<x>>[Chat!Max(s)])
  <2>1. CASE s = {}
    BY <1>4, <2>1
  <2>2. CASE s = {1}
    BY <1>2, <1>4, <2>2, ChatMaxima, Subsets
  <2> QED BY <2>1, <2>2, Subsets
<1>6. JoinSteps(base, <<x>>, w)
  BY <1>2, <1>3, <1>5, Zenon DEF JoinSteps
<1>7. JoinSteps(base, <<x>>, it)
  BY <1>1, <1>6
<1>8. it[{}] = base /\ it[{1}] = Chat!Join(it[{1} \ {Chat!Max({1})}], <<x>>[Chat!Max({1})])
  <2>1. {} \in SUBSET {1} /\ {1} \in SUBSET {1} /\ {1} # {}
    OBVIOUS
  <2> QED BY <1>2, <1>7, <2>1 DEF JoinSteps
<1>9. it[{1}] = Chat!Join(base, x)
  BY <1>2, <1>8, ChatMaxima, Subsets
<1> QED BY <1>1, <1>2, <1>9, JoinUnfolded

LEMMA JoinFolded2 ==
  ASSUME NEW base, NEW x, NEW y
  PROVE  AllJoined(base, <<x, y>>) = Chat!Join(Chat!Join(base, x), y)
<1>1. PICK it : it = CHOOSE i : JoinSteps(base, <<x, y>>, i)
  OBVIOUS
<1>2. DOMAIN <<x, y>> = {1, 2} /\ <<x, y>>[1] = x /\ <<x, y>>[2] = y
  OBVIOUS
<1>3. PICK w : w = [s \in SUBSET {1, 2} |->
                      IF s = {} THEN base ELSE IF s = {1} THEN Chat!Join(base, x)
                      ELSE IF s = {2} THEN Chat!Join(base, y) ELSE Chat!Join(Chat!Join(base, x), y)]
  OBVIOUS
<1>4. /\ w[{}] = base /\ w[{1}] = Chat!Join(base, x) /\ w[{2}] = Chat!Join(base, y)
      /\ w[{1, 2}] = Chat!Join(Chat!Join(base, x), y)
  BY <1>3, Subsets
<1>5. ASSUME NEW s \in SUBSET {1, 2}
      PROVE  w[s] = IF s = {} THEN base ELSE Chat!Join(w[s \ {Chat!Max(s)}], <<x, y>>[Chat!Max(s)])
  <2>1. CASE s = {}
    BY <1>4, <2>1
  <2>2. CASE s = {1}
    BY <1>2, <1>4, <2>2, ChatMaxima, Subsets
  <2>3. CASE s = {2}
    BY <1>2, <1>4, <2>3, ChatMaxima, Subsets
  <2>4. CASE s = {1, 2}
    BY <1>2, <1>4, <2>4, ChatMaxima, Subsets
  <2> QED BY <2>1, <2>2, <2>3, <2>4, Subsets
<1>6. JoinSteps(base, <<x, y>>, w)
  BY <1>2, <1>3, <1>5, Zenon DEF JoinSteps
<1>7. JoinSteps(base, <<x, y>>, it)
  BY <1>1, <1>6
<1>8. /\ it[{}] = base /\ it[{1}] = Chat!Join(it[{1} \ {Chat!Max({1})}], <<x, y>>[Chat!Max({1})])
      /\ it[{1, 2}] = Chat!Join(it[{1, 2} \ {Chat!Max({1, 2})}], <<x, y>>[Chat!Max({1, 2})])
  <2>1. {} \in SUBSET {1, 2} /\ {1} \in SUBSET {1, 2} /\ {1, 2} \in SUBSET {1, 2}
       /\ {1} # {} /\ {1, 2} # {}
    OBVIOUS
  <2> QED BY <1>2, <1>7, <2>1 DEF JoinSteps
<1>9. it[{1}] = Chat!Join(base, x)
  BY <1>2, <1>8, ChatMaxima, Subsets
<1>10. it[{1, 2}] = Chat!Join(Chat!Join(base, x), y)
  BY <1>2, <1>8, <1>9, ChatMaxima, Subsets
<1> QED BY <1>1, <1>2, <1>10, JoinUnfolded

-----------------------------------------------------------------------------
(* What the parts of a chunk are, and what is left of them by kind.        *)
Short(parts) ==
    \/ parts = <<>>
    \/ \E p \in Fragments : parts = <<p>>
    \/ \E p, q \in Fragments : parts = <<p, q>>

LEMMA ShortParts ==
  ASSUME NEW n \in Nat, NEW parts \in PartSeqs(n), n + Len(parts) <= MaxParts
  PROVE  Short(parts)
<1>1. ASSUME NEW k \in 1 .. MaxParts, NEW p \in Parts(k)
      PROVE  p \in Fragments
  <2>1. CASE p = [n |-> k]
    BY <2>1 DEF Fragments, TextParts
  <2>2. CASE p \in [n : {k}, name : Names, args : BOOLEAN]
    BY <2>2 DEF Fragments, CallParts
  <2> QED BY <2>1, <2>2 DEF Parts
<1>2. CASE parts = <<>>
  BY <1>2 DEF Short
<1>3. ASSUME NEW p \in Parts(n + 1), parts = <<p>>
      PROVE  Short(parts)
  <2>1. n + 1 \in 1 .. MaxParts
    BY <1>3, Bounds
  <2> QED BY <1>1, <1>3, <2>1 DEF Short
<1>4. ASSUME NEW p \in Parts(n + 1), NEW q \in Parts(n + 2), parts = <<p, q>>
      PROVE  Short(parts)
  <2>1. n + 1 \in 1 .. MaxParts /\ n + 2 \in 1 .. MaxParts
    BY <1>4, Bounds
  <2>2. p \in Fragments /\ q \in Fragments
    BY <1>1, <2>1
  <2> QED BY <1>4, <2>2 DEF Short
<1> QED BY <1>2, <1>3, <1>4 DEF PartSeqs

LEMMA KindsOfParts ==
  ASSUME NEW ps \in Seq(Fragments)
  PROVE  /\ TextsOf(ps) \in Seq(TextParts) /\ CallsOf(ps) \in Seq(CallParts)
         /\ Len(CallsOf(ps)) <= Len(ps) /\ (HasCall(ps) <=> CallsOf(ps) # <<>>)
         /\ ps # <<>> => TextsOf(ps) # <<>> \/ CallsOf(ps) # <<>>
<1> DEFINE Fact(qs) == /\ TextsOf(qs) \in Seq(TextParts) /\ CallsOf(qs) \in Seq(CallParts)
                       /\ Len(CallsOf(qs)) <= Len(qs) /\ (HasCall(qs) <=> CallsOf(qs) # <<>>)
                       /\ qs # <<>> => TextsOf(qs) # <<>> \/ CallsOf(qs) # <<>>
<1>1. PICK T : T = {n \in Nat : \A qs \in Seq(Fragments) : Len(qs) = n => Fact(qs)}
  OBVIOUS
<1>2. 0 \in T
  <2>1. Fact(<<>>)
    <3>1. ~ HasCall(<<>>)
      BY DEF HasCall
    <3>2. <<>> \in Seq(TextParts) /\ <<>> \in Seq(CallParts) /\ Len(<<>>) = 0
      OBVIOUS
    <3>3. TextsOf(<<>>) = <<>> /\ CallsOf(<<>>) = <<>>
      BY NoParts
    <3>4. TextsOf(<<>>) \in Seq(TextParts) /\ CallsOf(<<>>) \in Seq(CallParts)
      BY <3>2, <3>3
    <3>5. Len(CallsOf(<<>>)) <= Len(<<>>)
      BY <3>2, <3>3
    <3> QED BY <3>1, <3>3, <3>4, <3>5
  <2>2. \A qs \in Seq(Fragments) : Len(qs) = 0 => qs = <<>>
    BY EmptySeq
  <2> QED BY <1>1, <2>1, <2>2
<1>3. ASSUME NEW n \in Nat, n \in T
      PROVE  n + 1 \in T
  <2>1. SUFFICES ASSUME NEW qs \in Seq(Fragments), Len(qs) = n + 1
                 PROVE  Fact(qs)
    BY <1>1
  <2>a. qs # <<>>
    BY <2>1
  <2>2. PICK f \in Seq(Fragments), p \in Fragments : qs = Append(f, p)
    BY <2>a, SequenceEmptyOrAppend
  <2>3. Len(f) = n /\ (\A i \in 1 .. n : qs[i] = f[i]) /\ qs[n + 1] = p
    BY <2>1, <2>2
  <2>4. Fact(f)
    BY <1>1, <1>3, <2>3
  <2>5. PICK ts \in Seq(TextParts) : ts = TextsOf(f)
    BY <2>4
  <2>6. PICK cs \in Seq(CallParts) : cs = CallsOf(f)
    BY <2>4
  <2>7. TextsOf(qs) = ts \o OnlyText(p) /\ CallsOf(qs) = cs \o OnlyCall(p)
    BY <2>2, <2>5, <2>6, PartsSnoc
  <2>8. HasCall(qs) <=> HasCall(f) \/ ~ IsText(p)
    <3>1. DOMAIN qs = 1 .. n + 1 /\ DOMAIN f = 1 .. n
      BY <2>1, <2>3
    <3>2. HasCall(f) => HasCall(qs)
      <4>1. SUFFICES ASSUME NEW i \in 1 .. n, ~ IsText(f[i])
                     PROVE  HasCall(qs)
        BY <3>1 DEF HasCall
      <4>2. i \in 1 .. n + 1 /\ qs[i] = f[i]
        BY <2>3
      <4> QED BY <3>1, <4>1, <4>2 DEF HasCall
    <3>3. ~ IsText(p) => HasCall(qs)
      <4>1. n + 1 \in 1 .. n + 1
        OBVIOUS
      <4> QED BY <2>3, <3>1, <4>1 DEF HasCall
    <3>4. HasCall(qs) => HasCall(f) \/ ~ IsText(p)
      <4>1. SUFFICES ASSUME NEW i \in 1 .. n + 1, ~ IsText(qs[i])
                     PROVE  HasCall(f) \/ ~ IsText(p)
        BY <3>1 DEF HasCall
      <4>2. CASE i = n + 1
        BY <2>3, <4>1, <4>2
      <4>3. CASE i \in 1 .. n
        BY <2>3, <3>1, <4>1, <4>3 DEF HasCall
      <4> QED BY <4>2, <4>3
    <3> QED BY <3>2, <3>3, <3>4
  <2>9. CASE IsText(p)
    <3>1. p \in TextParts /\ OnlyText(p) = <<p>> /\ OnlyCall(p) = <<>>
      BY <2>9, PartKinds DEF OnlyText, OnlyCall
    <3>2. TextsOf(qs) \in Seq(TextParts) /\ TextsOf(qs) # <<>>
      BY <2>7, <3>1
    <3>3. CallsOf(qs) = cs
      BY <2>7, <3>1
    <3> QED BY <2>1, <2>3, <2>4, <2>6, <2>8, <2>9, <3>2, <3>3
  <2>10. CASE ~ IsText(p)
    <3>1. p \in CallParts /\ OnlyText(p) = <<>> /\ OnlyCall(p) = <<p>>
      BY <2>10, PartKinds DEF OnlyText, OnlyCall
    <3>2. TextsOf(qs) = ts
      BY <2>7, <3>1
    <3>3. CallsOf(qs) \in Seq(CallParts) /\ CallsOf(qs) # <<>> /\ Len(CallsOf(qs)) = Len(cs) + 1
      BY <2>7, <3>1
    <3> QED BY <2>1, <2>3, <2>4, <2>6, <2>8, <2>10, <3>2, <3>3
  <2> QED BY <2>9, <2>10
<1>4. Nat \subseteq T
  BY <1>2, <1>3, Induction
<1>5. Len(ps) \in Nat
  OBVIOUS
<1> QED BY <1>1, <1>4, <1>5

LEMMA KindsConcat ==
  ASSUME NEW ps \in Seq(Fragments), NEW parts, Short(parts)
  PROVE  /\ TextsOf(ps \o parts) = TextsOf(ps) \o TextsOf(parts)
         /\ CallsOf(ps \o parts) = CallsOf(ps) \o CallsOf(parts)
<1>1. TextsOf(ps) \in Seq(Fragments) /\ CallsOf(ps) \in Seq(Fragments)
  BY KindsOfParts DEF Fragments
<1>2. CASE parts = <<>>
  <2>1. ps \o parts = ps
    BY <1>2
  <2> QED BY <1>1, <1>2, <2>1, NoParts
<1>3. ASSUME NEW p \in Fragments
      PROVE  /\ TextsOf(<<p>>) = OnlyText(p) /\ CallsOf(<<p>>) = OnlyCall(p)
             /\ OnlyText(p) \in Seq(Fragments) /\ OnlyCall(p) \in Seq(Fragments)
  <2>1. <<>> \in Seq(Fragments) /\ Append(<<>>, p) = <<p>> /\ <<p>> \in Seq(Fragments)
    OBVIOUS
  <2>2. OnlyText(p) \in Seq(Fragments) /\ OnlyCall(p) \in Seq(Fragments)
    BY <2>1 DEF OnlyText, OnlyCall
  <2>3. TextsOf(<<p>>) = <<>> \o OnlyText(p) /\ CallsOf(<<p>>) = <<>> \o OnlyCall(p)
    BY <2>1, PartsSnoc, NoParts
  <2> QED BY <2>2, <2>3
<1>4. ASSUME NEW p \in Fragments, parts = <<p>>
      PROVE  /\ TextsOf(ps \o parts) = TextsOf(ps) \o TextsOf(parts)
             /\ CallsOf(ps \o parts) = CallsOf(ps) \o CallsOf(parts)
  <2>1. ps \o parts = Append(ps, p)
    BY <1>4
  <2> QED BY <1>3, <1>4, <2>1, PartsSnoc
<1>5. ASSUME NEW p \in Fragments, NEW q \in Fragments, parts = <<p, q>>
      PROVE  /\ TextsOf(ps \o parts) = TextsOf(ps) \o TextsOf(parts)
             /\ CallsOf(ps \o parts) = CallsOf(ps) \o CallsOf(parts)
  <2>0. Append(ps, p) \in Seq(Fragments) /\ <<p>> \in Seq(Fragments)
    OBVIOUS
  <2>1. PICK qs \in Seq(Fragments) : qs = Append(ps, p)
    BY <2>0
  <2>2. ps \o parts = Append(qs, q)
    BY <1>5, <2>1
  <2>3. PICK one \in Seq(Fragments) : one = <<p>>
    BY <2>0
  <2>4. parts = Append(one, q)
    BY <1>5, <2>3
  <2>5. PICK a \in Seq(Fragments), b \in Seq(Fragments), c \in Seq(Fragments) :
           a = TextsOf(ps) /\ b = OnlyText(p) /\ c = OnlyText(q)
    BY <1>1, <1>3
  <2>6. PICK d \in Seq(Fragments), e \in Seq(Fragments), f \in Seq(Fragments) :
           d = CallsOf(ps) /\ e = OnlyCall(p) /\ f = OnlyCall(q)
    BY <1>1, <1>3
  <2>7. TextsOf(qs) = a \o b /\ CallsOf(qs) = d \o e
    BY <2>1, <2>5, <2>6, PartsSnoc
  <2>8. TextsOf(Append(qs, q)) = TextsOf(qs) \o c /\ CallsOf(Append(qs, q)) = CallsOf(qs) \o f
    BY <2>5, <2>6, PartsSnoc
  <2>9. TextsOf(one) = b /\ CallsOf(one) = e
    BY <1>3, <2>3, <2>5, <2>6
  <2>10. TextsOf(Append(one, q)) = TextsOf(one) \o c /\ CallsOf(Append(one, q)) = CallsOf(one) \o f
    BY <2>5, <2>6, PartsSnoc
  <2>11. Regroups(a, b, c) /\ Regroups(d, e, f)
    BY Regrouped
  <2>12. (a \o b) \o c = a \o (b \o c) /\ (d \o e) \o f = d \o (e \o f)
    BY <2>11 DEF Regroups
  <2> QED BY <2>2, <2>4, <2>5, <2>6, <2>7, <2>8, <2>9, <2>10, <2>12, Zenon
<1> QED BY <1>2, <1>4, <1>5 DEF Short

-----------------------------------------------------------------------------
(* The delta of a chunk, and what it does to an OpenAI client.             *)
Numbered(calls) == [i \in DOMAIN calls |-> [index |-> i - 1, call |-> calls[i]]]
DeltaFor(parts) == [content |-> TextsOf(parts), toolCalls |-> Numbered(CallsOf(parts))]

LEMMA AddedOne ==
  ASSUME NEW ps \in Seq(Fragments), NEW p \in Fragments
  PROVE  AddPart(DeltaFor(ps), p) = DeltaFor(Append(ps, p))
<1>1. PICK ts : ts = TextsOf(ps)
  OBVIOUS
<1>2. PICK cs : cs = CallsOf(ps)
  OBVIOUS
<1>3. ts \in Seq(TextParts) /\ cs \in Seq(CallParts) /\ ts \in Seq(Fragments)
  BY <1>1, <1>2, KindsOfParts, PartsSnoc
<1>4. TextsOf(Append(ps, p)) = ts \o OnlyText(p) /\ CallsOf(Append(ps, p)) = cs \o OnlyCall(p)
  BY <1>1, <1>2, PartsSnoc
<1>5. CASE IsText(p)
  <2>1. OnlyText(p) = <<p>> /\ OnlyCall(p) = <<>>
    BY <1>5 DEF OnlyText, OnlyCall
  <2>2. TextsOf(Append(ps, p)) = Append(ts, p)
    <3>1. PICK one : one = <<p>>
      OBVIOUS
    <3>2. Append(ts, p) = ts \o <<p>>
      BY <1>3, AppendIsConcat
    <3> QED BY <1>4, <2>1, <3>2
  <2>3. CallsOf(Append(ps, p)) = cs
    BY <1>3, <1>4, <2>1
  <2>4. AddPart(DeltaFor(ps), p) = [content |-> Append(ts, p), toolCalls |-> Numbered(cs)]
    BY <1>1, <1>2, <1>5 DEF AddPart, DeltaFor
  <2> QED BY <2>2, <2>3, <2>4 DEF DeltaFor
<1>6. CASE ~ IsText(p)
  <2>1. OnlyText(p) = <<>> /\ OnlyCall(p) = <<p>> /\ p \in CallParts
    BY <1>6, PartKinds DEF OnlyText, OnlyCall
  <2>2. TextsOf(Append(ps, p)) = ts
    BY <1>3, <1>4, <2>1
  <2>3. PICK ds : ds = Append(cs, p)
    OBVIOUS
  <2>4. CallsOf(Append(ps, p)) = ds
    <3>1. Append(cs, p) = cs \o <<p>>
      BY <1>3, <2>1, AppendIsConcat
    <3> QED BY <1>4, <2>1, <2>3, <3>1
  <2>5. PICK n \in Nat : n = Len(cs)
    BY <1>3
  <2>6. /\ ds \in Seq(CallParts) /\ DOMAIN ds = 1 .. n + 1 /\ ds[n + 1] = p /\ DOMAIN cs = 1 .. n
        /\ \A i \in 1 .. n : ds[i] = cs[i]
    BY <1>3, <2>1, <2>3, <2>5
  <2>7. PICK x : x = [index |-> n, call |-> p]
    OBVIOUS
  <2>8. PICK ns : ns = Numbered(cs)
    OBVIOUS
  <2>9. ns = [i \in 1 .. n |-> [index |-> i - 1, call |-> cs[i]]]
    BY <2>6, <2>8 DEF Numbered
  <2>10. Len(ns) = n
    BY <2>9
  <2>11. PICK ms : ms = Numbered(ds)
    OBVIOUS
  <2>12. ms = [i \in 1 .. n + 1 |-> [index |-> i - 1, call |-> ds[i]]]
    BY <2>6, <2>11 DEF Numbered
  <2>13. ms = Append(ns, x)
    <3>1. ms[n + 1] = x
      <4>1. PICK j \in 1 .. n + 1 : j = n + 1
        OBVIOUS
      <4>2. ms[j] = [index |-> j - 1, call |-> ds[j]]
        BY <2>12
      <4> QED BY <2>6, <2>7, <4>1, <4>2
    <3>2. \A i \in 1 .. n : ms[i] = ns[i]
      BY <2>6, <2>9, <2>12
    <3>3. PICK E : E = {ms[i] : i \in 1 .. n + 1}
      OBVIOUS
    <3>4. ms \in Seq(E) /\ Len(ms) = n + 1
      BY <2>12, <3>3
    <3>5. x \in E
      BY <3>1, <3>3
    <3>6. ns \in Seq(E)
      BY <2>9, <3>2, <3>3
    <3>7. Append(ns, x) \in Seq(E) /\ Len(Append(ns, x)) = n + 1
      BY <2>10, <3>5, <3>6
    <3>8. \A i \in 1 .. n + 1 : ms[i] = Append(ns, x)[i]
      BY <2>10, <3>1, <3>2, <3>5, <3>6
    <3> QED BY <3>4, <3>7, <3>8, SeqEqual
  <2>14. AddPart(DeltaFor(ps), p) = [content |-> ts, toolCalls |-> Append(ns, x)]
    BY <1>1, <1>2, <1>6, <2>7, <2>8, <2>10 DEF AddPart, DeltaFor
  <2> QED BY <2>2, <2>4, <2>11, <2>13, <2>14 DEF DeltaFor
<1> QED BY <1>5, <1>6

LEMMA DeltaOfParts ==
  ASSUME NEW parts, Short(parts)
  PROVE  AllAdded(NoDelta, parts) = DeltaFor(parts)
<1>1. DeltaFor(<<>>) = NoDelta
  <2>1. Numbered(<<>>) = <<>>
    BY DEF Numbered
  <2> QED BY <2>1, NoParts DEF DeltaFor, NoDelta
<1>2. <<>> \in Seq(Fragments)
  OBVIOUS
<1>3. ASSUME NEW p \in Fragments
      PROVE  AddPart(NoDelta, p) = DeltaFor(<<p>>) /\ <<p>> \in Seq(Fragments)
  <2>1. Append(<<>>, p) = <<p>> /\ <<p>> \in Seq(Fragments)
    OBVIOUS
  <2>2. AddPart(DeltaFor(<<>>), p) = DeltaFor(Append(<<>>, p))
    BY <1>2, AddedOne
  <2> QED BY <1>1, <2>1, <2>2
<1>4. CASE parts = <<>>
  BY <1>1, <1>4, AddFolded0
<1>5. ASSUME NEW p \in Fragments, parts = <<p>>
      PROVE  AllAdded(NoDelta, parts) = DeltaFor(parts)
  BY <1>3, <1>5, AddFolded1
<1>6. ASSUME NEW p \in Fragments, NEW q \in Fragments, parts = <<p, q>>
      PROVE  AllAdded(NoDelta, parts) = DeltaFor(parts)
  <2>1. PICK one \in Seq(Fragments) : one = <<p>>
    BY <1>3
  <2>2. parts = Append(one, q)
    BY <1>6, <2>1
  <2>3. AddPart(DeltaFor(one), q) = DeltaFor(parts)
    BY <2>2, AddedOne
  <2>4. AddPart(NoDelta, p) = DeltaFor(one)
    BY <1>3, <2>1
  <2>5. AllAdded(NoDelta, <<p, q>>) = AddPart(AddPart(NoDelta, p), q)
    BY AddFolded2
  <2> QED BY <1>6, <2>3, <2>4, <2>5
<1> QED BY <1>4, <1>5, <1>6 DEF Short

(* The calls a client has put together after the entries for calls.        *)
Calls == [0 .. MaxParts -> Seq(CallParts)]

LEMMA Joined ==
  ASSUME NEW g \in Calls, NEW j \in 0 .. MaxParts, NEW call \in CallParts,
         NEW e, e = [index |-> j, call |-> call]
  PROVE  /\ Chat!Join(g, e) \in Calls /\ Chat!Join(g, e)[j] = Append(g[j], call)
         /\ \A i \in 0 .. MaxParts : i # j => Chat!Join(g, e)[i] = g[i]
<1>1. g[j] \in Seq(CallParts)
  BY DEF Calls
<1>2. PICK calls : calls = Append(g[j], call)
  OBVIOUS
<1>3. calls \in Seq(CallParts)
  BY <1>1, <1>2
<1>4. Chat!Join(g, e) = [g EXCEPT ![j] = calls]
  BY <1>2 DEF Chat!Join, Calls
<1> QED BY <1>2, <1>3, <1>4 DEF Calls

LEMMA JoinedAll ==
  ASSUME NEW g \in Calls, NEW cs \in Seq(CallParts), Len(cs) <= 2, Len(cs) <= MaxParts
  PROVE  /\ AllJoined(g, Numbered(cs)) \in Calls
         /\ \A i \in 0 .. MaxParts :
               AllJoined(g, Numbered(cs))[i] = IF i + 1 \in DOMAIN cs THEN Append(g[i], cs[i + 1]) ELSE g[i]
<1>1. PICK ns : ns = Numbered(cs)
  OBVIOUS
<1>2. PICK n \in Nat : n = Len(cs)
  OBVIOUS
<1>3. DOMAIN cs = 1 .. n /\ ns = [i \in 1 .. n |-> [index |-> i - 1, call |-> cs[i]]]
  BY <1>1, <1>2 DEF Numbered
<1>4. CASE n = 0
  <2>1. ns = <<>>
    BY <1>3, <1>4
  <2>2. AllJoined(g, ns) = g
    BY <2>1, JoinFolded0
  <2>3. \A i \in 0 .. MaxParts : i + 1 \notin DOMAIN cs
    BY <1>3, <1>4
  <2> QED BY <1>1, <2>2, <2>3
<1>5. ASSUME n >= 1
      PROVE  /\ ns[1] = [index |-> 0, call |-> cs[1]] /\ cs[1] \in CallParts /\ 0 \in 0 .. MaxParts
  <2>1. 1 \in 1 .. n
    BY <1>5
  <2> QED BY <1>2, <1>3, <2>1, Bounds
<1>6. CASE n = 1
  <2>1. PICK x : x = ns[1]
    OBVIOUS
  <2>2. x = [index |-> 0, call |-> cs[1]]
    BY <1>5, <1>6, <2>1
  <2>3. ns = <<x>>
    BY <1>3, <1>6, <2>1
  <2>4. PICK h : h = Chat!Join(g, x)
    OBVIOUS
  <2>5. h \in Calls /\ h[0] = Append(g[0], cs[1]) /\ \A i \in 0 .. MaxParts : i # 0 => h[i] = g[i]
    BY <1>5, <1>6, <2>2, <2>4, Joined, SMTT(30)
  <2>6. AllJoined(g, ns) = h
    BY <2>3, <2>4, JoinFolded1
  <2>7. ASSUME NEW i \in 0 .. MaxParts
        PROVE  h[i] = IF i + 1 \in DOMAIN cs THEN Append(g[i], cs[i + 1]) ELSE g[i]
    <3>1. CASE i = 0
      BY <1>3, <1>6, <2>5, <3>1
    <3>2. CASE i # 0
      BY <1>3, <1>6, <2>5, <3>2
    <3> QED BY <3>1, <3>2
  <2> QED BY <1>1, <2>5, <2>6, <2>7
<1>7. CASE n = 2
  <2>1. PICK x : x = ns[1]
    OBVIOUS
  <2>2. PICK y : y = ns[2]
    OBVIOUS
  <2>3. x = [index |-> 0, call |-> cs[1]]
    BY <1>5, <1>7, <2>1
  <2>4. y = [index |-> 1, call |-> cs[2]] /\ cs[2] \in CallParts /\ 1 \in 0 .. MaxParts
    <3>1. 2 \in 1 .. n
      BY <1>7
    <3> QED BY <1>2, <1>3, <2>2, <3>1, Bounds
  <2>5. ns = <<x, y>>
    BY <1>3, <1>7, <2>1, <2>2
  <2>6. PICK h : h = Chat!Join(g, x)
    OBVIOUS
  <2>7. h \in Calls /\ h[0] = Append(g[0], cs[1]) /\ \A i \in 0 .. MaxParts : i # 0 => h[i] = g[i]
    BY <1>5, <1>7, <2>3, <2>6, Joined, SMTT(30)
  <2>8. PICK k : k = Chat!Join(h, y)
    OBVIOUS
  <2>9. k \in Calls /\ k[1] = Append(h[1], cs[2]) /\ \A i \in 0 .. MaxParts : i # 1 => k[i] = h[i]
    BY <2>4, <2>7, <2>8, Joined, SMTT(30)
  <2>10. AllJoined(g, ns) = k
    BY <2>5, <2>6, <2>8, JoinFolded2
  <2>11. ASSUME NEW i \in 0 .. MaxParts
         PROVE  k[i] = IF i + 1 \in DOMAIN cs THEN Append(g[i], cs[i + 1]) ELSE g[i]
    <3>1. CASE i = 0
      BY <1>3, <1>7, <2>7, <2>9, <3>1
    <3>2. CASE i = 1
      BY <1>3, <1>7, <2>7, <2>9, <3>2
    <3>3. CASE i # 0 /\ i # 1
      BY <1>3, <1>7, <2>7, <2>9, <3>3
    <3> QED BY <3>1, <3>2, <3>3
  <2> QED BY <1>1, <2>9, <2>10, <2>11
<1> QED BY <1>2, <1>4, <1>6, <1>7

-----------------------------------------------------------------------------
(* What the events of an OpenAI stream do to its client.                   *)
ToOpenAI(m) == m.target = "openai"

LEMMA ChatEvents ==
  /\ Chat!Error \in Chat!Events /\ Chat!Done \in Chat!Events
  /\ \A r \in OpenAIReasons : Chat!Finish(r) \in Chat!Events
BY DEF Chat!Error, Chat!Done, Chat!Finish, Chat!Events

LEMMA ChatTypes ==
  ASSUME NEW d \in ChatClients
  PROVE  d.content \in Seq(TextParts) /\ d.calls \in Calls
BY DEF ChatClients, Calls

(* Calls that come when the client has none, or may get anything.          *)
FreeCalls(m, d, cs) == d.phase \in m.free \/ cs = <<>> \/ \A i \in 0 .. MaxParts : d.calls[i] = <<>>

(* The delta e of the parts takes d to a client that has them.             *)
TakesParts(m, d, e, parts) ==
    \E x : /\ Took(m, d, e, x) /\ x \in ChatClients /\ x.phase = "streaming" /\ x.reason = None
           /\ x.content = d.content \o TextsOf(parts)
           /\ x.calls = AllJoined(d.calls, Numbered(CallsOf(parts)))

LEMMA TookChunk ==
  ASSUME NEW m, ToOpenAI(m), NEW d \in ChatClients, d.reason = None, d.phase = "streaming",
         NEW parts \in Seq(Fragments), Short(parts), parts # <<>>, Len(parts) <= MaxParts,
         NEW e, e = Chat!Delta(TextsOf(parts), Numbered(CallsOf(parts))),
         FreeCalls(m, d, CallsOf(parts))
  PROVE  TakesParts(m, d, e, parts)
<1>1. PICK ts \in Seq(TextParts) : ts = TextsOf(parts)
  BY KindsOfParts
<1>2. PICK cs \in Seq(CallParts) : cs = CallsOf(parts)
  BY KindsOfParts
<1>3. Len(parts) <= 2 /\ Len(cs) <= Len(parts) /\ (ts # <<>> \/ cs # <<>>) /\ Len(parts) \in Nat
  <2>1. Len(parts) <= 2
    <3>1. \A p : Len(<<p>>) = 1
      OBVIOUS
    <3>2. \A p, q : Len(<<p, q>>) = 2
      OBVIOUS
    <3>3. Len(<<>>) = 0
      OBVIOUS
    <3>4. CASE parts = <<>>
      BY <3>3, <3>4
    <3>5. CASE \E p \in Fragments : parts = <<p>>
      BY <3>1, <3>5
    <3>6. CASE \E p, q \in Fragments : parts = <<p, q>>
      BY <3>2, <3>6
    <3> QED BY <3>4, <3>5, <3>6 DEF Short
  <2>2. Len(cs) <= Len(parts) /\ (ts # <<>> \/ cs # <<>>)
    BY <1>1, <1>2, KindsOfParts
  <2> QED BY <2>1, <2>2
<1>4. PICK n \in Nat : n = Len(cs)
  OBVIOUS
<1>5. PICK ns : ns = Numbered(cs)
  OBVIOUS
<1>6. /\ DOMAIN cs = 1 .. n /\ ns = [i \in 1 .. n |-> [index |-> i - 1, call |-> cs[i]]]
      /\ n <= 2 /\ n <= MaxParts
  BY <1>3, <1>4, <1>5, Bounds DEF Numbered
<1>7. ASSUME NEW i \in 1 .. n
      PROVE  ns[i] \in Chat!Entries /\ ns[i].index = i - 1 /\ i - 1 \in 0 .. MaxParts
  <2>1. ns[i] = [index |-> i - 1, call |-> cs[i]] /\ i - 1 \in 0 .. MaxParts /\ cs[i] \in CallParts
    BY <1>6, Bounds
  <2> QED BY <2>1 DEF Chat!Entries
<1>8. ns \in Seq(Chat!Entries)
  BY <1>6, <1>7
<1>9. e = [type |-> "delta", content |-> ts, toolCalls |-> ns]
  BY <1>1, <1>2, <1>5 DEF Chat!Delta
<1>10. e \in Chat!Events
  BY <1>8, <1>9 DEF Chat!Events
<1>11. e.type = "delta" /\ e.content = ts /\ e.toolCalls = ns
  BY <1>9
<1>12. PICK calls : calls = AllJoined(d.calls, ns)
  OBVIOUS
<1>13. calls \in Calls
  <2>1. d.calls \in Calls /\ Len(cs) <= 2 /\ Len(cs) <= MaxParts
    BY <1>4, <1>6, ChatTypes
  <2> QED BY <1>5, <1>12, <2>1, JoinedAll
<1>14. PICK content : content = d.content \o ts
  OBVIOUS
<1>15. content \in Seq(TextParts)
  BY <1>14, ChatTypes
<1>16. PICK x : x = Chat!Apply(d, e)
  OBVIOUS
<1>17. x = [d EXCEPT !.last = e, !.content = content, !.calls = calls]
  BY <1>11, <1>12, <1>14, <1>16 DEF Chat!Apply, AllJoined, ChatClients
<1>18. /\ x \in ChatClients /\ x.phase = "streaming" /\ x.reason = None /\ x.content = content
       /\ x.calls = calls /\ x.last = e
  BY <1>10, <1>13, <1>15, <1>17 DEF ChatClients, Calls
<1>19. d.phase \notin m.free => Chat!Legal(d, e)
  <2> SUFFICES ASSUME CallsOf(parts) = <<>> \/ \A i \in 0 .. MaxParts : d.calls[i] = <<>>
               PROVE  Chat!Legal(d, e)
    BY DEF FreeCalls
  <2>1. ts # <<>> \/ ns # <<>>
    BY <1>3, <1>4, <1>6
  <2>2. ASSUME NEW i \in DOMAIN ns
        PROVE  /\ d.calls[ns[i].index] = <<>>
               /\ \A j \in DOMAIN ns : ns[i].index = ns[j].index => i = j
    <3>1. DOMAIN ns = 1 .. n /\ i \in 1 .. n
      BY <1>6
    <3>2. cs # <<>>
      BY <1>4, <3>1
    <3>3. d.calls[ns[i].index] = <<>>
      BY <1>2, <1>7, <3>1, <3>2
    <3>4. \A j \in 1 .. n : ns[i].index = ns[j].index => i = j
      BY <1>7, <3>1
    <3> QED BY <3>1, <3>3, <3>4
  <2> QED BY <1>11, <2>1, <2>2 DEF Chat!Legal
<1>20. Took(m, d, e, x)
  BY <1>10, <1>16, <1>18, <1>19 DEF Took, ToOpenAI, EventsOf, ClientsOf
<1> QED BY <1>1, <1>2, <1>5, <1>12, <1>14, <1>18, <1>20 DEF TakesParts

LEMMA TookChatError ==
  ASSUME NEW m, ToOpenAI(m), NEW d \in ChatClients, d.reason = None,
         d.phase \in m.free \/ d.phase = "streaming"
  PROVE  \E x : /\ Took(m, d, Chat!Error, x) /\ x \in ChatClients /\ x.phase = "failed"
                /\ x.reason = None /\ x.content = d.content /\ x.calls = d.calls
<1>1. PICK e : e = Chat!Error
  OBVIOUS
<1>2. e \in Chat!Events /\ e.type = "error"
  BY <1>1, ChatEvents DEF Chat!Error
<1>3. PICK x : x = Chat!Apply(d, e)
  OBVIOUS
<1>4. x = [d EXCEPT !.last = e, !.phase = "failed"]
  BY <1>2, <1>3 DEF Chat!Apply, ChatClients
<1>5. /\ x \in ChatClients /\ x.phase = "failed" /\ x.reason = None /\ x.content = d.content
      /\ x.calls = d.calls /\ x.last = e
  BY <1>2, <1>4 DEF ChatClients
<1>6. d.phase \notin m.free => Chat!Legal(d, e)
  BY <1>2 DEF Chat!Legal
<1>7. Took(m, d, e, x)
  BY <1>2, <1>3, <1>5, <1>6 DEF Took, ToOpenAI, EventsOf, ClientsOf
<1> QED BY <1>1, <1>5, <1>7

LEMMA TookFinish ==
  ASSUME NEW m, ToOpenAI(m), m.told \in OpenAIReasons, NEW d \in ChatClients,
         d.phase \in m.free \/ d.phase = "streaming"
  PROVE  \E x : /\ Took(m, d, Chat!Finish(m.told), x) /\ x \in ChatClients /\ x.phase = "finished"
                /\ x.reason = m.told /\ x.content = d.content /\ x.calls = d.calls
<1>1. PICK e : e = Chat!Finish(m.told)
  OBVIOUS
<1>2. e \in Chat!Events /\ e.type = "finish" /\ e.reason = m.told
  BY <1>1, ChatEvents DEF Chat!Finish
<1>3. PICK x : x = Chat!Apply(d, e)
  OBVIOUS
<1>4. x = [d EXCEPT !.last = e, !.phase = "finished", !.reason = m.told]
  BY <1>2, <1>3 DEF Chat!Apply, ChatClients
<1>5. /\ x \in ChatClients /\ x.phase = "finished" /\ x.reason = m.told /\ x.content = d.content
      /\ x.calls = d.calls /\ x.last = e
  BY <1>2, <1>4 DEF ChatClients
<1>6. d.phase \notin m.free => Chat!Legal(d, e)
  BY <1>2 DEF Chat!Legal
<1>7. Took(m, d, e, x)
  BY <1>2, <1>3, <1>5, <1>6 DEF Took, ToOpenAI, EventsOf, ClientsOf
<1> QED BY <1>1, <1>5, <1>7

LEMMA TookDone ==
  ASSUME NEW m, ToOpenAI(m), NEW d \in ChatClients, d.reason \in {None, m.told},
         d.phase \in m.free \/ d.phase \in {"streaming", "finished"}
  PROVE  \E x : /\ Took(m, d, Chat!Done, x) /\ x \in ChatClients
                /\ x.content = d.content /\ x.calls = d.calls
<1>1. PICK e : e = Chat!Done
  OBVIOUS
<1>2. e \in Chat!Events /\ e.type = "done"
  BY <1>1, ChatEvents DEF Chat!Done
<1>3. PICK x : x = Chat!Apply(d, e)
  OBVIOUS
<1>4. x = [d EXCEPT !.last = e, !.phase = "done"]
  BY <1>2, <1>3 DEF Chat!Apply, ChatClients
<1>5. /\ x \in ChatClients /\ x.reason = d.reason /\ x.content = d.content
      /\ x.calls = d.calls /\ x.last = e
  BY <1>2, <1>4 DEF ChatClients
<1>6. d.phase \notin m.free => Chat!Legal(d, e)
  BY <1>2 DEF Chat!Legal
<1>7. Took(m, d, e, x)
  BY <1>2, <1>3, <1>5, <1>6 DEF Took, ToOpenAI, EventsOf, ClientsOf
<1> QED BY <1>1, <1>5, <1>7

-----------------------------------------------------------------------------
(* The invariant.                                                          *)
Histories ==
    [chunks : Nat, parts : Seq(Fragments), withCalls : Nat, finish : GeminiReasons \cup {NoFinish},
     blocked : BOOLEAN]

(* What an OpenAI client has of the parts ps, of which w chunks had calls. *)
PutCalls(cs) == [i \in 0 .. MaxParts |-> IF i + 1 \in DOMAIN cs THEN <<cs[i + 1]>> ELSE <<>>]

ChatHolds(d, ps, w) ==
    /\ d.content = TextsOf(ps)
    /\ w = 0 => CallsOf(ps) = <<>>
    /\ w <= 1 => d.calls = PutCalls(CallsOf(ps))

Holds(s, d, u) ==
    IF Anthropic(s) THEN BlocksHold(d.blocks, u.parts) ELSE ChatHolds(d, u.parts, u.withCalls)

(* How far the stream is, and with it the client that has got all that is  *)
(* pending.                                                                *)
Phased(s, d, u) ==
    /\ d \in ClientsOf(s.target) /\ Holds(s, d, u)
    /\ ~ s.started => /\ s.events = <<>> /\ u.parts = <<>> /\ ~ u.blocked
                      /\ s.curBlockType = NoBlock /\ s.nextBlockIndex = 0
                      /\ d = IF Anthropic(s) THEN Sse!NewClient ELSE Chat!NewClient
    /\ s.started /\ ~ s.finalized =>
          /\ d.reason = None /\ d.phase = IF u.blocked THEN "failed" ELSE "streaming"
          /\ Anthropic(s) => Agree(s, d, u.parts)

Reached(s, c, u) == \E d : Runs(Mode(s, u), c, s.events, d) /\ Phased(s, d, u)

IInv ==
    /\ sc \in Converters /\ sent \in Histories /\ Len(sent.parts) <= MaxParts
    /\ client \in ClientsOf(sc.target) /\ client.reason \in {None, Told(sc)}
    /\ sc.curBlockType # NoBlock => sc.curBlockIndex = sc.nextBlockIndex - 1
    /\ sc.finishReason = sent.finish
    /\ Reached(sc, client, sent)

LEMMA TargetOf ==
  ASSUME NEW s \in Converters
  PROVE  /\ Anthropic(s) => s.target = "anthropic"
         /\ ~ Anthropic(s) => s.target = "openai"
BY TargetsAssumption DEF Converters, Anthropic

LEMMA ModeOf ==
  ASSUME NEW s \in Converters, NEW u \in Histories
  PROVE  /\ Mode(s, u).told = Told(s) /\ Mode(s, u).target = s.target
         /\ Anthropic(s) => ToAnthropic(Mode(s, u)) /\ Told(s) \in AnthropicReasons
         /\ ~ Anthropic(s) => ToOpenAI(Mode(s, u)) /\ Told(s) \in OpenAIReasons
         /\ u.blocked => "failed" \in Mode(s, u).free
         /\ Anthropic(s) /\ s.finalized /\ u.parts = <<>> => Mode(s, u).free = Phases
         /\ ~ Anthropic(s) /\ u.withCalls > 1 => Mode(s, u).free = Phases
<1>1. Anthropic(s) => Told(s) \in AnthropicReasons
  BY DEF Told, MapFinishToAnthropic, AnthropicReasons
<1>2. ~ Anthropic(s) => Told(s) \in OpenAIReasons
  <2>1. s.finishReason \in GeminiReasons \cup {NoFinish}
    BY DEF Converters
  <2> QED BY <2>1 DEF Told, MapFinishToOpenAI, OpenAIReasons, GeminiReasons
<1>3. PICK free : free = Free(s, u)
  OBVIOUS
<1>4. Mode(s, u) = [target |-> s.target, free |-> free, told |-> Told(s)]
  BY <1>3 DEF Mode
<1>5. Mode(s, u).told = Told(s) /\ Mode(s, u).target = s.target /\ Mode(s, u).free = free
  BY <1>4
<1>6. /\ u.blocked => "failed" \in free
      /\ Anthropic(s) /\ s.finalized /\ u.parts = <<>> => free = Phases
      /\ ~ Anthropic(s) /\ u.withCalls > 1 => free = Phases
  BY <1>3 DEF Free, Phases
<1> QED BY <1>1, <1>2, <1>5, <1>6, TargetOf DEF ToAnthropic, ToOpenAI

LEMMA NewClients == Sse!NewClient \in SseClients /\ Chat!NewClient \in ChatClients
<1>1. Sse!NewClient \in SseClients
  <2>1. <<>> \in Seq(Blocks)
    OBVIOUS
  <2> QED BY <2>1 DEF SseClients, Sse!NewClient
<1>2. Chat!NewClient \in ChatClients
  <2>1. <<>> \in Seq(TextParts) /\ <<>> \in Seq(CallParts)
    OBVIOUS
  <2>2. [i \in 0 .. MaxParts |-> <<>>] \in [0 .. MaxParts -> Seq(CallParts)]
    BY <2>1
  <2> QED BY <2>1, <2>2 DEF ChatClients, Chat!NewClient
<1> QED BY <1>1, <1>2

(* A client with nothing pending is the one the pending events lead to.    *)
LEMMA NothingPending ==
  ASSUME NEW s, NEW c, NEW u, Reached(s, c, u), s.events = <<>>
  PROVE  Phased(s, c, u)
<1>1. PICK d : Runs(Mode(s, u), c, s.events, d) /\ Phased(s, d, u)
  BY DEF Reached
<1> QED BY <1>1, RunsNowhere

LEMMA Initially == Init => IInv
<1> SUFFICES ASSUME Init PROVE IInv
  OBVIOUS
<1>1. PICK target \in Targets : sc = NewConverter(target)
                              /\ client = IF target = "anthropic" THEN Sse!NewClient ELSE Chat!NewClient
  BY DEF Init
<1>2. <<>> \in Seq(AllEvents) /\ <<>> \in Seq(Fragments) /\ Len(<<>>) = 0
  OBVIOUS
<1>3. sc \in Converters
  BY <1>1, <1>2 DEF NewConverter, Converters
<1>4. /\ ~ sc.started /\ ~ sc.finalized /\ sc.events = <<>> /\ sc.target = target
      /\ sc.curBlockType = NoBlock /\ sc.nextBlockIndex = 0 /\ sc.finishReason = NoFinish
  BY <1>1 DEF NewConverter
<1>5. /\ sent \in Histories /\ sent.parts = <<>> /\ sent.withCalls = 0 /\ sent.finish = NoFinish
      /\ ~ sent.blocked
  BY <1>2 DEF Init, NothingSent, Histories
<1>6. client = IF Anthropic(sc) THEN Sse!NewClient ELSE Chat!NewClient
  BY <1>1, <1>4 DEF Anthropic
<1>7. client \in ClientsOf(sc.target) /\ client.reason = None
  BY <1>1, <1>4, NewClients DEF ClientsOf, Sse!NewClient, Chat!NewClient
<1>8. Holds(sc, client, sent)
  <2>1. CASE Anthropic(sc)
    BY <1>5, <1>6, <2>1, NothingHeld DEF Holds, Sse!NewClient
  <2>2. CASE ~ Anthropic(sc)
    <3>1. PutCalls(<<>>) = [i \in 0 .. MaxParts |-> <<>>]
      BY DEF PutCalls
    <3>2. client.content = <<>> /\ client.calls = [i \in 0 .. MaxParts |-> <<>>]
      BY <1>6, <2>2 DEF Chat!NewClient
    <3> QED BY <1>5, <2>2, <3>1, <3>2, NoParts DEF Holds, ChatHolds
  <2> QED BY <2>1, <2>2
<1>9. Phased(sc, client, sent)
  BY <1>4, <1>5, <1>6, <1>7, <1>8 DEF Phased
<1>10. Reached(sc, client, sent)
  BY <1>4, <1>9, RunsNothing DEF Reached
<1>11. Len(sent.parts) <= MaxParts
  BY <1>2, <1>5, Bounds
<1> QED BY <1>3, <1>4, <1>5, <1>7, <1>10, <1>11 DEF IInv

LEMMA Started ==
  ASSUME IInv, Start
  PROVE  IInv'
<1>1. /\ sc \in Converters /\ sent \in Histories /\ Len(sent.parts) <= MaxParts
      /\ client \in ClientsOf(sc.target) /\ client.reason \in {None, Told(sc)}
      /\ sc.curBlockType # NoBlock => sc.curBlockIndex = sc.nextBlockIndex - 1
      /\ sc.finishReason = sent.finish /\ Reached(sc, client, sent)
  BY DEF IInv
<1>2. ~ sc.started /\ sc' = HandleStreamStart(sc) /\ client' = client /\ sent' = sent
  BY DEF Start
<1>3. sc.events = <<>>
  BY <1>1, <1>2 DEF Reached, Phased
<1>4. Phased(sc, client, sent)
  BY <1>1, <1>3, NothingPending
<1>5. PICK t : t = [sc EXCEPT !.started = TRUE]
  OBVIOUS
<1>6. /\ t \in Converters /\ t.started /\ t.target = sc.target /\ t.finalized = sc.finalized
      /\ t.finishReason = sc.finishReason /\ SameBlock(sc, t) /\ t.events = <<>>
  BY <1>1, <1>3, <1>5 DEF Converters, SameBlock
<1>7. PICK s : s = sc'
  OBVIOUS
<1>8. PICK m : m = Mode(s, sent)
  OBVIOUS
<1>9. CASE Anthropic(sc)
  <2>1. s = Emit(Emit(t, Sse!MessageStart), Sse!Ping)
    BY <1>2, <1>5, <1>7, <1>9 DEF HandleStreamStart
  <2>2. Sse!MessageStart \in AllEvents /\ Sse!Ping \in AllEvents
    BY SseEvents DEF AllEvents
  <2>3. PICK q : q = Emit(t, Sse!MessageStart)
    OBVIOUS
  <2>4. q \in Converters /\ Framed(t, q) /\ SameBlock(t, q) /\ q.events = Append(t.events, Sse!MessageStart)
    BY <1>6, <2>2, <2>3, Emitted
  <2>5. s \in Converters /\ Framed(q, s) /\ SameBlock(q, s) /\ s.events = Append(q.events, Sse!Ping)
    BY <2>1, <2>2, <2>3, <2>4, Emitted
  <2>6. /\ s.target = sc.target /\ s.started /\ s.finalized = sc.finalized
        /\ s.finishReason = sc.finishReason /\ SameBlock(sc, s)
    BY <1>6, <2>4, <2>5 DEF Framed, SameBlock
  <2>7. Anthropic(s) /\ Told(s) = Told(sc)
    BY <1>9, <2>6 DEF Anthropic, Told
  <2>8. ToAnthropic(m)
    BY <1>1, <1>8, <2>5, <2>7, ModeOf
  <2>9. client = Sse!NewClient
    BY <1>2, <1>4, <1>9 DEF Phased
  <2>10. PICK x : /\ Took(m, client, Sse!MessageStart, x)
                  /\ x \in SseClients /\ x.phase = "streaming" /\ x.reason = None /\ x.open = None
                  /\ x.blocks = <<>>
    BY <2>8, <2>9, TookMessageStart
  <2>11. PICK y : /\ Took(m, x, Sse!Ping, y)
                  /\ y \in SseClients /\ y.phase = x.phase /\ y.reason = None /\ y.open = x.open
                  /\ y.blocks = x.blocks
    BY <2>8, <2>10, TookPing
  <2>12. t.events \in Seq(AllEvents) /\ q.events \in Seq(AllEvents)
    BY <1>6, <2>4 DEF Converters
  <2>13. Runs(m, client, t.events, client)
    BY <1>6, RunsNothing
  <2>14. Runs(m, client, q.events, x)
    BY <2>4, <2>10, <2>12, <2>13, RunsOn
  <2>15. Runs(m, client, s.events, y)
    BY <2>5, <2>11, <2>12, <2>14, RunsOn
  <2>16. sent.parts = <<>> /\ s.curBlockType = NoBlock /\ ~ sent.blocked
    BY <1>2, <1>4, <2>6 DEF Phased, SameBlock
  <2>17. Agree(s, y, sent.parts)
    <3>1. BlocksHold(client.blocks, sent.parts) /\ client.blocks = <<>>
      BY <1>4, <1>9, <2>9 DEF Phased, Holds, Sse!NewClient
    <3>2. s.nextBlockIndex = 0
      BY <1>1, <1>4, <2>6, <1>2 DEF Phased, SameBlock
    <3> QED BY <2>10, <2>11, <2>16, <3>2 DEF Agree
  <2>18. Phased(s, y, sent)
    <3>1. BlocksHold(y.blocks, sent.parts)
      BY <2>10, <2>11, <2>16, NothingHeld
    <3>2. y \in ClientsOf(s.target)
      BY <1>9, <2>6, <2>11 DEF ClientsOf, Anthropic
    <3> QED BY <2>6, <2>7, <2>10, <2>11, <2>16, <2>17, <3>1, <3>2 DEF Phased, Holds
  <2>19. Reached(s, client, sent)
    BY <1>8, <2>15, <2>18 DEF Reached
  <2> QED BY <1>1, <1>2, <1>7, <2>5, <2>6, <2>7, <2>19 DEF IInv, SameBlock
<1>10. CASE ~ Anthropic(sc)
  <2>1. s = t
    BY <1>2, <1>5, <1>7, <1>10 DEF HandleStreamStart
  <2>2. ~ Anthropic(s) /\ Told(s) = Told(sc)
    BY <1>6, <1>10, <2>1 DEF Anthropic, Told
  <2>3. Phased(s, client, sent)
    <3>1. client.phase = "streaming" /\ client.reason = None /\ ~ sent.blocked
      BY <1>2, <1>4, <1>10 DEF Phased, Chat!NewClient
    <3>2. Holds(s, client, sent) /\ client \in ClientsOf(s.target)
      BY <1>4, <1>6, <1>10, <2>1, <2>2 DEF Phased, Holds
    <3> QED BY <1>6, <2>1, <2>2, <3>1, <3>2 DEF Phased
  <2>4. Reached(s, client, sent)
    BY <1>6, <2>1, <2>3, RunsNothing DEF Reached
  <2> QED BY <1>1, <1>2, <1>6, <1>7, <2>1, <2>2, <2>4 DEF IInv, SameBlock
<1> QED BY <1>9, <1>10

LEMMA PartsHandled ==
  ASSUME NEW m, ToAnthropic(m), NEW c, NEW s \in Converters, NEW ps \in Seq(Fragments),
         NEW parts, Short(parts), Len(ps \o parts) <= MaxParts, Good(m, c, s, ps),
         NEW r, r = AllParts(s, parts)
  PROVE  r \in Converters /\ Framed(s, r) /\ Good(m, c, r, ps \o parts)
<1>1. CASE parts = <<>>
  <2>1. r = s /\ ps \o parts = ps
    BY <1>1, PartFolded0
  <2> QED BY <2>1 DEF Framed
<1>2. ASSUME NEW p \in Fragments, parts = <<p>>
      PROVE  r \in Converters /\ Framed(s, r) /\ Good(m, c, r, ps \o parts)
  <2>1. r = HandlePart(s, p)
    BY <1>2, PartFolded1
  <2>2. ps \o parts = Append(ps, p) /\ Len(Append(ps, p)) = Len(ps) + 1 /\ Len(ps) \in Nat
    BY <1>2
  <2>3. Len(ps) < MaxParts
    BY <2>2, Bounds
  <2> QED BY <2>1, <2>2, <2>3, PartHandled
<1>3. ASSUME NEW p \in Fragments, NEW q \in Fragments, parts = <<p, q>>
      PROVE  r \in Converters /\ Framed(s, r) /\ Good(m, c, r, ps \o parts)
  <2>1. PICK t : t = HandlePart(s, p)
    OBVIOUS
  <2>2. r = HandlePart(t, q)
    BY <1>3, <2>1, PartFolded2
  <2>3. PICK qs : qs = Append(ps, p)
    OBVIOUS
  <2>4. /\ qs \in Seq(Fragments) /\ ps \o parts = Append(qs, q) /\ Len(qs) = Len(ps) + 1
        /\ Len(ps \o parts) = Len(ps) + 2 /\ Len(ps) \in Nat
    BY <1>3, <2>3
  <2>5. Len(ps) < MaxParts /\ Len(qs) < MaxParts
    BY <2>4, Bounds
  <2>6. t \in Converters /\ Framed(s, t) /\ Good(m, c, t, qs)
    BY <2>1, <2>3, <2>5, PartHandled
  <2>7. r \in Converters /\ Framed(t, r) /\ Good(m, c, r, ps \o parts)
    BY <2>2, <2>4, <2>5, <2>6, PartHandled
  <2> QED BY <2>6, <2>7 DEF Framed
<1> QED BY <1>1, <1>2, <1>3 DEF Short

(* A stream that runs well has reached its client.                         *)
LEMMA GoodIsReached ==
  ASSUME NEW s \in Converters, NEW u \in Histories, NEW c, Anthropic(s), ~ u.blocked,
         s.started, ~ s.finalized, Good(Mode(s, u), c, s, u.parts)
  PROVE  /\ Reached(s, c, u)
         /\ s.curBlockType # NoBlock => s.curBlockIndex = s.nextBlockIndex - 1
<1>1. PICK d : /\ Runs(Mode(s, u), c, s.events, d)
               /\ d.phase = "streaming" /\ Agree(s, d, u.parts) /\ BlocksHold(d.blocks, u.parts)
  BY DEF Good
<1>2. d \in ClientsOf(s.target) /\ d.reason = None
  BY <1>1 DEF Agree, ClientsOf, Anthropic
<1>3. Phased(s, d, u)
  BY <1>1, <1>2 DEF Phased, Holds
<1>4. s.curBlockType # NoBlock => s.curBlockIndex = s.nextBlockIndex - 1
  BY <1>1 DEF Agree
<1> QED BY <1>1, <1>3, <1>4 DEF Reached

(* The client of an idle stream that runs.                                 *)
LEMMA RunningClient ==
  ASSUME IInv, Running
  PROVE  /\ sc \in Converters /\ sc.started /\ ~ sc.finalized /\ sc.events = <<>>
         /\ sent \in Histories /\ Len(sent.parts) <= MaxParts /\ sc.finishReason = sent.finish
         /\ client \in ClientsOf(sc.target) /\ client.reason = None /\ Holds(sc, client, sent)
         /\ client.phase = IF sent.blocked THEN "failed" ELSE "streaming"
         /\ Anthropic(sc) => Agree(sc, client, sent.parts)
<1>1. sc.started /\ ~ sc.finalized /\ sc.events = <<>>
  BY DEF Running, Idle
<1>2. Phased(sc, client, sent)
  BY <1>1, NothingPending DEF IInv
<1> QED BY <1>1, <1>2 DEF IInv, Phased

(* What the upstream has sent after one chunk more.                        *)
HasSent(u, chunk, parts, v) ==
    /\ v \in Histories /\ v.parts = u.parts \o parts /\ v.blocked = chunk.blocked
    /\ v.finish = IF chunk.finish = NoFinish THEN u.finish ELSE chunk.finish
    /\ v.withCalls = u.withCalls + IF HasCall(parts) THEN 1 ELSE 0
    /\ parts \in Seq(Fragments)

LEMMA SentMore ==
  ASSUME NEW u \in Histories, NEW chunk, NEW parts, Short(parts), chunk.parts = parts,
         chunk.finish \in GeminiReasons \cup {NoFinish}, chunk.blocked \in BOOLEAN, NEW v, v = Send(u, chunk)
  PROVE  HasSent(u, chunk, parts, v)
<1>1. parts \in Seq(Fragments)
  <2>1. CASE parts = <<>>
    BY <2>1
  <2>2. ASSUME NEW p \in Fragments, parts = <<p>>
        PROVE  parts \in Seq(Fragments)
    BY <2>2
  <2>3. ASSUME NEW p \in Fragments, NEW q \in Fragments, parts = <<p, q>>
        PROVE  parts \in Seq(Fragments)
    BY <2>3
  <2> QED BY <2>1, <2>2, <2>3 DEF Short
<1>a. /\ u.parts \in Seq(Fragments) /\ u.withCalls \in Nat /\ u.chunks \in Nat
      /\ u.finish \in GeminiReasons \cup {NoFinish}
  BY DEF Histories
<1>b. PICK one \in {0, 1} : one = IF HasCall(parts) THEN 1 ELSE 0
  <2>1. (IF HasCall(parts) THEN 1 ELSE 0) \in {0, 1}
    OBVIOUS
  <2> QED BY <2>1
<1>2. PICK calls \in Nat : calls = u.withCalls + one
  BY <1>a
<1>3. PICK ps \in Seq(Fragments) : ps = u.parts \o parts
  <2>1. u.parts \o parts \in Seq(Fragments)
    BY <1>a, <1>1
  <2> QED BY <2>1
<1>4. PICK finish \in GeminiReasons \cup {NoFinish} : finish = IF chunk.finish = NoFinish THEN u.finish ELSE chunk.finish
  <2>1. (IF chunk.finish = NoFinish THEN u.finish ELSE chunk.finish) \in GeminiReasons \cup {NoFinish}
    BY <1>a
  <2> QED BY <2>1
<1>5. PICK chunks \in Nat : chunks = u.chunks + 1
  BY <1>a
<1>6. v = [u EXCEPT !.chunks = chunks, !.parts = ps, !.withCalls = calls, !.finish = finish,
                    !.blocked = chunk.blocked]
  BY <1>b, <1>2, <1>3, <1>4, <1>5 DEF Send
<1>7. /\ v \in Histories /\ v.parts = ps /\ v.withCalls = calls /\ v.finish = finish
      /\ v.blocked = chunk.blocked
  BY <1>6 DEF Histories
<1> QED BY <1>b, <1>1, <1>2, <1>3, <1>4, <1>7 DEF HasSent

(* A chunk without parts has no delta.                                     *)
LEMMA DeltaEmpty ==
  ASSUME NEW parts, Short(parts)
  PROVE  /\ parts \in Seq(Fragments) /\ Len(parts) <= 2
         /\ DeltaFor(parts) = NoDelta <=> parts = <<>>
         /\ DeltaFor(parts).content = TextsOf(parts)
         /\ DeltaFor(parts).toolCalls = Numbered(CallsOf(parts))
<1>1. parts \in Seq(Fragments) /\ Len(parts) <= 2
  <2>1. CASE parts = <<>>
    BY <2>1
  <2>2. ASSUME NEW p \in Fragments, parts = <<p>>
        PROVE  parts \in Seq(Fragments) /\ Len(parts) <= 2
    BY <2>2
  <2>3. ASSUME NEW p \in Fragments, NEW q \in Fragments, parts = <<p, q>>
        PROVE  parts \in Seq(Fragments) /\ Len(parts) <= 2
    BY <2>3
  <2> QED BY <2>1, <2>2, <2>3 DEF Short
<1>2. PICK ts \in Seq(TextParts), cs \in Seq(CallParts) : ts = TextsOf(parts) /\ cs = CallsOf(parts)
  BY <1>1, KindsOfParts
<1>3. PICK ns : ns = Numbered(cs)
  OBVIOUS
<1>4. Len(ns) = Len(cs) /\ (ns = <<>> <=> cs = <<>>)
  BY <1>3 DEF Numbered
<1>5. DeltaFor(parts).content = ts /\ DeltaFor(parts).toolCalls = ns
  BY <1>2, <1>3 DEF DeltaFor
<1>6. ASSUME parts = <<>>
      PROVE  DeltaFor(parts) = NoDelta
  <2>1. ts = <<>> /\ cs = <<>>
    BY <1>2, <1>6, NoParts
  <2> QED BY <1>2, <1>3, <1>4, <2>1 DEF DeltaFor, NoDelta
<1>7. ASSUME parts # <<>>
      PROVE  DeltaFor(parts) # NoDelta
  <2>1. ts # <<>> \/ cs # <<>>
    BY <1>1, <1>2, <1>7, KindsOfParts
  <2> QED BY <1>4, <1>5, <2>1 DEF NoDelta
<1> QED BY <1>1, <1>2, <1>3, <1>5, <1>6, <1>7

(* No call put together yet.                                               *)
LEMMA NoCallsYet ==
  ASSUME NEW d, NEW ps, ChatHolds(d, ps, 0)
  PROVE  CallsOf(ps) = <<>> /\ \A i \in 0 .. MaxParts : d.calls[i] = <<>>
<1>1. CallsOf(ps) = <<>> /\ d.calls = PutCalls(CallsOf(ps))
  BY DEF ChatHolds
<1>2. d.calls = PutCalls(<<>>)
  BY <1>1
<1> QED BY <1>1, <1>2 DEF PutCalls

(* The parts of one chunk more.                                            *)
LEMMA ChatHeld ==
  ASSUME NEW d \in ChatClients, NEW x \in ChatClients, NEW ps \in Seq(Fragments),
         NEW parts, Short(parts), Len(parts) <= MaxParts, NEW w \in Nat, ChatHolds(d, ps, w),
         NEW v, v = w + IF HasCall(parts) THEN 1 ELSE 0,
         x.content = d.content \o TextsOf(parts),
         x.calls = AllJoined(d.calls, Numbered(CallsOf(parts)))
  PROVE  ChatHolds(x, ps \o parts, v)
<1>1. parts \in Seq(Fragments) /\ Len(parts) <= 2
  BY DeltaEmpty
<1>2. PICK cs \in Seq(CallParts) : cs = CallsOf(parts)
  BY <1>1, KindsOfParts
<1>3. Len(cs) <= Len(parts) /\ (HasCall(parts) <=> cs # <<>>)
  BY <1>1, <1>2, KindsOfParts
<1>4. Len(cs) <= 2 /\ Len(cs) <= MaxParts
  BY <1>1, <1>3, Bounds
<1>5. /\ TextsOf(ps \o parts) = TextsOf(ps) \o TextsOf(parts)
      /\ CallsOf(ps \o parts) = CallsOf(ps) \o cs
  BY <1>2, KindsConcat
<1>6. x.content = TextsOf(ps \o parts)
  BY <1>5 DEF ChatHolds
<1>7. d.calls \in Calls /\ x.calls \in Calls
  BY ChatTypes
<1>8. \A i \in 0 .. MaxParts :
         x.calls[i] = IF i + 1 \in DOMAIN cs THEN Append(d.calls[i], cs[i + 1]) ELSE d.calls[i]
  BY <1>2, <1>4, <1>7, JoinedAll
<1>9. CallsOf(ps) \in Seq(CallParts)
  BY KindsOfParts
<1>10. CASE w = 0
  <2>1. CallsOf(ps) = <<>> /\ \A i \in 0 .. MaxParts : d.calls[i] = <<>>
    BY <1>10, NoCallsYet
  <2>2. CallsOf(ps \o parts) = cs
    BY <1>5, <2>1
  <2>3. \A q : Append(<<>>, q) = <<q>>
    OBVIOUS
  <2>4. \A i \in 0 .. MaxParts : x.calls[i] = IF i + 1 \in DOMAIN cs THEN <<cs[i + 1]>> ELSE <<>>
    BY <1>8, <2>1, <2>3
  <2>5. x.calls = PutCalls(cs)
    BY <1>7, <2>4 DEF PutCalls, Calls
  <2>6. v = 0 => cs = <<>>
    BY <1>3, <1>10
  <2> QED BY <1>6, <2>2, <2>5, <2>6 DEF ChatHolds
<1>11. CASE w # 0 /\ cs = <<>>
  <2>1. v = w
    BY <1>3, <1>11
  <2>2. CallsOf(ps \o parts) = CallsOf(ps)
    BY <1>5, <1>9, <1>11
  <2>3. \A i \in 0 .. MaxParts : x.calls[i] = d.calls[i]
    BY <1>8, <1>11
  <2>4. x.calls = d.calls
    <3>1. /\ d.calls = [i \in 0 .. MaxParts |-> d.calls[i]]
          /\ x.calls = [i \in 0 .. MaxParts |-> x.calls[i]]
      BY <1>7, Zenon DEF Calls
    <3>2. [i \in 0 .. MaxParts |-> x.calls[i]] = [i \in 0 .. MaxParts |-> d.calls[i]]
      BY <2>3, Zenon
    <3> QED BY <3>1, <3>2
  <2> QED BY <1>6, <1>11, <2>1, <2>2, <2>4 DEF ChatHolds
<1>12. CASE w # 0 /\ cs # <<>>
  <2>1. v > 1
    BY <1>3, <1>12
  <2> QED BY <1>6, <2>1 DEF ChatHolds
<1> QED BY <1>10, <1>11, <1>12

LEMMA SameMode ==
  ASSUME NEW s, NEW r, Framed(s, r), NEW u
  PROVE  Mode(r, u) = Mode(s, u) /\ Told(r) = Told(s) /\ (Anthropic(r) <=> Anthropic(s))
<1>1. r.target = s.target /\ r.finalized = s.finalized /\ r.finishReason = s.finishReason
  BY DEF Framed
<1>2. Anthropic(r) <=> Anthropic(s)
  BY <1>1 DEF Anthropic
<1>3. Told(r) = Told(s)
  BY <1>1, <1>2 DEF Told
<1>4. Free(r, u) = Free(s, u)
  BY <1>1, <1>2 DEF Free
<1> QED BY <1>1, <1>2, <1>3, <1>4 DEF Mode

LEMMA ChunkKeeps ==
  ASSUME IInv, Chunk
  PROVE  IInv'
<1>1. /\ sc \in Converters /\ sc.started /\ ~ sc.finalized /\ sc.events = <<>>
      /\ sent \in Histories /\ Len(sent.parts) <= MaxParts /\ sc.finishReason = sent.finish
      /\ client \in ClientsOf(sc.target) /\ client.reason = None /\ Holds(sc, client, sent)
      /\ client.phase = IF sent.blocked THEN "failed" ELSE "streaming"
      /\ Anthropic(sc) => Agree(sc, client, sent.parts)
  BY RunningClient DEF Chunk
<1>2. client' = client /\ ~ sent.blocked /\ client.phase = "streaming"
  BY <1>1 DEF Chunk
<1>3. PICK parts \in IF sent.finish = NoFinish THEN PartSeqs(Len(sent.parts)) ELSE {<<>>},
           finish \in IF sent.finish = NoFinish THEN {NoFinish} \cup GeminiReasons ELSE {NoFinish},
           usage \in BOOLEAN :
          LET chunk == [blocked |-> FALSE, parts |-> parts, finish |-> finish, usage |-> usage] IN
          /\ Len(sent.parts \o parts) <= MaxParts
          /\ sc' = HandleChunk(sc, chunk)
          /\ sent' = Send(sent, chunk)
  BY DEF Chunk
<1>4. PICK chunk : chunk = [blocked |-> FALSE, parts |-> parts, finish |-> finish, usage |-> usage]
  OBVIOUS
<1>5. /\ chunk.parts = parts /\ chunk.finish = finish /\ chunk.usage = usage /\ chunk.blocked = FALSE
      /\ finish \in GeminiReasons \cup {NoFinish}
      /\ Len(sent.parts \o parts) <= MaxParts /\ sc' = HandleChunk(sc, chunk) /\ sent' = Send(sent, chunk)
  BY <1>3, <1>4
<1>6. Short(parts) /\ Len(parts) <= MaxParts
  <2>1. sent.parts \in Seq(Fragments) /\ Len(sent.parts) \in Nat
    BY <1>1 DEF Histories
  <2>2. CASE sent.finish # NoFinish
    <3>1. parts = <<>> /\ Len(<<>>) = 0
      BY <1>3, <2>2
    <3> QED BY <3>1, Bounds DEF Short
  <2>3. CASE sent.finish = NoFinish
    <3>1. parts \in PartSeqs(Len(sent.parts))
      BY <1>3, <2>3
    <3>2. Len(sent.parts \o parts) = Len(sent.parts) + Len(parts) /\ Len(parts) \in Nat
      <4>1. \/ parts = <<>>
            \/ \E p, q : parts = <<p>> \/ parts = <<p, q>>
        BY <3>1 DEF PartSeqs
      <4>2. PICK p, q : parts = <<>> \/ parts = <<p>> \/ parts = <<p, q>>
        BY <4>1
      <4>3. PICK X : X = Fragments \cup {p, q}
        OBVIOUS
      <4>4. parts \in Seq(X)
        <5>1. <<>> \in Seq(X) /\ <<p>> \in Seq(X) /\ <<p, q>> \in Seq(X)
          BY <4>3
        <5> QED BY <4>2, <5>1
      <4>5. sent.parts \in Seq(X)
        BY <2>1, <4>3
      <4> QED BY <4>4, <4>5
    <3>3. Short(parts)
      BY <1>5, <2>1, <3>1, <3>2, ShortParts
    <3> QED BY <1>5, <2>1, <3>2, <3>3, Bounds
  <2> QED BY <2>2, <2>3
<1>7. PICK v : v = sent'
  OBVIOUS
<1>8. /\ v \in Histories /\ v.parts = sent.parts \o parts /\ ~ v.blocked
      /\ v.finish = IF finish = NoFinish THEN sent.finish ELSE finish
      /\ v.withCalls = sent.withCalls + IF HasCall(parts) THEN 1 ELSE 0
      /\ parts \in Seq(Fragments) /\ Len(v.parts) <= MaxParts
  <2>1. chunk.blocked \in BOOLEAN /\ v = Send(sent, chunk)
    BY <1>5, <1>7
  <2>2. HasSent(sent, chunk, parts, v)
    BY <1>1, <1>5, <1>6, <2>1, SentMore
  <2> QED BY <1>5, <2>2 DEF HasSent
<1>9. PICK t : t = [sc EXCEPT !.finishReason = v.finish, !.usage = sc.usage \/ usage]
  OBVIOUS
<1>10. /\ t \in Converters /\ t.target = sc.target /\ t.started /\ ~ t.finalized /\ t.events = <<>>
       /\ t.finishReason = v.finish /\ SameBlock(sc, t)
  <2>1. v.finish \in GeminiReasons \cup {NoFinish}
    BY <1>8 DEF Histories
  <2>2. (sc.usage \/ usage) \in BOOLEAN
    OBVIOUS
  <2> QED BY <1>1, <1>9, <2>1, <2>2 DEF Converters, SameBlock
<1>11. PICK s : s = sc'
  OBVIOUS
<1>12. s = IF Anthropic(sc) THEN AllParts(t, parts) ELSE HandlePartsOpenAI(t, parts)
  <2>1. t = [sc EXCEPT !.finishReason = IF chunk.finish = NoFinish THEN @ ELSE chunk.finish,
                       !.usage = @ \/ chunk.usage]
    BY <1>1, <1>5, <1>8, <1>9
  <2> QED BY <1>5, <1>11, <2>1 DEF HandleChunk, AllParts
<1>13. PICK m : m = Mode(t, v)
  OBVIOUS
<1>14. Anthropic(t) <=> Anthropic(sc)
  BY <1>10 DEF Anthropic
<1>15. CASE Anthropic(sc)
  <2>1. ToAnthropic(m)
    BY <1>8, <1>10, <1>13, <1>14, <1>15, ModeOf
  <2>2. Good(m, client, t, sent.parts)
    <3>1. Runs(m, client, t.events, client)
      BY <1>10, RunsNothing
    <3>2. Agree(t, client, sent.parts)
      BY <1>1, <1>10, <1>15 DEF Agree, SameBlock
    <3>3. BlocksHold(client.blocks, sent.parts)
      BY <1>1, <1>15 DEF Holds
    <3> QED BY <1>2, <3>1, <3>2, <3>3 DEF Good
  <2>3. s \in Converters /\ Framed(t, s) /\ Good(m, client, s, v.parts)
    <3>1. sent.parts \in Seq(Fragments) /\ Len(sent.parts \o parts) <= MaxParts
      BY <1>1, <1>5 DEF Histories
    <3>2. s = AllParts(t, parts)
      BY <1>12, <1>15
    <3>3. s \in Converters /\ Framed(t, s) /\ Good(m, client, s, sent.parts \o parts)
      BY <1>6, <1>10, <2>1, <2>2, <3>1, <3>2, PartsHandled
    <3> QED BY <1>8, <3>3
  <2>4. m = Mode(s, v) /\ Anthropic(s)
    BY <1>13, <1>14, <1>15, <2>3, SameMode
  <2>5. /\ s.target = sc.target /\ s.started /\ ~ s.finalized /\ s.finishReason = v.finish
    BY <1>10, <2>3 DEF Framed
  <2>6. /\ Reached(s, client, v)
        /\ s.curBlockType # NoBlock => s.curBlockIndex = s.nextBlockIndex - 1
    BY <1>8, <2>3, <2>4, <2>5, GoodIsReached
  <2> QED BY <1>1, <1>2, <1>7, <1>8, <1>11, <2>3, <2>5, <2>6 DEF IInv
<1>16. CASE ~ Anthropic(sc)
  <2>1. /\ ToOpenAI(m) /\ client \in ChatClients /\ ChatHolds(client, sent.parts, sent.withCalls)
        /\ sent.withCalls \in Nat /\ sent.parts \in Seq(Fragments)
    <3>1. sc.target = "openai"
      BY <1>1, <1>16, TargetOf
    <3> QED BY <1>1, <1>8, <1>10, <1>13, <1>14, <1>16, <3>1, ModeOf DEF ClientsOf, Holds, Histories
  <2>2. s = IF parts = <<>> THEN t ELSE Emit(t, Chat!Delta(TextsOf(parts), Numbered(CallsOf(parts))))
    <3>1. PICK delta : delta = DeltaFor(parts)
      OBVIOUS
    <3>2. FoldLeft(AddPart, NoDelta, parts) = delta
      BY <1>6, <3>1, DeltaOfParts DEF AllAdded
    <3>3. s = IF delta = NoDelta THEN t ELSE Emit(t, Chat!Delta(delta.content, delta.toolCalls))
      BY <1>12, <1>16, <3>2 DEF HandlePartsOpenAI
    <3> QED BY <1>6, <3>1, <3>3, DeltaEmpty
  <2>3. /\ s \in Converters /\ Framed(t, s) /\ SameBlock(t, s)
        /\ \E x : /\ Runs(m, client, s.events, x) /\ x \in ChatClients /\ x.phase = "streaming"
                  /\ x.reason = None /\ ChatHolds(x, v.parts, v.withCalls)
    <3>1. CASE parts = <<>>
      <4>1. s = t
        BY <2>2, <3>1
      <4>2. v.parts = sent.parts
        BY <1>8, <2>1, <3>1
      <4>3. v.withCalls = sent.withCalls
        <5>1. ~ HasCall(parts)
          BY <3>1 DEF HasCall
        <5> QED BY <1>8, <2>1, <5>1
      <4>4. Runs(m, client, s.events, client)
        BY <1>10, <4>1, RunsNothing
      <4> QED BY <1>1, <1>2, <1>10, <2>1, <4>1, <4>2, <4>3, <4>4 DEF Framed, SameBlock
    <3>2. CASE parts # <<>>
      <4>1. PICK e : e = Chat!Delta(TextsOf(parts), Numbered(CallsOf(parts)))
        OBVIOUS
      <4>2. s = Emit(t, e)
        BY <2>2, <3>2, <4>1
      <4>3. FreeCalls(m, client, CallsOf(parts))
        <5>1. CASE sent.withCalls = 0
          BY <2>1, <5>1, NoCallsYet DEF FreeCalls
        <5>2. CASE sent.withCalls # 0 /\ ~ HasCall(parts)
          BY <1>8, <5>2, KindsOfParts DEF FreeCalls
        <5>3. CASE sent.withCalls # 0 /\ HasCall(parts)
          <6>1. v.withCalls > 1
            BY <1>8, <2>1, <5>3
          <6>2. m.free = Phases
            BY <1>8, <1>10, <1>13, <1>14, <1>16, <6>1, ModeOf
          <6> QED BY <1>2, <6>2 DEF Phases, FreeCalls
        <5> QED BY <5>1, <5>2, <5>3
      <4>4. PICK x : /\ Took(m, client, e, x) /\ x \in ChatClients /\ x.phase = "streaming" /\ x.reason = None
                     /\ x.content = client.content \o TextsOf(parts)
                     /\ x.calls = AllJoined(client.calls, Numbered(CallsOf(parts)))
        <5>1. TakesParts(m, client, e, parts)
          BY <1>1, <1>2, <1>6, <1>8, <2>1, <3>2, <4>1, <4>3, TookChunk
        <5> QED BY <5>1 DEF TakesParts
      <4>5. e \in AllEvents
        BY <2>1, <4>4 DEF Took, EventsOf, ToOpenAI, AllEvents
      <4>6. s \in Converters /\ Framed(t, s) /\ SameBlock(t, s) /\ s.events = Append(t.events, e)
        BY <1>10, <4>2, <4>5, Emitted
      <4>7. Runs(m, client, s.events, x)
        <5>1. Runs(m, client, t.events, client) /\ t.events \in Seq(AllEvents)
          BY <1>10, RunsNothing DEF Converters
        <5> QED BY <4>4, <4>6, <5>1, RunsOn
      <4>8. ChatHolds(x, v.parts, v.withCalls)
        BY <1>6, <1>8, <2>1, <4>4, ChatHeld
      <4> QED BY <4>4, <4>6, <4>7, <4>8
    <3> QED BY <3>1, <3>2
  <2>4. PICK x : /\ Runs(m, client, s.events, x) /\ x \in ChatClients /\ x.phase = "streaming"
                 /\ x.reason = None /\ ChatHolds(x, v.parts, v.withCalls)
    BY <2>3
  <2>5. m = Mode(s, v) /\ ~ Anthropic(s)
    BY <1>13, <1>14, <1>16, <2>3, SameMode
  <2>6. /\ s.target = sc.target /\ s.started /\ ~ s.finalized /\ s.finishReason = v.finish
        /\ s.curBlockType # NoBlock => s.curBlockIndex = s.nextBlockIndex - 1
    BY <1>10, <2>3 DEF Framed, SameBlock, IInv
  <2>7. Phased(s, x, v)
    <3>1. x \in ClientsOf(s.target)
      BY <2>4, <2>5 DEF ClientsOf, Anthropic
    <3> QED BY <1>8, <2>4, <2>5, <2>6, <3>1 DEF Phased, Holds
  <2>8. Reached(s, client, v)
    BY <2>4, <2>5, <2>7 DEF Reached
  <2> QED BY <1>1, <1>2, <1>7, <1>8, <1>11, <2>3, <2>6, <2>8 DEF IInv
<1> QED BY <1>15, <1>16

(* An error event ends the stream of either protocol; nothing is lost.     *)
SameContent(s, c, x) ==
    /\ x \in ClientsOf(s.target)
    /\ Anthropic(s) => x.blocks = c.blocks
    /\ ~ Anthropic(s) => x.content = c.content /\ x.calls = c.calls

HasFailed(m, c, s, r) ==
    /\ r \in Converters /\ Framed(s, r) /\ SameBlock(s, r)
    /\ \E x : /\ Runs(m, c, r.events, x) /\ SameContent(s, c, x)
              /\ x.phase = "failed" /\ x.reason = None
              /\ Anthropic(s) => x.open = c.open

LEMMA ErrorHandled ==
  ASSUME NEW s \in Converters, s.events = <<>>, NEW m, m.target = s.target,
         NEW c \in ClientsOf(s.target), c.reason = None,
         c.phase \in m.free \/ c.phase = "streaming", NEW r, r = HandleError(s)
  PROVE  HasFailed(m, c, s, r)
<1>1. Runs(m, c, s.events, c) /\ s.events \in Seq(AllEvents)
  BY RunsNothing DEF Converters
<1>2. CASE Anthropic(s)
  <2>1. ToAnthropic(m) /\ c \in SseClients /\ ClientsOf(s.target) = SseClients
    BY <1>2 DEF Anthropic, ToAnthropic, ClientsOf
  <2>2. PICK e : e = Sse!Error
    OBVIOUS
  <2>3. r = Emit(s, e) /\ e \in AllEvents
    BY <1>2, <2>2, SseEvents DEF HandleError, AllEvents
  <2>4. r \in Converters /\ Framed(s, r) /\ SameBlock(s, r) /\ r.events = Append(s.events, e)
    BY <2>3, Emitted
  <2>5. PICK x : /\ Took(m, c, e, x)
                 /\ x \in SseClients /\ x.phase = "failed" /\ x.reason = None /\ x.open = c.open
                 /\ x.blocks = c.blocks
    BY <2>1, <2>2, TookError
  <2>6. Runs(m, c, r.events, x)
    BY <1>1, <2>4, <2>5, RunsOn
  <2> QED BY <1>2, <2>1, <2>4, <2>5, <2>6 DEF HasFailed, SameContent
<1>3. CASE ~ Anthropic(s)
  <2>0. s.target = "openai"
    BY <1>3, TargetOf
  <2>1. ToOpenAI(m) /\ c \in ChatClients /\ ClientsOf(s.target) = ChatClients
    BY <2>0 DEF ToOpenAI, ClientsOf
  <2>2. PICK e : e = Chat!Error
    OBVIOUS
  <2>3. r = Emit(s, e) /\ e \in AllEvents
    BY <1>3, <2>2, ChatEvents DEF HandleError, AllEvents
  <2>4. r \in Converters /\ Framed(s, r) /\ SameBlock(s, r) /\ r.events = Append(s.events, e)
    BY <2>3, Emitted
  <2>5. PICK x : /\ Took(m, c, e, x) /\ x \in ChatClients /\ x.phase = "failed"
                 /\ x.reason = None /\ x.content = c.content /\ x.calls = c.calls
    BY <2>1, <2>2, TookChatError
  <2>6. Runs(m, c, r.events, x)
    BY <1>1, <2>4, <2>5, RunsOn
  <2> QED BY <1>3, <2>1, <2>4, <2>5, <2>6 DEF HasFailed, SameContent
<1> QED BY <1>2, <1>3

LEMMA StillHolds ==
  ASSUME NEW s, NEW c, NEW x, SameContent(s, c, x), NEW u, Holds(s, c, u),
         NEW r, r.target = s.target, NEW v, v.parts = u.parts, v.withCalls = u.withCalls
  PROVE  Holds(r, x, v)
<1>1. Anthropic(r) <=> Anthropic(s)
  BY DEF Anthropic
<1>2. CASE Anthropic(s)
  BY <1>1, <1>2 DEF Holds, SameContent
<1>3. CASE ~ Anthropic(s)
  BY <1>1, <1>3 DEF Holds, SameContent, ChatHolds
<1> QED BY <1>2, <1>3

LEMMA BlockedKeeps ==
  ASSUME IInv, Blocked
  PROVE  IInv'
<1>1. /\ sc \in Converters /\ sc.started /\ ~ sc.finalized /\ sc.events = <<>>
      /\ sent \in Histories /\ Len(sent.parts) <= MaxParts /\ sc.finishReason = sent.finish
      /\ client \in ClientsOf(sc.target) /\ client.reason = None /\ Holds(sc, client, sent)
      /\ client.phase = IF sent.blocked THEN "failed" ELSE "streaming"
      /\ Anthropic(sc) => Agree(sc, client, sent.parts)
  BY RunningClient DEF Blocked
<1>2. client' = client /\ ~ sent.blocked /\ client.phase = "streaming"
  BY <1>1 DEF Blocked
<1>3. PICK parts : parts = <<>>
  OBVIOUS
<1>4. PICK chunk : chunk = [blocked |-> TRUE, parts |-> parts, finish |-> NoFinish, usage |-> FALSE]
  OBVIOUS
<1>5. /\ chunk.parts = parts /\ chunk.finish = NoFinish /\ chunk.blocked = TRUE
      /\ sc' = HandleChunk(sc, chunk) /\ sent' = Send(sent, chunk)
  BY <1>3, <1>4 DEF Blocked
<1>6. PICK v : v = sent'
  OBVIOUS
<1>7. HasSent(sent, chunk, parts, v)
  <2>1. Short(parts) /\ chunk.blocked \in BOOLEAN /\ chunk.finish \in GeminiReasons \cup {NoFinish}
    BY <1>3, <1>5 DEF Short
  <2> QED BY <1>1, <1>5, <1>6, <2>1, SentMore
<1>8. /\ v \in Histories /\ v.parts = sent.parts /\ v.withCalls = sent.withCalls /\ v.blocked
      /\ v.finish = sent.finish
  <2>1. sent.parts \o parts = sent.parts /\ ~ HasCall(parts) /\ sent.withCalls \in Nat
    BY <1>1, <1>3 DEF Histories, HasCall
  <2> QED BY <1>5, <1>7, <2>1 DEF HasSent
<1>9. PICK s : s = sc'
  OBVIOUS
<1>10. s = HandleError(sc)
  BY <1>5, <1>9 DEF HandleChunk
<1>11. PICK m : m = Mode(sc, v)
  OBVIOUS
<1>12. m.target = sc.target
  BY <1>1, <1>8, <1>11, ModeOf
<1>13. HasFailed(m, client, sc, s)
  BY <1>1, <1>2, <1>10, <1>12, ErrorHandled
<1>14. s \in Converters /\ Framed(sc, s) /\ SameBlock(sc, s)
  BY <1>13 DEF HasFailed
<1>15. PICK x : /\ Runs(m, client, s.events, x) /\ SameContent(sc, client, x)
                /\ x.phase = "failed" /\ x.reason = None
                /\ Anthropic(sc) => x.open = client.open
  BY <1>13 DEF HasFailed
<1>16. m = Mode(s, v) /\ (Anthropic(s) <=> Anthropic(sc))
  BY <1>11, <1>14, SameMode
<1>17. /\ s.target = sc.target /\ s.started /\ ~ s.finalized /\ s.finishReason = v.finish
       /\ s.curBlockType # NoBlock => s.curBlockIndex = s.nextBlockIndex - 1
  BY <1>1, <1>8, <1>14 DEF Framed, SameBlock, IInv
<1>18. Phased(s, x, v)
  <2>1. Holds(s, x, v) /\ x \in ClientsOf(s.target)
    BY <1>1, <1>8, <1>15, <1>17, StillHolds DEF SameContent
  <2>2. Anthropic(s) => Agree(s, x, v.parts)
    <3> SUFFICES ASSUME Anthropic(s) PROVE Agree(s, x, v.parts)
      OBVIOUS
    <3>1. Anthropic(sc) /\ x \in SseClients /\ x.blocks = client.blocks
      BY <1>15, <1>16 DEF SameContent, ClientsOf, Anthropic
    <3> QED BY <1>1, <1>8, <1>14, <1>15, <3>1 DEF Agree, SameBlock
  <2> QED BY <1>8, <1>15, <1>17, <2>1, <2>2 DEF Phased
<1>19. Reached(s, client, v)
  BY <1>15, <1>16, <1>18 DEF Reached
<1> QED BY <1>1, <1>2, <1>6, <1>8, <1>9, <1>14, <1>17, <1>19 DEF IInv

LEMMA EmitErrorKeeps ==
  ASSUME IInv, EmitError
  PROVE  IInv'
<1>1. /\ sc \in Converters /\ sc.started /\ ~ sc.finalized /\ sc.events = <<>>
      /\ sent \in Histories /\ Len(sent.parts) <= MaxParts /\ sc.finishReason = sent.finish
      /\ client \in ClientsOf(sc.target) /\ client.reason = None /\ Holds(sc, client, sent)
      /\ client.phase = IF sent.blocked THEN "failed" ELSE "streaming"
      /\ Anthropic(sc) => Agree(sc, client, sent.parts)
  BY RunningClient DEF EmitError
<1>2. client' = client /\ sent' = sent /\ sc' = [HandleError(sc) EXCEPT !.finalized = TRUE]
  BY DEF EmitError
<1>3. PICK r : r = HandleError(sc)
  OBVIOUS
<1>4. PICK s : s = [r EXCEPT !.finalized = TRUE]
  OBVIOUS
<1>5. PICK m : m = Mode(s, sent)
  OBVIOUS
<1>6. r \in Converters /\ Framed(sc, r) /\ SameBlock(sc, r)
  <2>1. (IF Anthropic(sc) THEN Sse!Error ELSE Chat!Error) \in AllEvents
    BY SseEvents, ChatEvents DEF AllEvents
  <2> QED BY <1>1, <1>3, <2>1, Emitted DEF HandleError
<1>7. /\ s \in Converters /\ s.target = sc.target /\ s.started /\ s.finalized /\ s.events = r.events
      /\ s.finishReason = sc.finishReason /\ SameBlock(sc, s)
  BY <1>1, <1>4, <1>6 DEF Converters, Framed, SameBlock
<1>8. m.target = sc.target /\ (sent.blocked => "failed" \in m.free)
  BY <1>1, <1>5, <1>7, ModeOf
<1>9. HasFailed(m, client, sc, r)
  BY <1>1, <1>3, <1>8, ErrorHandled
<1>10. PICK x : Runs(m, client, r.events, x) /\ SameContent(sc, client, x)
  BY <1>9 DEF HasFailed
<1>11. Phased(s, x, sent)
  <2>1. Holds(s, x, sent) /\ x \in ClientsOf(s.target)
    BY <1>1, <1>7, <1>10, StillHolds DEF SameContent
  <2> QED BY <1>7, <2>1 DEF Phased
<1>12. Reached(s, client, sent)
  BY <1>5, <1>7, <1>10, <1>11 DEF Reached
<1>13. s.curBlockType # NoBlock => s.curBlockIndex = s.nextBlockIndex - 1
  BY <1>7 DEF SameBlock, IInv
<1> QED BY <1>1, <1>2, <1>3, <1>4, <1>7, <1>12, <1>13 DEF IInv

LEMMA EndKeeps ==
  ASSUME IInv, End
  PROVE  IInv'
<1>1. /\ sc \in Converters /\ sc.started /\ ~ sc.finalized /\ sc.events = <<>>
      /\ sent \in Histories /\ Len(sent.parts) <= MaxParts /\ sc.finishReason = sent.finish
      /\ client \in ClientsOf(sc.target) /\ client.reason = None /\ Holds(sc, client, sent)
      /\ client.phase = IF sent.blocked THEN "failed" ELSE "streaming"
      /\ Anthropic(sc) => Agree(sc, client, sent.parts)
  BY RunningClient DEF End
<1>2. client' = client /\ sent' = sent /\ sc' = HandleStreamEnd(sc)
  BY DEF End
<1>3. PICK t : t = [sc EXCEPT !.finalized = TRUE]
  OBVIOUS
<1>4. /\ t \in Converters /\ t.target = sc.target /\ t.started /\ t.finalized /\ t.events = <<>>
      /\ t.finishReason = sc.finishReason /\ t.usage = sc.usage /\ SameBlock(sc, t)
  BY <1>1, <1>3 DEF Converters, SameBlock
<1>5. PICK s : s = sc'
  OBVIOUS
<1>6. s = IF Anthropic(sc) THEN EndAnthropic(t) ELSE EndOpenAI(t)
  <2>1. Anthropic(t) <=> Anthropic(sc)
    BY <1>4 DEF Anthropic
  <2> QED BY <1>2, <1>3, <1>5, <2>1 DEF HandleStreamEnd
<1>7. PICK m : m = Mode(t, sent)
  OBVIOUS
<1>8. /\ m.told = Told(t) /\ (sent.blocked => "failed" \in m.free)
      /\ client.phase \in m.free \/ client.phase = "streaming"
  BY <1>1, <1>4, <1>7, ModeOf
<1>9. Runs(m, client, t.events, client) /\ t.events \in Seq(AllEvents)
  BY <1>4, RunsNothing DEF Converters
(* The step leaves a converter with the frame of t that has said the end.  *)
<1>10. /\ s \in Converters /\ Framed(t, s) /\ (s.curBlockType = NoBlock \/ SameBlock(t, s))
       /\ \E x : Runs(m, client, s.events, x) /\ SameContent(sc, client, x)
  <2>1. CASE Anthropic(sc)
    <3>1. /\ Anthropic(t) /\ ToAnthropic(m) /\ m.told \in AnthropicReasons
          /\ m.told = MapFinishToAnthropic(t.finishReason)
          /\ (sent.parts = <<>> => m.free = Phases)
          /\ client \in SseClients /\ ClientsOf(sc.target) = SseClients
      <4>1. Anthropic(t)
        BY <1>4, <2>1 DEF Anthropic
      <4> QED BY <1>1, <1>4, <1>7, <2>1, <4>1, ModeOf DEF Told, ClientsOf, Anthropic
    <3>2. PICK q : q = IF t.curBlockType = NoBlock THEN t
                       ELSE [ContentBlockStop(t) EXCEPT !.curBlockType = NoBlock]
      OBVIOUS
    <3>3. s = Emit(Emit(q, Sse!MessageDelta(m.told)), Sse!MessageStop)
      <4>1. q.finishReason = t.finishReason
        BY <1>4, <3>2 DEF ContentBlockStop, Emit, Converters
      <4> QED BY <1>6, <2>1, <3>1, <3>2, <4>1 DEF EndAnthropic
    <3>4. /\ q \in Converters /\ Framed(t, q) /\ q.curBlockType = NoBlock
          /\ \E x : /\ Runs(m, client, q.events, x)
                    /\ x \in SseClients /\ x.blocks = client.blocks
                    /\ x.phase \in m.free \/ (x.phase = "streaming" /\ x.open = None /\ x.blocks # <<>>)
      <4>1. CASE t.curBlockType = NoBlock
        <5>1. q = t
          BY <3>2, <4>1
        <5>2. sc.curBlockType = NoBlock
          BY <1>4, <4>1 DEF SameBlock
        <5>3. sent.parts = <<>>
          <6>1. KindOf(sent.parts[Len(sent.parts)]) # NoBlock
            BY NoBlockIsNone DEF KindOf, Kinds
          <6> QED BY <1>1, <2>1, <5>2, <6>1 DEF Agree
        <5>4. client.phase \in m.free
          BY <1>1, <3>1, <5>3 DEF Phases
        <5>5. q \in Converters /\ Framed(t, q) /\ q.curBlockType = NoBlock
          BY <1>4, <4>1, <5>1 DEF Framed
        <5>6. Runs(m, client, q.events, client) /\ client \in SseClients
          BY <1>9, <3>1, <5>1
        <5>7. \E x : /\ Runs(m, client, q.events, x)
                     /\ x \in SseClients /\ x.blocks = client.blocks
                     /\ x.phase \in m.free \/ (x.phase = "streaming" /\ x.open = None /\ x.blocks # <<>>)
          BY <5>4, <5>6, Zenon
        <5> QED BY <5>5, <5>7
      <4>2. CASE t.curBlockType # NoBlock
        <5>1. PICK e : e = Sse!BlockStop(t.curBlockIndex)
          OBVIOUS
        <5>2. PICK p : p = Emit(t, e)
          OBVIOUS
        <5>3. q = [p EXCEPT !.curBlockType = NoBlock]
          BY <3>2, <4>2, <5>1, <5>2 DEF ContentBlockStop
        <5>4. sent.parts # <<>> /\ sent.parts \in Seq(Fragments) /\ client.blocks \in Seq(Blocks)
          BY <1>1, <1>4, <2>1, <3>1, <4>2 DEF Agree, SameBlock, Histories, SseClients
        <5>5. /\ t.nextBlockIndex > 0 /\ t.curBlockIndex = t.nextBlockIndex - 1
              /\ client.open = t.curBlockIndex /\ t.nextBlockIndex <= Len(sent.parts)
              /\ Len(client.blocks) = t.nextBlockIndex /\ t.nextBlockIndex \in Nat
          BY <1>1, <1>4, <2>1, <5>4 DEF Agree, SameBlock, Converters
        <5>6. t.curBlockIndex \in 0 .. MaxParts - 1 /\ Len(client.blocks) = t.curBlockIndex + 1
          BY <1>1, <5>4, <5>5, Bounds
        <5>7. PICK x : /\ Took(m, client, e, x)
                       /\ x \in SseClients /\ x.phase = client.phase /\ x.reason = None /\ x.open = None
                       /\ x.blocks = client.blocks
          BY <1>1, <1>8, <3>1, <5>1, <5>5, <5>6, TookStop
        <5>8. e \in AllEvents
          BY <5>1, <5>6, SseEvents DEF AllEvents
        <5>9. p \in Converters /\ Framed(t, p) /\ p.events = Append(t.events, e)
          BY <1>4, <5>2, <5>8, Emitted
        <5>10. q \in Converters /\ Framed(p, q) /\ q.curBlockType = NoBlock /\ q.events = p.events
          BY <5>3, <5>9 DEF Converters, Framed
        <5>11. Runs(m, client, q.events, x)
          BY <1>9, <5>7, <5>9, <5>10, RunsOn
        <5>12. client.blocks # <<>>
          BY <5>4, <5>5
        <5> QED BY <1>8, <5>7, <5>9, <5>10, <5>11, <5>12 DEF Framed
      <4> QED BY <4>1, <4>2
    <3>5. PICK x : /\ Runs(m, client, q.events, x)
                   /\ x \in SseClients /\ x.blocks = client.blocks
                   /\ x.phase \in m.free \/ (x.phase = "streaming" /\ x.open = None /\ x.blocks # <<>>)
      BY <3>4
    <3>6. PICK y : /\ Took(m, x, Sse!MessageDelta(m.told), y)
                   /\ y \in SseClients /\ y.phase = "closing" /\ y.reason = m.told /\ y.blocks = x.blocks
      BY <3>1, <3>5, TookMessageDelta
    <3>7. PICK z : Took(m, y, Sse!MessageStop, z) /\ z \in SseClients /\ z.blocks = y.blocks
      BY <3>1, <3>6, TookMessageStop
    <3>8. PICK e : e = Sse!MessageDelta(m.told)
      OBVIOUS
    <3>9. PICK f : f = Sse!MessageStop
      OBVIOUS
    <3>10. e \in AllEvents /\ f \in AllEvents
      BY <3>1, <3>8, <3>9, SseEvents DEF AllEvents
    <3>11. PICK p : p = Emit(q, e)
      OBVIOUS
    <3>12. s = Emit(p, f)
      BY <3>3, <3>8, <3>9, <3>11
    <3>13. p \in Converters /\ Framed(q, p) /\ SameBlock(q, p) /\ p.events = Append(q.events, e)
      BY <3>4, <3>10, <3>11, Emitted
    <3>14. s \in Converters /\ Framed(p, s) /\ SameBlock(p, s) /\ s.events = Append(p.events, f)
      BY <3>10, <3>12, <3>13, Emitted
    <3>15. q.events \in Seq(AllEvents) /\ p.events \in Seq(AllEvents)
      BY <3>4, <3>13 DEF Converters
    <3>16. Runs(m, client, p.events, y)
      BY <3>5, <3>6, <3>8, <3>13, <3>15, RunsOn
    <3>17. Runs(m, client, s.events, z)
      BY <3>7, <3>9, <3>14, <3>15, <3>16, RunsOn
    <3>18. SameContent(sc, client, z)
      BY <2>1, <3>1, <3>5, <3>6, <3>7 DEF SameContent
    <3> QED BY <3>4, <3>13, <3>14, <3>17, <3>18 DEF Framed, SameBlock
  <2>2. CASE ~ Anthropic(sc)
    <3>0. sc.target = "openai"
      BY <1>1, <2>2, TargetOf
    <3>1. /\ ~ Anthropic(t) /\ ToOpenAI(m) /\ m.told \in OpenAIReasons
          /\ m.told = MapFinishToOpenAI(t.finishReason)
          /\ client \in ChatClients /\ ClientsOf(sc.target) = ChatClients
      <4>1. ~ Anthropic(t)
        BY <1>4, <2>2 DEF Anthropic
      <4>2. client \in ChatClients /\ ClientsOf(sc.target) = ChatClients
        BY <1>1, <3>0 DEF ClientsOf
      <4> QED BY <1>1, <1>4, <1>7, <4>1, <4>2, ModeOf DEF Told
    <3>2. PICK e : e = Chat!Finish(m.told)
      OBVIOUS
    <3>3. PICK f : f = Chat!Done
      OBVIOUS
    <3>4. e \in AllEvents /\ f \in AllEvents
      BY <3>1, <3>2, <3>3, ChatEvents DEF AllEvents
    <3>5. PICK q : q = IF t.finishReason = NoFinish /\ ~ t.usage THEN t ELSE Emit(t, e)
      OBVIOUS
    <3>6. s = Emit(q, f)
      BY <1>6, <2>2, <3>1, <3>2, <3>3, <3>5 DEF EndOpenAI
    <3>7. /\ q \in Converters /\ Framed(t, q) /\ SameBlock(t, q)
          /\ \E x : /\ Runs(m, client, q.events, x) /\ x \in ChatClients
                    /\ x.reason \in {None, m.told} /\ x.content = client.content /\ x.calls = client.calls
                    /\ x.phase \in m.free \/ x.phase \in {"streaming", "finished"}
      <4>1. CASE q = t
        BY <1>1, <1>4, <1>8, <1>9, <3>1, <4>1 DEF Framed, SameBlock
      <4>2. CASE q = Emit(t, e)
        <5>1. q \in Converters /\ Framed(t, q) /\ SameBlock(t, q) /\ q.events = Append(t.events, e)
          BY <1>4, <3>4, <4>2, Emitted
        <5>2. PICK x : /\ Took(m, client, e, x) /\ x \in ChatClients /\ x.phase = "finished"
                       /\ x.reason = m.told /\ x.content = client.content /\ x.calls = client.calls
          BY <1>8, <3>1, <3>2, TookFinish
        <5>3. Runs(m, client, q.events, x)
          BY <1>9, <5>1, <5>2, RunsOn
        <5> QED BY <5>1, <5>2, <5>3
      <4> QED BY <3>5, <4>1, <4>2
    <3>8. PICK x : /\ Runs(m, client, q.events, x) /\ x \in ChatClients
                   /\ x.reason \in {None, m.told} /\ x.content = client.content /\ x.calls = client.calls
                   /\ x.phase \in m.free \/ x.phase \in {"streaming", "finished"}
      BY <3>7
    <3>9. PICK z : Took(m, x, f, z) /\ z \in ChatClients /\ z.content = x.content /\ z.calls = x.calls
      BY <3>1, <3>3, <3>8, TookDone
    <3>10. s \in Converters /\ Framed(q, s) /\ SameBlock(q, s) /\ s.events = Append(q.events, f)
      BY <3>4, <3>6, <3>7, Emitted
    <3>11. q.events \in Seq(AllEvents)
      BY <3>7 DEF Converters
    <3>12. Runs(m, client, s.events, z)
      BY <3>8, <3>9, <3>10, <3>11, RunsOn
    <3>13. SameContent(sc, client, z)
      BY <2>2, <3>1, <3>8, <3>9 DEF SameContent
    <3> QED BY <3>7, <3>10, <3>12, <3>13 DEF Framed, SameBlock
  <2> QED BY <2>1, <2>2
<1>11. PICK x : Runs(m, client, s.events, x) /\ SameContent(sc, client, x)
  BY <1>10
<1>12. m = Mode(s, sent)
  BY <1>7, <1>10, SameMode
<1>13. /\ s.target = sc.target /\ s.started /\ s.finalized /\ s.finishReason = sent.finish
       /\ s.curBlockType # NoBlock => s.curBlockIndex = s.nextBlockIndex - 1
  BY <1>1, <1>4, <1>10 DEF Framed, SameBlock, IInv
<1>14. Phased(s, x, sent)
  <2>1. Holds(s, x, sent) /\ x \in ClientsOf(s.target)
    BY <1>1, <1>11, <1>13, StillHolds DEF SameContent
  <2> QED BY <1>13, <2>1 DEF Phased
<1>15. Reached(s, client, sent)
  BY <1>11, <1>12, <1>14 DEF Reached
<1> QED BY <1>1, <1>2, <1>5, <1>10, <1>13, <1>15 DEF IInv

(* The client takes the first pending event, which it may get.             *)
LEMMA Delivered ==
  ASSUME IInv, Deliver
  PROVE  IInv' /\ Took(Mode(sc, sent), client, Head(sc.events), client')
<1>1. /\ sc \in Converters /\ sent \in Histories /\ Len(sent.parts) <= MaxParts
      /\ client \in ClientsOf(sc.target) /\ sc.finishReason = sent.finish
      /\ sc.curBlockType # NoBlock => sc.curBlockIndex = sc.nextBlockIndex - 1
      /\ Reached(sc, client, sent)
  BY DEF IInv
<1>2. /\ sc.events # <<>> /\ sc' = [sc EXCEPT !.events = Tail(@)] /\ sent' = sent
      /\ client' = IF Anthropic(sc) THEN Sse!Apply(client, Head(sc.events))
                                    ELSE Chat!Apply(client, Head(sc.events))
  BY DEF Deliver, Idle
<1>3. PICK m : m = Mode(sc, sent)
  OBVIOUS
<1>4. PICK d : Runs(m, client, sc.events, d) /\ Phased(sc, d, sent)
  BY <1>1, <1>3 DEF Reached
<1>5. sc.events \in Seq(AllEvents) /\ Tail(sc.events) \in Seq(AllEvents)
  BY <1>1, <1>2 DEF Converters
<1>6. PICK x : Took(m, client, Head(sc.events), x) /\ Runs(m, x, Tail(sc.events), d)
  BY <1>2, <1>4, <1>5, RunsFrom
<1>7. m.target = sc.target /\ m.told = Told(sc)
  BY <1>1, <1>3, ModeOf
<1>8. client' = x /\ x \in ClientsOf(sc.target) /\ x.reason \in {None, Told(sc)}
  BY <1>2, <1>6, <1>7 DEF Took, Anthropic
<1>9. PICK s : s = sc'
  OBVIOUS
<1>10. /\ s \in Converters /\ Framed(sc, s) /\ SameBlock(sc, s) /\ s.events = Tail(sc.events)
  BY <1>1, <1>2, <1>5, <1>9 DEF Converters, Framed, SameBlock
<1>11. m = Mode(s, sent) /\ Told(s) = Told(sc) /\ (Anthropic(s) <=> Anthropic(sc))
  BY <1>3, <1>10, SameMode
<1>12. /\ s.target = sc.target /\ s.started = sc.started /\ s.finalized = sc.finalized
       /\ s.finishReason = sc.finishReason
  BY <1>10 DEF Framed
<1>13. Phased(s, d, sent)
  <2>1. sc.started /\ d \in ClientsOf(sc.target) /\ Holds(sc, d, sent)
    BY <1>2, <1>4 DEF Phased
  <2>2. Holds(s, d, sent)
    BY <1>11, <2>1 DEF Holds
  <2>3. Agree(sc, d, sent.parts) => Agree(s, d, sent.parts)
    BY <1>10 DEF Agree, SameBlock
  <2> QED BY <1>4, <1>11, <1>12, <2>1, <2>2, <2>3 DEF Phased
<1>14. Reached(s, x, sent)
  BY <1>6, <1>10, <1>11, <1>13 DEF Reached
<1>15. s.curBlockType # NoBlock => s.curBlockIndex = s.nextBlockIndex - 1
  BY <1>1, <1>10 DEF SameBlock
<1>16. IInv'
  BY <1>1, <1>2, <1>8, <1>9, <1>10, <1>11, <1>12, <1>14, <1>15 DEF IInv
<1> QED BY <1>3, <1>6, <1>8, <1>16

LEMMA Invariance == Spec => []IInv
<1>1. IInv /\ [Next]_vars => IInv'
  <2> SUFFICES ASSUME IInv, [Next]_vars PROVE IInv'
    OBVIOUS
  <2>1. CASE Start
    BY <2>1, Started
  <2>2. CASE Chunk
    BY <2>2, ChunkKeeps
  <2>3. CASE Blocked
    BY <2>3, BlockedKeeps
  <2>4. CASE End
    BY <2>4, EndKeeps
  <2>5. CASE EmitError
    BY <2>5, EmitErrorKeeps
  <2>6. CASE Deliver
    BY <2>6, Delivered
  <2>7. CASE UNCHANGED vars
    <3>1. sc' = sc /\ client' = client /\ sent' = sent
      BY <2>7, Zenon DEF vars
    <3>2. Told(sc)' = Told(sc)
      BY <3>1, Zenon DEF Told, Anthropic
    <3>3. Reached(sc, client, sent)' = Reached(sc, client, sent)
      BY <3>1, ZenonT(30) DEF Reached, Mode, Free, Phased, Holds, Agree, Told, Anthropic
    <3> QED BY <3>1, <3>2, <3>3 DEF IInv
  <2> QED BY <2>1, <2>2, <2>3, <2>4, <2>5, <2>6, <2>7 DEF Next
<1> QED BY Initially, <1>1, PTL DEF Spec

-----------------------------------------------------------------------------
(* Types: the block the converter believes open is the last it has         *)
(* numbered, and all that waits to be delivered is of the client's protocol.*)
LEMMA Typed == IInv => TypeOK
<1> SUFFICES ASSUME IInv PROVE TypeOK
  OBVIOUS
<1>1. /\ sc \in Converters /\ sent \in Histories /\ Reached(sc, client, sent)
      /\ sc.curBlockType # NoBlock => sc.curBlockIndex = sc.nextBlockIndex - 1
  BY DEF IInv
<1>2. PICK d : Runs(Mode(sc, sent), client, sc.events, d)
  BY <1>1 DEF Reached
<1>3. \A i \in 1 .. Len(sc.events) : sc.events[i] \in EventsOf(sc.target)
  BY <1>1, <1>2, RunsEvents, ModeOf
<1>4. DOMAIN sc.events = 1 .. Len(sc.events)
  BY <1>1 DEF Converters
<1>5. \A i \in DOMAIN sc.events : sc.events[i] \in IF Anthropic(sc) THEN Sse!Events ELSE Chat!Events
  BY <1>3, <1>4 DEF EventsOf, Anthropic
<1>6. /\ sc.target \in Targets /\ {sc.started, sc.finalized, sc.usage} \subseteq BOOLEAN
      /\ sc.curBlockType \in {NoBlock, "text", "tool_use"}
      /\ sc.finishReason \in {NoFinish} \cup GeminiReasons
  BY <1>1 DEF Converters, Kinds
<1> QED BY <1>1, <1>5, <1>6 DEF TypeOK

THEOREM TypeCorrect == Spec => []TypeOK
BY Invariance, Typed, PTL

(* However the stream ends, what the client is told of it is what the      *)
(* upstream said last of its finish, in whichever chunk: a client that has *)
(* a reason has that of the converter's finishReason.                      *)
LEMMA ToldOutcome == IInv => OutcomeReported
<1> SUFFICES ASSUME IInv, client.reason # None PROVE OutcomeReported
  BY DEF OutcomeReported
<1>1. client.reason = Told(sc) /\ sc.finishReason = sent.finish
  BY DEF IInv
<1>2. /\ sent.finish \in {NoFinish, "STOP", "MAX_TOKENS", "SAFETY", "MALFORMED_FUNCTION_CALL"}
      /\ NoFinish \notin {"MAX_TOKENS", "SAFETY", "MALFORMED_FUNCTION_CALL"}
  BY <1>1, NoBlockIsNone DEF IInv, Converters, GeminiReasons
<1>3. CASE Anthropic(sc)
  <2>1. client.reason = IF sent.finish = "MAX_TOKENS" THEN "max_tokens" ELSE "end_turn"
    BY <1>1, <1>3 DEF Told, MapFinishToAnthropic
  <2> QED BY <1>3, <2>1 DEF OutcomeReported
<1>4. CASE ~ Anthropic(sc)
  <2>1. /\ sent.finish = "MAX_TOKENS" => client.reason = "length"
        /\ sent.finish = "SAFETY" => client.reason = "content_filter"
        /\ sent.finish \in {NoFinish, "STOP"} => client.reason = "stop"
        /\ sent.finish \notin {NoFinish, "STOP", "MAX_TOKENS", "SAFETY"} =>
              client.reason = "MALFORMED_FUNCTION_CALL"
    BY <1>1, <1>2, <1>4 DEF Told, MapFinishToOpenAI
  <2> QED BY <1>2, <1>4, <2>1 DEF OutcomeReported
<1> QED BY <1>3, <1>4

THEOREM OutcomeTold == Spec => []OutcomeReported
BY Invariance, ToldOutcome, PTL

(* Nothing of any chunk is lost, moved or put into another part's place:   *)
(* once all events are delivered, the client's blocks (or its text and its *)
(* calls) are the parts the upstream has sent, but for the calls that the  *)
(* property names.                                                         *)
LEMMA Complete == IInv => PartsComplete
<1> SUFFICES ASSUME IInv, Idle PROVE PartsComplete
  BY DEF PartsComplete
<1>1. sc \in Converters /\ sent \in Histories /\ client \in ClientsOf(sc.target)
  BY DEF IInv
<1>2. Holds(sc, client, sent)
  BY NothingPending DEF IInv, Idle, Phased
<1>3. CASE Anthropic(sc)
  <2>1. /\ TextIn(client.blocks) = TextsOf(sent.parts)
        /\ ~ Adjacent(sent.parts) => PartsOf(client.blocks) = AsBlocks(sent.parts)
    BY <1>2, <1>3 DEF Holds, BlocksHold
  <2>2. CallsNextToEachOther <=> Adjacent(sent.parts)
    BY DEF CallsNextToEachOther, Adjacent
  <2>3. ~ CallsNextToEachOther =>
           FlattenSeq([i \in DOMAIN client.blocks |-> PartsIn(client.blocks[i])])
             = [i \in DOMAIN sent.parts |-> AsBlock(sent.parts[i])]
    BY <2>1, <2>2 DEF PartsOf, AsBlocks
  <2> QED BY <1>3, <2>1, <2>3 DEF PartsComplete
<1>4. CASE ~ Anthropic(sc)
  <2>1. /\ client.content = TextsOf(sent.parts)
        /\ sent.withCalls <= 1 => client.calls = PutCalls(CallsOf(sent.parts))
    BY <1>2, <1>4 DEF Holds, ChatHolds
  <2>2. ASSUME sent.withCalls <= 1
        PROVE  LET calls == CallsOf(sent.parts) IN
               client.calls = [i \in DOMAIN client.calls |->
                                 IF i + 1 \in DOMAIN calls THEN <<calls[i + 1]>> ELSE <<>>]
    <3>1. client.calls = PutCalls(CallsOf(sent.parts))
      BY <2>1, <2>2
    <3>2. DOMAIN PutCalls(CallsOf(sent.parts)) = 0 .. MaxParts
      BY DEF PutCalls
    <3> QED BY <3>1, <3>2 DEF PutCalls
  <2> QED BY <1>4, <2>1, <2>2 DEF PartsComplete
<1> QED BY <1>3, <1>4

THEOREM CompleteParts == Spec => []PartsComplete
BY Invariance, Complete, PTL

(* The client never gets an event its protocol does not allow, outside the *)
(* three cases Tidy names: every delivery is a step of the protocol's own  *)
(* specification, and nothing else changes the client.                     *)
LEMMA LegalStep ==
  IInv /\ [Next]_vars => [Tidy => IF Anthropic(sc) THEN Sse!Next ELSE Chat!Next]_client
<1> SUFFICES ASSUME IInv, [Next]_vars, client' # client, Tidy
             PROVE  IF Anthropic(sc) THEN Sse!Next ELSE Chat!Next
  OBVIOUS
<1>1. Deliver
  BY DEF Next, Start, Chunk, Blocked, End, EmitError, vars
<1>2. Took(Mode(sc, sent), client, Head(sc.events), client')
  BY <1>1, Delivered
<1>3. PICK m, e : m = Mode(sc, sent) /\ e = Head(sc.events)
  OBVIOUS
<1>4. m.target = sc.target /\ sc \in Converters /\ sent \in Histories /\ m.free = Free(sc, sent)
  BY <1>3, ModeOf DEF IInv, Mode
<1>5. client.phase \notin m.free
  <2>1. Free(sc, sent) \in {{}, {"failed"}} /\ (Free(sc, sent) = {"failed"} => sent.blocked)
    BY <1>4 DEF Free, Tidy, Histories
  <2> QED BY <1>4, <2>1 DEF Tidy
<1>6. CASE Anthropic(sc)
  BY <1>2, <1>3, <1>4, <1>5, <1>6 DEF Took, Anthropic, EventsOf, Sse!Next, Sse!Accept
<1>7. CASE ~ Anthropic(sc)
  BY <1>2, <1>3, <1>4, <1>5, <1>7 DEF Took, Anthropic, EventsOf, Chat!Next, Chat!Accept
<1> QED BY <1>6, <1>7

THEOREM LegalStreams == Spec => StreamSpec
<1>1. Init => IF Anthropic(sc) THEN Sse!Init ELSE Chat!Init
  BY DEF Init, NewConverter, Anthropic, Sse!Init, Chat!Init
<1>2. IInv /\ [Next]_vars => [Tidy => IF Anthropic(sc) THEN Sse!Next ELSE Chat!Next]_client
  BY LegalStep
<1> QED BY <1>1, <1>2, Invariance, PTL DEF Spec, StreamSpec
=============================================================================
