------------------------- MODULE SessionStoreProofs -------------------------
(***************************************************************************)
(* Proofs about the session store for every set of session ids and every   *)
(* maxSize.  The order slice and the map are kept in agreement by every    *)
(* operation (Inv), which bounds both and makes the pair of them one       *)
(* first-in first-out queue.                                               *)
(***************************************************************************)
EXTENDS SessionStore, FiniteSetTheorems, FunctionTheorems, SequenceTheorems,
        TLAPS

(* Facts about sequences.                                                  *)

(* Taking out position i shortens a sequence by one and closes the gap.    *)
LEMMA RemoveAtProperties ==
  ASSUME NEW S, NEW s \in Seq(S), NEW i \in 1..Len(s)
  PROVE  /\ RemoveAt(s, i) \in Seq(S)
         /\ Len(RemoveAt(s, i)) = Len(s) - 1
         /\ \A j \in 1..(Len(s) - 1) :
              RemoveAt(s, i)[j] = IF j < i THEN s[j] ELSE s[j + 1]
<1> DEFINE l == SubSeq(s, 1, i - 1)
           r == SubSeq(s, i + 1, Len(s))
<1>1. /\ l \in Seq(S) /\ Len(l) = i - 1
      /\ \A j \in 1..(i - 1) : l[j] = s[j]
  BY SubSeqProperties, ElementOfSeq, LenProperties
<1>2. /\ r \in Seq(S) /\ Len(r) = Len(s) - i
      /\ \A j \in 1..(Len(s) - i) : r[j] = s[i + j]
  BY SubSeqProperties, ElementOfSeq, LenProperties
<1>3. RemoveAt(s, i) = l \o r
  BY DEF RemoveAt
<1> HIDE DEF l, r
<1>4. /\ l \o r \in Seq(S)
      /\ Len(l \o r) = Len(l) + Len(r)
      /\ \A j \in 1..(Len(l) + Len(r)) :
           (l \o r)[j] = IF j <= Len(l) THEN l[j] ELSE r[j - Len(l)]
  BY <1>1, <1>2, ConcatProperties
<1>5. ASSUME NEW j \in 1..(Len(s) - 1)
      PROVE  (l \o r)[j] = IF j < i THEN s[j] ELSE s[j + 1]
  <2>1. CASE j < i
    BY <2>1, <1>1, <1>2, <1>4, LenProperties
  <2>2. CASE ~ (j < i)
    <3>1. j - Len(l) \in 1..(Len(s) - i) /\ i + (j - Len(l)) = j + 1
      BY <2>2, <1>1, LenProperties
    <3>2. (l \o r)[j] = r[j - Len(l)]
      BY <2>2, <1>1, <1>2, <1>4, LenProperties
    <3> QED BY <3>1, <3>2, <2>2, <1>2
  <2> QED BY <2>1, <2>2
<1> QED BY <1>1, <1>2, <1>3, <1>4, <1>5, LenProperties

(* In a sequence without repetition the first occurrence is the only one.  *)
LEMMA RemoveFirstIsRemoveAt ==
  ASSUME NEW S, NEW s \in Seq(S), IsInjective(s), NEW i \in 1..Len(s)
  PROVE  RemoveFirst(s, s[i]) = RemoveAt(s, i)
<1> DEFINE I == {j \in 1..Len(s) : s[j] = s[i]}
<1>1. I = {i}
  BY LenProperties DEF IsInjective
<1>2. Min(I) = i
  BY <1>1, LenProperties DEF Min
<1>3. SelectInSeq(s, LAMBDA v : v = s[i]) = i
  BY <1>1, <1>2 DEF SelectInSeq
<1> QED BY <1>3 DEF RemoveFirst

LEMMA RemoveFirstAbsent ==
  ASSUME NEW s, NEW e, \A i \in 1..Len(s) : s[i] # e
  PROVE  RemoveFirst(s, e) = s
BY DEF RemoveFirst

(* A sequence without repetition has as many entries as values.            *)
LEMMA InjectiveSeqCardinality ==
  ASSUME NEW S, NEW s \in Seq(S), IsInjective(s)
  PROVE  IsFiniteSet(Range(s)) /\ Cardinality(Range(s)) = Len(s)
<1>1. s \in [1..Len(s) -> Range(s)] /\ Len(s) \in Nat /\ DOMAIN s = 1..Len(s)
  BY LenProperties DEF Range
<1>2. s \in Bijection(1..Len(s), Range(s))
  BY <1>1, Fun_IsBij DEF IsInjective, Range
<1>3. ExistsBijection(1..Len(s), Range(s))
  BY <1>2 DEF ExistsBijection
<1> QED BY <1>1, <1>3, FS_CountingElements, FS_NatBijection

-----------------------------------------------------------------------------
(* The inductive invariant: the order slice is a repetition-free listing   *)
(* of the live sessions and never longer than maxSize.  OrderListsLive     *)
(* alone is inductive too; the length is what a full store needs to see    *)
(* that one eviction makes enough room.                                    *)
Inv ==
    /\ TypeOK
    /\ OrderListsLive
    /\ Len(order) <= MaxSize

LEMMA LiveIsFinite ==
  ASSUME Inv
  PROVE  IsFiniteSet(Live) /\ Cardinality(Live) = Len(order)
BY InjectiveSeqCardinality DEF Inv, TypeOK, OrderListsLive

(* With every slot live the loop of evictLocked ends at the first slot.    *)
LEMMA EvictsHead ==
  ASSUME Inv, order # <<>>
  PROVE  /\ Head(order) \in Live
         /\ OrderAfterEviction = Tail(order)
         /\ SessionsAfterEviction = [sessions EXCEPT ![Head(order)] = None]
<1>1. /\ order \in Seq(Sids) /\ Len(order) \in Nat \ {0}
      /\ DOMAIN order = 1..Len(order)
  BY EmptySeq, LenProperties DEF Inv, TypeOK
<1>2. LiveSlots = 1..Len(order)
  BY <1>1 DEF LiveSlots, Inv, OrderListsLive, Range
<1>3. Min(1..Len(order)) = 1
  <2>1. 1 \in 1..Len(order) /\ \A y \in 1..Len(order) : 1 =< y
    BY <1>1
  <2>2. ASSUME NEW x \in 1..Len(order), \A y \in 1..Len(order) : x =< y
        PROVE  x = 1
    BY <2>1, <2>2
  <2> QED BY <2>1, <2>2 DEF Min
<1>4. SlotToEvict = 1
  BY <1>1, <1>2, <1>3 DEF SlotToEvict
<1>5. OrderAfterEviction = Tail(order)
  BY <1>1, <1>4, TailIsSubSeq DEF OrderAfterEviction
<1>6. order[1] = Head(order) /\ order[1] \in Live
  BY <1>1, <1>2 DEF LiveSlots
<1>7. SessionsAfterEviction = [sessions EXCEPT ![Head(order)] = None]
  <2>1. LiveSlots # {} /\ order[SlotToEvict] = Head(order)
    BY <1>1, <1>2, <1>4, <1>6
  <2>2. sessions \in [Sids -> Sessions \cup {None}] /\ Head(order) \in Sids
    BY <1>6 DEF Inv, TypeOK, Live
  <2> QED BY <2>1, <2>2 DEF SessionsAfterEviction
<1> QED BY <1>5, <1>6, <1>7

LEMMA InitInv == Init => Inv
<1> SUFFICES ASSUME Init PROVE Inv
  OBVIOUS
<1>1. TypeOK
  BY EmptySeq DEF Init, TypeOK
<1>2. OrderListsLive
  BY EmptySeq DEF Init, OrderListsLive, IsInjective, Range, Live
<1>3. Len(order) <= MaxSize
  BY EmptySeq, MaxSizeAssumption DEF Init
<1> QED BY <1>1, <1>2, <1>3 DEF Inv

(* Replacing the session of a live id touches no slot.                     *)
LEMMA SetExistingInv ==
  ASSUME Inv, NEW sid \in Sids, NEW sess \in Sessions, SetExisting(sid, sess)
  PROVE  Inv'
<1>1. TypeOK'
  BY DEF Inv, TypeOK, SetExisting
<1>2. Live' = Live
  BY NoneAssumption DEF Inv, TypeOK, SetExisting, Live
<1> QED BY <1>1, <1>2 DEF Inv, OrderListsLive, SetExisting

(* A new id takes a slot at the end, after the oldest slot was given up in *)
(* a full store.                                                           *)
LEMMA AppendNewSlot ==
  ASSUME NEW s \in Seq(Sids), NEW sid \in Sids, IsInjective(s), sid \notin Range(s)
  PROVE  /\ Append(s, sid) \in Seq(Sids)
         /\ Len(Append(s, sid)) = Len(s) + 1
         /\ IsInjective(Append(s, sid))
         /\ Range(Append(s, sid)) = Range(s) \cup {sid}
<1>1. /\ Append(s, sid) \in Seq(Sids)
      /\ Len(Append(s, sid)) = Len(s) + 1
      /\ \A i \in 1..Len(s) : Append(s, sid)[i] = s[i]
      /\ Append(s, sid)[Len(s) + 1] = sid
  BY AppendProperties
<1>2. /\ Len(s) \in Nat
      /\ DOMAIN s = 1..Len(s)
      /\ DOMAIN Append(s, sid) = 1..(Len(s) + 1)
  BY <1>1, LenProperties
<1>3. IsInjective(Append(s, sid))
  BY <1>1, <1>2 DEF IsInjective, Range
<1>4. Range(Append(s, sid)) = Range(s) \cup {sid}
  BY <1>1, <1>2 DEF Range
<1> QED BY <1>1, <1>3, <1>4

LEMMA DropFirstSlot ==
  ASSUME NEW s \in Seq(Sids), IsInjective(s), s # <<>>
  PROVE  /\ Tail(s) \in Seq(Sids)
         /\ Len(Tail(s)) = Len(s) - 1
         /\ IsInjective(Tail(s))
         /\ Range(Tail(s)) = Range(s) \ {Head(s)}
<1>1. /\ Tail(s) \in Seq(Sids)
      /\ Len(Tail(s)) = Len(s) - 1
      /\ \A i \in 1..(Len(s) - 1) : Tail(s)[i] = s[i + 1]
  BY HeadTailProperties
<1>2. /\ Len(s) \in Nat \ {0}
      /\ DOMAIN s = 1..Len(s)
      /\ DOMAIN Tail(s) = 1..(Len(s) - 1)
      /\ Head(s) = s[1]
  BY <1>1, EmptySeq, LenProperties
<1>3. IsInjective(Tail(s))
  BY <1>1, <1>2 DEF IsInjective
<1>4. Range(Tail(s)) \subseteq Range(s) \ {Head(s)}
  BY <1>1, <1>2 DEF IsInjective, Range
<1>5. ASSUME NEW x \in Range(s), x # Head(s)
      PROVE  x \in Range(Tail(s))
  <2>1. PICK i \in 1..Len(s) : x = s[i]
    BY <1>2 DEF Range
  <2>2. i - 1 \in 1..(Len(s) - 1) /\ Tail(s)[i - 1] = s[i]
    BY <2>1, <1>1, <1>2, <1>5
  <2> QED BY <2>1, <2>2, <1>2 DEF Range
<1> QED BY <1>1, <1>3, <1>4, <1>5

LEMMA SetNewInv ==
  ASSUME Inv, NEW sid \in Sids, NEW sess \in Sessions, SetNew(sid, sess)
  PROVE  Inv'
<1>1. /\ order \in Seq(Sids) /\ Len(order) \in Nat /\ IsInjective(order)
      /\ Range(order) = Live /\ sid \notin Live /\ MaxSize \in Nat \ {0}
  BY LenProperties, MaxSizeAssumption DEF Inv, TypeOK, OrderListsLive, SetNew
<1>2. CASE Full
  <2>1. Len(order) = MaxSize /\ order # <<>>
    BY <1>1, <1>2, LiveIsFinite, EmptySeq DEF Full, Inv
  <2>2. /\ order' = Append(Tail(order), sid)
        /\ sessions' = [[sessions EXCEPT ![Head(order)] = None] EXCEPT ![sid] = sess]
        /\ thoughtSigs' = thoughtSigs
    BY <1>2, <2>1, EvictsHead DEF SetNew
  <2>3. /\ Tail(order) \in Seq(Sids) /\ Len(Tail(order)) = Len(order) - 1
        /\ IsInjective(Tail(order)) /\ Range(Tail(order)) = Live \ {Head(order)}
    BY <1>1, <2>1, DropFirstSlot
  <2>4. /\ order' \in Seq(Sids) /\ Len(order') = Len(order) /\ IsInjective(order')
        /\ Range(order') = (Live \ {Head(order)}) \cup {sid}
    <3>1. sid \notin Range(Tail(order))
      BY <1>1, <2>3
    <3>2. /\ Append(Tail(order), sid) \in Seq(Sids)
          /\ Len(Append(Tail(order), sid)) = Len(Tail(order)) + 1
          /\ IsInjective(Append(Tail(order), sid))
          /\ Range(Append(Tail(order), sid)) = Range(Tail(order)) \cup {sid}
      BY <2>3, <3>1, AppendNewSlot
    <3> QED BY <1>1, <2>2, <2>3, <3>2
  <2>5. Head(order) \in Live
    BY <2>1, EvictsHead
  <2>6. Live' = (Live \ {Head(order)}) \cup {sid}
    BY <1>1, <2>2, <2>5, NoneAssumption DEF Inv, TypeOK, Live
  <2>7. TypeOK'
    BY <2>2, <2>4 DEF Inv, TypeOK
  <2> QED BY <2>1, <2>4, <2>6, <2>7 DEF Inv, OrderListsLive
<1>3. CASE ~ Full
  <2>1. /\ order' = Append(order, sid)
        /\ sessions' = [sessions EXCEPT ![sid] = sess]
        /\ thoughtSigs' = thoughtSigs
    BY <1>3 DEF SetNew
  <2>2. Len(order) < MaxSize
    BY <1>1, <1>3, LiveIsFinite DEF Full
  <2>3. /\ order' \in Seq(Sids) /\ Len(order') = Len(order) + 1 /\ IsInjective(order')
        /\ Range(order') = Live \cup {sid}
    BY <1>1, <2>1, AppendNewSlot
  <2>4. Live' = Live \cup {sid}
    BY <2>1, NoneAssumption DEF Inv, TypeOK, Live
  <2>5. TypeOK'
    BY <2>1, <2>3 DEF Inv, TypeOK
  <2> QED BY <1>1, <2>2, <2>3, <2>4, <2>5 DEF Inv, OrderListsLive
<1> QED BY <1>2, <1>3

LEMMA DeleteInv ==
  ASSUME Inv, NEW sid \in Sids, Delete(sid)
  PROVE  Inv'
<1>1. /\ order \in Seq(Sids) /\ Len(order) \in Nat /\ IsInjective(order)
      /\ Range(order) = Live /\ DOMAIN order = 1..Len(order) /\ MaxSize \in Nat
  BY LenProperties, MaxSizeAssumption DEF Inv, TypeOK, OrderListsLive
<1>2. Live' = Live \ {sid}
  BY DEF Inv, TypeOK, Delete, Live
<1>3. CASE sid \in Live
  <2>1. PICK i \in 1..Len(order) : order[i] = sid
    BY <1>1, <1>3 DEF Range
  <2>2. order' = RemoveAt(order, i)
    BY <1>1, <2>1, RemoveFirstIsRemoveAt DEF Delete
  <2>3. /\ order' \in Seq(Sids) /\ Len(order') = Len(order) - 1
        /\ \A j \in 1..(Len(order) - 1) :
             order'[j] = IF j < i THEN order[j] ELSE order[j + 1]
        /\ DOMAIN order' = 1..(Len(order) - 1)
    BY <1>1, <2>1, <2>2, RemoveAtProperties, LenProperties
  <2>4. IsInjective(order')
    <3> SUFFICES ASSUME NEW a \in 1..(Len(order) - 1), NEW b \in 1..(Len(order) - 1),
                        order'[a] = order'[b]
                 PROVE  a = b
      BY <2>3 DEF IsInjective
    <3> DEFINE old(j) == IF j < i THEN j ELSE j + 1
    <3>1. /\ old(a) \in 1..Len(order) /\ old(b) \in 1..Len(order)
          /\ order'[a] = order[old(a)] /\ order'[b] = order[old(b)]
      BY <1>1, <2>3
    <3>2. old(a) = old(b)
      BY <1>1, <3>1 DEF IsInjective
    <3> QED BY <1>1, <3>2
  <2>5. Range(order') \subseteq Live \ {sid}
    BY <1>1, <2>1, <2>3 DEF IsInjective, Range
  <2>6. ASSUME NEW x \in Live \ {sid}
        PROVE  x \in Range(order')
    <3>1. PICK k \in 1..Len(order) : order[k] = x
      BY <1>1 DEF Range
    <3>2. k # i
      BY <2>1, <3>1
    <3>3. CASE k < i
      <4>1. k \in 1..(Len(order) - 1) /\ order'[k] = x
        BY <1>1, <2>1, <2>3, <3>1, <3>3
      <4> QED BY <4>1, <2>3 DEF Range
    <3>4. CASE k > i
      <4>1. k - 1 \in 1..(Len(order) - 1) /\ order'[k - 1] = x
        BY <1>1, <2>1, <2>3, <3>1, <3>4
      <4> QED BY <4>1, <2>3 DEF Range
    <3> QED BY <3>2, <3>3, <3>4, <2>1, <3>1
  <2>7. TypeOK'
    BY <2>3 DEF Inv, TypeOK, Delete
  <2>8. OrderListsLive'
    BY <1>2, <2>4, <2>5, <2>6 DEF OrderListsLive
  <2>9. (Len(order) <= MaxSize)'
    BY <1>1, <2>3 DEF Inv
  <2> QED BY <2>7, <2>8, <2>9 DEF Inv
<1>4. CASE sid \notin Live
  <2>1. order' = order
    BY <1>1, <1>4, RemoveFirstAbsent DEF Delete, Range
  <2>2. TypeOK'
    BY <2>1 DEF Inv, TypeOK, Delete
  <2> QED BY <1>2, <1>4, <2>1, <2>2 DEF Inv, OrderListsLive
<1> QED BY <1>3, <1>4

LEMMA NextInv == Inv /\ [Next]_vars => Inv'
<1> SUFFICES ASSUME Inv, [Next]_vars PROVE Inv'
  OBVIOUS
<1>1. ASSUME NEW sid \in Sids, NEW sess \in Sessions, Set(sid, sess)
      PROVE  Inv'
  BY <1>1, SetExistingInv, SetNewInv DEF Set
<1>2. ASSUME NEW sid \in Sids, Delete(sid)
      PROVE  Inv'
  BY <1>2, DeleteInv
<1>3. ASSUME NEW sid \in Sids, NEW f \in FuncNames, NEW sig \in Sigs,
             SetThoughtSig(sid, f, sig)
      PROVE  Inv'
  <2>1. TypeOK'
    BY <1>3 DEF Inv, TypeOK, SetThoughtSig
  <2>2. Live' = Live /\ order' = order
    BY <1>3 DEF SetThoughtSig, Live
  <2> QED BY <2>1, <2>2 DEF Inv, OrderListsLive
<1>4. CASE UNCHANGED vars
  BY <1>4 DEF vars, Inv, TypeOK, OrderListsLive, Live
<1> QED BY <1>1, <1>2, <1>3, <1>4 DEF Next

LEMMA SpecInv == Spec => []Inv
<1>1. Init => Inv
  BY InitInv
<1>2. Inv /\ [Next]_vars => Inv'
  BY NextInv
<1> QED BY <1>1, <1>2, PTL DEF Spec

(* The values of the three variables have their types.                     *)
THEOREM TypeCorrect == Spec => []TypeOK
<1>1. Inv => TypeOK
  BY DEF Inv
<1> QED BY <1>1, SpecInv, PTL

(* The order slice lists the live sessions, each exactly once.             *)
THEOREM OrderAgreement == Spec => []OrderListsLive
<1>1. Inv => OrderListsLive
  BY DEF Inv
<1> QED BY <1>1, SpecInv, PTL

(* The map and the slice stay within maxSize.                              *)
THEOREM Boundedness == Spec => []Bounded
<1>1. Inv => Bounded
  BY LiveIsFinite DEF Inv, Bounded
<1> QED BY <1>1, SpecInv, PTL
(* No step of the store forgets a thought signature.                       *)
THEOREM SignaturesPersist == Spec => SignaturesSurvive
<1>1. TypeOK /\ [Next]_vars =>
        [\A sid \in Sids, f \in FuncNames :
            thoughtSigs[sid][f] # None => thoughtSigs'[sid][f] # None]_vars
  <2> SUFFICES ASSUME TypeOK, Next, NEW sid \in Sids, NEW f \in FuncNames,
                      thoughtSigs[sid][f] # None
               PROVE  thoughtSigs'[sid][f] # None
    OBVIOUS
  <2>1. ASSUME NEW t \in Sids, NEW g \in FuncNames, NEW sig \in Sigs,
               SetThoughtSig(t, g, sig)
        PROVE  thoughtSigs'[sid][f] # None
    BY <2>1, NoneAssumption DEF SetThoughtSig, TypeOK
  <2>2. ASSUME NEW t \in Sids, \/ Delete(t)
                               \/ \E sess \in Sessions : Set(t, sess)
        PROVE  thoughtSigs'[sid][f] # None
    BY <2>2 DEF Delete, Set, SetExisting, SetNew
  <2> QED BY <2>1, <2>2 DEF Next
<1> QED BY <1>1, TypeCorrect, PTL DEF Spec, SignaturesSurvive

-----------------------------------------------------------------------------
(* The store implements the first-in first-out map.                        *)

LEMMA QueueShape ==
  ASSUME NEW s \in Seq(Sids), NEW m \in [Sids -> Sessions \cup {None}],
         \A i \in 1..Len(s) : m[s[i]] \in Sessions
  PROVE  LET q == [i \in DOMAIN s |-> [key |-> s[i], val |-> m[s[i]]]]
         IN  /\ q \in Seq([key : Sids, val : Sessions])
             /\ Len(q) = Len(s)
             /\ DOMAIN q = 1..Len(s)
<1> DEFINE q == [i \in DOMAIN s |-> [key |-> s[i], val |-> m[s[i]]]]
<1>1. Len(s) \in Nat /\ DOMAIN s = 1..Len(s) /\ \A i \in 1..Len(s) : s[i] \in Sids
  BY LenProperties, ElementOfSeq
<1>2. q \in [1..Len(s) -> [key : Sids, val : Sessions]]
  BY <1>1
<1>3. q \in Seq([key : Sids, val : Sessions])
  BY <1>1, <1>2, SeqDef
<1>4. DOMAIN q = 1..Len(s)
  BY <1>1
<1> HIDE DEF q
<1>5. Len(q) = Len(s)
  BY <1>1, <1>3, <1>4, LenProperties
<1> QED BY <1>3, <1>4, <1>5 DEF q
LEMMA QueueOfStore ==
  ASSUME Inv
  PROVE  /\ SessionQueue \in Seq([key : Sids, val : Sessions])
         /\ Len(SessionQueue) = Len(order)
         /\ DOMAIN SessionQueue = 1..Len(order)
         /\ \A i \in 1..Len(order) :
              SessionQueue[i] = [key |-> order[i], val |-> sessions[order[i]]]
<1>1. /\ order \in Seq(Sids) /\ sessions \in [Sids -> Sessions \cup {None}]
      /\ DOMAIN order = 1..Len(order)
  BY LenProperties DEF Inv, TypeOK
<1>2. \A i \in 1..Len(order) : sessions[order[i]] \in Sessions
  BY <1>1, ElementOfSeq DEF Inv, OrderListsLive, Range, Live
<1> QED BY <1>1, <1>2, QueueShape DEF SessionQueue

(* The same fact about the state after a step.                             *)
LEMMA QueueOfStoreAfter ==
  ASSUME Inv'
  PROVE  /\ SessionQueue' \in Seq([key : Sids, val : Sessions])
         /\ Len(SessionQueue') = Len(order')
         /\ \A i \in 1..Len(order') :
              SessionQueue'[i] = [key |-> order'[i], val |-> sessions'[order'[i]]]
<1>1. /\ order' \in Seq(Sids) /\ sessions' \in [Sids -> Sessions \cup {None}]
      /\ DOMAIN order' = 1..Len(order')
  BY LenProperties DEF Inv, TypeOK
<1>2. \A i \in 1..Len(order') : sessions'[order'[i]] \in Sessions
  BY <1>1, ElementOfSeq DEF Inv, OrderListsLive, Range, Live
<1> QED BY <1>1, <1>2, QueueShape DEF SessionQueue

(* Replacing in place.                                                     *)
LEMMA SetExistingRefines ==
  ASSUME Inv, NEW sid \in Sids, NEW sess \in Sessions, SetExisting(sid, sess)
  PROVE  Fifo!Replace(sid, sess)
<1>1. /\ order \in Seq(Sids) /\ DOMAIN order = 1..Len(order)
      /\ \A i \in 1..Len(order) : order[i] \in Sids
      /\ sessions \in [Sids -> Sessions \cup {None}]
  BY LenProperties, ElementOfSeq DEF Inv, TypeOK
<1>2. order' = order /\ sessions' = [sessions EXCEPT ![sid] = sess]
  BY DEF SetExisting
<1>3. Fifo!Present(sid)
  <2>1. PICK i \in 1..Len(order) : order[i] = sid
    BY <1>1 DEF SetExisting, Inv, OrderListsLive, Range
  <2> QED BY <2>1, QueueOfStore DEF Fifo!Present
<1>4. SessionQueue' = [i \in DOMAIN SessionQueue |->
                         IF SessionQueue[i].key = sid
                         THEN [key |-> sid, val |-> sess] ELSE SessionQueue[i]]
  <2>1. SessionQueue' = [i \in DOMAIN order |->
                           [key |-> order[i], val |-> sessions'[order[i]]]]
    BY <1>2 DEF SessionQueue
  <2>2. ASSUME NEW i \in 1..Len(order)
        PROVE  [key |-> order[i], val |-> sessions'[order[i]]] =
                 IF SessionQueue[i].key = sid
                 THEN [key |-> sid, val |-> sess] ELSE SessionQueue[i]
    <3>1. SessionQueue[i] = [key |-> order[i], val |-> sessions[order[i]]]
      BY QueueOfStore
    <3> QED BY <1>1, <1>2, <3>1
  <2> QED BY <1>1, <2>1, <2>2, QueueOfStore
<1> QED BY <1>3, <1>4 DEF Fifo!Replace, Fifo!Binding

(* Inserting, with and without an eviction.                                *)
LEMMA SetNewRefines ==
  ASSUME Inv, Inv', NEW sid \in Sids, NEW sess \in Sessions, SetNew(sid, sess)
  PROVE  Fifo!Insert(sid, sess) \/ Fifo!InsertEvicting(sid, sess)
<1> DEFINE B == [key : Sids, val : Sessions]
           b == [key |-> sid, val |-> sess]
<1>1. /\ order \in Seq(Sids) /\ DOMAIN order = 1..Len(order) /\ Len(order) \in Nat
      /\ \A i \in 1..Len(order) : order[i] \in Sids
      /\ sessions \in [Sids -> Sessions \cup {None}]
      /\ IsInjective(order) /\ Range(order) = Live /\ sid \notin Live
      /\ MaxSize \in Nat \ {0} /\ Len(order) <= MaxSize
  BY LenProperties, ElementOfSeq, MaxSizeAssumption
  DEF Inv, TypeOK, OrderListsLive, SetNew
<1>2. \A i \in 1..Len(order) : order[i] # sid
  BY <1>1 DEF Range
<1>3. ~ Fifo!Present(sid)
  BY <1>2, QueueOfStore DEF Fifo!Present
<1>4. /\ SessionQueue \in Seq(B) /\ Len(SessionQueue) = Len(order)
      /\ \A i \in 1..Len(order) :
           SessionQueue[i] = [key |-> order[i], val |-> sessions[order[i]]]
  BY QueueOfStore
<1>5. /\ SessionQueue' \in Seq(B) /\ Len(SessionQueue') = Len(order')
      /\ \A i \in 1..Len(order') :
           SessionQueue'[i] = [key |-> order'[i], val |-> sessions'[order'[i]]]
  BY QueueOfStoreAfter
<1>6. CASE Full
  <2>1. Len(order) = MaxSize /\ order # <<>> /\ SessionQueue # <<>>
    <3>1. Len(order) >= MaxSize
      BY <1>6, LiveIsFinite DEF Full
    <3>2. Len(order) = MaxSize
      <4> HIDE DEF B, b
      <4>1. Len(order) \in Nat /\ MaxSize \in Nat /\ Len(order) <= MaxSize
        BY <1>1
      <4> QED BY <3>1, <4>1
    <3> QED BY <1>1, <1>4, <3>2, EmptySeq
  <2>2. /\ order' = Append(Tail(order), sid)
        /\ sessions' = [[sessions EXCEPT ![Head(order)] = None] EXCEPT ![sid] = sess]
        /\ Head(order) \in Live
    BY <1>6, <2>1, EvictsHead DEF SetNew
  <2>3. /\ Tail(order) \in Seq(Sids) /\ Len(Tail(order)) = Len(order) - 1
        /\ \A i \in 1..(Len(order) - 1) : Tail(order)[i] = order[i + 1]
        /\ Head(order) = order[1]
    BY <1>1, <2>1, HeadTailProperties
  <2>4. /\ Len(order') = Len(order)
        /\ \A i \in 1..(Len(order) - 1) : order'[i] = order[i + 1]
        /\ order'[Len(order)] = sid
    BY <1>1, <2>2, <2>3, AppendProperties
  <2>5. /\ Tail(SessionQueue) \in Seq(B) /\ Len(Tail(SessionQueue)) = Len(order) - 1
        /\ \A i \in 1..(Len(order) - 1) : Tail(SessionQueue)[i] = SessionQueue[i + 1]
    BY <1>4, <2>1, HeadTailProperties
  <2>6. /\ Append(Tail(SessionQueue), b) \in Seq(B)
        /\ Len(Append(Tail(SessionQueue), b)) = Len(order)
        /\ \A i \in 1..(Len(order) - 1) :
             Append(Tail(SessionQueue), b)[i] = SessionQueue[i + 1]
        /\ Append(Tail(SessionQueue), b)[Len(order)] = b
    <3> HIDE DEF B
    <3>1. b \in B
      BY DEF B
    <3> HIDE DEF b
    <3> QED BY <1>1, <2>5, <3>1, AppendProperties
  <2>7. ASSUME NEW i \in 1..Len(order)
        PROVE  SessionQueue'[i] = Append(Tail(SessionQueue), b)[i]
    <3>1. CASE i = Len(order)
      BY <1>1, <1>5, <2>2, <2>4, <2>6, <3>1
    <3>2. CASE i # Len(order)
      <4>1. i \in 1..(Len(order) - 1) /\ i + 1 \in 1..Len(order)
        <5>1. Len(order) \in Nat
          BY <1>1
        <5> QED BY <5>1, <3>2
      <4>2. SessionQueue'[i] = [key |-> order[i + 1], val |-> sessions'[order[i + 1]]]
        BY <1>5, <2>4, <4>1
      <4>3. order[i + 1] # sid /\ order[i + 1] # Head(order) /\ order[i + 1] \in Sids
        BY <1>1, <1>2, <2>3, <4>1 DEF IsInjective
      <4>4. sessions'[order[i + 1]] = sessions[order[i + 1]]
        BY <1>1, <2>2, <4>3
      <4> QED BY <1>4, <2>6, <4>1, <4>2, <4>4
    <3> QED BY <3>1, <3>2
  <2>8. SessionQueue' = Append(Tail(SessionQueue), b)
    <3> HIDE DEF B, b
    <3> QED BY <1>5, <2>4, <2>6, <2>7, SeqEqual
  <2> QED BY <1>3, <1>4, <2>1, <2>8 DEF Fifo!InsertEvicting, Fifo!Binding
<1>7. CASE ~ Full
  <2>1. Len(order) < MaxSize
    BY <1>1, <1>7, LiveIsFinite DEF Full
  <2>2. order' = Append(order, sid) /\ sessions' = [sessions EXCEPT ![sid] = sess]
    BY <1>7 DEF SetNew
  <2>3. /\ Len(order') = Len(order) + 1
        /\ \A i \in 1..Len(order) : order'[i] = order[i]
        /\ order'[Len(order) + 1] = sid
    BY <1>1, <2>2, AppendProperties
  <2>4. /\ Append(SessionQueue, b) \in Seq(B)
        /\ Len(Append(SessionQueue, b)) = Len(order) + 1
        /\ \A i \in 1..Len(order) : Append(SessionQueue, b)[i] = SessionQueue[i]
        /\ Append(SessionQueue, b)[Len(order) + 1] = b
    <3> HIDE DEF B
    <3>1. b \in B
      BY DEF B
    <3> HIDE DEF b
    <3> QED BY <1>4, <3>1, AppendProperties
  <2>5. ASSUME NEW i \in 1..(Len(order) + 1)
        PROVE  SessionQueue'[i] = Append(SessionQueue, b)[i]
    <3>1. CASE i = Len(order) + 1
      BY <1>1, <1>5, <2>2, <2>3, <2>4, <3>1
    <3>2. CASE i # Len(order) + 1
      <4>1. i \in 1..Len(order)
        BY <1>1, <3>2
      <4>2. sessions'[order[i]] = sessions[order[i]]
        BY <1>1, <1>2, <2>2, <4>1
      <4> QED BY <1>4, <1>5, <2>3, <2>4, <4>1, <4>2
    <3> QED BY <3>1, <3>2
  <2>6. SessionQueue' = Append(SessionQueue, b)
    <3> HIDE DEF B, b
    <3> QED BY <1>5, <2>3, <2>4, <2>5, SeqEqual
  <2> QED BY <1>3, <1>4, <2>1, <2>6 DEF Fifo!Insert, Fifo!Binding
<1> QED BY <1>6, <1>7

(* Deleting takes out the binding at the slot of the session, if any.      *)
LEMMA DeleteRefines ==
  ASSUME Inv, Inv', NEW sid \in Sids, Delete(sid)
  PROVE  Fifo!Drop(sid) \/ UNCHANGED SessionQueue
<1> DEFINE B == [key : Sids, val : Sessions]
<1>1. /\ order \in Seq(Sids) /\ DOMAIN order = 1..Len(order) /\ Len(order) \in Nat
      /\ \A i \in 1..Len(order) : order[i] \in Sids
      /\ sessions \in [Sids -> Sessions \cup {None}]
      /\ IsInjective(order) /\ Range(order) = Live
  BY LenProperties, ElementOfSeq DEF Inv, TypeOK, OrderListsLive
<1>2. CASE sid \in Live
  <2>1. PICK i \in 1..Len(order) : order[i] = sid
    BY <1>1, <1>2 DEF Range
  <2>2. order' = RemoveAt(order, i) /\ sessions' = [sessions EXCEPT ![sid] = None]
    BY <1>1, <2>1, RemoveFirstIsRemoveAt DEF Delete
  <2>3. /\ Len(order') = Len(order) - 1
        /\ \A j \in 1..(Len(order) - 1) :
             order'[j] = IF j < i THEN order[j] ELSE order[j + 1]
    BY <1>1, <2>1, <2>2, RemoveAtProperties
  <2>4. /\ SessionQueue \in Seq(B) /\ Len(SessionQueue) = Len(order)
        /\ DOMAIN SessionQueue = 1..Len(order)
        /\ \A j \in 1..Len(order) :
             SessionQueue[j] = [key |-> order[j], val |-> sessions[order[j]]]
    BY QueueOfStore
  <2>5. /\ SessionQueue' \in Seq(B) /\ Len(SessionQueue') = Len(order')
        /\ \A j \in 1..Len(order') :
             SessionQueue'[j] = [key |-> order'[j], val |-> sessions'[order'[j]]]
    BY QueueOfStoreAfter
  <2>6. /\ RemoveAt(SessionQueue, i) \in Seq(B)
        /\ Len(RemoveAt(SessionQueue, i)) = Len(order) - 1
        /\ \A j \in 1..(Len(order) - 1) :
             RemoveAt(SessionQueue, i)[j] =
               IF j < i THEN SessionQueue[j] ELSE SessionQueue[j + 1]
    <3> HIDE DEF B
    <3>1. SessionQueue \in Seq(B) /\ i \in 1..Len(SessionQueue)
      BY <2>4
    <3>2. Len(SessionQueue) = Len(order)
      BY <2>4
    <3> QED BY ONLY <3>1, <3>2, RemoveAtProperties
  <2>7. ASSUME NEW j \in 1..(Len(order) - 1)
        PROVE  SessionQueue'[j] = RemoveAt(SessionQueue, i)[j]
    <3> DEFINE k == IF j < i THEN j ELSE j + 1
    <3>1. /\ k \in 1..Len(order) /\ k # i
          /\ order'[j] = order[k] /\ RemoveAt(SessionQueue, i)[j] = SessionQueue[k]
      BY <1>1, <2>3, <2>6
    <3> HIDE DEF k
    <3>2. order[k] # sid /\ order[k] \in Sids
      BY <1>1, <2>1, <3>1 DEF IsInjective
    <3>3. sessions'[order[k]] = sessions[order[k]]
      BY <1>1, <2>2, <3>2
    <3>4. j \in 1..Len(order')
      BY <2>3
    <3> QED BY <2>4, <2>5, <3>1, <3>3, <3>4
  <2>8. SessionQueue' = RemoveAt(SessionQueue, i)
    <3> HIDE DEF B
    <3> QED BY <2>3, <2>5, <2>6, <2>7, SeqEqual
  <2>9. SessionQueue[i].key = sid /\ i \in DOMAIN SessionQueue
    BY <2>1, <2>4
  <2> QED BY <2>8, <2>9 DEF Fifo!Drop, Fifo!RemoveAt, RemoveAt
<1>3. CASE sid \notin Live
  <2>1. order' = order
    BY <1>1, <1>3, RemoveFirstAbsent DEF Delete, Range
  <2>2. sessions' = sessions
    BY <1>1, <1>3 DEF Delete, Live
  <2> QED BY <2>1, <2>2 DEF SessionQueue
<1> QED BY <1>2, <1>3

(* Every behaviour of the store is, seen as a queue of bindings, one of the*)
(* first-in first-out map with maxSize places.                             *)
THEOREM ImplementsFifoMap == Spec => FifoSpec
<1>1. Init => Fifo!Init
  <2> SUFFICES ASSUME Init PROVE SessionQueue = <<>>
    BY DEF Fifo!Init
  <2>1. order = <<>> /\ DOMAIN order = {}
    BY EmptySeq DEF Init
  <2> QED BY <2>1 DEF SessionQueue
<1>2. Inv /\ Inv' /\ [Next]_vars => [Fifo!Next]_SessionQueue
  <2> SUFFICES ASSUME Inv, Inv', [Next]_vars PROVE [Fifo!Next]_SessionQueue
    OBVIOUS
  <2>1. ASSUME NEW sid \in Sids, NEW sess \in Sessions, Set(sid, sess)
        PROVE  Fifo!Next
    BY <2>1, SetExistingRefines, SetNewRefines DEF Set, Fifo!Next
  <2>2. ASSUME NEW sid \in Sids, Delete(sid)
        PROVE  Fifo!Next \/ UNCHANGED SessionQueue
    BY <2>2, DeleteRefines DEF Fifo!Next
  <2>3. ASSUME NEW sid \in Sids, NEW f \in FuncNames, NEW sig \in Sigs,
               SetThoughtSig(sid, f, sig)
        PROVE  UNCHANGED SessionQueue
    BY <2>3 DEF SetThoughtSig, SessionQueue
  <2>4. CASE UNCHANGED vars
    BY <2>4 DEF vars, SessionQueue
  <2> QED BY <2>1, <2>2, <2>3, <2>4 DEF Next
<1> QED BY <1>1, <1>2, SpecInv, PTL DEF Spec, FifoSpec, Fifo!Spec
=============================================================================
