------------------------ MODULE ReasoningStoreProofs ------------------------
(***************************************************************************)
(* Proofs about one tier of the reasoning cache, for any keys, lookups and *)
(* maxSize: its types, that a lookup is never answered with another key's  *)
(* reasoning, how far the map can outgrow maxSize, and that until something*)
(* is deleted it is a first-in first-out map.                              *)
(***************************************************************************)
EXTENDS ReasoningStore, FiniteSetTheorems, FunctionTheorems, SequenceTheorems,
        TLAPS

(* Facts about the slice.                                                  *)

LEMMA AppendRange ==
  ASSUME NEW S, NEW s \in Seq(S), NEW e \in S
  PROVE  /\ Append(s, e) \in Seq(S)
         /\ Len(Append(s, e)) = Len(s) + 1
         /\ Range(Append(s, e)) = Range(s) \cup {e}
<1>1. /\ Append(s, e) \in Seq(S)
      /\ Len(Append(s, e)) = Len(s) + 1
      /\ \A i \in 1..Len(s) : Append(s, e)[i] = s[i]
      /\ Append(s, e)[Len(s) + 1] = e
  BY AppendProperties
<1>2. /\ Len(s) \in Nat
      /\ DOMAIN s = 1..Len(s)
      /\ DOMAIN Append(s, e) = 1..(Len(s) + 1)
  BY <1>1, LenProperties
<1>3. Range(Append(s, e)) = Range(s) \cup {e}
  BY <1>1, <1>2 DEF Range
<1> QED BY <1>1, <1>3

LEMMA TailRange ==
  ASSUME NEW S, NEW s \in Seq(S), s # <<>>
  PROVE  /\ Tail(s) \in Seq(S)
         /\ Len(Tail(s)) = Len(s) - 1
         /\ Head(s) \in S
         /\ Range(s) \subseteq Range(Tail(s)) \cup {Head(s)}
<1>1. /\ Tail(s) \in Seq(S)
      /\ Len(Tail(s)) = Len(s) - 1
      /\ \A i \in 1..(Len(s) - 1) : Tail(s)[i] = s[i + 1]
  BY HeadTailProperties
<1>2. /\ Len(s) \in Nat \ {0}
      /\ DOMAIN s = 1..Len(s)
      /\ DOMAIN Tail(s) = 1..(Len(s) - 1)
      /\ Head(s) = s[1]
  BY <1>1, EmptySeq, LenProperties
<1>3. ASSUME NEW x \in Range(s), x # Head(s)
      PROVE  x \in Range(Tail(s))
  <2>1. PICK i \in 1..Len(s) : x = s[i]
    BY <1>2 DEF Range
  <2>2. i - 1 \in 1..(Len(s) - 1) /\ Tail(s)[i - 1] = s[i]
    BY <2>1, <1>1, <1>2, <1>3
  <2> QED BY <2>1, <2>2, <1>2 DEF Range
<1> QED BY <1>1, <1>2, <1>3, ElementOfSeq

(* A sequence has at most as many values as entries.                       *)
LEMMA RangeCardinality ==
  ASSUME NEW S, NEW s \in Seq(S)
  PROVE  IsFiniteSet(Range(s)) /\ Cardinality(Range(s)) <= Len(s)
<1>1. Len(s) \in Nat /\ DOMAIN s = 1..Len(s) /\ s \in [1..Len(s) -> Range(s)]
  BY LenProperties DEF Range
<1>2. s \in Surjection(1..Len(s), Range(s))
  BY <1>1, Fun_IsSurj DEF Range
<1>3. IsFiniteSet(1..Len(s)) /\ Cardinality(1..Len(s)) = Len(s)
  BY <1>1, FS_Interval
<1> QED BY <1>2, <1>3, FS_Surjection

(* What load can leave in the slice: each live key once.                   *)
LEMMA SetToSeqsProperties ==
  ASSUME NEW S, IsFiniteSet(S), NEW s \in SetToSeqs(S)
  PROVE  /\ s \in Seq(S)
         /\ Len(s) = Cardinality(S)
         /\ Range(s) = S
<1> DEFINE n == Cardinality(S)
<1>1. n \in Nat
  BY FS_CardinalityType
<1>2. s \in [1..n -> S] /\ \A i, j \in 1..n : i # j => s[i] # s[j]
  BY DEF SetToSeqs
<1>3. s \in Seq(S) /\ Len(s) = n /\ DOMAIN s = 1..n
  BY <1>1, <1>2, SeqDef, LenProperties
<1>4. s \in Injection(1..n, S)
  BY <1>2, Fun_IsInj
<1>5. Cardinality(1..n) = n
  BY <1>1, FS_Interval
<1>6. s \in Surjection(1..n, S)
  BY <1>4, <1>5, FS_Injection
<1>7. Range(s) = S
  BY <1>6, <1>3 DEF Surjection, Range
<1> QED BY <1>3, <1>7

-----------------------------------------------------------------------------
(* The types.                                                              *)

(* A lookup under way names a key and holds an entry.                      *)
Holding ==
    \A c \in Callers :
        /\ lookup[c].pc \in {"check", "read", "expire"} =>
              lookup[c].obj \in Objs /\ lookup[c].key \in Keys
        /\ lookup[c].obj # Nil => lookup[c].key \in Keys

LEMMA TypeInit == Init => TypeOK
BY EmptySeq, AgeAssumption DEF Init, TypeOK, NoEntry, Idle

(* Set of an absent key.                                                   *)
LEMMA SetNewType ==
  ASSUME TypeOK, NEW k \in Keys, NEW r \in Reasonings, SetNew(k, r)
  PROVE  TypeOK'
<1>1. PICK o \in Objs :
        /\ heap' = [heap EXCEPT ![o] = [reasoning |-> r, addedAt |-> now]]
        /\ entries' = [(IF Full THEN EntriesAfterEviction ELSE entries) EXCEPT ![k] = o]
  BY DEF SetNew, Free
<1>2. heap' \in [Objs -> [reasoning : Reasonings \cup {Nil, Torn}, addedAt : 0..MaxTime]]
  BY <1>1 DEF TypeOK
<1>3. EntriesAfterEviction \in [Keys -> Objs \cup {Nil}]
  BY DEF TypeOK, EntriesAfterEviction
<1>4. entries' \in [Keys -> Objs \cup {Nil}]
  BY <1>1, <1>3 DEF TypeOK
<1>5. OrderAfterEviction \in Seq(Keys)
  BY TailRange DEF TypeOK, OrderAfterEviction
<1>6. order' \in Seq(Keys)
  BY <1>5, AppendRange DEF TypeOK, SetNew
<1> QED BY <1>2, <1>4, <1>6 DEF TypeOK, SetNew

(* A restart: the slots come back in another order.                        *)
LEMMA ReloadType ==
  ASSUME TypeOK, IsFiniteSet(Live), Reload
  PROVE  TypeOK'
<1>1. order' \in Seq(Live) /\ Live \subseteq Keys
  BY SetToSeqsProperties DEF Reload, Live
<1>2. order' \in Seq(Keys)
  BY <1>1, SeqMonotonic
<1> QED BY <1>2 DEF TypeOK, Reload, Idle

Lookups == [pc : {"idle", "check", "read", "expire", "done"}, key : Keys \cup {Nil},
            obj : Objs \cup {Nil}, result : Reasonings \cup {Nil, Torn}]

(* Steps of a lookup.                                                      *)
LEMMA AnswerType ==
  ASSUME lookup \in [Callers -> Lookups], NEW c \in Callers,
         NEW r \in Reasonings \cup {Nil, Torn}, Answer(c, r)
  PROVE  lookup' \in [Callers -> Lookups]
<1> DEFINE l == [lookup[c] EXCEPT !.pc = "done", !.obj = Nil, !.result = r]
<1>1. l \in Lookups
  BY DEF Lookups
<1>2. lookup' = [lookup EXCEPT ![c] = l]
  BY DEF Answer, Lookups
<1> HIDE DEF l
<1> QED BY <1>1, <1>2

LEMMA CheckAgeStep ==
  ASSUME lookup \in [Callers -> Lookups], NEW c \in Callers, CheckAge(c)
  PROVE  /\ lookup' \in [Callers -> Lookups]
         /\ \E pc \in {"expire", "read"} : lookup' = [lookup EXCEPT ![c].pc = pc]
<1>1. \E pc \in {"expire", "read"} : lookup' = [lookup EXCEPT ![c].pc = pc]
  BY DEF CheckAge
<1>2. PICK pc \in {"expire", "read"} : lookup' = [lookup EXCEPT ![c].pc = pc]
  BY <1>1
<1> DEFINE l == [lookup[c] EXCEPT !.pc = pc]
<1>3. l \in Lookups
  BY DEF Lookups
<1>4. lookup' = [lookup EXCEPT ![c] = l]
  BY <1>2 DEF Lookups
<1>5. lookup' \in [Callers -> Lookups]
  <2> HIDE DEF l
  <2> QED BY <1>3, <1>4
<1> QED BY <1>1, <1>5

LEMMA TypeNext ==
  ASSUME TypeOK, Holding, IsFiniteSet(Live), [Next]_vars
  PROVE  TypeOK'
<1>1. CASE Reload
  BY <1>1, ReloadType
<1>2. ASSUME NEW k \in Keys, Put(k)
      PROVE  TypeOK'
  <2>1. PICK v \in Versions : LET r == [of |-> k, version |-> v]
                              IN  SetNew(k, r) \/ BeginOverwrite(k, r)
    BY <1>2 DEF Put
  <2> DEFINE r == [of |-> k, version |-> v]
  <2>2. r \in Reasonings
    BY DEF Reasonings
  <2>3. CASE SetNew(k, r)
    BY <2>2, <2>3, SetNewType
  <2>4. CASE BeginOverwrite(k, r)
    <3> HIDE DEF r
    <3>1. entries[k] \in Objs
      BY <2>4 DEF BeginOverwrite, Live, TypeOK
    <3>2. heap' \in [Objs -> [reasoning : Reasonings \cup {Nil, Torn}, addedAt : 0..MaxTime]]
      BY <2>4, <3>1 DEF BeginOverwrite, TypeOK
    <3>3. writing' \in Overwrites
      BY <2>2, <2>4, <3>1 DEF BeginOverwrite, TypeOK, Overwrites
    <3> QED BY <2>4, <3>2, <3>3 DEF BeginOverwrite, TypeOK
  <2> QED BY <2>1, <2>3, <2>4
<1>3. ASSUME NEW k \in Keys, DeleteKey(k)
      PROVE  /\ entries' \in [Keys -> Objs \cup {Nil}]
             /\ deletions' \in Nat
             /\ UNCHANGED <<heap, order, writing, now>>
  BY <1>3 DEF DeleteKey, TypeOK
<1>4. ASSUME NEW k \in Keys, Delete(k)
      PROVE  TypeOK'
  BY <1>3, <1>4 DEF Delete, TypeOK
<1>5. CASE EndOverwrite
  <2>1. writing \in Overwrites
    BY <1>5 DEF EndOverwrite, TypeOK
  <2> DEFINE e == [reasoning |-> writing.reasoning, addedAt |-> writing.addedAt]
  <2>2. /\ e \in [reasoning : Reasonings \cup {Nil, Torn}, addedAt : 0..MaxTime]
        /\ writing.obj \in Objs
    BY <2>1 DEF Overwrites
  <2>3. heap' = [heap EXCEPT ![writing.obj] = e]
    BY <1>5 DEF EndOverwrite
  <2> HIDE DEF e
  <2>4. heap' \in [Objs -> [reasoning : Reasonings \cup {Nil, Torn}, addedAt : 0..MaxTime]]
    BY <2>2, <2>3 DEF TypeOK
  <2> QED BY <1>5, <2>4 DEF EndOverwrite, TypeOK
<1>6. ASSUME NEW c \in Callers, NEW k \in Keys, Get(c, k)
      PROVE  TypeOK'
  <2> DEFINE found == [pc |-> "check", key |-> k, obj |-> entries[k], result |-> Nil]
             none == [pc |-> "done", key |-> k, obj |-> Nil, result |-> Nil]
             L == [pc : {"idle", "check", "read", "expire", "done"}, key : Keys \cup {Nil},
                   obj : Objs \cup {Nil}, result : Reasonings \cup {Nil, Torn}]
  <2>1. found \in L /\ none \in L /\ lookup \in [Callers -> L]
    BY DEF TypeOK
  <2>2. lookup' = [lookup EXCEPT ![c] = IF k \in Live THEN found ELSE none]
    BY <1>6 DEF Get
  <2>3. lookup' \in [Callers -> L]
    <3> HIDE DEF found, none, L
    <3> QED BY <2>1, <2>2
  <2> QED BY <1>6, <2>3 DEF Get, TypeOK
<1> lookup \in [Callers -> Lookups]
  BY DEF TypeOK, Lookups
<1>7. ASSUME NEW c \in Callers, CheckAge(c)
      PROVE  TypeOK'
  <2>1. lookup' \in [Callers -> Lookups]
    BY <1>7, CheckAgeStep
  <2> QED BY <1>7, <2>1 DEF CheckAge, TypeOK, Lookups
<1>8. ASSUME NEW c \in Callers, ReadReasoning(c)
      PROVE  TypeOK'
  <2>1. lookup[c].obj \in Objs
    BY <1>8 DEF ReadReasoning, Holding
  <2>2. heap[lookup[c].obj].reasoning \in Reasonings \cup {Nil, Torn}
    BY <2>1 DEF TypeOK
  <2>3. lookup' \in [Callers -> Lookups]
    BY <1>8, <2>2, AnswerType DEF ReadReasoning
  <2> QED BY <1>8, <2>3 DEF ReadReasoning, TypeOK, Lookups
<1>9. ASSUME NEW c \in Callers, DeleteExpired(c)
      PROVE  TypeOK'
  <2>1. lookup[c].key \in Keys
    BY <1>9 DEF DeleteExpired, Holding
  <2>2. DeleteKey(lookup[c].key) /\ Answer(c, Nil)
    BY <1>9 DEF DeleteExpired
  <2>3. /\ entries' \in [Keys -> Objs \cup {Nil}]
        /\ deletions' \in Nat
        /\ UNCHANGED <<heap, order, writing, now>>
    BY <1>3, <2>1, <2>2
  <2>4. lookup' \in [Callers -> Lookups]
    BY <2>2, AnswerType
  <2> QED BY <2>3, <2>4 DEF TypeOK, Lookups
<1>10. CASE Tick
  BY <1>10, AgeAssumption DEF Tick, TypeOK
<1>11. CASE UNCHANGED vars
  BY <1>11 DEF vars, TypeOK
<1> QED
  BY <1>1, <1>2, <1>4, <1>5, <1>6, <1>7, <1>8, <1>9, <1>10, <1>11 DEF Next

-----------------------------------------------------------------------------
(* Whose an entry is.                                                      *)

LEMMA HoldingNext ==
  ASSUME TypeOK, Holding, [Next]_vars
  PROVE  Holding'
<1> lookup \in [Callers -> Lookups]
  BY DEF TypeOK, Lookups
<1>1. ASSUME UNCHANGED lookup
      PROVE  Holding'
  BY <1>1 DEF Holding
<1>2. ASSUME NEW k \in Keys, Put(k) \/ Delete(k)
      PROVE  UNCHANGED lookup
  BY <1>2 DEF Put, SetNew, BeginOverwrite, Delete
<1>3. EndOverwrite \/ Tick \/ UNCHANGED vars => UNCHANGED lookup
  BY DEF EndOverwrite, Tick, vars
<1>4. CASE Reload
  BY <1>4 DEF Reload, Idle, Holding
<1>5. ASSUME NEW c \in Callers, NEW k \in Keys, Get(c, k)
      PROVE  Holding'
  <2>1. entries[k] \in Objs \cup {Nil}
    BY DEF TypeOK
  <2> QED BY <1>5, <2>1 DEF Get, Live, Holding, Lookups
<1>6. ASSUME NEW c \in Callers, CheckAge(c)
      PROVE  Holding'
  <2>1. PICK pc \in {"expire", "read"} : lookup' = [lookup EXCEPT ![c].pc = pc]
    BY <1>6, CheckAgeStep
  <2>2. lookup[c].pc = "check"
    BY <1>6 DEF CheckAge
  <2> QED BY <2>1, <2>2 DEF Holding, Lookups
<1>7. ASSUME NEW c \in Callers, NEW r, Answer(c, r)
      PROVE  Holding'
  BY <1>7 DEF Answer, Holding, Lookups
<1>8. ASSUME NEW c \in Callers, ReadReasoning(c) \/ DeleteExpired(c)
      PROVE  Holding'
  BY <1>7, <1>8 DEF ReadReasoning, DeleteExpired
<1> QED BY <1>1, <1>2, <1>3, <1>4, <1>5, <1>6, <1>8 DEF Next

(* The keys an entry can be reached by: from the map, or from a lookup.    *)
Reaches(o, k) ==
    entries[k] = o \/ \E c \in Callers : lookup[c].obj = o /\ lookup[c].key = k

(* An entry is reached by one key, and holds a reasoning of that key or is *)
(* being given one.                                                        *)
Owned ==
    /\ \A o \in Objs : \A j, k \in Keys : Reaches(o, j) /\ Reaches(o, k) => j = k
    /\ \A o \in Objs : \A k \in Keys : Reaches(o, k) =>
          /\ heap[o].reasoning \in Reasonings => heap[o].reasoning.of = k
          /\ writing # Nil /\ writing.obj = o => writing.reasoning.of = k

(* A step after which no entry is reached in a new way.                    *)
LEMMA NothingNewIsOwned ==
  ASSUME Owned, UNCHANGED <<heap, writing>>,
         \A o \in Objs : \A k \in Keys : Reaches(o, k)' => Reaches(o, k)
  PROVE  Owned'
BY DEF Owned

(* A new entry comes from the unreachable ones.                            *)
LEMMA SetNewOwned ==
  ASSUME TypeOK, Owned, NEW k \in Keys, NEW r \in Reasonings, r.of = k, SetNew(k, r)
  PROVE  Owned'
<1>1. PICK o \in Free :
        /\ heap' = [heap EXCEPT ![o] = [reasoning |-> r, addedAt |-> now]]
        /\ entries' = [(IF Full THEN EntriesAfterEviction ELSE entries) EXCEPT ![k] = o]
  BY DEF SetNew
<1>2. o \in Objs /\ o # Nil
  BY SentinelAssumption DEF Free
<1>3. \A j \in Keys : ~ Reaches(o, j)
  BY <1>1, <1>2 DEF Free, Live, Reaches
<1>4. ASSUME NEW p \in Objs, NEW j \in Keys, Reaches(p, j)'
      PROVE  IF p = o THEN j = k ELSE Reaches(p, j)
  <2>1. lookup' = lookup
    BY DEF SetNew
  <2>2. CASE \E c \in Callers : lookup[c].obj = p /\ lookup[c].key = j
    BY <2>2, <1>3 DEF Reaches
  <2>3. CASE entries'[j] = p
    <3>1. p # Nil
      BY SentinelAssumption
    <3>2. EntriesAfterEviction[j] \in {Nil, entries[j]}
      BY DEF TypeOK, EntriesAfterEviction
    <3>3. entries'[j] \in (IF j = k THEN {o} ELSE {Nil, entries[j]})
      BY <1>1, <3>2 DEF TypeOK, EntriesAfterEviction
    <3> QED BY <2>3, <3>1, <3>3, <1>3 DEF Reaches
  <2> QED BY <1>4, <2>1, <2>2, <2>3 DEF Reaches
<1>5. \A p \in Objs : heap'[p].reasoning = IF p = o THEN r ELSE heap[p].reasoning
  BY <1>1, <1>2 DEF TypeOK
<1>6. writing = Nil /\ writing' = Nil
  BY DEF SetNew, Unlocked
<1>7. \A p \in Objs : \A i, j \in Keys : Reaches(p, i)' /\ Reaches(p, j)' => i = j
  BY <1>4 DEF Owned
<1>8. \A p \in Objs : \A j \in Keys : Reaches(p, j)' =>
        (heap'[p].reasoning \in Reasonings => heap'[p].reasoning.of = j)
  BY <1>4, <1>5 DEF Owned
<1> QED BY <1>6, <1>7, <1>8 DEF Owned

LEMMA BeginOverwriteOwned ==
  ASSUME TypeOK, Owned, NEW k \in Keys, NEW r \in Reasonings, r.of = k,
         BeginOverwrite(k, r)
  PROVE  Owned'
<1>1. entries[k] \in Objs /\ Reaches(entries[k], k)
  BY DEF BeginOverwrite, Live, TypeOK, Reaches
<1>2. \A o, j : Reaches(o, j)' <=> Reaches(o, j)
  BY DEF BeginOverwrite, Reaches
<1>3. \A o \in Objs : heap'[o].reasoning \in {Torn, heap[o].reasoning}
  BY <1>1 DEF BeginOverwrite, TypeOK
<1>4. writing'.obj = entries[k] /\ writing'.reasoning = r
  BY DEF BeginOverwrite
<1>5. Torn \notin Reasonings
  BY SentinelAssumption
<1>6. \A o \in Objs : \A i, j \in Keys : Reaches(o, i)' /\ Reaches(o, j)' => i = j
  BY <1>2 DEF Owned
<1>7. \A o \in Objs : \A j \in Keys : Reaches(o, j)' =>
        /\ heap'[o].reasoning \in Reasonings => heap'[o].reasoning.of = j
        /\ writing'.obj = o => writing'.reasoning.of = j
  BY <1>1, <1>2, <1>3, <1>4, <1>5 DEF Owned
<1> QED BY <1>6, <1>7 DEF Owned

LEMMA EndOverwriteOwned ==
  ASSUME TypeOK, Owned, EndOverwrite
  PROVE  Owned'
<1>1. writing.obj \in Objs /\ writing # Nil
  BY DEF EndOverwrite, TypeOK, Overwrites
<1>2. \A o, j : Reaches(o, j)' <=> Reaches(o, j)
  BY DEF EndOverwrite, Reaches
<1>3. \A o \in Objs : heap'[o].reasoning =
        IF o = writing.obj THEN writing.reasoning ELSE heap[o].reasoning
  BY <1>1 DEF EndOverwrite, TypeOK
<1>4. writing' = Nil
  BY DEF EndOverwrite
<1>5. \A o \in Objs : \A i, j \in Keys : Reaches(o, i)' /\ Reaches(o, j)' => i = j
  BY <1>2 DEF Owned
<1>6. \A o \in Objs : \A j \in Keys : Reaches(o, j)' =>
        (heap'[o].reasoning \in Reasonings => heap'[o].reasoning.of = j)
  BY <1>1, <1>2, <1>3 DEF Owned
<1> QED BY <1>4, <1>5, <1>6 DEF Owned

LEMMA OwnedNext ==
  ASSUME TypeOK, Holding, Owned, [Next]_vars
  PROVE  Owned'
<1> lookup \in [Callers -> Lookups]
  BY DEF TypeOK, Lookups
<1> Nil \notin Objs
  BY SentinelAssumption
<1>1. ASSUME NEW k \in Keys, Put(k)
      PROVE  Owned'
  <2>1. PICK v \in Versions : LET r == [of |-> k, version |-> v]
                              IN  SetNew(k, r) \/ BeginOverwrite(k, r)
    BY <1>1 DEF Put
  <2> DEFINE r == [of |-> k, version |-> v]
  <2>2. r \in Reasonings /\ r.of = k
    BY DEF Reasonings
  <2> QED BY <2>1, <2>2, SetNewOwned, BeginOverwriteOwned
<1>2. ASSUME NEW k \in Keys, DeleteKey(k)
      PROVE  \A o \in Objs : \A j \in Keys : entries'[j] = o => entries[j] = o
  BY <1>2 DEF DeleteKey, TypeOK
<1>3. ASSUME NEW k \in Keys, Delete(k)
      PROVE  Owned'
  <2>1. \A o \in Objs : \A j \in Keys : Reaches(o, j)' => Reaches(o, j)
    BY <1>2, <1>3 DEF Delete, Reaches
  <2> QED BY <1>3, <2>1, NothingNewIsOwned DEF Delete, DeleteKey
<1>4. CASE EndOverwrite
  BY <1>4, EndOverwriteOwned
<1>5. ASSUME NEW c \in Callers, NEW k \in Keys, Get(c, k)
      PROVE  Owned'
  <2>1. /\ entries' = entries
        /\ \A d \in Callers : lookup'[d].obj \in Objs =>
             \/ lookup'[d] = lookup[d]
             \/ lookup'[d].obj = entries[k] /\ lookup'[d].key = k
    BY <1>5 DEF Get, Lookups
  <2>2. \A o \in Objs : \A j \in Keys : Reaches(o, j)' => Reaches(o, j)
    BY <2>1 DEF Reaches
  <2> QED BY <1>5, <2>2, NothingNewIsOwned DEF Get
<1>6. ASSUME NEW c \in Callers, CheckAge(c)
      PROVE  Owned'
  <2>1. PICK pc \in {"expire", "read"} : lookup' = [lookup EXCEPT ![c].pc = pc]
    BY <1>6, CheckAgeStep
  <2>2. \A d \in Callers : lookup'[d].obj = lookup[d].obj /\ lookup'[d].key = lookup[d].key
    BY <2>1 DEF Lookups
  <2>3. \A o \in Objs : \A j \in Keys : Reaches(o, j)' => Reaches(o, j)
    BY <1>6, <2>2 DEF CheckAge, Reaches
  <2> QED BY <1>6, <2>3, NothingNewIsOwned DEF CheckAge
<1>7. ASSUME NEW c \in Callers, NEW r, Answer(c, r)
      PROVE  \A d \in Callers : lookup'[d].obj \in Objs => lookup'[d] = lookup[d]
  BY <1>7 DEF Answer, Lookups
<1>8. ASSUME NEW c \in Callers, ReadReasoning(c)
      PROVE  Owned'
  <2>1. \A o \in Objs : \A j \in Keys : Reaches(o, j)' => Reaches(o, j)
    BY <1>7, <1>8 DEF ReadReasoning, Reaches
  <2> QED BY <1>8, <2>1, NothingNewIsOwned DEF ReadReasoning
<1>9. ASSUME NEW c \in Callers, DeleteExpired(c)
      PROVE  Owned'
  <2>1. lookup[c].key \in Keys
    BY <1>9 DEF DeleteExpired, Holding
  <2>2. \A o \in Objs : \A j \in Keys : Reaches(o, j)' => Reaches(o, j)
    BY <1>2, <1>7, <1>9, <2>1 DEF DeleteExpired, Reaches
  <2> QED BY <1>9, <2>2, NothingNewIsOwned DEF DeleteExpired, DeleteKey
<1>10. CASE Reload
  <2>1. \A o \in Objs : \A j \in Keys : Reaches(o, j)' => Reaches(o, j)
    BY <1>10 DEF Reload, Idle, Reaches
  <2> QED BY <1>10, <2>1, NothingNewIsOwned DEF Reload
<1>11. CASE Tick \/ UNCHANGED vars
  <2>1. \A o \in Objs : \A j \in Keys : Reaches(o, j)' => Reaches(o, j)
    BY <1>11 DEF Tick, vars, Reaches
  <2> QED BY <1>11, <2>1, NothingNewIsOwned DEF Tick, vars
<1> QED BY <1>1, <1>3, <1>4, <1>5, <1>6, <1>8, <1>9, <1>10, <1>11 DEF Next

(* A lookup takes its answer from an entry its own key reaches.            *)
LEMMA AnswersNext ==
  ASSUME TypeOK, Holding, Owned, AnswersOwnKey, [Next]_vars
  PROVE  AnswersOwnKey'
<1> lookup \in [Callers -> Lookups]
  BY DEF TypeOK, Lookups
<1> Nil \notin Reasonings /\ Nil \notin Objs
  BY SentinelAssumption
<1>1. ASSUME UNCHANGED lookup
      PROVE  AnswersOwnKey'
  BY <1>1 DEF AnswersOwnKey
<1>2. ASSUME NEW k \in Keys, Put(k) \/ Delete(k)
      PROVE  UNCHANGED lookup
  BY <1>2 DEF Put, SetNew, BeginOverwrite, Delete
<1>3. EndOverwrite \/ Tick \/ UNCHANGED vars => UNCHANGED lookup
  BY DEF EndOverwrite, Tick, vars
<1>4. CASE Reload
  BY <1>4 DEF Reload, Idle, AnswersOwnKey
<1>5. ASSUME NEW c \in Callers, NEW k \in Keys, Get(c, k)
      PROVE  AnswersOwnKey'
  <2>1. \A d \in Callers : lookup'[d] = lookup[d] \/ lookup'[d].result = Nil
    BY <1>5 DEF Get, Lookups
  <2> QED BY <2>1 DEF AnswersOwnKey
<1>6. ASSUME NEW c \in Callers, CheckAge(c)
      PROVE  AnswersOwnKey'
  <2>1. PICK pc \in {"expire", "read"} : lookup' = [lookup EXCEPT ![c].pc = pc]
    BY <1>6, CheckAgeStep
  <2>2. \A d \in Callers : /\ lookup'[d].result = lookup[d].result
                          /\ lookup'[d].key = lookup[d].key
    BY <2>1 DEF Lookups
  <2> QED BY <2>2 DEF AnswersOwnKey
<1>7. ASSUME NEW c \in Callers, NEW r, Answer(c, r),
             r \in Reasonings => r.of = lookup[c].key
      PROVE  AnswersOwnKey'
  <2>1. \A d \in Callers : /\ lookup'[d].result = IF d = c THEN r ELSE lookup[d].result
                          /\ lookup'[d].key = lookup[d].key
    BY <1>7 DEF Answer, Lookups
  <2> QED BY <1>7, <2>1 DEF AnswersOwnKey
<1>8. ASSUME NEW c \in Callers, ReadReasoning(c)
      PROVE  AnswersOwnKey'
  <2> DEFINE o == lookup[c].obj
             k == lookup[c].key
  <2>1. o \in Objs /\ k \in Keys
    BY <1>8 DEF ReadReasoning, Holding
  <2>2. Reaches(o, k)
    BY DEF Reaches
  <2>3. heap[o].reasoning \in Reasonings => heap[o].reasoning.of = k
    BY <2>1, <2>2 DEF Owned
  <2> QED BY <1>7, <1>8, <2>3 DEF ReadReasoning
<1>9. ASSUME NEW c \in Callers, DeleteExpired(c)
      PROVE  AnswersOwnKey'
  BY <1>7, <1>9 DEF DeleteExpired
<1> QED BY <1>1, <1>2, <1>3, <1>4, <1>5, <1>6, <1>8, <1>9 DEF Next

-----------------------------------------------------------------------------
(* Slots and keys.  OverflowBound does not carry itself: a Set that finds  *)
(* room adds a slot, so the slots have to be counted against the keys: one *)
(* slot too many for each deletion, and no more.                           *)
Slots ==
    /\ OverflowBound
    /\ Len(order) <= Cardinality(Live) + deletions

LEMMA LiveIsFinite ==
  ASSUME TypeOK, Slots
  PROVE  /\ IsFiniteSet(Live)
         /\ Cardinality(Live) \in Nat
         /\ Cardinality(Live) <= Len(order)
<1>1. IsFiniteSet(Range(order)) /\ Cardinality(Range(order)) <= Len(order)
  BY RangeCardinality DEF TypeOK
<1>2. IsFiniteSet(Live) /\ Cardinality(Live) <= Cardinality(Range(order))
  BY <1>1, FS_Subset DEF Slots, OverflowBound
<1>3. /\ Cardinality(Live) \in Nat /\ Cardinality(Range(order)) \in Nat
      /\ Len(order) \in Nat
  BY <1>1, <1>2, FS_CardinalityType, LenProperties DEF TypeOK
<1> QED BY <1>1, <1>2, <1>3

(* A full store is not without slots, and gives up the oldest for the new. *)
LEMMA SetNewSlots ==
  ASSUME TypeOK, Slots, NEW k \in Keys, NEW r \in Reasonings, SetNew(k, r)
  PROVE  Slots'
<1>1. PICK o \in Free :
        entries' = [(IF Full THEN EntriesAfterEviction ELSE entries) EXCEPT ![k] = o]
  BY DEF SetNew
<1>2. o \in Objs /\ o # Nil
  BY <1>1, SentinelAssumption DEF Free
<1>3. /\ IsFiniteSet(Live) /\ Cardinality(Live) \in Nat /\ k \notin Live
      /\ Len(order) \in Nat /\ MaxSize \in Nat /\ deletions \in Nat
      /\ deletions' = deletions /\ Cardinality(Live) <= Len(order) /\ MaxSize > 0
  BY LiveIsFinite, LenProperties, SizeAssumption DEF TypeOK, SetNew
<1>4. CASE ~ Full
  <2>1. order' = Append(order, k)
    BY <1>4 DEF SetNew
  <2>2. Len(order') = Len(order) + 1 /\ Range(order') = Range(order) \cup {k}
    BY <2>1, AppendRange DEF TypeOK
  <2>3. Live' = Live \cup {k}
    BY <1>1, <1>2, <1>4 DEF Live, TypeOK
  <2>4. Cardinality(Live') = Cardinality(Live) + 1
    BY <2>3, <1>3, FS_AddElement
  <2>5. Cardinality(Live) < MaxSize
    BY <1>3, <1>4 DEF Full
  <2> QED BY <1>3, <2>2, <2>3, <2>4, <2>5 DEF Slots, OverflowBound
<1>5. CASE Full
  <2>1. order # <<>>
    BY <1>3, <1>5, EmptySeq DEF Full
  <2> DEFINE h == Head(order)
  <2>2. order' = Append(Tail(order), k)
    BY <1>5, <2>1 DEF SetNew, OrderAfterEviction
  <2>3. /\ Tail(order) \in Seq(Keys) /\ Len(Tail(order)) = Len(order) - 1 /\ h \in Keys
        /\ Range(order) \subseteq Range(Tail(order)) \cup {h}
    BY <2>1, TailRange DEF TypeOK
  <2>4. Len(order') = Len(order) /\ Range(order') = Range(Tail(order)) \cup {k}
    <3>1. ASSUME NEW t \in Seq(Keys)
          PROVE  /\ Len(Append(t, k)) = Len(t) + 1
                 /\ Range(Append(t, k)) = Range(t) \cup {k}
      BY AppendRange
    <3>2. Tail(order) \in Seq(Keys) /\ Len(Tail(order)) = Len(order) - 1
      BY <2>3
    <3> DEFINE t == Tail(order)
    <3>3. /\ Len(Append(t, k)) = Len(t) + 1
          /\ Range(Append(t, k)) = Range(t) \cup {k}
      <4> HIDE DEF t
      <4>1. t \in Seq(Keys)
        BY <3>2 DEF t
      <4> QED BY <3>1, <4>1
    <3>4. Len(order') = Len(Tail(order)) + 1
      BY <2>2, <3>3
    <3> QED BY <2>2, <3>2, <3>3, <3>4, <1>3
  <2>5. entries' = [[entries EXCEPT ![h] = Nil] EXCEPT ![k] = o]
    BY <1>1, <1>5, <2>1 DEF EntriesAfterEviction
  <2>6. Live' = (Live \ {h}) \cup {k}
    <3> HIDE DEF h
    <3> QED BY <2>3, <2>5, <1>2 DEF Live, TypeOK
  <2>7. Cardinality(Live') >= Cardinality(Live)
    <3>1. /\ IsFiniteSet(Live \ {h})
          /\ Cardinality(Live \ {h}) \in {Cardinality(Live), Cardinality(Live) - 1}
      BY <1>3, FS_RemoveElement
    <3>2. Cardinality(Live') = Cardinality(Live \ {h}) + 1
      BY <2>6, <3>1, <1>3, FS_AddElement
    <3> QED BY <3>1, <3>2, <1>3
  <2>8. Live' \subseteq Range(order')
    BY <2>3, <2>4, <2>6 DEF Slots, OverflowBound
  <2>9. Cardinality(Live') \in Nat
    BY <2>6, <1>3, FS_AddElement, FS_RemoveElement, FS_CardinalityType
  <2> QED BY <1>3, <2>4, <2>7, <2>8, <2>9 DEF Slots, OverflowBound
<1> QED BY <1>4, <1>5

LEMMA DeleteKeySlots ==
  ASSUME TypeOK, Slots, NEW k \in Keys, DeleteKey(k)
  PROVE  Slots'
<1>1. /\ IsFiniteSet(Live) /\ Cardinality(Live) \in Nat
      /\ Len(order) \in Nat /\ MaxSize \in Nat /\ deletions \in Nat
  BY LiveIsFinite, LenProperties, SizeAssumption DEF TypeOK
<1>2. /\ order' = order
      /\ deletions' = IF k \in Live THEN deletions + 1 ELSE deletions
  BY DEF DeleteKey
<1>3. Live' = Live \ {k}
  BY DEF DeleteKey, Live, TypeOK
<1>4. Cardinality(Live') = IF k \in Live THEN Cardinality(Live) - 1 ELSE Cardinality(Live)
  BY <1>1, <1>3, FS_RemoveElement
<1> QED BY <1>1, <1>2, <1>3, <1>4 DEF Slots, OverflowBound

LEMMA ReloadSlots ==
  ASSUME TypeOK, Slots, Reload
  PROVE  Slots'
<1>1. /\ IsFiniteSet(Live) /\ Cardinality(Live) \in Nat /\ Cardinality(Live) <= Len(order)
      /\ Len(order) \in Nat /\ MaxSize \in Nat /\ deletions \in Nat
  BY LiveIsFinite, LenProperties, SizeAssumption DEF TypeOK
<1>2. Live' = Live /\ deletions' = deletions
  BY DEF Reload, Live
<1>3. Len(order') = Cardinality(Live) /\ Range(order') = Live
  BY <1>1, SetToSeqsProperties DEF Reload
<1> QED BY <1>1, <1>2, <1>3 DEF Slots, OverflowBound

LEMMA SlotsNext ==
  ASSUME TypeOK, Holding, Slots, [Next]_vars
  PROVE  Slots'
<1>1. ASSUME UNCHANGED <<order, deletions>>, Live' = Live
      PROVE  Slots'
  BY <1>1 DEF Slots, OverflowBound
<1>2. ASSUME NEW k \in Keys, Put(k)
      PROVE  Slots'
  <2>1. PICK v \in Versions : LET r == [of |-> k, version |-> v]
                              IN  SetNew(k, r) \/ BeginOverwrite(k, r)
    BY <1>2 DEF Put
  <2>2. [of |-> k, version |-> v] \in Reasonings
    BY DEF Reasonings
  <2>3. ASSUME NEW r, BeginOverwrite(k, r)
        PROVE  Slots'
    BY <1>1, <2>3 DEF BeginOverwrite, Live
  <2> QED BY <2>1, <2>2, <2>3, SetNewSlots
<1>3. ASSUME NEW k \in Keys, Delete(k)
      PROVE  Slots'
  BY <1>3, DeleteKeySlots DEF Delete
<1>4. CASE EndOverwrite \/ Tick \/ UNCHANGED vars
  BY <1>1, <1>4 DEF EndOverwrite, Tick, vars, Live
<1>5. ASSUME NEW c \in Callers,
             CheckAge(c) \/ ReadReasoning(c) \/ \E k \in Keys : Get(c, k)
      PROVE  Slots'
  BY <1>1, <1>5 DEF CheckAge, ReadReasoning, Get, Live
<1>6. ASSUME NEW c \in Callers, DeleteExpired(c)
      PROVE  Slots'
  BY <1>6, DeleteKeySlots DEF DeleteExpired, Holding
<1>7. CASE Reload
  BY <1>7, ReloadSlots
<1> QED BY <1>2, <1>3, <1>4, <1>5, <1>6, <1>7 DEF Next

-----------------------------------------------------------------------------
(* The inductive invariant.                                                *)
Inv ==
    /\ TypeOK
    /\ Holding
    /\ Owned
    /\ AnswersOwnKey
    /\ Slots

LEMMA InitInv == Init => Inv
<1> SUFFICES ASSUME Init PROVE Inv
  OBVIOUS
<1>1. TypeOK
  BY TypeInit
<1>2. Holding
  BY DEF Init, Idle, Holding
<1>3. \A o \in Objs : \A k \in Keys : ~ Reaches(o, k)
  BY SentinelAssumption DEF Init, Idle, Reaches
<1>4. Owned
  BY <1>3 DEF Owned
<1>5. AnswersOwnKey
  BY SentinelAssumption DEF Init, Idle, AnswersOwnKey
<1>6. Slots
  <2>1. Live = {} /\ order = <<>> /\ deletions = 0
    BY DEF Init, Live
  <2>2. Cardinality(Live) = 0 /\ Len(order) = 0
    BY <2>1, FS_EmptySet, EmptySeq
  <2> QED BY <2>1, <2>2, SizeAssumption DEF Slots, OverflowBound
<1> QED BY <1>1, <1>2, <1>4, <1>5, <1>6 DEF Inv

LEMMA NextInv == Inv /\ [Next]_vars => Inv'
<1> SUFFICES ASSUME Inv, [Next]_vars PROVE Inv'
  OBVIOUS
<1>1. TypeOK /\ Holding /\ Owned /\ AnswersOwnKey /\ Slots
  BY DEF Inv
<1>2. IsFiniteSet(Live)
  BY <1>1, LiveIsFinite
<1>3. TypeOK'
  BY <1>1, <1>2, TypeNext
<1>4. Holding'
  BY <1>1, HoldingNext
<1>5. Owned'
  BY <1>1, OwnedNext
<1>6. AnswersOwnKey'
  BY <1>1, AnswersNext
<1>7. Slots'
  BY <1>1, SlotsNext
<1> QED BY <1>3, <1>4, <1>5, <1>6, <1>7 DEF Inv

LEMMA SpecInv == Spec => []Inv
<1>1. Init => Inv
  BY InitInv
<1>2. Inv /\ [Next]_vars => Inv'
  BY NextInv
<1> QED BY <1>1, <1>2, PTL DEF Spec

(* The map, the slice, the entries and the lookups keep their types; in    *)
(* particular nothing but keys is ever in the slice, after restarts too.   *)
THEOREM TypeCorrect == Spec => []TypeOK
<1>1. Inv => TypeOK
  BY DEF Inv
<1> QED BY <1>1, SpecInv, PTL

(* getFromStore never answers with the reasoning of another message,       *)
(* however its unlocked reads fall among overwrites and evictions.         *)
THEOREM OwnAnswers == Spec => []AnswersOwnKey
<1>1. Inv => AnswersOwnKey
  BY DEF Inv
<1> QED BY <1>1, SpecInv, PTL

(* Every key has a slot it can be evicted by, and the slice, hence the map,*)
(* outgrows maxSize by no more than the deletions there have been.         *)
THEOREM OverflowIsBounded == Spec => []OverflowBound
<1>1. Inv => OverflowBound
  BY DEF Inv, Slots
<1> QED BY <1>1, SpecInv, PTL

(* Without deletions the map stays within maxSize: what the code's comment *)
(* promises, and what memoryStore.Delete takes away.                       *)
THEOREM BoundedUnlessDeleted == Spec => [](deletions = 0 => Bounded)
<1>1. ASSUME Inv, deletions = 0
      PROVE  Bounded
  <2>1. Cardinality(Live) \in Nat /\ Cardinality(Live) <= Len(order)
    BY <1>1, LiveIsFinite DEF Inv
  <2>2. Len(order) <= MaxSize + 0 /\ Len(order) \in Nat /\ MaxSize \in Nat
    BY <1>1, LenProperties, SizeAssumption DEF Inv, Slots, OverflowBound, TypeOK
  <2> QED BY <2>1, <2>2 DEF Bounded
<1>2. Inv => (deletions = 0 => Bounded)
  BY <1>1
<1> QED BY <1>2, SpecInv, PTL

-----------------------------------------------------------------------------
(* The queue of bindings.  Shows(q, s, V): the bindings of the keys s with *)
(* the values V, one for each slot.                                        *)
Values == Reasonings \cup {Nil, Torn}
Bound == [key : Keys, val : Values]

Shows(q, s, V) ==
    /\ s \in Seq(Keys) /\ q \in Seq(Bound) /\ Len(q) = Len(s)
    /\ \A i \in 1..Len(s) : q[i] = [key |-> s[i], val |-> V[s[i]]]

LEMMA ShowsTail ==
  ASSUME NEW q, NEW s, NEW V, Shows(q, s, V), s # <<>>
  PROVE  q # <<>> /\ Shows(Tail(q), Tail(s), V)
<1>1. /\ s \in Seq(Keys) /\ q \in Seq(Bound) /\ Len(q) = Len(s)
      /\ \A i \in 1..Len(s) : q[i] = [key |-> s[i], val |-> V[s[i]]]
  BY DEF Shows
<1>2. PICK n \in Nat : Len(s) = n + 1
  <2>1. Len(s) \in Nat /\ Len(s) # 0
    BY <1>1, EmptySeq, LenProperties
  <2> QED BY <2>1
<1>3. q # <<>>
  BY <1>1, <1>2, EmptySeq
<1>4. /\ Tail(s) \in Seq(Keys) /\ Len(Tail(s)) = n
      /\ \A i \in 1..n : Tail(s)[i] = s[i + 1]
  BY <1>1, <1>2, HeadTailProperties
<1>5. /\ Tail(q) \in Seq(Bound) /\ Len(Tail(q)) = n
      /\ \A i \in 1..n : Tail(q)[i] = q[i + 1]
  <2> HIDE DEF Bound
  <2> QED BY <1>1, <1>2, <1>3, HeadTailProperties
<1>6. \A i \in 1..n : i + 1 \in 1..Len(s)
  BY <1>2
<1> QED BY <1>1, <1>3, <1>4, <1>5, <1>6 DEF Shows

LEMMA ShowsMore ==
  ASSUME NEW q, NEW s, NEW V, Shows(q, s, V), NEW k \in Keys, NEW r \in Values,
         NEW p, NEW W, Shows(p, Append(s, k), W), W[k] = r,
         \A i \in 1..Len(s) : W[s[i]] = V[s[i]]
  PROVE  p = Append(q, [key |-> k, val |-> r])
<1>1. /\ s \in Seq(Keys) /\ q \in Seq(Bound) /\ Len(q) = Len(s) /\ Len(s) \in Nat
      /\ \A i \in 1..Len(s) : q[i] = [key |-> s[i], val |-> V[s[i]]]
  BY LenProperties DEF Shows
<1>2. PICK t : t = Append(s, k)
  OBVIOUS
<1>3. Len(t) = Len(s) + 1 /\ (\A i \in 1..Len(s) : t[i] = s[i]) /\ t[Len(s) + 1] = k
  BY <1>1, <1>2, AppendProperties
<1>4. /\ p \in Seq(Bound) /\ Len(p) = Len(t)
      /\ \A i \in 1..Len(t) : p[i] = [key |-> t[i], val |-> W[t[i]]]
  BY <1>2 DEF Shows
<1>5. PICK b \in Bound : b = [key |-> k, val |-> r]
  BY DEF Bound
<1>6. PICK g : g = Append(q, b)
  OBVIOUS
<1>7. /\ g \in Seq(Bound) /\ Len(g) = Len(s) + 1
      /\ (\A i \in 1..Len(s) : g[i] = q[i]) /\ g[Len(s) + 1] = b
  BY <1>1, <1>6, AppendProperties
<1>8. ASSUME NEW i \in 1..Len(s) + 1
      PROVE  p[i] = g[i]
  <2>1. CASE i = Len(s) + 1
    BY <1>1, <1>3, <1>4, <1>5, <1>7, <2>1
  <2>2. CASE i \in 1..Len(s)
    BY <1>1, <1>3, <1>4, <1>7, <2>2
  <2> QED BY <1>1, <2>1, <2>2
<1>9. p = g
  BY <1>3, <1>4, <1>7, <1>8, SeqEqual
<1> QED BY <1>5, <1>6, <1>9

LEMMA ShowsOther ==
  ASSUME NEW q, NEW s, NEW V, Shows(q, s, V), NEW k \in Keys, NEW r \in Values,
         NEW p, NEW W, Shows(p, s, W), W[k] = r, \A j \in Keys : j # k => W[j] = V[j]
  PROVE  p = [i \in DOMAIN q |-> IF q[i].key = k THEN [key |-> k, val |-> r] ELSE q[i]]
<1>1. /\ s \in Seq(Keys) /\ q \in Seq(Bound) /\ Len(q) = Len(s) /\ p \in Seq(Bound)
      /\ Len(p) = Len(s)
      /\ \A i \in 1..Len(s) : q[i] = [key |-> s[i], val |-> V[s[i]]]
      /\ \A i \in 1..Len(s) : p[i] = [key |-> s[i], val |-> W[s[i]]]
  BY DEF Shows
<1>2. DOMAIN q = 1..Len(s) /\ DOMAIN p = 1..Len(s) /\ p = [i \in 1..Len(s) |-> p[i]]
  BY <1>1, LenProperties
<1>3. \A i \in 1..Len(s) : s[i] \in Keys
  BY <1>1, ElementOfSeq
<1>4. ASSUME NEW i \in 1..Len(s)
      PROVE  p[i] = IF q[i].key = k THEN [key |-> k, val |-> r] ELSE q[i]
  <2>1. PICK j \in Keys : j = s[i]
    BY <1>3
  <2>2. q[i] = [key |-> j, val |-> V[j]] /\ p[i] = [key |-> j, val |-> W[j]]
    BY <1>1, <2>1
  <2>3. q[i].key = j
    BY <2>2
  <2>4. CASE j = k
    BY <2>2, <2>3, <2>4
  <2>5. CASE j # k
    BY <2>2, <2>3, <2>5
  <2> QED BY <2>4, <2>5
<1> QED BY <1>2, <1>4

(* What a key is bound to.                                                 *)
Value == [k \in Keys |-> Shown(entries[k])]

LEMMA QueueShape ==
  ASSUME NEW s \in Seq(Keys), NEW V \in [Keys -> Values], NEW q,
         q = [i \in DOMAIN s |-> [key |-> s[i], val |-> V[s[i]]]]
  PROVE  Shows(q, s, V)
<1>1. PICK n \in Nat : n = Len(s)
  BY LenProperties
<1>2. DOMAIN s = 1..n /\ \A i \in 1..n : s[i] \in Keys
  BY <1>1, LenProperties, ElementOfSeq
<1>3. \A i \in 1..n : q[i] = [key |-> s[i], val |-> V[s[i]]] /\ q[i] \in Bound
  BY <1>2 DEF Bound
<1>4. q \in Seq(Bound) /\ Len(q) = n
  BY <1>2, <1>3
<1> QED BY <1>1, <1>3, <1>4 DEF Shows

LEMMA QueueShown ==
  ASSUME TypeOK
  PROVE  Shows(StoreQueue, order, Value)
<1>1. order \in Seq(Keys) /\ entries \in [Keys -> Objs \cup {Nil}]
  BY DEF TypeOK
<1>2. ASSUME NEW o \in Objs \cup {Nil}
      PROVE  Shown(o) \in Values
  BY DEF TypeOK, Shown, Values, Overwrites
<1>3. Value \in [Keys -> Values]
  BY <1>1, <1>2 DEF Value
<1>4. \A i \in DOMAIN order : order[i] \in Keys
  BY <1>1, LenProperties, ElementOfSeq
<1>5. StoreQueue = [i \in DOMAIN order |-> [key |-> order[i], val |-> Value[order[i]]]]
  BY <1>4 DEF StoreQueue, Value
<1> QED BY <1>1, <1>3, <1>5, QueueShape

LEMMA QueueShownAfter ==
  ASSUME TypeOK'
  PROVE  Shows(StoreQueue', order', Value')
<1>1. order' \in Seq(Keys) /\ entries' \in [Keys -> Objs \cup {Nil}]
  BY DEF TypeOK
<1>2. ASSUME NEW o \in Objs \cup {Nil}
      PROVE  Shown(o)' \in Values
  BY DEF TypeOK, Shown, Values, Overwrites
<1>3. Value' \in [Keys -> Values]
  <2>1. ASSUME NEW k \in Keys
        PROVE  Shown(entries[k])' \in Values
    <3>1. PICK o \in Objs \cup {Nil} : o = entries'[k]
      BY <1>1
    <3>2. Shown(o)' \in Values
      BY <1>2
    <3> QED BY <3>1, <3>2 DEF Shown
  <2> QED BY <2>1 DEF Value
<1>4. \A i \in DOMAIN order' : order'[i] \in Keys
  BY <1>1, LenProperties, ElementOfSeq
<1>5. StoreQueue' = [i \in DOMAIN order' |-> [key |-> order'[i], val |-> Value'[order'[i]]]]
  BY <1>4 DEF StoreQueue, Value
<1> QED BY <1>1, <1>3, <1>5, QueueShape

(* Before the first deletion, the slots are the live keys, each once.      *)
LEMMA SlotsAreKeys ==
  ASSUME TypeOK, Slots, deletions = 0
  PROVE  /\ order \in Seq(Keys) /\ Range(order) = Live /\ Len(order) = Cardinality(Live)
         /\ Len(order) <= MaxSize
         /\ \A i, j \in 1..Len(order) : i # j => order[i] # order[j]
<1>1. /\ order \in Seq(Keys) /\ Len(order) \in Nat /\ DOMAIN order = 1..Len(order)
      /\ order \in [1..Len(order) -> Range(order)]
  BY LenProperties DEF TypeOK, Range
<1>2. /\ IsFiniteSet(Live) /\ Cardinality(Live) \in Nat /\ Cardinality(Live) <= Len(order)
      /\ Len(order) <= Cardinality(Live) + 0 /\ Len(order) <= MaxSize + 0
      /\ Live \subseteq Range(order)
  BY LiveIsFinite DEF Slots, OverflowBound
<1>3. IsFiniteSet(Range(order)) /\ Cardinality(Range(order)) <= Len(order)
  BY <1>1, RangeCardinality
<1>4. Cardinality(Live) <= Cardinality(Range(order)) /\ Cardinality(Range(order)) \in Nat
  BY <1>2, <1>3, FS_Subset, FS_CardinalityType
<1>5. Len(order) = Cardinality(Live) /\ Cardinality(Range(order)) = Len(order)
  BY <1>1, <1>2, <1>3, <1>4
<1>6. Range(order) = Live
  BY <1>2, <1>3, <1>5, FS_Subset
<1>7. order \in Surjection(1..Len(order), Range(order))
  BY <1>1, Fun_IsSurj DEF Range
<1>8. IsFiniteSet(1..Len(order)) /\ Cardinality(1..Len(order)) = Len(order)
  BY <1>1, FS_Interval
<1>9. order \in Injection(1..Len(order), Range(order))
  BY <1>5, <1>7, <1>8, FS_Surjection
<1>10. \A i, j \in 1..Len(order) : i # j => order[i] # order[j]
  BY <1>9 DEF Injection, IsInjective
<1>11. Len(order) <= MaxSize
  BY <1>1, <1>2, SizeAssumption
<1> QED BY <1>1, <1>5, <1>6, <1>10, <1>11

(* Set of an absent key, with and without an eviction.                     *)
LEMMA SetNewIsInsert ==
  ASSUME Inv, Inv', deletions = 0, NEW k \in Keys, NEW r \in Reasonings, SetNew(k, r)
  PROVE  Fifo!Insert(k, r) \/ Fifo!InsertEvicting(k, r)
<1>1. /\ order \in Seq(Keys) /\ Range(order) = Live /\ Len(order) = Cardinality(Live)
      /\ Len(order) <= MaxSize /\ \A i, j \in 1..Len(order) : i # j => order[i] # order[j]
  BY SlotsAreKeys DEF Inv
<1>2. /\ Len(order) \in Nat /\ MaxSize \in Nat /\ MaxSize # 0 /\ DOMAIN order = 1..Len(order)
      /\ \A i \in 1..Len(order) : order[i] \in Live /\ order[i] \in Keys
  BY <1>1, LenProperties, SizeAssumption DEF Range, Live
<1>3. PICK q : q = StoreQueue
  OBVIOUS
<1>4. PICK V : V = Value
  OBVIOUS
<1>5. PICK p : p = StoreQueue'
  OBVIOUS
<1>6. PICK W : W = Value'
  OBVIOUS
<1>7. PICK s : s = order'
  OBVIOUS
<1>8. Shows(q, order, V) /\ Shows(p, s, W)
  BY <1>3, <1>4, <1>5, <1>6, <1>7, QueueShown, QueueShownAfter DEF Inv
<1>9. k \notin Live /\ writing = Nil /\ writing' = Nil
  BY DEF SetNew, Unlocked
<1>10. PICK o \in Objs : /\ heap' = [heap EXCEPT ![o] = [reasoning |-> r, addedAt |-> now]]
                         /\ entries' = [(IF Full THEN EntriesAfterEviction ELSE entries)
                                          EXCEPT ![k] = o]
                         /\ \A j \in Keys : entries[j] # o
  <2>1. PICK o \in Free : /\ heap' = [heap EXCEPT ![o] = [reasoning |-> r, addedAt |-> now]]
                          /\ entries' = [(IF Full THEN EntriesAfterEviction ELSE entries)
                                           EXCEPT ![k] = o]
    BY DEF SetNew
  <2>2. o \in Objs /\ o # Nil
    BY SentinelAssumption DEF Free
  <2>3. \A j \in Keys : entries[j] # o
    BY <2>2 DEF Free, Live
  <2> QED BY <2>1, <2>2, <2>3
<1>11. /\ heap \in [Objs -> [reasoning : Reasonings \cup {Nil, Torn}, addedAt : 0..MaxTime]]
       /\ entries \in [Keys -> Objs \cup {Nil}] /\ o # Nil
  BY SentinelAssumption DEF Inv, TypeOK
<1>12. heap'[o].reasoning = r /\ \A x \in Objs : x # o => heap'[x] = heap[x]
  BY <1>10, <1>11
<1>13. entries'[k] = o /\ W[k] = r /\ r \in Values
  <2>1. entries'[k] = o
    BY <1>10, <1>11 DEF EntriesAfterEviction
  <2>2. Value'[k] = Shown(entries[k])'
    BY DEF Value
  <2>3. Shown(entries[k])' = heap'[o].reasoning
    BY <1>9, <1>11, <2>1 DEF Shown
  <2> QED BY <1>6, <1>12, <2>1, <2>2, <2>3 DEF Values
<1>14. ASSUME NEW j \in Keys, entries'[j] = entries[j]
       PROVE  W[j] = V[j]
  <2>1. V[j] = Shown(entries[j]) /\ W[j] = Shown(entries[j])'
    BY <1>4, <1>6 DEF Value
  <2>2. entries[j] = Nil \/ (entries[j] \in Objs /\ entries[j] # o /\ entries[j] # Nil)
    BY <1>10, <1>11
  <2>3. Shown(entries[j])' = Shown(entries[j])
    BY <1>9, <1>12, <1>14, <2>2 DEF Shown
  <2> QED BY <2>1, <2>3
<1>15. ~ Fifo!Present(k)
  <2>1. /\ q \in Seq(Bound) /\ Len(q) = Len(order)
        /\ \A i \in 1..Len(order) : q[i] = [key |-> order[i], val |-> V[order[i]]]
    BY <1>8 DEF Shows
  <2>2. DOMAIN q = 1..Len(order)
    BY <2>1, LenProperties
  <2>3. \A i \in DOMAIN q : q[i].key = order[i] /\ order[i] # k
    BY <1>2, <1>9, <2>1, <2>2
  <2> QED BY <1>3, <2>3 DEF Fifo!Present
<1>16. Len(q) = Len(order)
  BY <1>8 DEF Shows
<1>17. CASE ~ Full
  <2>1. s = Append(order, k) /\ entries' = [entries EXCEPT ![k] = o]
    BY <1>7, <1>10, <1>17 DEF SetNew
  <2>2. \A i \in 1..Len(order) : W[order[i]] = V[order[i]]
    BY <1>2, <1>9, <1>11, <1>14, <2>1
  <2>3. p = Append(q, [key |-> k, val |-> r])
    BY <1>8, <1>13, <2>1, <2>2, ShowsMore
  <2>4. Len(q) < MaxSize
    BY <1>1, <1>2, <1>16, <1>17 DEF Full
  <2> QED BY <1>3, <1>5, <1>15, <2>3, <2>4 DEF Fifo!Insert, Fifo!Binding
<1>18. CASE Full
  <2>1. Len(q) = MaxSize /\ order # <<>>
    BY <1>1, <1>2, <1>16, <1>18, EmptySeq DEF Full
  <2>2. /\ s = Append(Tail(order), k)
        /\ entries' = [[entries EXCEPT ![Head(order)] = Nil] EXCEPT ![k] = o]
    BY <1>7, <1>10, <1>18, <2>1 DEF SetNew, EntriesAfterEviction, OrderAfterEviction
  <2>3. Shows(Tail(q), Tail(order), V)
    BY <1>8, <2>1, ShowsTail
  <2>4. /\ Len(Tail(order)) = Len(order) - 1 /\ Head(order) = order[1]
        /\ \A i \in 1..Len(order) - 1 : Tail(order)[i] = order[i + 1]
    BY <1>1, <2>1, HeadTailProperties
  <2>5. ASSUME NEW i \in 1..Len(Tail(order))
        PROVE  W[Tail(order)[i]] = V[Tail(order)[i]]
    <3>1. i + 1 \in 1..Len(order) /\ i + 1 # 1 /\ 1 \in 1..Len(order)
      BY <1>2, <2>4
    <3>2. PICK j \in Keys : j = Tail(order)[i] /\ j # Head(order) /\ j # k
      BY <1>1, <1>2, <1>9, <2>4, <3>1
    <3>3. entries'[j] = entries[j]
      BY <1>11, <2>2, <3>2
    <3> QED BY <1>14, <3>2, <3>3
  <2>6. p = Append(Tail(q), [key |-> k, val |-> r])
    <3>1. PICK u, z : u = Tail(q) /\ z = Tail(order)
      OBVIOUS
    <3>2. Shows(u, z, V) /\ Shows(p, Append(z, k), W)
      BY <1>8, <2>2, <2>3, <3>1
    <3>3. \A i \in 1..Len(z) : W[z[i]] = V[z[i]]
      BY <2>5, <3>1
    <3>4. p = Append(u, [key |-> k, val |-> r])
      BY <1>13, <3>2, <3>3, ShowsMore
    <3> QED BY <3>1, <3>4
  <2> QED BY <1>3, <1>5, <1>15, <2>1, <2>6 DEF Fifo!InsertEvicting, Fifo!Binding
<1> QED BY <1>17, <1>18

(* Set of a present key: its binding is replaced as the overwrite begins.  *)
LEMMA OverwriteIsReplace ==
  ASSUME Inv, Inv', deletions = 0, NEW k \in Keys, NEW r \in Reasonings, BeginOverwrite(k, r)
  PROVE  Fifo!Replace(k, r)
<1>1. order \in Seq(Keys) /\ Range(order) = Live /\ DOMAIN order = 1..Len(order)
  BY SlotsAreKeys, LenProperties DEF Inv
<1>2. /\ k \in Live /\ writing = Nil /\ order' = order /\ entries' = entries
      /\ writing' = [obj |-> entries[k], reasoning |-> r, addedAt |-> now]
      /\ heap' = [heap EXCEPT ![entries[k]].reasoning = Torn]
  BY DEF BeginOverwrite, Unlocked
<1>3. PICK q : q = StoreQueue
  OBVIOUS
<1>4. PICK V : V = Value
  OBVIOUS
<1>5. PICK p : p = StoreQueue'
  OBVIOUS
<1>6. PICK W : W = Value'
  OBVIOUS
<1>7. Shows(q, order, V) /\ Shows(p, order, W)
  BY <1>2, <1>3, <1>4, <1>5, <1>6, QueueShown, QueueShownAfter DEF Inv
<1>8. PICK o \in Objs : o = entries[k] /\ o # Nil
  BY <1>2, SentinelAssumption DEF Inv, TypeOK, Live
<1>9. /\ heap \in [Objs -> [reasoning : Reasonings \cup {Nil, Torn}, addedAt : 0..MaxTime]]
      /\ entries \in [Keys -> Objs \cup {Nil}]
  BY DEF Inv, TypeOK
<1>10. writing' # Nil /\ writing'.obj = o /\ writing'.reasoning = r
  <2>1. writing' # Nil
    <3>1. now \in 0..MaxTime
      BY DEF Inv, TypeOK
    <3>2. writing' \in Overwrites
      BY <1>2, <1>8, <3>1 DEF Overwrites
    <3> QED BY <3>2, SentinelAssumption
  <2> QED BY <1>2, <1>8, <2>1
<1>11. W[k] = r /\ r \in Values
  <2>1. W[k] = Shown(entries[k])'
    BY <1>6 DEF Value
  <2>2. Shown(entries[k])' = r
    BY <1>2, <1>8, <1>10 DEF Shown
  <2> QED BY <2>1, <2>2 DEF Values
<1>12. ASSUME NEW j \in Keys, j # k
       PROVE  W[j] = V[j]
  <2>1. V[j] = Shown(entries[j]) /\ W[j] = Shown(entries[j])'
    BY <1>4, <1>6 DEF Value
  <2>2. entries[j] # o
    BY <1>8, <1>12 DEF Inv, Owned, Reaches
  <2>3. entries[j] = Nil \/ (entries[j] \in Objs /\ entries[j] # Nil)
    BY <1>9
  <2>4. entries[j] \in Objs => heap'[entries[j]] = heap[entries[j]]
    BY <1>2, <1>8, <1>9, <2>2
  <2>5. Shown(entries[j])' = Shown(entries[j])
    BY <1>2, <1>10, <2>2, <2>3, <2>4 DEF Shown
  <2> QED BY <2>1, <2>5
<1>13. p = [i \in DOMAIN q |-> IF q[i].key = k THEN [key |-> k, val |-> r] ELSE q[i]]
  BY <1>7, <1>11, <1>12, ShowsOther
<1>14. Fifo!Present(k)
  <2>1. PICK i \in 1..Len(order) : order[i] = k
    BY <1>1, <1>2 DEF Range
  <2>2. i \in DOMAIN q /\ q[i].key = k
    <3>1. /\ q \in Seq(Bound) /\ Len(q) = Len(order)
          /\ \A j \in 1..Len(order) : q[j] = [key |-> order[j], val |-> V[order[j]]]
      BY <1>7 DEF Shows
    <3>2. DOMAIN q = 1..Len(order)
      BY <3>1, LenProperties
    <3> QED BY <2>1, <3>1, <3>2
  <2> QED BY <1>3, <2>2 DEF Fifo!Present
<1> QED BY <1>3, <1>5, <1>13, <1>14 DEF Fifo!Replace, Fifo!Binding

(* When it ends, the entry has what its binding has had since.             *)
LEMMA EndOverwriteIsStutter ==
  ASSUME Inv, EndOverwrite
  PROVE  StoreQueue' = StoreQueue
<1>1. /\ writing # Nil /\ writing' = Nil /\ order' = order /\ entries' = entries
      /\ heap' = [heap EXCEPT ![writing.obj] =
                    [reasoning |-> writing.reasoning, addedAt |-> writing.addedAt]]
  BY DEF EndOverwrite
<1>2. /\ heap \in [Objs -> [reasoning : Reasonings \cup {Nil, Torn}, addedAt : 0..MaxTime]]
      /\ entries \in [Keys -> Objs \cup {Nil}] /\ writing.obj \in Objs
      /\ order \in Seq(Keys)
  BY <1>1 DEF Inv, TypeOK, Overwrites
<1>3. /\ heap'[writing.obj].reasoning = writing.reasoning
      /\ \A o \in Objs : o # writing.obj => heap'[o] = heap[o]
  BY <1>1, <1>2
<1>4. ASSUME NEW o \in Objs \cup {Nil}
      PROVE  Shown(o)' = Shown(o)
  BY <1>1, <1>2, <1>3 DEF Shown
<1>5. \A i \in DOMAIN order : entries[order[i]] \in Objs \cup {Nil}
  BY <1>2, ElementOfSeq, LenProperties
<1>6. \A i \in DOMAIN order : Shown(entries[order[i]])' = Shown(entries[order[i]])
  <2>1. TAKE i \in DOMAIN order
  <2>2. PICK o \in Objs \cup {Nil} : o = entries[order[i]]
    BY <1>5
  <2>3. Shown(o)' = Shown(o)
    BY <1>4
  <2> QED BY <1>1, <2>2, <2>3 DEF Shown
<1> QED BY <1>1, <1>6 DEF StoreQueue

(* However lookups and restarts come between, the store is a first-in      *)
(* first-out map with maxSize places, until something is deleted: each Set *)
(* of memoryStore is an insertion, an insertion that evicts the oldest key,*)
(* or a replacement in place.  A restart is what alone brings the slots in *)
(* another order.                                                          *)
THEOREM FifoBeforeDeletion == Spec => FifoUnlessDeleted
<1>1. Init => Fifo!Init
  <2> SUFFICES ASSUME Init PROVE StoreQueue = <<>>
    BY DEF Fifo!Init
  <2>1. order = <<>> /\ DOMAIN order = {}
    BY EmptySeq DEF Init
  <2> QED BY <2>1 DEF StoreQueue
<1>2. Inv /\ Inv' /\ [Next]_vars => [deletions' = 0 => Fifo!Next \/ Reload]_StoreQueue
  <2> SUFFICES ASSUME Inv, Inv', [Next]_vars, deletions' = 0, ~ Reload,
                      StoreQueue' # StoreQueue
               PROVE  Fifo!Next
    OBVIOUS
  <2>1. ASSUME UNCHANGED <<heap, entries, order, writing>>
        PROVE  FALSE
    BY <2>1 DEF StoreQueue, Shown
  <2>2. ASSUME NEW k \in Keys, DeleteKey(k)
        PROVE  FALSE
    <3>1. deletions \in Nat /\ entries \in [Keys -> Objs \cup {Nil}]
      BY DEF Inv, TypeOK
    <3>2. k \notin Live
      BY <2>2, <3>1 DEF DeleteKey
    <3>3. entries' = entries
      BY <2>2, <3>1, <3>2 DEF DeleteKey, Live
    <3> QED BY <2>1, <2>2, <3>3 DEF DeleteKey
  <2>3. ASSUME NEW k \in Keys, Put(k)
        PROVE  Fifo!Next
    <3>1. PICK v \in Versions : LET r == [of |-> k, version |-> v]
                                IN  SetNew(k, r) \/ BeginOverwrite(k, r)
      BY <2>3 DEF Put
    <3>2. PICK r \in Reasonings : r = [of |-> k, version |-> v]
      BY DEF Reasonings
    <3>3. SetNew(k, r) \/ BeginOverwrite(k, r)
      BY <3>1, <3>2
    <3>4. deletions = 0
      BY <3>3 DEF SetNew, BeginOverwrite
    <3>5. Fifo!Insert(k, r) \/ Fifo!InsertEvicting(k, r) \/ Fifo!Replace(k, r)
      BY <3>3, <3>4, SetNewIsInsert, OverwriteIsReplace
    <3> QED BY <3>5 DEF Fifo!Next
  <2>4. ASSUME NEW c \in Callers,
               CheckAge(c) \/ ReadReasoning(c) \/ \E k \in Keys : Get(c, k)
        PROVE  FALSE
    BY <2>1, <2>4 DEF CheckAge, ReadReasoning, Get
  <2>5. ASSUME NEW c \in Callers, DeleteExpired(c)
        PROVE  FALSE
    BY <2>2, <2>5 DEF DeleteExpired, Inv, Holding
  <2>6. ASSUME NEW k \in Keys, Delete(k)
        PROVE  FALSE
    BY <2>2, <2>6 DEF Delete
  <2>7. CASE EndOverwrite
    BY <2>7, EndOverwriteIsStutter
  <2>8. CASE Tick \/ UNCHANGED vars
    BY <2>1, <2>8 DEF Tick, vars
  <2> QED BY <2>3, <2>4, <2>5, <2>6, <2>7, <2>8 DEF Next
<1> QED BY <1>1, <1>2, SpecInv, PTL DEF Spec, FifoUnlessDeleted
=============================================================================
