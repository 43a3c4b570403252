--------------------------- MODULE ReasoningStore ---------------------------
(***************************************************************************)
(* One tier of the reasoning cache: the memoryStore of                     *)
(* convert/reasoning_cache.go and the expiry rule that getFromStore adds.  *)
(* The map holds POINTERS.  Set of a present key writes through the pointer*)
(* while it holds the mutex; getFromStore releases the mutex with the      *)
(* pointer in its hand and reads the two fields of the entry without it,   *)
(* and if the entry looks expired it takes the mutex again to delete       *)
(* whatever the key names by then.  The lookups of different requests are  *)
(* therefore split at every point where another goroutine can come between.*)
(***************************************************************************)
EXTENDS Naturals, Sequences, FiniteSets, SequencesExt

CONSTANTS
    Keys,          \* cache keys of the tier
    Versions,      \* distinguishes reasonings of the same assistant message
    Callers,       \* goroutines inside getFromStore
    Objs,          \* addresses of cacheEntry objects
    MaxSize,       \* maxSize of the store
    MaxAge,        \* maxAge of the cache, 30 days
    MaxTime,       \* bound on the clock
    MaxDeletions,  \* bound on calls of ReasoningCache.Delete
    Persistent,    \* file-backed: restarts load the entries back
    Nil, Torn

ASSUME SizeAssumption == MaxSize \in Nat \ {0}
ASSUME AgeAssumption == MaxAge \in Nat /\ MaxTime \in Nat /\ MaxDeletions \in Nat
ASSUME PersistentAssumption == Persistent \in BOOLEAN
ASSUME EnoughObjs == Cardinality(Objs) >= Cardinality(Keys) + Cardinality(Callers)

(* A reasoning text belongs to the assistant message its key names.        *)
Reasonings == [of : Keys, version : Versions]

(* What a Set of a present key is writing, and where.                      *)
Overwrites == [obj : Objs, reasoning : Reasonings, addedAt : 0..MaxTime]

ASSUME SentinelAssumption ==
    Nil # Torn /\ {Nil, Torn} \cap (Keys \cup Objs \cup Reasonings \cup Overwrites) = {}

NoEntry == [reasoning |-> Nil, addedAt |-> 0]

VARIABLES
    heap,       \* cacheEntry objects: [reasoning, addedAt]
    entries,    \* the map: key -> address, Nil when absent
    order,      \* the slice of keys, oldest slot first
    writing,    \* the Set that is overwriting an entry under the mutex, or Nil
    lookup,     \* the getFromStore call of each goroutine
    now,
    deletions   \* deletions of present keys so far (history)

vars == <<heap, entries, order, writing, lookup, now, deletions>>

Live == {k \in Keys : entries[k] # Nil}

Unlocked == writing = Nil

Idle == [pc |-> "idle", key |-> Nil, obj |-> Nil, result |-> Nil]

TypeOK ==
    /\ heap \in [Objs -> [reasoning : Reasonings \cup {Nil, Torn},
                          addedAt : 0..MaxTime]]
    /\ entries \in [Keys -> Objs \cup {Nil}]
    /\ order \in Seq(Keys)
    /\ writing \in Overwrites \cup {Nil}
    /\ lookup \in [Callers -> [pc : {"idle", "check", "read", "expire", "done"},
                               key : Keys \cup {Nil},
                               obj : Objs \cup {Nil},
                               result : Reasonings \cup {Nil, Torn}]]
    /\ now \in 0..MaxTime
    /\ deletions \in Nat

Init ==
    /\ heap = [o \in Objs |-> NoEntry]
    /\ entries = [k \in Keys |-> Nil]
    /\ order = <<>>
    /\ writing = Nil
    /\ lookup = [c \in Callers |-> Idle]
    /\ now = 0
    /\ deletions = 0

-----------------------------------------------------------------------------
(* Set.                                                                    *)

(* Mutant: entries come from a pool that does not know of the lookups.     *)
FreeOfKeys == Objs \ {entries[k] : k \in Live}

(* The allocator never hands out an object somebody can still reach.       *)
Free == Objs \ ({entries[k] : k \in Live} \cup {lookup[c].obj : c \in Callers})

(* Mutant: the youngest entry is evicted.                                  *)
EntriesAfterEvictingLast ==
    IF order = <<>> THEN entries ELSE [entries EXCEPT ![Last(order)] = Nil]

(* evictLocked: pops the head of the slice, live or not.                   *)
EntriesAfterEviction ==
    IF order = <<>> THEN entries ELSE [entries EXCEPT ![Head(order)] = Nil]

OrderAfterEviction == IF order = <<>> THEN order ELSE Tail(order)

Full == Cardinality(Live) >= MaxSize

(* A key that is absent gets a new entry and a new slot.                   *)
SetNew(k, r) ==
    /\ Unlocked
    /\ k \notin Live
    /\ \E o \in Free :
          /\ heap' = [heap EXCEPT ![o] = [reasoning |-> r, addedAt |-> now]]
          /\ entries' = [(IF Full THEN EntriesAfterEviction ELSE entries)
                           EXCEPT ![k] = o]
    /\ order' = Append(IF Full THEN OrderAfterEviction ELSE order, k)
    /\ UNCHANGED <<writing, lookup, now, deletions>>

(* A present key has the two fields of its entry overwritten, one after the*)
(* other, with no synchronisation towards an unlocked reader.  Torn stands *)
(* for the window: a string is two words, written one after the other.     *)
BeginOverwrite(k, r) ==
    /\ Unlocked
    /\ k \in Live
    /\ writing' = [obj |-> entries[k], reasoning |-> r, addedAt |-> now]
    /\ heap' = [heap EXCEPT ![entries[k]].reasoning = Torn]
    /\ UNCHANGED <<entries, order, lookup, now, deletions>>

EndOverwrite ==
    /\ writing # Nil
    /\ heap' = [heap EXCEPT ![writing.obj] =
                  [reasoning |-> writing.reasoning, addedAt |-> writing.addedAt]]
    /\ writing' = Nil
    /\ UNCHANGED <<entries, order, lookup, now, deletions>>

Put(k) == \E v \in Versions :
    LET r == [of |-> k, version |-> v] IN SetNew(k, r) \/ BeginOverwrite(k, r)

-----------------------------------------------------------------------------
(* Delete takes the key out of the map and leaves its slot in the slice.   *)

(* Mutant: the slot is blanked.                                            *)
DeleteKeyBlankingSlot(k) ==
    /\ Unlocked
    /\ entries' = [entries EXCEPT ![k] = Nil]
    /\ order' = [i \in DOMAIN order |-> IF order[i] = k THEN Nil ELSE order[i]]
    /\ deletions' = IF k \in Live THEN deletions + 1 ELSE deletions
    /\ UNCHANGED <<heap, writing, now>>

DeleteKey(k) ==
    /\ Unlocked
    /\ entries' = [entries EXCEPT ![k] = Nil]
    /\ deletions' = IF k \in Live THEN deletions + 1 ELSE deletions
    /\ UNCHANGED <<heap, order, writing, now>>

Delete(k) ==
    /\ deletions < MaxDeletions
    /\ DeleteKey(k)
    /\ UNCHANGED lookup

-----------------------------------------------------------------------------
(* getFromStore.                                                           *)

Answer(c, r) == lookup' = [lookup EXCEPT ![c].pc = "done", ![c].obj = Nil,
                                         ![c].result = r]

Get(c, k) ==
    /\ lookup[c].pc \in {"idle", "done"}
    /\ Unlocked
    /\ lookup' = [lookup EXCEPT ![c] =
                    IF k \in Live
                    THEN [pc |-> "check", key |-> k, obj |-> entries[k], result |-> Nil]
                    ELSE [pc |-> "done", key |-> k, obj |-> Nil, result |-> Nil]]
    /\ UNCHANGED <<heap, entries, order, writing, now, deletions>>

Expired(o) == now - heap[o].addedAt > MaxAge

(* The age is read without the mutex: while Set overwrites the entry, the  *)
(* reader may compare the old time or the new one.                         *)
CheckAge(c) ==
    /\ lookup[c].pc = "check"
    /\ \E expired \in (IF heap[lookup[c].obj].reasoning = Torn
                       THEN {FALSE, Expired(lookup[c].obj)}
                       ELSE {Expired(lookup[c].obj)}) :
          lookup' = [lookup EXCEPT ![c].pc = IF expired THEN "expire" ELSE "read"]
    /\ UNCHANGED <<heap, entries, order, writing, now, deletions>>

ReadReasoning(c) ==
    /\ lookup[c].pc = "read"
    /\ Answer(c, heap[lookup[c].obj].reasoning)
    /\ UNCHANGED <<heap, entries, order, writing, now, deletions>>

DeleteExpired(c) ==
    /\ lookup[c].pc = "expire"
    /\ DeleteKey(lookup[c].key)
    /\ Answer(c, Nil)

Tick ==
    /\ now < MaxTime
    /\ now' = now + 1
    /\ UNCHANGED <<heap, entries, order, writing, lookup, deletions>>

(* Mutant: load fills the map and not the slice.                           *)
ReloadMapOnly ==
    /\ Persistent
    /\ Unlocked
    /\ order' = <<>>
    /\ lookup' = [c \in Callers |-> Idle]
    /\ UNCHANGED <<heap, entries, writing, now, deletions>>

(* A restart of a file-backed cache whose last save was up to date: load   *)
(* ranges over a Go map, so the slots come back in an arbitrary order.     *)
Reload ==
    /\ Persistent
    /\ Unlocked
    /\ order' \in SetToSeqs(Live)
    /\ lookup' = [c \in Callers |-> Idle]
    /\ UNCHANGED <<heap, entries, writing, now, deletions>>

Next ==
    \/ Reload
    \/ \E k \in Keys : Put(k) \/ Delete(k)
    \/ EndOverwrite
    \/ \E c \in Callers :
          \/ \E k \in Keys : Get(c, k)
          \/ CheckAge(c)
          \/ ReadReasoning(c)
          \/ DeleteExpired(c)
    \/ Tick

Spec == Init /\ [][Next]_vars
-----------------------------------------------------------------------------
(* Properties.                                                             *)

(* Set keeps the map within maxSize.                                       *)
Bounded == Cardinality(Live) <= MaxSize

(* A deletion leaves its slot behind, and evicting such a slot frees no    *)
(* place: the map outgrows maxSize.  But every key keeps a slot, so that it*)
(* can be evicted some day, and there are never more slots, hence never    *)
(* more keys, than maxSize and one for each deletion there has been.       *)
OverflowBound ==
    /\ Live \subseteq Range(order)
    /\ Len(order) <= MaxSize + deletions

(* Whatever the interleaving of lookups, overwrites, evictions and         *)
(* deletions, a request is never given the reasoning of another message.   *)
AnswersOwnKey ==
    \A c \in Callers :
        lookup[c].result \in Reasonings => lookup[c].result.of = lookup[c].key

(* The map and the slice together, as one queue of bindings.               *)
Shown(o) ==
    CASE o = Nil -> Nil
      [] writing # Nil /\ o # Nil -> IF writing.obj = o THEN writing.reasoning
                                     ELSE heap[o].reasoning
      [] OTHER -> heap[o].reasoning

StoreQueue ==
    [i \in DOMAIN order |-> [key |-> order[i], val |-> Shown(entries[order[i]])]]

Fifo == INSTANCE FifoMap
        WITH Keys <- Keys, Vals <- Reasonings, Capacity <- MaxSize,
             queue <- StoreQueue

(* As long as nothing is deleted the store is a first-in first-out map; the*)
(* order is lost at a restart, and kept from then on.                      *)
FifoUnlessDeleted ==
    /\ Fifo!Init
    /\ [][deletions' = 0 => Fifo!Next \/ Reload]_StoreQueue
=============================================================================
