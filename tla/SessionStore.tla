---------------------------- MODULE SessionStore ----------------------------
(***************************************************************************)
(* The session store of the rewriter (convert/session.go): a Go map from   *)
(* session id to session and an order slice for first-in first-out         *)
(* eviction, both guarded by one RWMutex, and the thought signatures that  *)
(* outlive the sessions.  Every operation holds the mutex from its first   *)
(* to its last line, so each is one action; HTTP requests, one goroutine   *)
(* each, interleave their operations in any order.                         *)
(***************************************************************************)
EXTENDS Naturals, Sequences, FiniteSets, SequencesExt

CONSTANTS
    Sids,        \* session ids, the "sid" of the proxy's metadata
    Sessions,    \* *Session values; Set always gets a new one, never nil
    MaxSize,     \* maxSize, 1000 in NewSessionStore
    FuncNames,   \* names of functions Gemini calls
    Sigs,        \* thought signatures
    None         \* nil: no such entry in a map

ASSUME MaxSizeAssumption == MaxSize \in Nat \ {0}
ASSUME NoneAssumption == None \notin Sessions \cup Sigs

VARIABLES
    sessions,    \* the map; None is an absent key
    order,       \* the slice of session ids, oldest first
    thoughtSigs  \* ThoughtSignatures: sid -> function name -> signature

vars == <<sessions, order, thoughtSigs>>

Live == {s \in Sids : sessions[s] # None}

TypeOK ==
    /\ sessions \in [Sids -> Sessions \cup {None}]
    /\ order \in Seq(Sids)
    /\ thoughtSigs \in [Sids -> [FuncNames -> Sigs \cup {None}]]

Init ==
    /\ sessions = [s \in Sids |-> None]
    /\ order = <<>>
    /\ thoughtSigs = [s \in Sids |-> [f \in FuncNames |-> None]]

-----------------------------------------------------------------------------
(* evictLocked drops heads of the order slice until one was still live.    *)

LiveSlots == {i \in DOMAIN order : order[i] \in Live}

SlotToEvict == IF LiveSlots = {} THEN Len(order) ELSE Min(LiveSlots)

(* Mutant: the slot is blanked instead of cut off.                         *)
OrderWithBlankSlot ==
    IF order = <<>> THEN order ELSE [order EXCEPT ![SlotToEvict] = None]

OrderAfterEviction == SubSeq(order, SlotToEvict + 1, Len(order))

SessionsAfterEviction ==
    [s \in Sids |-> IF LiveSlots # {} /\ s = order[SlotToEvict]
                    THEN None ELSE sessions[s]]

-----------------------------------------------------------------------------
(* Mutant: one session too many fits in.                                   *)
FullTooLate == Cardinality(Live) > MaxSize

Full == Cardinality(Live) >= MaxSize

(* Mutant: replacing a session makes it the youngest.                      *)
SetExistingTouching(sid, sess) ==
    /\ sid \in Live
    /\ sessions' = [sessions EXCEPT ![sid] = sess]
    /\ order' = Append(RemoveFirst(order, sid), sid)
    /\ UNCHANGED thoughtSigs

\* Set of a session id that is present replaces the pointer in place.
SetExisting(sid, sess) ==
    /\ sid \in Live
    /\ sessions' = [sessions EXCEPT ![sid] = sess]
    /\ UNCHANGED <<order, thoughtSigs>>

\* Set of a new session id makes room first when the map is full.
SetNew(sid, sess) ==
    /\ sid \notin Live
    /\ IF Full
       THEN /\ order' = Append(OrderAfterEviction, sid)
            /\ sessions' = [SessionsAfterEviction EXCEPT ![sid] = sess]
       ELSE /\ order' = Append(order, sid)
            /\ sessions' = [sessions EXCEPT ![sid] = sess]
    /\ UNCHANGED thoughtSigs

Set(sid, sess) == SetExisting(sid, sess) \/ SetNew(sid, sess)

(* Mutants: the slot stays behind; the signatures go with the session.     *)
DeleteKeepingSlot(sid) ==
    /\ sessions' = [sessions EXCEPT ![sid] = None]
    /\ UNCHANGED <<order, thoughtSigs>>

DeleteWithSignatures(sid) ==
    /\ sessions' = [sessions EXCEPT ![sid] = None]
    /\ order' = RemoveFirst(order, sid)
    /\ thoughtSigs' = [thoughtSigs EXCEPT ![sid] = [f \in FuncNames |-> None]]

\* Delete takes the first occurrence out of the order slice as well.
Delete(sid) ==
    /\ sessions' = [sessions EXCEPT ![sid] = None]
    /\ order' = RemoveFirst(order, sid)
    /\ UNCHANGED thoughtSigs

SetThoughtSig(sid, f, sig) ==
    /\ thoughtSigs' = [thoughtSigs EXCEPT ![sid][f] = sig]
    /\ UNCHANGED <<sessions, order>>

Next ==
    \E sid \in Sids :
        \/ \E sess \in Sessions : Set(sid, sess)
        \/ Delete(sid)
        \/ \E f \in FuncNames, sig \in Sigs : SetThoughtSig(sid, f, sig)

Spec == Init /\ [][Next]_vars

-----------------------------------------------------------------------------
(* Properties.                                                             *)

(* The order slice lists the live sessions, each exactly once.  This is    *)
(* what the comment of Delete is about: a slot that stays behind leaks, and*)
(* a live session without a slot could never be evicted.                   *)
OrderListsLive ==
    /\ IsInjective(order)
    /\ Range(order) = Live

(* No sequence of Set and Delete makes the map, or the slice behind it,    *)
(* outgrow maxSize.                                                        *)
Bounded ==
    /\ Cardinality(Live) <= MaxSize
    /\ Len(order) <= MaxSize

(* The two pieces together behave as one queue of bindings: Set replaces in*)
(* place, appends, or evicts exactly the oldest session, and Delete takes  *)
(* out one binding without disturbing the age of the others.               *)
SessionQueue ==
    [i \in DOMAIN order |-> [key |-> order[i], val |-> sessions[order[i]]]]

Fifo == INSTANCE FifoMap
        WITH Keys <- Sids, Vals <- Sessions, Capacity <- MaxSize,
             queue <- SessionQueue

FifoSpec == Fifo!Spec

(* Deleting, replacing or evicting a session never loses a thought         *)
(* signature: a later request of the same sid still has to replay it, long *)
(* after the stream that brought it was deleted.                           *)
SignaturesSurvive ==
    [][\A sid \in Sids, f \in FuncNames :
          thoughtSigs[sid][f] # None => thoughtSigs'[sid][f] # None]_vars
=============================================================================
