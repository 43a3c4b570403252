------------------------------- MODULE FifoMap -------------------------------
(***************************************************************************)
(* What the bounded stores of the converter promise: a map of at most      *)
(* Capacity keys that evicts in first-in first-out order.  The map IS one  *)
(* queue of bindings, oldest key first; replacing the value of a present   *)
(* key keeps its place.  convert/session.go (SessionStore) and             *)
(* convert/reasoning_cache.go (memoryStore) each keep this queue in two    *)
(* pieces, a Go map and an order slice, that have to stay in agreement.    *)
(***************************************************************************)
EXTENDS Naturals, Sequences, SequencesExt

CONSTANTS Keys, Vals, Capacity

VARIABLE queue

Bindings == [key : Keys, val : Vals]

Binding(k, v) == [key |-> k, val |-> v]

Present(k) == \E i \in DOMAIN queue : queue[i].key = k

Init == queue = <<>>

Replace(k, v) ==
    /\ Present(k)
    /\ queue' = [i \in DOMAIN queue |->
                   IF queue[i].key = k THEN Binding(k, v) ELSE queue[i]]

Insert(k, v) ==
    /\ ~ Present(k)
    /\ Len(queue) < Capacity
    /\ queue' = Append(queue, Binding(k, v))

InsertEvicting(k, v) ==
    /\ ~ Present(k)
    /\ Len(queue) = Capacity
    /\ queue' = Append(Tail(queue), Binding(k, v))

Drop(k) ==
    \E i \in DOMAIN queue :
        /\ queue[i].key = k
        /\ queue' = RemoveAt(queue, i)

Next ==
    \E k \in Keys :
        \/ Drop(k)
        \/ \E v \in Vals : Replace(k, v) \/ Insert(k, v) \/ InsertEvicting(k, v)

Spec == Init /\ [][Next]_queue
==============================================================================
