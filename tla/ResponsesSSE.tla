----------------------------- MODULE ResponsesSSE -----------------------------
(***************************************************************************)
(* The event stream a Responses API client understands (README.md:383 and  *)
(* the sequences of docs/plans/RESPONSES_API_CLOSED_LOOP_PLAN.md).  A      *)
(* client assembles output items by their ids, whatever the event is; the  *)
(* protocol says which events it may get next.                             *)
(***************************************************************************)
EXTENDS Naturals, Sequences

CONSTANTS
    Fragments,    \* pieces of text, reasoning or tool arguments
    ItemIds,
    None

VARIABLE client   \* the response as assembled so far

ItemTypes == {"message", "reasoning", "function_call", "custom_tool_call"}
Statuses == {"in_progress", "completed", "incomplete", "failed"}
Parted == {"message", "reasoning"}     \* the types whose content is in a part

(* Events.  "part" and "content" events stand for those of a text part and *)
(* of a reasoning summary part, "content" and "delta" also for those of    *)
(* function call arguments.  An event may leave its index out (None).      *)
Created == [type |-> "created"]
InProgress == [type |-> "in_progress"]
ItemAdded(index, id, t) == [type |-> "item.added", index |-> index, id |-> id, item |-> t]
PartAdded(id, part) == [type |-> "part.added", id |-> id, part |-> part]
Delta(id, t, fragment) == [type |-> "delta", id |-> id, item |-> t, fragment |-> fragment]
ContentDone(id, content) == [type |-> "content.done", id |-> id, content |-> content]
PartDone(id, part) == [type |-> "part.done", id |-> id, part |-> part]
ItemDone(index, id, t, content) ==
    [type |-> "item.done", index |-> index, id |-> id, item |-> t, content |-> content]
Final(t, status, output) == [type |-> t, status |-> status, output |-> output]

FinalTypes == {"completed", "incomplete", "failed"}
OutputItems == [id : ItemIds, type : ItemTypes, status : Statuses, content : Seq(Fragments)]

Events ==
    [type : {"created", "in_progress"}]
        \cup [type : {"item.added"}, index : Nat \cup {None}, id : ItemIds, item : ItemTypes]
        \cup [type : {"item.done"}, index : Nat \cup {None}, id : ItemIds, item : ItemTypes,
              content : Seq(Fragments)]
        \cup [type : {"part.added", "part.done"}, id : ItemIds, part : Nat]
        \cup [type : {"delta"}, id : ItemIds, item : ItemTypes, fragment : Fragments]
        \cup [type : {"content.done"}, id : ItemIds, content : Seq(Fragments)]
        \cup [type : FinalTypes, status : Statuses, output : Seq(OutputItems)]

-----------------------------------------------------------------------------
(* What a client does with an event.                                       *)

NewClient == [phase |-> "idle", items |-> <<>>, status |-> None, output |-> <<>>,
              last |-> None]

Positions(c, id) == {i \in DOMAIN c.items : c.items[i].id = id}

(* An event is about the item added last under its id.                     *)
Position(c, id) == CHOOSE i \in Positions(c, id) : \A j \in Positions(c, id) : j <= i

Change(c, e, it) ==
    IF Positions(c, e.id) = {} THEN c ELSE [c EXCEPT !.items[Position(c, e.id)] = it]

Apply(c, e) ==
    LET seen == [c EXCEPT !.last = e]
        it == c.items[Position(c, e.id)]
    IN
    CASE e.type = "created" -> [seen EXCEPT !.phase = "created"]
      [] e.type = "in_progress" -> [seen EXCEPT !.phase = "streaming"]
      [] e.type = "item.added" ->
           [seen EXCEPT !.items = Append(@, [id |-> e.id, type |-> e.item, part |-> "none",
                                             content |-> <<>>, done |-> FALSE])]
      [] e.type = "part.added" -> Change(seen, e, [it EXCEPT !.part = "open"])
      [] e.type = "part.done" -> Change(seen, e, [it EXCEPT !.part = "done"])
      [] e.type = "delta" ->
           Change(seen, e, [it EXCEPT !.content = Append(@, e.fragment)])
      [] e.type = "item.done" ->
           Change(seen, e, [it EXCEPT !.done = TRUE, !.type = e.item])
      [] e.type \in FinalTypes ->
           [seen EXCEPT !.phase = e.type, !.status = e.status, !.output = e.output]
      [] OTHER -> seen

(* Which events it may get: items have ids of their own and are numbered in*)
(* order; what is said of an item comes between its item.added and its     *)
(* item.done, deltas within its part; what an event says is the content of *)
(* an item is what its deltas were; the last event comes when every item is*)
(* done, lists the same items, and agrees with the status of the response. *)
Legal(c, e) ==
    LET it == c.items[Position(c, e.id)]
        underway == c.phase = "streaming" /\ Positions(c, e.id) # {} /\ ~ it.done
    IN
    CASE e.type = "created" -> c.phase = "idle"
      [] e.type = "in_progress" -> c.phase = "created"
      [] e.type = "item.added" ->
           /\ c.phase = "streaming" /\ Positions(c, e.id) = {}
           /\ e.index \in {None, Len(c.items)}
      [] e.type = "part.added" -> underway /\ it.type \in Parted /\ it.part = "none" /\ e.part = 0
      [] e.type = "part.done" -> underway /\ it.part = "open" /\ e.part = 0
      [] e.type = "delta" ->
           underway /\ it.type = e.item /\ (it.type \in Parted => it.part = "open")
      [] e.type = "content.done" -> underway /\ e.content = it.content
      [] e.type = "item.done" ->
           /\ underway /\ it.part # "open"
           /\ e.index = Position(c, e.id) - 1 /\ e.item = it.type /\ e.content = it.content
      [] e.type = "failed" -> c.phase = "streaming" /\ e.status = "failed"
      [] OTHER ->
           /\ c.phase = "streaming" /\ e.status = e.type
           /\ Len(e.output) = Len(c.items)
           /\ \A i \in DOMAIN c.items :
                 /\ c.items[i].done
                 /\ e.output[i].id = c.items[i].id /\ e.output[i].type = c.items[i].type
                 /\ e.output[i].status = "completed"
                 /\ c.items[i].type = "message" => e.output[i].content = c.items[i].content

Init == client = NewClient

Accept(e) == e \in Events /\ Legal(client, e) /\ client' = Apply(client, e)

(* Some event is accepted; the client remembers which.                     *)
Next == Accept(client'.last)

Spec == Init /\ [][Next]_client
=============================================================================
