------------------------------ MODULE Inspection ------------------------------
(***************************************************************************)
(* Inspection tasks (routes/inspection.ts): what is to be looked at, who   *)
(* does it, what was found, and the alert an exception raises.             *)
(*                                                                         *)
(* A transition reads the task without a lock and writes it afterwards; a  *)
(* claim holds the row.  A request with findings writes their rows, reads  *)
(* the snapshot of the items and writes it back; rows it has written are   *)
(* locked until it is done.                                                *)
(***************************************************************************)
EXTENDS Alerts

CONSTANTS
  ITask, Item, Inspector, Nobody, IReq,
  Found           \* what may be found at an item

ASSUME InspectionAssumption == Nobody \notin Inspector

VARIABLES
  catalog,    \* inspection items that exist
  itask,      \* status, assignee and snapshot of the items (items_json)
  record,     \* inspection_record: what was found at an item of a task
  ireq        \* requests under way

ivars == <<catalog, itask, record, ireq>>

Blank == "blank"
IEdge(f, e, t, roles) == [from |-> f, event |-> e, to |-> t, roles |-> roles]
InspectionDef ==
  LET all == {"desk", "worker"}
  IN { IEdge("pending", "claim", "pending", all), IEdge("pending", "checkin", "in_progress", all),
       IEdge("in_progress", "complete", "done", all), IEdge("in_progress", "exception", "exception", all),
       IEdge("pending", "cancel", "cancelled", {"desk"}), IEdge("in_progress", "cancel", "cancelled", {"desk"}) }
IStates == {"pending", "in_progress", "done", "exception", "cancelled"}

Absent == [st |-> "none", owner |-> Nobody, snap |-> <<>>]
Quiet == [kind |-> "none", task |-> "none", edge |-> IEdge("none", "none", "none", {}),
          finds |-> <<>>, snap |-> <<>>]
Exists(t) == itask[t].st # "none"
(* requireAssigneeOrConfig *)
MayWork(t, who) == who = "desk" \/ (itask[t].owner # Nobody /\ who = itask[t].owner)

(* seedItemsSnapshot: items that exist, nothing found yet.                   *)
Seeded(items) == [i \in items \cap catalog |-> Blank]
(* The findings written over the items of the snapshot; a finding about      *)
(* anything else is a record only.                                           *)
Over(snap, finds) == [i \in DOMAIN snap |-> IF i \in DOMAIN finds THEN finds[i] ELSE snap[i]]
(* Rows of records another request has written and not committed.            *)
RowsFree(r, t, finds) ==
  \A q \in IReq \ {r} : ireq[q].kind = "findings" /\ ireq[q].task = t => DOMAIN ireq[q].finds \cap DOMAIN finds = {}
----------------------------------------------------------------------------
InspectionInit ==
  /\ catalog = Item
  /\ itask = [t \in ITask |-> Absent]
  /\ record = [t \in ITask |-> [i \in Item |-> Blank]]
  /\ ireq = [r \in IReq |-> Quiet]

(* POST and DELETE /items: tasks keep their snapshots; an item that has      *)
(* records cannot be deleted (foreign key).                                  *)
AddItem(i) ==
  i \notin catalog /\ catalog' = catalog \cup {i} /\ UNCHANGED <<itask, record, ireq>>
DropItem(i) ==
  /\ i \in catalog /\ \A t \in ITask : record[t][i] = Blank
  /\ \A r \in IReq : ireq[r].kind = "findings" => i \notin DOMAIN ireq[r].finds
  /\ catalog' = catalog \ {i} /\ UNCHANGED <<itask, record, ireq>>

(* POST /tasks: assigned or not.                                             *)
CreateInspection(t, owner, items) ==
  /\ ~Exists(t)
  /\ itask' = [itask EXCEPT ![t] = [st |-> "pending", owner |-> owner, snap |-> Seeded(items)]]
  /\ UNCHANGED <<catalog, record, ireq>>
(* POST /generate: a batch, nobody assigned.                                 *)
GenerateTasks(items) ==
  /\ \A t \in ITask : ~Exists(t)
  /\ itask' = [t \in ITask |-> [st |-> "pending", owner |-> Nobody, snap |-> Seeded(items)]]
  /\ UNCHANGED <<catalog, record, ireq>>

(* As far as the read of transitionTask: POST /tasks/:id/checkin, /complete  *)
(* with its findings and /exception; and POST /tasks/:id/transition with any *)
(* event.  The roles of the edges are not looked at.                         *)
ReadTask(r, t, who, kind, e, finds) ==
  /\ ireq[r] = Quiet /\ Exists(t) /\ MayWork(t, who) /\ e.from = itask[t].st
  /\ ireq' = [ireq EXCEPT ![r] = [Quiet EXCEPT !.kind = kind, !.task = t, !.edge = e, !.finds = finds]]
  /\ UNCHANGED <<catalog, itask, record>>
BeginMove(r, t, who, e, finds) ==
  /\ e.event \in {"checkin", "complete", "exception"} /\ (finds # <<>> => e.event = "complete")
  /\ ReadTask(r, t, who, "move", e, finds)
BeginAnyEvent(r, t, who, e) == ReadTask(r, t, who, "transition", e, <<>>)

(* The rest: the status, the findings; an alert of level L1 is raised by     *)
(* /exception.                                                               *)
Move(r) ==
  LET t == ireq[r].task
      finds == ireq[r].finds
  IN /\ ireq[r].kind \in {"move", "transition"} /\ RowsFree(r, t, finds) /\ DOMAIN finds \subseteq catalog
     /\ itask' = [itask EXCEPT ![t].st = ireq[r].edge.to, ![t].snap = Over(@, finds)]
     /\ record' = [record EXCEPT ![t] = [i \in Item |-> IF i \in DOMAIN finds THEN finds[i] ELSE @[i]]]
     /\ Raise(IF ireq[r].kind = "move" /\ ireq[r].edge.event = "exception" THEN {t} ELSE {}, "L1")
     /\ ireq' = [ireq EXCEPT ![r] = Quiet]
     /\ UNCHANGED <<catalog, library>>

(* A fault: whether the task is free is not looked at under the lock.        *)
Anyones(t) == TRUE
Unclaimed(t) == itask[t].owner = Nobody
(* POST /tasks/:id/claim, under the lock of the row.                         *)
ClaimTask(t, w) ==
  /\ itask[t].st = "pending" /\ Unclaimed(t)
  /\ itask' = [itask EXCEPT ![t].owner = w]
  /\ UNCHANGED <<catalog, record, ireq>>

(* upsertRecords (POST /tasks/:id/records), at any status of the task: the   *)
(* rows of the records, and the snapshot as it is then.                      *)
BeginFindings(r, t, who, finds) ==
  /\ ireq[r] = Quiet /\ Exists(t) /\ MayWork(t, who) /\ finds # <<>>
  /\ RowsFree(r, t, finds) /\ DOMAIN finds \subseteq catalog
  /\ ireq' = [ireq EXCEPT ![r] = [Quiet EXCEPT !.kind = "findings", !.task = t, !.finds = finds,
                                                !.snap = itask[t].snap]]
  /\ UNCHANGED <<catalog, itask, record>>
Rewritten(r) == Over(ireq[r].snap, ireq[r].finds)
Findings(r) ==
  LET t == ireq[r].task
      finds == ireq[r].finds
  IN /\ ireq[r].kind = "findings"
     /\ record' = [record EXCEPT ![t] = [i \in Item |-> IF i \in DOMAIN finds THEN finds[i] ELSE @[i]]]
     /\ itask' = [itask EXCEPT ![t].snap = Rewritten(r)]
     /\ ireq' = [ireq EXCEPT ![r] = Quiet]
     /\ UNCHANGED <<catalog>>
(* A failed request (foreign key, deadlock) leaves nothing.                  *)
GiveUp(r) ==
  /\ ireq[r] # Quiet /\ ireq' = [ireq EXCEPT ![r] = Quiet] /\ UNCHANGED <<catalog, itask, record>>

MayFind == UNION {[items -> Found] : items \in SUBSET Item}
InspectionMoves ==
  \/ \E i \in Item : AddItem(i) \/ DropItem(i)
  \/ \E items \in SUBSET Item :
       GenerateTasks(items) \/ \E t \in ITask, owner \in Inspector \cup {Nobody} : CreateInspection(t, owner, items)
  \/ \E t \in ITask, w \in Inspector : ClaimTask(t, w)
  \/ \E r \in IReq :
       \/ Findings(r) \/ GiveUp(r)
       \/ \E t \in ITask, who \in Inspector \cup {"desk"}, finds \in MayFind :
            \/ BeginFindings(r, t, who, finds)
            \/ \E e \in InspectionDef : BeginMove(r, t, who, e, finds)
       \/ \E t \in ITask, who \in Inspector \cup {"desk"}, e \in InspectionDef : BeginAnyEvent(r, t, who, e)
InspectionStep == (InspectionMoves /\ UNCHANGED avars) \/ \E r \in IReq : Move(r)
----------------------------------------------------------------------------
(* What has been assigned or claimed stays with its worker, however many     *)
(* claim it at once and whatever else writes the task.                       *)
OwnerKept == [][\A t \in ITask : Exists(t) /\ itask[t].owner # Nobody => itask'[t].owner = itask[t].owner]_itask

(* An exception is never left without an alert (the comments of the alert    *)
(* centre and of POST /tasks/:id/exception).                                 *)
ExceptionAlerted == \A t \in ITask : itask[t].st = "exception" => \E a \in Alert : alert[a].source = t

(* The snapshot agrees with the records (the comment of upsertRecords).      *)
SnapshotMatches == \A t \in ITask : \A i \in DOMAIN itask[t].snap : itask[t].snap[i] = record[t][i]
=============================================================================
