-------------------------------- MODULE Boards --------------------------------
(***************************************************************************)
(* What people see of the work orders (routes/workOrder.ts): the claim     *)
(* hall, a worker's own summary and the list with its filter for overdue   *)
(* orders.  They ask for orders by their status before they have any order *)
(* in hand, while orders of several versions of the flow are under way     *)
(* (getDefsAcrossAllVersions and its helpers in engine/workflowDef.ts):    *)
(* what is shown is a union over the versions in use, what is left out an  *)
(* intersection; the filter looks at the version of each row.              *)
(***************************************************************************)
EXTENDS WorkOrders

Rows == {o \in Order : Exists(o)}
DefAt(v) == Defs[IF v = 0 THEN live ELSE v]

(* A fault: the live definition stands for all.                              *)
LiveAlone == {0}
(* SELECT DISTINCT def_version, and always 0, the live one.                  *)
VersionsInUse == {0} \cup {order[o].dv : o \in Rows}

AllDefs == {DefAt(v) : v \in VersionsInUse}
UnionStates(sets) == UNION sets
IntersectStates(sets) == {s \in UNION sets : \A set \in sets : s \in set}

(* GET /open/claim-hall                                                      *)
Hall == {o \in Rows : order[o].status \in UnionStates({ClaimableStates(def) : def \in AllDefs})}

(* GET /open/me/summary: an order counts as done before it counts as active. *)
DoneSet == UnionStates({DoneStates(def) : def \in AllDefs})
ActiveSet ==
  (UnionStates({ActiveStates(def) : def \in AllDefs})
     \ IntersectStates({ClaimableStates(def) : def \in AllDefs})) \ DoneSet
Mine(w, states) == {o \in Rows : order[o].assignee = w /\ order[o].status \in states}
OnDuty(w) == Mine(w, ActiveSet)
DoneBy(w) == Mine(w, DoneSet)

(* What the filter for overdue orders leaves out of the rows of a version;   *)
(* nothing of a version that came up since the versions were asked for.      *)
LeftOut(o) ==
  IF order[o].dv \in VersionsInUse
  THEN DoneStates(DefAt(order[o].dv)) \cup TerminalStates(DefAt(order[o].dv)) ELSE {}
(* list of repo/ticket.ts; the filters on columns that no request changes    *)
(* are left out.                                                             *)
Selected(states, workers, overdue, late) ==
  {o \in Rows :
     /\ states # {} => order[o].status \in states
     /\ workers # {} => order[o].assignee \in workers
     /\ overdue => o \in late /\ order[o].status \notin LeftOut(o)}
(* GET /open/work_orders: who works on orders sees those of the own profiles *)
(* whatever is asked for, and everything without a profile.                  *)
MasterRoles == {"worker", "operator"}
Listed(role, mine, asked) ==
  Selected({}, IF role \in MasterRoles /\ mine # {} THEN mine ELSE asked, FALSE, {})
Overdue(late) == Selected({}, {}, TRUE, late)
----------------------------------------------------------------------------
(* Whatever was published since: an order that can be claimed under its own  *)
(* version is in the hall, one that its worker has finished counts as done,  *)
(* and one that the worker is busy with does not disappear from the summary  *)
(* or the list ("宁可多显示，绝不静默丢单").  Among late orders the list shows   *)
(* the ones that have not ended, no other ("既不漏 ... 也不多显示").            *)
NoOrderOutOfSight ==
  \A o \in Rows :
    LET own == PinnedDef(order[o])  w == order[o].assignee  at == order[o].status IN
    /\ at \in ClaimableStates(own) => o \in Hall
    /\ w # NoWorker /\ at \in DoneStates(own) => o \in DoneBy(w) \ OnDuty(w)
    /\ w # NoWorker /\ at \in ActiveStates(own) \ ClaimableStates(own)
       => o \in (OnDuty(w) \cup DoneBy(w)) \cap Listed("worker", {w}, {})
    /\ o \in Overdue(Rows) <=> at \notin DoneStates(own) \cup TerminalStates(own)
=============================================================================
