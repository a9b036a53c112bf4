-------------------------------- MODULE Patrol --------------------------------
(***************************************************************************)
(* Patrols (routes/patrol.ts): a task has points that are checked in one   *)
(* by one; a task that is given up is missed, and a point that was missed  *)
(* twice raises an alert of level L2.  A request reads the task without a  *)
(* lock and writes it afterwards; the points missed are counted over what  *)
(* is committed by then.                                                   *)
(***************************************************************************)
EXTENDS Alerts

CONSTANTS Point, PTask, PReq

VARIABLES
  points,    \* patrol_point: points that exist
  ptask,     \* status, points and check-ins
  preq       \* requests under way

pvars == <<points, ptask, preq>>

NoPatrol == [st |-> "none", points |-> {}, seen |-> {}]
AtRest == [kind |-> "none", task |-> "none", seen |-> {}, st |-> "none"]
Closed == {"done", "missed"}

PatrolInit ==
  /\ points \in SUBSET Point
  /\ ptask = [t \in PTask |-> NoPatrol]
  /\ preq = [r \in PReq |-> AtRest]

(* POST and DELETE /points                                                   *)
AddPoint(p) == p \notin points /\ points' = points \cup {p} /\ UNCHANGED <<ptask, preq>>
DeletePoint(p) == p \in points /\ points' = points \ {p} /\ UNCHANGED <<ptask, preq>>
(* POST /tasks: the points are not looked up.                                *)
CreatePatrol(t, ps) ==
  /\ ptask[t] = NoPatrol /\ ps # {}
  /\ ptask' = [ptask EXCEPT ![t] = [st |-> "pending", points |-> ps, seen |-> {}]]
  /\ UNCHANGED <<points, preq>>

(* A fault: as many check-ins as points.                                     *)
AllSeenByNumber(t, seen) == Cardinality(seen) >= Cardinality(ptask[t].points)
AllSeen(t, seen) == ptask[t].points \subseteq seen

(* POST /tasks/:id/checkin, of any point: the check-ins as they were read    *)
(* and one more.                                                             *)
BeginCheckin(r, t, p) ==
  /\ preq[r] = AtRest /\ ptask[t] # NoPatrol /\ ptask[t].st \notin Closed /\ p \notin ptask[t].seen
  /\ LET seen == ptask[t].seen \cup {p}
     IN preq' = [preq EXCEPT ![r] = [kind |-> "checkin", task |-> t, seen |-> seen,
                                     st |-> IF AllSeen(t, seen) THEN "done" ELSE "in_progress"]]
  /\ UNCHANGED <<points, ptask>>
Checkin(r) ==
  /\ preq[r].kind = "checkin"
  /\ ptask' = [ptask EXCEPT ![preq[r].task] = [@ EXCEPT !.st = preq[r].st, !.seen = preq[r].seen]]
  /\ preq' = [preq EXCEPT ![r] = AtRest]
  /\ UNCHANGED points

(* POST /tasks/:id/miss up to its write.                                     *)
BeginMiss(r, t) ==
  /\ preq[r] = AtRest /\ ptask[t] # NoPatrol /\ ptask[t].st \notin Closed
  /\ preq' = [preq EXCEPT ![r] = [AtRest EXCEPT !.kind = "miss", !.task = t]]
  /\ UNCHANGED <<points, ptask>>
(* Tasks of which a point was missed.                                        *)
MissedBy(tasks, p) == {t \in PTask : tasks[t].st = "missed" /\ p \in tasks[t].points \ tasks[t].seen}
Anomalies(tasks) == {p \in points : Cardinality(MissedBy(tasks, p)) >= 2}
Miss(r) ==
  LET tasks == [ptask EXCEPT ![preq[r].task].st = "missed"]
  IN /\ preq[r].kind = "miss"
     /\ ptask' = tasks
     /\ preq' = [preq EXCEPT ![r] = AtRest]
     /\ Raise(Anomalies(tasks), "L2")
     /\ UNCHANGED <<points, library>>

PatrolMoves ==
  \/ \E p \in Point : AddPoint(p) \/ DeletePoint(p)
  \/ \E t \in PTask, ps \in SUBSET Point : CreatePatrol(t, ps)
  \/ \E r \in PReq :
       \/ Checkin(r)
       \/ \E t \in PTask : BeginMiss(r, t) \/ \E p \in Point : BeginCheckin(r, t, p)
PatrolStep == (PatrolMoves /\ UNCHANGED avars) \/ \E r \in PReq : Miss(r)
----------------------------------------------------------------------------
(* A patrol that is done has seen each of its points, also when check-ins of *)
(* it, or a check-in and a miss, overwrite each other.                       *)
DoneMeansAll == \A t \in PTask : ptask[t].st = "done" => ptask[t].points \subseteq ptask[t].seen
=============================================================================
