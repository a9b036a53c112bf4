------------------------------ MODULE Escalation ------------------------------
(***************************************************************************)
(* Orders past their time (scheduler/slaScheduler.ts, engine/sla.ts, POST  *)
(* /sla/scan).  A scan reads and writes in one transaction without locking *)
(* what it read.  Statuses change by the workflows, which are not modelled *)
(* here; what goes out about an escalation is in Outgoing.                 *)
(***************************************************************************)
EXTENDS Naturals, FiniteSets

CONSTANTS
  Order,
  Version, Live,         \* versions of the flow, and the one that is live
  Status,
  Finished, OnHold,      \* statuses of a version that end an order, that suspend it
  Cron, Desk,            \* who scans: the scheduler, requests POST /sla/scan at a time
  Faults                 \* bound: transactions that fail, restarts

ASSUME EscalationAssumption ==
  /\ Cron \notin Desk /\ IsFiniteSet(Desk) /\ Live \in Version
  /\ Finished \in [Version -> SUBSET Status] /\ OnHold \in [Version -> SUBSET Status]

VARIABLES
  ord,          \* orders: their line, status, def_version, whether due is past, escalated_at, time in the hall is over
  events,       \* sla_escalated events of an order that are committed
  warned,       \* orders with an event claim_hall_timeout
  scan,         \* orders that the transaction of a scan has found
  faults

evars == <<ord, events, warned, scan, faults>>

Scanner == {Cron} \cup Desk
Hall    == "claim_hall"

(* deadStatesOf *)
Dead(v) == Finished[v] \cup OnHold[v]
(* getDefsAcrossAllVersions: the live version and those that orders of the   *)
(* line are on.                                                              *)
InUse(line) == {Live} \cup {ord[o].dv : o \in {x \in Order : ord[x].line = line}}
IntersectStates(sets) == {s \in Status : \A set \in sets : s \in set}
UnionStates(sets) == UNION sets

(* A fault: whether it has been escalated before is not looked at.           *)
PastDue(o) == ord[o].past
Pending(o) == ord[o].past /\ ~ord[o].escalated
IsWork(o) == ord[o].line = "work"

(* A fault: what only some versions call dead is left out beforehand.        *)
LeftOutBySome == UnionStates({Dead(v) : v \in InUse("transport")})
LeftOut == IntersectStates({Dead(v) : v \in InUse("transport")})
(* runTransportSlaScanForTenant: a first filter in the query, a second by    *)
(* the version that the order is on.                                         *)
TransportHits ==
  {o \in Order : ~IsWork(o) /\ Pending(o) /\ ord[o].st \notin LeftOut /\ ord[o].st \notin Dead(ord[o].dv)}
(* runSlaScanForTenant and slaScan: active in some version, and not finished *)
(* in all of them.                                                           *)
ActiveIn(v) == Status \ Dead(v)
WorkHits ==
  {o \in Order : /\ IsWork(o) /\ Pending(o)
                 /\ ord[o].st \notin IntersectStates({Finished[v] : v \in InUse("work")})
                 /\ ord[o].st \in UnionStates({ActiveIn(v) : v \in InUse("work")})}
----------------------------------------------------------------------------
EscalationInit ==
  /\ ord \in [Order -> [line : {"work", "transport"}, st : {"open"}, dv : Version, past : {FALSE}, escalated : {FALSE}, stale : {FALSE}]]
  /\ events = [o \in Order |-> 0] /\ warned = {}
  /\ scan = [s \in Scanner |-> {}]
  /\ faults = 0

Elapse(o) ==
  /\ ~ord[o].past /\ ord' = [ord EXCEPT ![o].past = TRUE]
  /\ UNCHANGED <<events, warned, scan, faults>>
(* CLAIM_HALL_TIMEOUT_MIN has gone by since the order came to the hall.      *)
ElapseInHall(o) ==
  /\ ord[o].st = Hall /\ ~ord[o].stale /\ ord' = [ord EXCEPT ![o].stale = TRUE]
  /\ UNCHANGED <<events, warned, scan, faults>>
Move(o, st) ==
  /\ st # ord[o].st /\ (st = Hall => IsWork(o))
  /\ ord' = [ord EXCEPT ![o].st = st, ![o].stale = FALSE]
  /\ UNCHANGED <<events, warned, scan, faults>>
(* Acceptance refused (services/acceptance.ts): the time starts again,       *)
(* escalated_at stays.                                                       *)
Rework(o) ==
  /\ IsWork(o) /\ ord[o].st \in Finished[ord[o].dv]
  /\ ord' = [ord EXCEPT ![o].st = "open", ![o].past = FALSE]
  /\ UNCHANGED <<events, warned, scan, faults>>

(* The scan's read.  The scheduler takes one line, then the other.           *)
Read(s, hits) ==
  /\ scan[s] = {} /\ hits # {}
  /\ scan' = [scan EXCEPT ![s] = hits]
  /\ UNCHANGED <<ord, events, warned, faults>>
(* UPDATE ... SET escalated_at and the event, for every hit.                 *)
Commit(s) ==
  /\ scan[s] # {}
  /\ ord' = [o \in Order |-> IF o \in scan[s] THEN [ord[o] EXCEPT !.escalated = TRUE] ELSE ord[o]]
  /\ events' = [o \in Order |-> events[o] + IF o \in scan[s] THEN 1 ELSE 0]
  /\ scan' = [scan EXCEPT ![s] = {}]
  /\ UNCHANGED <<warned, faults>>
(* The transaction fails, or the process goes down; ticks come again.        *)
Abort(s) ==
  /\ scan[s] # {} /\ faults < Faults /\ faults' = faults + 1
  /\ scan' = [scan EXCEPT ![s] = {}]
  /\ UNCHANGED <<ord, events, warned>>

(* runClaimHallTimeoutScanForTenant: once per order, for the staff.          *)
Waiting(o) == ord[o].st = Hall /\ ord[o].stale /\ o \notin warned
(* A fault: one warning silences the rest.                                   *)
FirstUnwarned == IF warned = {} THEN {o \in Order : Waiting(o)} ELSE {}
Unwarned == {o \in Order : Waiting(o)}
HallScan ==
  /\ scan[Cron] = {} /\ Unwarned # {}
  /\ warned' = warned \cup Unwarned
  /\ UNCHANGED <<ord, events, scan, faults>>

CronStep == Read(Cron, WorkHits) \/ Read(Cron, TransportHits) \/ Commit(Cron)
EscalationNext ==
  \/ \E o \in Order : Elapse(o) \/ ElapseInHall(o) \/ Rework(o) \/ \E st \in Status : Move(o, st)
  \/ CronStep \/ HallScan
  \/ \E d \in Desk : Read(d, WorkHits) \/ Commit(d)
  \/ \E s \in Scanner : Abort(s)

(* setInterval goes on ticking; within a tick every line gets its turn, and  *)
(* a transaction that has begun ends.                                        *)
EscalationFairness ==
  /\ WF_evars(Read(Cron, WorkHits)) /\ WF_evars(Read(Cron, TransportHits))
  /\ WF_evars(HallScan)
  /\ \A s \in Scanner : WF_evars(Commit(s))
EscalationSpec == EscalationInit /\ [][EscalationNext]_evars /\ EscalationFairness
----------------------------------------------------------------------------
(* An order that has been escalated is not escalated again (slaScan:         *)
(* "已升级过，不重复") by any scan that begins later, through moves, reworks,  *)
(* failed transactions and restarts.  Scans that overlap may each escalate   *)
(* it, as none locks what it has found: no order has more events than there  *)
(* are scans at a time.                                                      *)
NotEscalatedAgain == \A o \in Order : events[o] <= Cardinality(Scanner)

(* An order past its time that its own version calls active does not stay    *)
(* unescalated, whatever other versions call its status.                     *)
Overdue(o) == Pending(o) /\ ord[o].st \notin Dead(ord[o].dv)
NoneOverlooked == \A o \in Order : Overdue(o) ~> ~Overdue(o)

(* Nobody waits in the hall unnoticed for the first time.                    *)
HallNoticed == \A o \in Order : Waiting(o) ~> ~Waiting(o)
=============================================================================
