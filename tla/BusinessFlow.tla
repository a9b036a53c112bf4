----------------------------- MODULE BusinessFlow -----------------------------
(***************************************************************************)
(* Generic business flows (routes/businessFlow.ts): tasks of any kind that *)
(* run on the definition they were created under, moved by the transition  *)
(* primitive of the engine (engine/transition.ts), which locks the row.    *)
(* The route checks the required fields on a read it has made before.      *)
(***************************************************************************)
EXTENDS Naturals, Sequences

CONSTANTS
  Task, FReq,     \* tasks and requests
  FlowDef         \* the definitions in the order they are published, each
                  \* with its initial state, states and edges; the engine's
                  \* own fallback is the first and has version 0

ASSUME FlowAssumption ==
  Len(FlowDef) > 0 /\ \A n \in 1..Len(FlowDef) : FlowDef[n].initial \in FlowDef[n].states

VARIABLES
  flive,    \* version of the live definition
  task,     \* status and def_version
  freq      \* requests under way

fvars == <<flive, task, freq>>

NoTask == [st |-> "none", dv |-> 0]
NoRequest == [kind |-> "none", id |-> "none", event |-> "none", filled |-> FALSE, st |-> "none", dv |-> 0]

(* getWorkflowDefAtVersion: version 0 stands for the live definition.        *)
At(v) == IF v = 0 THEN FlowDef[flive + 1] ELSE FlowDef[v + 1]

(* applyEvent *)
Targets(def, st, event) == {e.to : e \in {x \in def.edges : x.from = st /\ x.event = event}}
(* assertRequiredFields *)
Complete(def, st, event, filled) ==
  \E e \in def.edges : e.from = st /\ e.event = event /\ (e.needs => filled)
----------------------------------------------------------------------------
FlowInit ==
  flive = 0 /\ task = [t \in Task |-> NoTask] /\ freq = [r \in FReq |-> NoRequest]

(* A new version is published (WorkflowVersions); all are kept.              *)
PublishFlow == flive + 1 < Len(FlowDef) /\ flive' = flive + 1 /\ UNCHANGED <<task, freq>>

(* POST /flow/:entityType: the version first, then the definition of that    *)
(* version for the initial state.                                            *)
BeginTask(r, t) ==
  /\ freq[r] = NoRequest /\ task[t] = NoTask /\ \A q \in FReq : freq[q].id # t
  /\ freq' = [freq EXCEPT ![r] = [NoRequest EXCEPT !.kind = "create", !.id = t, !.dv = flive]]
  /\ UNCHANGED <<flive, task>>
InitialAt(v) == At(v).initial
CreateTask(r) ==
  /\ freq[r].kind = "create"
  /\ task' = [task EXCEPT ![freq[r].id] = [st |-> InitialAt(freq[r].dv), dv |-> freq[r].dv]]
  /\ freq' = [freq EXCEPT ![r] = NoRequest]
  /\ UNCHANGED flive

(* POST /flow/:entityType/:id/transition up to transitionEntity.             *)
BeginEvent(r, t, event, filled) ==
  /\ freq[r] = NoRequest /\ task[t] # NoTask
  /\ Complete(At(task[t].dv), task[t].st, event, filled)
  /\ freq' = [freq EXCEPT ![r] = [kind |-> "move", id |-> t, event |-> event, filled |-> filled,
                                  st |-> task[t].st, dv |-> task[t].dv]]
  /\ UNCHANGED <<flive, task>>
(* Faults: the status that was read before the lock; the live definition.    *)
MoveFromRead(r) == Targets(At(freq[r].dv), freq[r].st, freq[r].event)
(* transitionEntity: status and version are read again under the lock.       *)
MoveTo(r) ==
  Targets(At(task[freq[r].id].dv), task[freq[r].id].st, freq[r].event)
TransitionEntity(r) ==
  /\ freq[r].kind = "move"
  /\ \E to \in MoveTo(r) : task' = [task EXCEPT ![freq[r].id].st = to]
  /\ freq' = [freq EXCEPT ![r] = NoRequest]
  /\ UNCHANGED flive
(* 422: no such event in the state the task has come to.                     *)
RefuseEvent(r) ==
  /\ freq[r].kind = "move" /\ MoveTo(r) = {}
  /\ freq' = [freq EXCEPT ![r] = NoRequest]
  /\ UNCHANGED <<flive, task>>

FlowEvents == UNION {{e.event : e \in FlowDef[n].edges} : n \in 1..Len(FlowDef)}
FlowNext ==
  \/ PublishFlow
  \/ \E r \in FReq :
       \/ CreateTask(r) \/ TransitionEntity(r) \/ RefuseEvent(r)
       \/ \E t \in Task : BeginTask(r, t) \/ \E ev \in FlowEvents, filled \in BOOLEAN : BeginEvent(r, t, ev, filled)
FlowSpec == FlowInit /\ [][FlowNext]_fvars
----------------------------------------------------------------------------
(* Whatever requests overlap, a task moves along one edge at a time of the   *)
(* definition it runs on; what is finished stays finished (FOR UPDATE in     *)
(* transitionEntity).                                                        *)
AlongEdges ==
  [][\A t \in Task : task[t] # NoTask /\ task'[t].st # task[t].st =>
       \E e \in At(task[t].dv).edges : e.from = task[t].st /\ e.to = task'[t].st]_fvars
=============================================================================
