--------------------------- MODULE EnergyCollection ---------------------------
(***************************************************************************)
(* Collection tasks that an energy platform sends (routes/energyCollection *)
(* .ts).  It delivers a dispatch and the news that the form was submitted  *)
(* at least once each, in any order and any number of times at once.       *)
(***************************************************************************)
EXTENDS Naturals, FiniteSets

CONSTANTS
  Ref,            \* task_ref of the platform
  Row,            \* rows of business_flow_tasks
  EReq,           \* deliveries that are handled at a time
  OneDispatch     \* bound: whether a dispatch is handled with no other of the same ref

VARIABLES
  energy,     \* rows: the ref and the status
  ereq        \* deliveries under way

evars == <<energy, ereq>>

NoRow == [ref |-> "none", st |-> "none"]
Handled == [kind |-> "none", ref |-> "none", row |-> "none", st |-> "none"]
EnergyEdges ==
  { <<"created", "dispatch", "dispatched">>, <<"dispatched", "start", "in_progress">>,
    <<"dispatched", "submit", "submitted">>, <<"in_progress", "submit", "submitted">>,
    <<"submitted", "review", "reviewed">>, <<"reviewed", "archive", "archived">>,
    <<"created", "cancel", "cancelled">>, <<"dispatched", "cancel", "cancelled">>,
    <<"in_progress", "cancel", "cancelled">> }
EnergyStates == {e[1] : e \in EnergyEdges} \cup {e[3] : e \in EnergyEdges}

RowsOf(ref) == {x \in Row : energy[x].ref = ref}
EnergyInit ==
  /\ energy = [x \in Row |-> NoRow]
  /\ ereq = [r \in EReq |-> Handled]

(* POST /energy/webhook/dispatch: a task with this ref is answered again,    *)
(* otherwise one is created, and dispatched in the same transaction.  The    *)
(* look has no lock and the ref no unique index.                             *)
LookForDup(r, ref) ==
  /\ ereq[r] = Handled /\ RowsOf(ref) = {}
  /\ OneDispatch => \A q \in EReq : ereq[q].kind # "dispatch" \/ ereq[q].ref # ref
  /\ ereq' = [ereq EXCEPT ![r] = [Handled EXCEPT !.kind = "dispatch", !.ref = ref]]
  /\ UNCHANGED energy
CreateRow(r) ==
  /\ ereq[r].kind = "dispatch"
  /\ \E x \in Row : energy[x] = NoRow /\ energy' = [energy EXCEPT ![x] = [ref |-> ereq[r].ref, st |-> "dispatched"]]
  /\ ereq' = [ereq EXCEPT ![r] = Handled]

(* POST /energy/webhook/status-update: a task that is submitted is answered  *)
(* again; otherwise the event goes to the engine.                            *)
FindRow(r, ref) ==
  /\ ereq[r] = Handled
  /\ \E x \in RowsOf(ref) :
       /\ energy[x].st # "submitted"
       /\ ereq' = [ereq EXCEPT ![r] = [kind |-> "submit", ref |-> ref, row |-> x, st |-> energy[x].st]]
  /\ UNCHANGED energy
(* A fault: the status that was read before the lock.                        *)
SubmitFromRead(r) == {e \in EnergyEdges : e[1] = ereq[r].st /\ e[2] = "submit"}
(* transitionEntity reads the status again under its lock.                   *)
SubmitFrom(r) == {e \in EnergyEdges : e[1] = energy[ereq[r].row].st /\ e[2] = "submit"}
Submit(r) ==
  /\ ereq[r].kind = "submit"
  /\ \E e \in SubmitFrom(r) : energy' = [energy EXCEPT ![ereq[r].row].st = e[3]]
  /\ ereq' = [ereq EXCEPT ![r] = Handled]
(* 422: a late or repeated callback.                                         *)
RefuseSubmit(r) ==
  /\ ereq[r].kind = "submit" /\ SubmitFrom(r) = {}
  /\ ereq' = [ereq EXCEPT ![r] = Handled]
  /\ UNCHANGED energy

(* People move the task through the generic flow channel.                    *)
PersonMoves(x) ==
  /\ \E e \in EnergyEdges : e[1] = energy[x].st /\ energy' = [energy EXCEPT ![x].st = e[3]]
  /\ UNCHANGED ereq

EnergyNext ==
  \/ \E r \in EReq :
       \/ CreateRow(r) \/ Submit(r) \/ RefuseSubmit(r)
       \/ \E ref \in Ref : LookForDup(r, ref) \/ FindRow(r, ref)
  \/ \E x \in Row : PersonMoves(x)
EnergySpec == EnergyInit /\ [][EnergyNext]_evars
----------------------------------------------------------------------------
(* A callback that comes late, again or beside the people who work on the    *)
(* task never takes it back: it moves along the edges of its flow            *)
(* (the comment above StatusUpdateBody).                                     *)
NeverTakenBack ==
  [][\A x \in Row : energy[x] # NoRow /\ energy'[x] # energy[x] =>
       \E e \in EnergyEdges : energy[x].st = e[1] /\ energy'[x] = [energy[x] EXCEPT !.st = e[3]]]_energy

(* A dispatch that is delivered again creates no second task (the comment    *)
(* above POST /energy/webhook/dispatch).                                     *)
OneTaskPerRef == \A ref \in Ref : Cardinality(RowsOf(ref)) <= 1
=============================================================================
