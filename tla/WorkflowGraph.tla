--------------------------- MODULE WorkflowGraph ---------------------------
(***************************************************************************)
(* The configurable work-order workflow (engine/stateMachine.ts and the    *)
(* edge injections next to it).  A definition is a record                  *)
(*    initial, states, transitions   the graph; transitions is a sequence  *)
(*                                   because the code takes the first edge *)
(*                                   that matches                          *)
(*    done, hold, learn              the optional lists of def.config; an  *)
(*                                   empty set is an absent list           *)
(*    route                          autoRoutes, a function on a set of    *)
(*                                   states                                *)
(* Everything the engine decides (who is on duty, what can be claimed,     *)
(* where the dispatcher sends an order) is derived from the definition, by *)
(* the operators below.                                                    *)
(***************************************************************************)
EXTENDS Naturals, Sequences, FiniteSets, SequencesExt

Edge(from, to, event) ==
  [from |-> from, to |-> to, event |-> event,
   roles |-> {}, perms |-> {}, req |-> {}, effects |-> {}]
Gated(e, roles, perms) == [e EXCEPT !.roles = roles, !.perms = perms]
Requires(e, fields)    == [e EXCEPT !.req = fields]
WithEffect(e, effect)  == [e EXCEPT !.effects = {effect}]

Edges(def) == ToSet(def.transitions)

(* Array.prototype.find over transitions: of the edges that match, the one   *)
(* that comes first, as a set that is empty when none matches.               *)
FirstEdge(def, matching) ==
  {def.transitions[i] :
     i \in {j \in DOMAIN def.transitions :
              /\ def.transitions[j] \in matching
              /\ \A k \in 1..(j - 1) : def.transitions[k] \notin matching}}

FirstTo(def, from, to)    == FirstEdge(def, {e \in Edges(def) : e.from = from /\ e.to = to})
FirstOn(def, from, event) == FirstEdge(def, {e \in Edges(def) : e.from = from /\ e.event = event})

WellFormed(def) ==
  /\ def.initial \in def.states
  /\ \A e \in Edges(def) : {e.from, e.to} \subseteq def.states

----------------------------------------------------------------------------
(* State classes derived from the graph.                                    *)

TerminalStates(def) == {s \in def.states : \A e \in Edges(def) : e.from # s}

DoneStates(def) ==
  IF def.done # {} THEN def.done ELSE TerminalStates(def) \ {"cancelled", "voided"}

HoldStates(def) ==
  def.states \cap
    (IF def.hold # {} THEN def.hold
     ELSE {"paused", "suspended"} \cup {e.to : e \in {x \in Edges(def) : "pause_sla" \in x.effects}})

ActiveStates(def) ==
  ((def.states \ DoneStates(def)) \ TerminalStates(def)) \ HoldStates(def)

ClaimableStates(def) ==
  {s \in def.states : \E e \in Edges(def) : e.from = s /\ e.event = "claim"}

EvaluatedStates(def) ==
  {s \in def.states : \E e \in Edges(def) : e.to = s /\ e.event = "satisfy"}

LearningTriggers(def) ==
  IF def.learn \cap def.states # {} THEN def.learn \cap def.states ELSE DoneStates(def)

(* isTransitionAllowed: role gate and permission gate, either opens the edge. *)
Allowed(e, role, permsOf) ==
  \/ e.roles = {} /\ e.perms = {}
  \/ role \in e.roles
  \/ permsOf[role] \cap e.perms # {}

(* The automatic reviewer (autoRules.ts): only approve and reject, never     *)
(* into a state that ends the order, never over an edge that needs a field.  *)
AutoEvents == {"approve", "reject"}
RedLine(def) == {"closed", "cancelled", "evaluated"} \cup TerminalStates(def)
AutoEdge(def, from, event) ==
  {e \in FirstOn(def, from, event) : e.to \notin RedLine(def) /\ e.req = {}}

(* resolveDispatchTarget: the declared route when an ordinary edge goes      *)
(* there, else the first ordinary edge that does not end the order.          *)
IsMechanism(e) == e.event = "enter_hall" \/ e.to = "claim_hall"
RouteTarget(def, from) ==
  IF from \in DOMAIN def.route /\ def.route[from] \in def.states
  THEN {to \in {def.route[from]} :
          \E e \in Edges(def) : e.from = from /\ e.to = to /\ ~IsMechanism(e)}
  ELSE {}
DispatchTarget(def, from) ==
  IF RouteTarget(def, from) # {} THEN RouteTarget(def, from)
  ELSE LET ended == DoneStates(def) \cup TerminalStates(def)
       IN  {e.to : e \in FirstEdge(def, {x \in Edges(def) : x.from = from /\ x.to \notin ended
                                                                 /\ ~IsMechanism(x)})}

----------------------------------------------------------------------------
(* The edges the engine adds to every definition it reads.                  *)

HasEdge(def, from, event) == \E x \in Edges(def) : x.from = from /\ x.event = event
AddEdge(def, e) ==
  IF HasEdge(def, e.from, e.event) THEN def
  ELSE [def EXCEPT !.transitions = Append(@, e), !.states = @ \cup {e.to}]
ClaimEdge    == Gated(Edge("claim_hall", "assigned", "claim"), {"worker", "admin"}, {})
DispatchEdge == Requires(Gated(Edge("claim_hall", "assigned", "dispatch"), {"admin"}, {"dispatch.override"}), {"assignee"})
CancelEdge   == Requires(Gated(Edge("claim_hall", "cancelled", "cancel"), {"admin"}, {"ticket.manage"}), {"cancel_reason"})

EnterHallEdge(def) == Edge(def.initial, "claim_hall", "enter_hall")

PendingClaimEdge ==
  Gated(Edge("pending_dispatch", "assigned", "claim"), {"worker", "admin"}, {})

KnowsHall(def) == [def EXCEPT !.states = @ \cup {"claim_hall"}]
LeavesHall(def) == AddEdge(AddEdge(AddEdge(KnowsHall(def), ClaimEdge), DispatchEdge), CancelEdge)
EntersHall(def) == AddEdge(LeavesHall(def), EnterHallEdge(def))
EnsureClaimHall(def) ==
  LET hall == EntersHall(def)
  IN  IF "pending_dispatch" \in hall.states THEN AddEdge(hall, PendingClaimEdge) ELSE hall

AcceptanceEdge(to, event) ==
  Gated(Edge("completed", to, event), {"admin", "operator", "reviewer"}, {"workflow.approve"})
PassEdge   == AcceptanceEdge("closed", "acceptance_pass")
RejectEdge == AcceptanceEdge("processing", "acceptance_reject")

EnsureAcceptance(def) == AddEdge(AddEdge(def, PassEdge), RejectEdge)
HasAcceptanceEdges(def) ==
  \A a \in {PassEdge, RejectEdge} : HasEdge(def, a.from, a.event)

AcceptanceFromStates(def) ==
  {e.from : e \in {x \in Edges(def) : x.event \in {"acceptance_pass", "acceptance_reject"}}}
AcceptanceTarget(def, event) == {e.to : e \in FirstEdge(def, {x \in Edges(def) : x.event = event})}
============================================================================
