------------------------------- MODULE Transport -------------------------------
(***************************************************************************)
(* Transport orders (routes/transport.ts) and their second entrance, the   *)
(* generic flow channel (routes/flowAdapters/transportAdapter.ts), with    *)
(* the staff they are dispatched to (routes/worker.ts).                    *)
(*                                                                         *)
(* A transition reads the order without a lock and writes it afterwards:   *)
(* tmove[r] is what request r has read.  A claim holds the row.  The flow  *)
(* is the one that is shipped (TRANSPORT_DEF).                             *)
(***************************************************************************)
EXTENDS Naturals, FiniteSets

CONSTANTS
  Worker, NoWorker,
  TOrder,         \* transport orders that can be created
  TReq,           \* requests that can be under way
  MaxLoad,        \* bound of the counter of a worker
  MaxStale        \* bound of staleMoves

ASSUME TransportAssumption == NoWorker \notin Worker /\ MaxLoad \in Nat /\ MaxStale \in Nat

VARIABLES
  torder,   \* status and carrier of an order
  tload,    \* worker.load
  staff,    \* workers that exist, TRUE when on duty
  tmove,    \* transitions under way
  staleMoves \* history: transitions that wrote over what they had not read

tvars == <<torder, tload, staff, tmove, staleMoves>>

TEdge(f, e, t, roles) == [from |-> f, event |-> e, to |-> t, roles |-> roles]
Everyone == {"desk", "worker"}
TransportDef ==
  { TEdge("pending", "dispatch", "assigned", {"desk"}),
    TEdge("pending", "claim", "assigned", Everyone),
    TEdge("assigned", "receive", "transporting", Everyone),
    TEdge("transporting", "complete", "done", Everyone),
    TEdge("transporting", "exception", "exception", Everyone),
    TEdge("pending", "cancel", "cancelled", {"desk"}),
    TEdge("assigned", "cancel", "cancelled", {"desk"}),
    TEdge("transporting", "cancel", "cancelled", {"desk"}) }
TActive == {"pending", "assigned", "transporting"}

NoOrder == [st |-> "none", carrier |-> NoWorker]
NoMove == [order |-> NoOrder, id |-> "none", edge |-> TEdge("none", "none", "none", {}), carrier |-> NoWorker]

(* requireAssigneeOrConfig: a worker acts on his own orders only.            *)
Owns(who, carrier) == who = "desk" \/ (who # NoWorker /\ who = carrier)
RoleOf(who) == IF who = "desk" THEN "desk" ELSE "worker"
(* loadOwnedOrder *)
MayMove(o, who) == torder[o].st # "none" /\ Owns(who, torder[o].carrier)

(* A fault: the old carrier keeps his load.                                  *)
SettledUp(old, new) ==
  LET before == IF old.st \in TActive THEN old.carrier ELSE NoWorker
      after  == IF new.st \in TActive THEN new.carrier ELSE NoWorker
  IN [w \in Worker |-> IF w = after /\ before # after THEN tload[w] + 1 ELSE tload[w]]
(* The net settlement of worker.load: who carried the order while it was     *)
(* active and who does now; GREATEST(load - 1, 0).  A worker without a row   *)
(* keeps none.                                                               *)
Settled(old, new) ==
  LET before == IF old.st \in TActive THEN old.carrier ELSE NoWorker
      after  == IF new.st \in TActive THEN new.carrier ELSE NoWorker
  IN [w \in Worker |->
        IF before = after \/ w \notin DOMAIN staff THEN tload[w]
        ELSE IF w = before THEN (IF tload[w] = 0 THEN 0 ELSE tload[w] - 1)
        ELSE IF w = after THEN tload[w] + 1 ELSE tload[w]]

(* transitionOrder, from its UPDATE on: old is the row as it was read.       *)
WriteOrder(o, old, edge, carrier) ==
  LET new == [st |-> edge.to, carrier |-> IF carrier = NoWorker THEN torder[o].carrier ELSE carrier]
      counted == [new EXCEPT !.carrier = IF carrier = NoWorker THEN old.carrier ELSE carrier]
  IN /\ torder' = [torder EXCEPT ![o] = new]
     /\ tload' = Settled(old, counted)
     /\ \A w \in Worker : tload'[w] <= MaxLoad
----------------------------------------------------------------------------
TransportInit ==
  /\ torder = [o \in TOrder |-> NoOrder]
  /\ tload = [w \in Worker |-> 0]
  /\ staff \in [Worker -> BOOLEAN]
  /\ tmove = [r \in TReq |-> NoMove] /\ staleMoves = 0

(* POST and PUT /workers, /workers/with-account: hired, on and off duty.     *)
Employ(w) ==
  /\ w \notin DOMAIN staff
  /\ staff' = [x \in DOMAIN staff \cup {w} |-> IF x = w THEN TRUE ELSE staff[x]]
  /\ UNCHANGED <<torder, tload, tmove, staleMoves>>
SetDuty(w, on) ==
  /\ w \in DOMAIN staff /\ staff[w] # on
  /\ staff' = [staff EXCEPT ![w] = on]
  /\ UNCHANGED <<torder, tload, tmove, staleMoves>>
(* DELETE /workers/:id looks for work orders in flight, not for transport    *)
(* orders.                                                                   *)
Dismiss(w) ==
  /\ w \in DOMAIN staff
  /\ staff' = [x \in DOMAIN staff \ {w} |-> staff[x]]
  /\ tload' = [tload EXCEPT ![w] = 0]
  /\ UNCHANGED <<torder, tmove, staleMoves>>

(* pickWorker without required skills: on duty, least load.                  *)
Idlest ==
  LET onDuty == {w \in DOMAIN staff : staff[w]}
  IN {w \in onDuty : \A x \in onDuty : tload[w] <= tload[x]}

(* createOrder and autoDispatchTransportOrder: a named carrier is kept and   *)
(* not counted; otherwise the order goes to the idlest, or waits when nobody *)
(* is on duty.  Dispatch by the system skips the roles of the edge only.     *)
CreateCarried(o, w) ==
  /\ torder[o].st = "none"
  /\ torder' = [torder EXCEPT ![o] = [st |-> "pending", carrier |-> w]]
  /\ UNCHANGED <<tload, staff, tmove, staleMoves>>
CreateDispatched(o, w) ==
  /\ torder[o].st = "none" /\ w \in Idlest
  /\ \E e \in TransportDef :
       e.from = "pending" /\ e.event = "dispatch" /\ WriteOrder(o, [st |-> "pending", carrier |-> NoWorker], e, w)
  /\ UNCHANGED <<staff, tmove, staleMoves>>
CreateWaiting(o) ==
  /\ torder[o].st = "none" /\ Idlest = {}
  /\ torder' = [torder EXCEPT ![o] = [st |-> "pending", carrier |-> NoWorker]]
  /\ UNCHANGED <<tload, staff, tmove, staleMoves>>

(* POST /orders/:id/claim, under the lock of the row.                        *)
ClaimOrder(o, w) ==
  /\ torder[o].st = "pending" /\ torder[o].carrier = NoWorker /\ w \in DOMAIN staff
  /\ \E e \in TransportDef :
       e.from = "pending" /\ e.event = "claim" /\ "worker" \in e.roles /\ WriteOrder(o, torder[o], e, w)
  /\ UNCHANGED <<staff, tmove, staleMoves>>

(* transitionOrder up to its UPDATE: the edge and its roles.                 *)
ReadOrder(r, o, who, e, carrier) ==
  /\ tmove[r] = NoMove /\ MayMove(o, who)
  /\ e.from = torder[o].st /\ RoleOf(who) \in e.roles
  /\ tmove' = [tmove EXCEPT ![r] = [order |-> torder[o], id |-> o, edge |-> e, carrier |-> carrier]]
  /\ UNCHANGED <<torder, tload, staff, staleMoves>>

(* POST /orders/:id/transition names a carrier only for a dispatch, and may  *)
(* leave it out; the adapter of the flow channel takes one with any event    *)
(* and wants it where the flow does.                                         *)
BeginTransition(r, o, who, e, carrier) ==
  (carrier = NoWorker \/ e.event = "dispatch") /\ ReadOrder(r, o, who, e, carrier)
BeginFlowTransition(r, o, who, e, carrier) ==
  (e.event = "dispatch" => carrier # NoWorker) /\ ReadOrder(r, o, who, e, carrier)

(* The UPDATE does not ask whether the row is still what was read.           *)
Stale(r) == torder[tmove[r].id] # tmove[r].order
Finish(r) ==
  /\ tmove[r] # NoMove
  /\ staleMoves' = staleMoves + (IF Stale(r) THEN 1 ELSE 0) /\ staleMoves' <= MaxStale
  /\ WriteOrder(tmove[r].id, tmove[r].order, tmove[r].edge, tmove[r].carrier)
  /\ tmove' = [tmove EXCEPT ![r] = NoMove]
  /\ UNCHANGED staff

Moves ==
  \/ \E r \in TReq, o \in TOrder, who \in {"desk"} \cup DOMAIN staff, e \in TransportDef,
        carrier \in Worker \cup {NoWorker} :
       BeginTransition(r, o, who, e, carrier) \/ BeginFlowTransition(r, o, who, e, carrier)
  \/ \E r \in TReq : Finish(r)
TransportNext ==
  \/ \E w \in Worker : Employ(w) \/ Dismiss(w) \/ SetDuty(w, TRUE) \/ SetDuty(w, FALSE)
  \/ \E o \in TOrder, w \in Worker : CreateCarried(o, w) \/ CreateDispatched(o, w) \/ ClaimOrder(o, w)
  \/ \E o \in TOrder : CreateWaiting(o)
  \/ Moves
TransportSpec == TransportInit /\ [][TransportNext]_tvars
----------------------------------------------------------------------------
Carries(w) == {o \in TOrder : torder[o].carrier = w /\ torder[o].st \in TActive}

(* Whatever is created, claimed, dispatched, handed on, cancelled or         *)
(* finished, the net settlement thinks a worker busier than he is (least_load*)
(* would pass over somebody idle) only by transitions that wrote over what   *)
(* they had not read, and by one job for each of them.                       *)
NeverOvercounted == \A w \in Worker : tload[w] <= Cardinality(Carries(w)) + staleMoves

(* Nor idler: worker.load covers the jobs on a worker's hands (the comment   *)
(* above the settlement).                                                    *)
NeverUndercounted ==
  \A w \in DOMAIN staff : tload[w] >= Cardinality({o \in Carries(w) : torder[o].st # "pending"})
=============================================================================
