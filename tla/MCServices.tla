------------------------------ MODULE MCServices ------------------------------
(* The services beside the work orders, for TLC.  Most of them share no state *)
(* in the model: part says which an instance is about, so that their states   *)
(* add up.  Alerts go with the inspections that raise them and the repair     *)
(* orders that are made from both.                                            *)
EXTENDS Transport, BusinessFlow, Inspection, Patrol, LinkedOrders, Volunteer, EnergyCollection,
        SettlementNumber, TLC

CONSTANTS Parts, a1, x1, x2, y1, y2, r1, r2, w1, w2
VARIABLE part

FEdge(f, e, t, needs) == [from |-> f, event |-> e, to |-> t, needs |-> needs]
(* The engine's fallback, a tenant's first definition and its second, which  *)
(* starts elsewhere and asks for a field where an order may also come from   *)
(* another state.                                                            *)
MCFlowDef ==
  << [initial |-> "draft", states |-> {"draft", "assigned", "processing", "completed"}, edges |-> {}],
     [initial |-> "open", states |-> {"open", "doing", "done"},
      edges |-> {FEdge("open", "start", "doing", FALSE), FEdge("doing", "close", "done", TRUE),
                 FEdge("open", "close", "done", FALSE)}],
     [initial |-> "new", states |-> {"new", "doing", "done", "void"},
      edges |-> {FEdge("new", "start", "doing", FALSE), FEdge("doing", "close", "done", TRUE),
                 FEdge("new", "drop", "void", FALSE), FEdge("doing", "drop", "void", FALSE)}] >>

fieldVars == <<ivars, avars, pvars, lvars>>
desk == <<tvars, fvars, vvars, evars, numberVars>>

(* POST /tasks/:id/convert of an inspection exception and /alerts/:id/convert *)
Convertible(s) == IF s \in ITask THEN itask[s].st = "exception" ELSE alert[s] # NoAlert
Convert ==
  \/ \E r \in CReq, s \in Source, o \in Order : Convertible(s) /\ BeginConvert(r, s, o)
  \/ Converting

(* A bound: beside alerts and conversions, tasks without items and a request   *)
(* at a time.                                                                 *)
Simply ==
  /\ catalog' = catalog /\ \A t \in ITask : DOMAIN itask'[t].snap = {}
  /\ \A r \in IReq : ireq'[r] # Quiet => ireq'[r].finds = <<>> /\ \A q \in IReq \ {r} : ireq'[q] = Quiet

(* A bound: transitions overlap while there is one transport order; with more *)
(* of them, one transition is under way, beside what others do to its order.  *)
AboutOne ==
  \A r \in TReq : tmove'[r] # NoMove =>
    \A o \in TOrder \ {tmove'[r].id} :
      torder'[o] = torder[o] /\ (torder[o] = NoOrder \/ \A q \in TReq \ {r} : tmove'[q] = NoMove)

Init ==
  /\ TransportInit /\ FlowInit /\ AlertsInit /\ InspectionInit /\ PatrolInit /\ LinkedInit
  /\ VolunteerInit /\ EnergyInit /\ NumberInit /\ part \in Parts
  /\ library = Guide /\ points = Point /\ (part = "transport" \/ staff = [w \in Worker |-> TRUE])
Next ==
  /\ part' = part
  /\ \/ part = "transport" /\ TransportNext /\ AboutOne /\ UNCHANGED <<fvars, vvars, evars, numberVars, fieldVars>>
     \/ part = "flow" /\ FlowNext /\ UNCHANGED <<tvars, vvars, evars, numberVars, fieldVars>>
     \/ part = "volunteer" /\ VolunteerNext /\ UNCHANGED <<tvars, fvars, evars, numberVars, fieldVars>>
     \/ part = "energy" /\ EnergyNext /\ UNCHANGED <<tvars, fvars, vvars, numberVars, fieldVars>>
     \/ part = "number" /\ NumberNext /\ UNCHANGED <<tvars, fvars, vvars, evars, fieldVars>>
     \/ part = "inspection" /\ InspectionStep /\ UNCHANGED <<desk, pvars, lvars>>
     \/ part = "patrol" /\ PatrolStep /\ UNCHANGED <<desk, ivars, lvars>>
     \/ part = "alert" /\ AlertStep /\ UNCHANGED <<desk, ivars, pvars, lvars>>
     \/ part = "alert" /\ Convert /\ UNCHANGED <<desk, ivars, avars, pvars>>
     \/ part = "alert" /\ InspectionStep /\ Simply /\ UNCHANGED <<desk, pvars, lvars>>
Spec == Init /\ [][Next]_<<desk, fieldVars, part>>

Sym == Permutations({x1, x2}) \cup Permutations({y1, y2}) \cup Permutations({r1, r2}) \cup Permutations({w1, w2})
=============================================================================
