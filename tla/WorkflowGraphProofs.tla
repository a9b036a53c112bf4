-------------------------- MODULE WorkflowGraphProofs --------------------------
(***************************************************************************)
(* What the engine does to every flow it reads: it adds the edges of the   *)
(* claim hall and, where acceptance is enabled, those of acceptance.  The  *)
(* flow that comes out is shown in the editor, saved and read again, and   *)
(* rows that were written under it are counted under it.  What is proved   *)
(* is proved for every flow a tenant may save.                             *)
(***************************************************************************)
EXTENDS WorkflowGraph, TLAPS

(* Flows over a set of names that has those the engine writes.               *)
EngineNames ==
  {"claim_hall", "assigned", "cancelled", "pending_dispatch", "claim", "dispatch", "cancel", "enter_hall", "completed",
   "closed", "processing", "acceptance_pass", "acceptance_reject", "worker", "admin", "operator", "reviewer",
   "dispatch.override", "ticket.manage", "workflow.approve", "assignee", "cancel_reason"}
EdgeRecords(Name) ==
  [from : Name, to : Name, event : Name, roles : SUBSET Name, perms : SUBSET Name, req : SUBSET Name,
   effects : SUBSET Name]
Flows(Name) ==
  [initial : Name, states : SUBSET Name, transitions : Seq(EdgeRecords(Name)), done : SUBSET Name, hold : SUBSET Name,
   learn : SUBSET Name, route : UNION {[ss -> Name] : ss \in SUBSET Name}]

(* h is def with edges behind its own and states beside its own.             *)
Extended(h, def) ==
  /\ h.initial = def.initial /\ h.done = def.done /\ h.hold = def.hold /\ h.learn = def.learn /\ h.route = def.route
  /\ def.states \subseteq h.states
  /\ Len(def.transitions) <= Len(h.transitions)
  /\ \A i \in 1..Len(def.transitions) : h.transitions[i] = def.transitions[i]
----------------------------------------------------------------------------
(* One edge.                                                                 *)
LEMMA EdgesListed ==
  ASSUME NEW Name, NEW def \in Flows(Name)
  PROVE  /\ Edges(def) = {def.transitions[i] : i \in 1..Len(def.transitions)}
         /\ Edges(def) \subseteq EdgeRecords(Name)
         /\ def.transitions \in Seq(EdgeRecords(Name)) /\ Len(def.transitions) \in Nat
  BY DEF Edges, ToSet, Flows

LEMMA EdgeKept ==
  ASSUME NEW Name, NEW def \in Flows(Name), NEW h \in Flows(Name), Extended(h, def)
  PROVE  Edges(def) \subseteq Edges(h) /\ \A s, v : HasEdge(def, s, v) => HasEdge(h, s, v)
  <1>1. Edges(def) \subseteq Edges(h)
    BY EdgesListed DEF Extended
  <1> QED BY <1>1 DEF HasEdge

LEMMA ExtendedOn ==
  ASSUME NEW Name, NEW def \in Flows(Name), NEW g \in Flows(Name), NEW h \in Flows(Name), Extended(g, def), Extended(h, g)
  PROVE  Extended(h, def)
  <1>1. Len(def.transitions) \in Nat /\ Len(g.transitions) \in Nat /\ Len(h.transitions) \in Nat
    BY EdgesListed
  <1> QED BY <1>1 DEF Extended

LEMMA ExtendedSame == ASSUME NEW Name, NEW def \in Flows(Name) PROVE Extended(def, def)
  BY EdgesListed DEF Extended

LEMMA StatesSet ==
  ASSUME NEW Name, NEW def \in Flows(Name), NEW ss \in SUBSET Name
  PROVE  /\ [def EXCEPT !.states = ss] \in Flows(Name)
         /\ [def EXCEPT !.states = ss].states = ss /\ [def EXCEPT !.states = ss].transitions = def.transitions
         /\ [def EXCEPT !.states = ss].initial = def.initial /\ [def EXCEPT !.states = ss].done = def.done
         /\ [def EXCEPT !.states = ss].hold = def.hold /\ [def EXCEPT !.states = ss].learn = def.learn
         /\ [def EXCEPT !.states = ss].route = def.route
  BY DEF Flows

LEMMA TransitionsSet ==
  ASSUME NEW Name, NEW def \in Flows(Name), NEW ts \in Seq(EdgeRecords(Name))
  PROVE  /\ [def EXCEPT !.transitions = ts] \in Flows(Name)
         /\ [def EXCEPT !.transitions = ts].transitions = ts /\ [def EXCEPT !.transitions = ts].states = def.states
         /\ [def EXCEPT !.transitions = ts].initial = def.initial /\ [def EXCEPT !.transitions = ts].done = def.done
         /\ [def EXCEPT !.transitions = ts].hold = def.hold /\ [def EXCEPT !.transitions = ts].learn = def.learn
         /\ [def EXCEPT !.transitions = ts].route = def.route
  BY DEF Flows

(* An edge is added behind the others, with the state it leads to, unless    *)
(* there is one of its event already.                                        *)
LEMMA EdgeAdded ==
  ASSUME NEW Name, NEW def \in Flows(Name), NEW e \in EdgeRecords(Name)
  PROVE  /\ AddEdge(def, e) \in Flows(Name) /\ Extended(AddEdge(def, e), def)
         /\ HasEdge(AddEdge(def, e), e.from, e.event)
         /\ Edges(AddEdge(def, e)) \subseteq Edges(def) \cup {e}
         /\ WellFormed(def) /\ e.from \in def.states => WellFormed(AddEdge(def, e))
  <1>0. e.from \in Name /\ e.to \in Name
    BY DEF EdgeRecords
  <1>1. CASE HasEdge(def, e.from, e.event)
    BY <1>1, ExtendedSame DEF AddEdge
  <1>2. CASE ~HasEdge(def, e.from, e.event)
    <2> DEFINE ts == Append(def.transitions, e)
               ss == def.states \cup {e.to}
               mid == [def EXCEPT !.transitions = ts]
               new == [mid EXCEPT !.states = ss]
    <2>1. /\ ts \in Seq(EdgeRecords(Name)) /\ Len(ts) = Len(def.transitions) + 1
          /\ ts[Len(ts)] = e /\ \A i \in 1..Len(def.transitions) : ts[i] = def.transitions[i]
      BY EdgesListed
    <2>2. ss \in SUBSET Name /\ def.states \subseteq ss /\ e.to \in ss
      BY <1>0 DEF Flows
    <2>3. AddEdge(def, e) = new
      BY <1>2 DEF AddEdge, Flows
    <2> HIDE DEF ts, ss
    <2>4. /\ mid \in Flows(Name) /\ mid.transitions = ts /\ mid.initial = def.initial /\ mid.done = def.done
          /\ mid.hold = def.hold /\ mid.learn = def.learn /\ mid.route = def.route
      BY <2>1, TransitionsSet
    <2> HIDE DEF mid
    <2>5. /\ new \in Flows(Name) /\ new.transitions = ts /\ new.states = ss /\ new.initial = def.initial
          /\ new.done = def.done /\ new.hold = def.hold /\ new.learn = def.learn /\ new.route = def.route
      BY <2>2, <2>4, StatesSet
    <2> HIDE DEF new
    <2>6. Extended(new, def)
      BY <2>1, <2>2, <2>5, EdgesListed DEF Extended
    <2>7. Edges(new) = Edges(def) \cup {e}
      <3>1. Edges(new) = {ts[i] : i \in 1..Len(ts)} /\ Edges(def) = {def.transitions[i] : i \in 1..Len(def.transitions)}
        BY <2>5, EdgesListed
      <3>2. Len(def.transitions) \in Nat
        BY EdgesListed
      <3> QED BY <2>1, <3>1, <3>2
    <2>8. HasEdge(new, e.from, e.event)
      BY <2>7 DEF HasEdge
    <2>9. WellFormed(def) /\ e.from \in def.states => WellFormed(new)
      BY <2>2, <2>5, <2>7 DEF WellFormed
    <2> QED BY <2>3, <2>5, <2>6, <2>7, <2>8, <2>9
  <1> QED BY <1>1, <1>2

LEMMA EdgeThere ==
  ASSUME NEW Name, NEW def \in Flows(Name), NEW e \in EdgeRecords(Name), HasEdge(def, e.from, e.event)
  PROVE  AddEdge(def, e) = def
  BY DEF AddEdge

LEMMA GatedEdge ==
  ASSUME NEW from, NEW to, NEW event, NEW roles, NEW perms
  PROVE  Gated(Edge(from, to, event), roles, perms)
           = [from |-> from, to |-> to, event |-> event, roles |-> roles, perms |-> perms, req |-> {}, effects |-> {}]
  <1> DEFINE mid == [Edge(from, to, event) EXCEPT !.roles = roles]
  <1>1. mid = [from |-> from, to |-> to, event |-> event, roles |-> roles, perms |-> {}, req |-> {}, effects |-> {}]
    BY DEF Edge
  <1>2. Gated(Edge(from, to, event), roles, perms) = [mid EXCEPT !.perms = perms]
    BY DEF Gated, Edge
  <1> HIDE DEF mid
  <1> QED BY <1>1, <1>2

LEMMA HallEdges ==
  ASSUME NEW Name, EngineNames \subseteq Name
  PROVE
  /\ ClaimEdge \in EdgeRecords(Name) /\ ClaimEdge.from = "claim_hall" /\ ClaimEdge.event = "claim" /\ ClaimEdge.effects = {}
  /\ DispatchEdge \in EdgeRecords(Name) /\ DispatchEdge.from = "claim_hall" /\ DispatchEdge.event = "dispatch"
  /\ DispatchEdge.effects = {}
  /\ CancelEdge \in EdgeRecords(Name) /\ CancelEdge.from = "claim_hall" /\ CancelEdge.event = "cancel" /\ CancelEdge.effects = {}
  /\ PendingClaimEdge \in EdgeRecords(Name) /\ PendingClaimEdge.from = "pending_dispatch" /\ PendingClaimEdge.event = "claim"
  /\ PendingClaimEdge.effects = {}
  <1>1. /\ {"claim_hall", "assigned", "cancelled", "pending_dispatch", "claim", "dispatch", "cancel"} \subseteq Name
        /\ {"worker", "admin"} \subseteq Name /\ {"admin"} \subseteq Name /\ {} \subseteq Name
        /\ {"dispatch.override"} \subseteq Name /\ {"ticket.manage"} \subseteq Name
        /\ {"assignee"} \subseteq Name /\ {"cancel_reason"} \subseteq Name
    BY DEF EngineNames
  <1>2. ClaimEdge = [from |-> "claim_hall", to |-> "assigned", event |-> "claim", roles |-> {"worker", "admin"},
                     perms |-> {}, req |-> {}, effects |-> {}]
    BY GatedEdge DEF ClaimEdge
  <1>3. DispatchEdge = [from |-> "claim_hall", to |-> "assigned", event |-> "dispatch", roles |-> {"admin"},
                        perms |-> {"dispatch.override"}, req |-> {"assignee"}, effects |-> {}]
    <2> DEFINE gated == Gated(Edge("claim_hall", "assigned", "dispatch"), {"admin"}, {"dispatch.override"})
    <2>1. gated = [from |-> "claim_hall", to |-> "assigned", event |-> "dispatch", roles |-> {"admin"},
                   perms |-> {"dispatch.override"}, req |-> {}, effects |-> {}]
      BY GatedEdge
    <2> HIDE DEF gated
    <2>2. DispatchEdge = [gated EXCEPT !.req = {"assignee"}]
      BY DEF DispatchEdge, Requires, gated
    <2> QED BY <2>1, <2>2
  <1>4. CancelEdge = [from |-> "claim_hall", to |-> "cancelled", event |-> "cancel", roles |-> {"admin"},
                      perms |-> {"ticket.manage"}, req |-> {"cancel_reason"}, effects |-> {}]
    <2> DEFINE gated == Gated(Edge("claim_hall", "cancelled", "cancel"), {"admin"}, {"ticket.manage"})
    <2>1. gated = [from |-> "claim_hall", to |-> "cancelled", event |-> "cancel", roles |-> {"admin"},
                   perms |-> {"ticket.manage"}, req |-> {}, effects |-> {}]
      BY GatedEdge
    <2> HIDE DEF gated
    <2>2. CancelEdge = [gated EXCEPT !.req = {"cancel_reason"}]
      BY DEF CancelEdge, Requires, gated
    <2> QED BY <2>1, <2>2
  <1>5. PendingClaimEdge = [from |-> "pending_dispatch", to |-> "assigned", event |-> "claim", roles |-> {"worker", "admin"},
                            perms |-> {}, req |-> {}, effects |-> {}]
    BY GatedEdge DEF PendingClaimEdge
  <1> QED BY <1>1, <1>2, <1>3, <1>4, <1>5 DEF EdgeRecords

LEMMA EnterEdge ==
  ASSUME NEW Name, EngineNames \subseteq Name, NEW def \in Flows(Name)
  PROVE  /\ EnterHallEdge(def) \in EdgeRecords(Name) /\ EnterHallEdge(def).from = def.initial
         /\ EnterHallEdge(def).event = "enter_hall" /\ EnterHallEdge(def).effects = {}
  BY DEF EnterHallEdge, Edge, EdgeRecords, Flows, EngineNames
----------------------------------------------------------------------------
(* The claim hall.                                                           *)
HallStarts(def) == {"claim_hall", def.initial, "pending_dispatch"}

(* Knowing the state of the hall adds it and nothing else.                   *)
LEMMA HallKnown ==
  ASSUME NEW Name, EngineNames \subseteq Name, NEW def \in Flows(Name)
  PROVE  /\ KnowsHall(def) \in Flows(Name) /\ Extended(KnowsHall(def), def) /\ "claim_hall" \in KnowsHall(def).states
         /\ Edges(KnowsHall(def)) = Edges(def) /\ (WellFormed(def) => WellFormed(KnowsHall(def)))
         /\ "claim_hall" \in def.states => KnowsHall(def) = def
  <1> DEFINE ss == def.states \cup {"claim_hall"}
             new == [def EXCEPT !.states = ss]
  <1>1. ss \in SUBSET Name /\ def.states \subseteq ss /\ "claim_hall" \in ss
    BY DEF Flows, EngineNames
  <1>2. KnowsHall(def) = new
    BY DEF KnowsHall, Flows
  <1>3. "claim_hall" \in def.states => new = def
    <2>1. "claim_hall" \in def.states => ss = def.states
      OBVIOUS
    <2>2. [def EXCEPT !.states = def.states] = def
      BY DEF Flows
    <2> QED BY <2>1, <2>2
  <1> HIDE DEF ss
  <1>4. /\ new \in Flows(Name) /\ new.transitions = def.transitions /\ new.states = ss /\ new.initial = def.initial
        /\ new.done = def.done /\ new.hold = def.hold /\ new.learn = def.learn /\ new.route = def.route
    BY <1>1, StatesSet
  <1> HIDE DEF new
  <1>5. Extended(new, def)
    BY <1>1, <1>4, EdgesListed DEF Extended
  <1>6. Edges(new) = Edges(def)
    BY <1>4 DEF Edges
  <1>7. WellFormed(def) => WellFormed(new)
    BY <1>1, <1>4, <1>6 DEF WellFormed
  <1> QED BY <1>1, <1>2, <1>3, <1>4, <1>5, <1>6, <1>7

(* The hall with its three ways out.                                         *)
LEMMA HallLeft ==
  ASSUME NEW Name, EngineNames \subseteq Name, NEW def \in Flows(Name)
  PROVE  /\ LeavesHall(def) \in Flows(Name) /\ Extended(LeavesHall(def), def) /\ "claim_hall" \in LeavesHall(def).states
         /\ HasEdge(LeavesHall(def), "claim_hall", "claim") /\ HasEdge(LeavesHall(def), "claim_hall", "dispatch")
         /\ HasEdge(LeavesHall(def), "claim_hall", "cancel")
         /\ Edges(LeavesHall(def)) \subseteq Edges(def) \cup {ClaimEdge, DispatchEdge, CancelEdge}
         /\ WellFormed(def) => WellFormed(LeavesHall(def))
  <1> DEFINE g0 == KnowsHall(def)
             g1 == AddEdge(g0, ClaimEdge)
             g2 == AddEdge(g1, DispatchEdge)
             g3 == AddEdge(g2, CancelEdge)
  <1>1. /\ g0 \in Flows(Name) /\ Extended(g0, def) /\ "claim_hall" \in g0.states /\ Edges(g0) = Edges(def)
        /\ WellFormed(def) => WellFormed(g0)
    BY HallKnown
  <1>2. LeavesHall(def) = g3
    BY DEF LeavesHall
  <1> HIDE DEF g0
  <1>3. /\ g1 \in Flows(Name) /\ Extended(g1, g0) /\ HasEdge(g1, "claim_hall", "claim")
        /\ Edges(g1) \subseteq Edges(g0) \cup {ClaimEdge} /\ (WellFormed(g0) => WellFormed(g1))
    BY <1>1, HallEdges, EdgeAdded
  <1> HIDE DEF g1
  <1>4. "claim_hall" \in g1.states /\ Extended(g1, def)
    <2>1. "claim_hall" \in g1.states BY <1>1, <1>3 DEF Extended
    <2>2. Extended(g1, def) BY <1>1, <1>3, ExtendedOn
    <2> QED BY <2>1, <2>2
  <1>5. /\ g2 \in Flows(Name) /\ Extended(g2, g1) /\ HasEdge(g2, "claim_hall", "dispatch")
        /\ Edges(g2) \subseteq Edges(g1) \cup {DispatchEdge} /\ (WellFormed(g1) => WellFormed(g2))
    BY <1>3, <1>4, HallEdges, EdgeAdded
  <1> HIDE DEF g2
  <1>6. "claim_hall" \in g2.states /\ Extended(g2, def) /\ HasEdge(g2, "claim_hall", "claim")
    <2>1. "claim_hall" \in g2.states BY <1>4, <1>5 DEF Extended
    <2>2. Extended(g2, def) BY <1>3, <1>4, <1>5, ExtendedOn
    <2>3. HasEdge(g2, "claim_hall", "claim") BY <1>3, <1>5, EdgeKept
    <2> QED BY <2>1, <2>2, <2>3
  <1>7. /\ g3 \in Flows(Name) /\ Extended(g3, g2) /\ HasEdge(g3, "claim_hall", "cancel")
        /\ Edges(g3) \subseteq Edges(g2) \cup {CancelEdge} /\ (WellFormed(g2) => WellFormed(g3))
    BY <1>5, <1>6, HallEdges, EdgeAdded
  <1> HIDE DEF g3
  <1>8. "claim_hall" \in g3.states /\ Extended(g3, def)
    <2>1. "claim_hall" \in g3.states BY <1>6, <1>7 DEF Extended
    <2>2. Extended(g3, def) BY <1>5, <1>6, <1>7, ExtendedOn
    <2> QED BY <2>1, <2>2
  <1>9. HasEdge(g3, "claim_hall", "claim") /\ HasEdge(g3, "claim_hall", "dispatch")
    BY <1>5, <1>6, <1>7, EdgeKept
  <1>10. Edges(g3) \subseteq Edges(def) \cup {ClaimEdge, DispatchEdge, CancelEdge}
    BY <1>1, <1>3, <1>5, <1>7
  <1> QED BY <1>1, <1>2, <1>3, <1>5, <1>7, <1>8, <1>9, <1>10

(* What the hall adds to a flow, and that it takes nothing from it.          *)
LEMMA HallBuilt ==
  ASSUME NEW Name, EngineNames \subseteq Name, NEW def \in Flows(Name)
  PROVE  /\ EnsureClaimHall(def) \in Flows(Name) /\ Extended(EnsureClaimHall(def), def)
         /\ "claim_hall" \in EnsureClaimHall(def).states
         /\ HasEdge(EnsureClaimHall(def), "claim_hall", "claim") /\ HasEdge(EnsureClaimHall(def), "claim_hall", "dispatch")
         /\ HasEdge(EnsureClaimHall(def), "claim_hall", "cancel") /\ HasEdge(EnsureClaimHall(def), def.initial, "enter_hall")
         /\ "pending_dispatch" \in EnsureClaimHall(def).states => HasEdge(EnsureClaimHall(def), "pending_dispatch", "claim")
         /\ Edges(EnsureClaimHall(def)) \subseteq
              Edges(def) \cup {ClaimEdge, DispatchEdge, CancelEdge, EnterHallEdge(def), PendingClaimEdge}
         /\ WellFormed(def) => WellFormed(EnsureClaimHall(def))
  <1> DEFINE g3 == LeavesHall(def)
             g4 == AddEdge(g3, EnterHallEdge(def))
             g5 == AddEdge(g4, PendingClaimEdge)
             h == EnsureClaimHall(def)
  <1>1. /\ g3 \in Flows(Name) /\ Extended(g3, def) /\ "claim_hall" \in g3.states
        /\ HasEdge(g3, "claim_hall", "claim") /\ HasEdge(g3, "claim_hall", "dispatch") /\ HasEdge(g3, "claim_hall", "cancel")
        /\ Edges(g3) \subseteq Edges(def) \cup {ClaimEdge, DispatchEdge, CancelEdge}
        /\ WellFormed(def) => WellFormed(g3)
    BY HallLeft
  <1>2. h = IF "pending_dispatch" \in g4.states THEN g5 ELSE g4
    BY DEF EnsureClaimHall, EntersHall
  <1> HIDE DEF g3, h
  <1>3. /\ EnterHallEdge(def) \in EdgeRecords(Name) /\ EnterHallEdge(def).from = def.initial
        /\ EnterHallEdge(def).event = "enter_hall"
    BY EnterEdge
  <1>4. /\ g4 \in Flows(Name) /\ Extended(g4, g3) /\ HasEdge(g4, def.initial, "enter_hall")
        /\ Edges(g4) \subseteq Edges(g3) \cup {EnterHallEdge(def)}
        /\ (WellFormed(g3) /\ def.initial \in g3.states => WellFormed(g4))
    <2> DEFINE e == EnterHallEdge(def)
    <2> HIDE DEF e
    <2>1. e \in EdgeRecords(Name) /\ e.from = def.initial /\ e.event = "enter_hall" BY <1>3 DEF e
    <2>2. g4 = AddEdge(g3, e) BY DEF e
    <2> HIDE DEF g4
    <2>3. /\ g4 \in Flows(Name) /\ Extended(g4, g3) /\ HasEdge(g4, e.from, e.event)
          /\ Edges(g4) \subseteq Edges(g3) \cup {e} /\ (WellFormed(g3) /\ e.from \in g3.states => WellFormed(g4))
      BY <1>1, <2>1, <2>2, EdgeAdded
    <2> QED BY <2>1, <2>3 DEF e
  <1> HIDE DEF g4
  <1>5. Extended(g4, def) BY <1>1, <1>4, ExtendedOn
  <1>6. "claim_hall" \in g4.states BY <1>1, <1>4 DEF Extended
  <1>7. HasEdge(g4, "claim_hall", "claim") /\ HasEdge(g4, "claim_hall", "dispatch") /\ HasEdge(g4, "claim_hall", "cancel")
    BY <1>1, <1>4, EdgeKept
  <1>8. WellFormed(def) => WellFormed(g4)
    <2>1. WellFormed(def) => def.initial \in g3.states BY <1>1 DEF WellFormed, Extended
    <2> QED BY <1>1, <1>4, <2>1
  <1>9. CASE "pending_dispatch" \notin g4.states
    <2>1. h = g4 BY <1>2, <1>9
    <2> QED BY <1>1, <1>4, <1>5, <1>6, <1>7, <1>8, <1>9, <2>1 DEF h
  <1>10. CASE "pending_dispatch" \in g4.states
    <2>1. h = g5 BY <1>2, <1>10
    <2>2. /\ g5 \in Flows(Name) /\ Extended(g5, g4) /\ HasEdge(g5, "pending_dispatch", "claim")
          /\ Edges(g5) \subseteq Edges(g4) \cup {PendingClaimEdge} /\ (WellFormed(g4) => WellFormed(g5))
      BY <1>4, <1>10, HallEdges, EdgeAdded
    <2> HIDE DEF g5
    <2>3. Extended(g5, def) BY <1>4, <1>5, <2>2, ExtendedOn
    <2>4. "claim_hall" \in g5.states BY <1>6, <2>2 DEF Extended
    <2>5. HasEdge(g5, "claim_hall", "claim") /\ HasEdge(g5, "claim_hall", "dispatch") /\ HasEdge(g5, "claim_hall", "cancel")
          /\ HasEdge(g5, def.initial, "enter_hall")
      BY <1>4, <1>7, <2>2, EdgeKept
    <2>6. Edges(g5) \subseteq Edges(def) \cup {ClaimEdge, DispatchEdge, CancelEdge, EnterHallEdge(def), PendingClaimEdge}
      BY <1>1, <1>4, <2>2
    <2> QED BY <1>8, <2>1, <2>2, <2>3, <2>4, <2>5, <2>6 DEF h
  <1> QED BY <1>9, <1>10
----------------------------------------------------------------------------
(* The first edge of those that match is still the first when edges are      *)
(* added behind it.                                                          *)
LEMMA FirstKept ==
  ASSUME NEW Name, NEW def \in Flows(Name), NEW h \in Flows(Name), Extended(h, def),
         NEW here, NEW there, here \subseteq there, there \cap Edges(def) \subseteq here, FirstEdge(def, here) # {}
  PROVE  FirstEdge(h, there) = FirstEdge(def, here)
  <1> DEFINE d == def.transitions
             t == h.transitions
             n == Len(d)
             m == Len(t)
             Hits(ts, k, es) == {j \in 1..k : ts[j] \in es /\ \A q \in 1..(j - 1) : ts[q] \notin es}
  <1>1. n \in Nat /\ m \in Nat /\ n <= m /\ DOMAIN d = 1..n /\ DOMAIN t = 1..m
    BY EdgesListed DEF Extended
  <1>2. \A j \in 1..n : t[j] = d[j] /\ (d[j] \in here <=> t[j] \in there)
    BY EdgesListed DEF Extended
  <1>3. FirstEdge(def, here) = {d[j] : j \in Hits(d, n, here)} /\ FirstEdge(h, there) = {t[j] : j \in Hits(t, m, there)}
    BY <1>1 DEF FirstEdge
  <1> HIDE DEF n, m, d, t
  <1>4. PICK i \in Hits(d, n, here) : TRUE
    BY <1>3
  <1>5. i \in 1..n /\ d[i] \in here /\ \A q \in 1..(i - 1) : d[q] \notin here
    BY <1>4
  <1>6. Hits(d, n, here) = {i}
    <2>1. ASSUME NEW j \in Hits(d, n, here) PROVE j = i
      <3>1. j \in 1..n /\ d[j] \in here /\ \A q \in 1..(j - 1) : d[q] \notin here
        BY <2>1
      <3>2. ~(j < i) BY <1>1, <1>5, <3>1
      <3>3. ~(i < j) BY <1>1, <1>5, <3>1
      <3> QED BY <1>1, <1>5, <3>1, <3>2, <3>3
    <2> QED BY <1>4, <2>1
  <1>7. i \in 1..m /\ t[i] \in there /\ \A q \in 1..(i - 1) : t[q] \notin there
    BY <1>1, <1>2, <1>5
  <1>8. Hits(t, m, there) = {i}
    <2>1. i \in Hits(t, m, there) BY <1>7
    <2>2. ASSUME NEW j \in Hits(t, m, there) PROVE j = i
      <3>1. j \in 1..m /\ t[j] \in there /\ \A q \in 1..(j - 1) : t[q] \notin there
        BY <2>2
      <3>2. ~(j < i) BY <1>1, <1>7, <3>1
      <3>3. ~(i < j) BY <1>1, <1>7, <3>1
      <3> QED BY <1>1, <1>7, <3>1, <3>2, <3>3
    <2> QED BY <2>1, <2>2
  <1> HIDE DEF Hits
  <1>9. {d[j] : j \in {i}} = {t[j] : j \in {i}}
    BY <1>2, <1>5
  <1> QED BY <1>3, <1>6, <1>8, <1>9

(* claimHallEdges.ts: what finds an edge of the tenant's flow, by the state  *)
(* it leads to or by its event, finds the same edge after the injection: the *)
(* engine's own edges never come before a tenant's.                          *)
THEOREM HallKeepsFound ==
  ASSUME NEW Name, EngineNames \subseteq Name, NEW def \in Flows(Name), NEW s, NEW x
  PROVE  /\ FirstTo(def, s, x) # {} => FirstTo(EnsureClaimHall(def), s, x) = FirstTo(def, s, x)
         /\ FirstOn(def, s, x) # {} => FirstOn(EnsureClaimHall(def), s, x) = FirstOn(def, s, x)
  <1> DEFINE h == EnsureClaimHall(def)
             To(w) == {e \in Edges(w) : e.from = s /\ e.to = x}
             On(w) == {e \in Edges(w) : e.from = s /\ e.event = x}
  <1>1. h \in Flows(Name) /\ Extended(h, def)
    BY HallBuilt
  <1> HIDE DEF h
  <1>2. Edges(def) \subseteq Edges(h)
    BY <1>1, EdgeKept
  <1>3. To(def) \subseteq To(h) /\ To(h) \cap Edges(def) \subseteq To(def)
    BY <1>2
  <1>4. On(def) \subseteq On(h) /\ On(h) \cap Edges(def) \subseteq On(def)
    BY <1>2
  <1>5. /\ FirstTo(def, s, x) = FirstEdge(def, To(def)) /\ FirstTo(h, s, x) = FirstEdge(h, To(h))
        /\ FirstOn(def, s, x) = FirstEdge(def, On(def)) /\ FirstOn(h, s, x) = FirstEdge(h, On(h))
    BY DEF FirstTo, FirstOn
  <1> HIDE DEF To, On
  <1>6. FirstEdge(def, To(def)) # {} => FirstEdge(h, To(h)) = FirstEdge(def, To(def))
    BY <1>1, <1>3, FirstKept
  <1>7. FirstEdge(def, On(def)) # {} => FirstEdge(h, On(h)) = FirstEdge(def, On(def))
    BY <1>1, <1>4, FirstKept
  <1> QED BY <1>5, <1>6, <1>7 DEF h

(* claimHallEdges.ts:72: a flow that went through the injection comes out of *)
(* a second one unchanged.  Flows are injected when they are provisioned,    *)
(* when they are saved and each time they are read.                          *)
THEOREM HallIsIdempotent ==
  ASSUME NEW Name, EngineNames \subseteq Name, NEW def \in Flows(Name)
  PROVE  EnsureClaimHall(EnsureClaimHall(def)) = EnsureClaimHall(def)
  <1> DEFINE h == EnsureClaimHall(def)
  <1>1. /\ h \in Flows(Name) /\ h.initial = def.initial /\ "claim_hall" \in h.states
        /\ HasEdge(h, "claim_hall", "claim") /\ HasEdge(h, "claim_hall", "dispatch") /\ HasEdge(h, "claim_hall", "cancel")
        /\ HasEdge(h, def.initial, "enter_hall")
        /\ "pending_dispatch" \in h.states => HasEdge(h, "pending_dispatch", "claim")
    BY HallBuilt DEF Extended
  <1> HIDE DEF h
  <1>2. KnowsHall(h) = h
    BY <1>1, HallKnown
  <1>3. AddEdge(h, ClaimEdge) = h /\ AddEdge(h, DispatchEdge) = h /\ AddEdge(h, CancelEdge) = h
    BY <1>1, HallEdges, EdgeThere
  <1>4. LeavesHall(h) = h
    BY <1>2, <1>3 DEF LeavesHall
  <1>5. AddEdge(h, EnterHallEdge(h)) = h
    <2>1. EnterHallEdge(h).from = h.initial /\ EnterHallEdge(h).event = "enter_hall"
      BY <1>1, EnterEdge
    <2> QED BY <1>1, <2>1 DEF AddEdge
  <1>6. EntersHall(h) = h
    BY <1>4, <1>5 DEF EntersHall
  <1>7. "pending_dispatch" \in h.states => AddEdge(h, PendingClaimEdge) = h
    BY <1>1, HallEdges, EdgeThere
  <1>8. EnsureClaimHall(h) = h
    BY <1>6, <1>7 DEF EnsureClaimHall
  <1> QED BY <1>8 DEF h

(* claimHallEdges.ts:72-76: an order of any flow can wait in the hall and    *)
(* can be claimed, dispatched and cancelled there, the state the flow begins *)
(* in leads into the hall, and no edge of the flow leads out of its states.  *)
THEOREM HallServes ==
  ASSUME NEW Name, EngineNames \subseteq Name, NEW def \in Flows(Name)
  PROVE  /\ "claim_hall" \in EnsureClaimHall(def).states
         /\ \A v \in {"claim", "dispatch", "cancel"} : HasEdge(EnsureClaimHall(def), "claim_hall", v)
         /\ HasEdge(EnsureClaimHall(def), def.initial, "enter_hall")
         /\ WellFormed(def) => WellFormed(EnsureClaimHall(def))
  BY HallBuilt

(* What the new edges start from and that they pause nothing.                *)
LEMMA NewEdges ==
  ASSUME NEW Name, EngineNames \subseteq Name, NEW def \in Flows(Name),
         NEW e \in Edges(EnsureClaimHall(def)), e \notin Edges(def)
  PROVE  e.from \in HallStarts(def) /\ e.effects = {}
  <1>1. e \in {ClaimEdge, DispatchEdge, CancelEdge, EnterHallEdge(def), PendingClaimEdge}
    BY HallBuilt
  <1>2. /\ ClaimEdge.from \in HallStarts(def) /\ ClaimEdge.effects = {}
        /\ DispatchEdge.from \in HallStarts(def) /\ DispatchEdge.effects = {}
        /\ CancelEdge.from \in HallStarts(def) /\ CancelEdge.effects = {}
        /\ PendingClaimEdge.from \in HallStarts(def) /\ PendingClaimEdge.effects = {}
    BY HallEdges DEF HallStarts
  <1>3. EnterHallEdge(def).from \in HallStarts(def) /\ EnterHallEdge(def).effects = {}
    BY EnterEdge DEF HallStarts
  <1> QED BY <1>1, <1>2, <1>3

(* claimHallEdges.ts:75 and the classes stateMachine.ts derives from a flow: *)
(* a state of the tenant keeps its class.  The exception is a state that     *)
(* ended orders in the tenant's flow and that the injection gives a way out  *)
(* of; there is none in a flow whose orders leave the state they begin in.   *)
(* Work, load and results are counted by these classes, so an injection that *)
(* moved a state would recount rows written before it.                       *)
THEOREM HallLeavesClasses ==
  ASSUME NEW Name, EngineNames \subseteq Name, NEW def \in Flows(Name), NEW s \in def.states,
         s \notin TerminalStates(def) \/ s \notin HallStarts(def)
  PROVE  /\ s \in TerminalStates(EnsureClaimHall(def)) <=> s \in TerminalStates(def)
         /\ s \in DoneStates(EnsureClaimHall(def)) <=> s \in DoneStates(def)
         /\ s \in HoldStates(EnsureClaimHall(def)) <=> s \in HoldStates(def)
         /\ s \in ActiveStates(EnsureClaimHall(def)) <=> s \in ActiveStates(def)
  <1> DEFINE h == EnsureClaimHall(def)
             Paused(w) == {e.to : e \in {x \in Edges(w) : "pause_sla" \in x.effects}}
  <1>1. /\ h \in Flows(Name) /\ Extended(h, def)
        /\ \A e \in Edges(h) : e \notin Edges(def) => e.from \in HallStarts(def) /\ e.effects = {}
    BY HallBuilt, NewEdges
  <1> HIDE DEF h
  <1>2. s \in h.states /\ h.done = def.done /\ h.hold = def.hold
    BY <1>1 DEF Extended
  <1>3. Edges(def) \subseteq Edges(h)
    BY <1>1, EdgeKept
  <1>4. s \in TerminalStates(h) <=> s \in TerminalStates(def)
    BY <1>1, <1>2, <1>3 DEF TerminalStates
  <1>5. s \in DoneStates(h) <=> s \in DoneStates(def)
    BY <1>2, <1>4 DEF DoneStates
  <1>6. {x \in Edges(h) : "pause_sla" \in x.effects} = {x \in Edges(def) : "pause_sla" \in x.effects}
    BY <1>1, <1>3
  <1>7. Paused(h) = Paused(def)
    BY <1>6
  <1> HIDE DEF Paused
  <1>8. /\ HoldStates(h) = h.states \cap (IF h.hold # {} THEN h.hold ELSE {"paused", "suspended"} \cup Paused(h))
        /\ HoldStates(def) = def.states \cap (IF def.hold # {} THEN def.hold ELSE {"paused", "suspended"} \cup Paused(def))
    BY DEF HoldStates, Paused
  <1>9. s \in HoldStates(h) <=> s \in HoldStates(def)
    BY <1>2, <1>7, <1>8
  <1>10. s \in ActiveStates(h) <=> s \in ActiveStates(def)
    BY <1>2, <1>4, <1>5, <1>9 DEF ActiveStates
  <1> QED BY <1>4, <1>5, <1>9, <1>10 DEF h

(* claimHallEdges.ts:90-92: the state an injected edge leads to is added, a  *)
(* way out of it is not.  In a flow that has neither an assigned state nor   *)
(* an edge to claim an order in the hall, what a worker claims there is in a *)
(* state with no way on; a flow that lists no done states counts it as done  *)
(* from the moment it is claimed, and never as work in hand.                 *)
THEOREM HallMayStrand ==
  ASSUME NEW Name, EngineNames \subseteq Name, NEW def \in Flows(Name), WellFormed(def),
         "assigned" \notin def.states, ~HasEdge(def, "claim_hall", "claim")
  PROVE  /\ HasEdge(EnsureClaimHall(def), "claim_hall", "claim")
         /\ \A e \in Edges(EnsureClaimHall(def)) : e.from = "claim_hall" /\ e.event = "claim" => e.to = "assigned"
         /\ "assigned" \in TerminalStates(EnsureClaimHall(def))
         /\ "assigned" \notin ActiveStates(EnsureClaimHall(def))
         /\ def.done = {} => "assigned" \in DoneStates(EnsureClaimHall(def))
  <1> DEFINE h == EnsureClaimHall(def)
  <1>1. /\ h \in Flows(Name) /\ Extended(h, def) /\ HasEdge(h, "claim_hall", "claim") /\ WellFormed(h)
        /\ Edges(h) \subseteq Edges(def) \cup {ClaimEdge, DispatchEdge, CancelEdge, EnterHallEdge(def), PendingClaimEdge}
        /\ \A e \in Edges(h) : e \notin Edges(def) => e.from \in HallStarts(def) /\ e.effects = {}
    BY HallBuilt, NewEdges
  <1> HIDE DEF h
  <1>2. \A e \in Edges(h) : e.from = "claim_hall" /\ e.event = "claim" => e = ClaimEdge
    <2>1. \A e \in Edges(def) : ~(e.from = "claim_hall" /\ e.event = "claim")
      BY DEF HasEdge
    <2>2. DispatchEdge.event # "claim" /\ CancelEdge.event # "claim" /\ PendingClaimEdge.from # "claim_hall"
      BY HallEdges
    <2>3. EnterHallEdge(def).event # "claim"
      BY EnterEdge
    <2> QED BY <1>1, <2>1, <2>2, <2>3
  <1>3. ClaimEdge \in Edges(h) /\ ClaimEdge.from = "claim_hall" /\ ClaimEdge.event = "claim"
    BY <1>1, <1>2, HallEdges DEF HasEdge
  <1>4. ClaimEdge.to = "assigned"
    <2>1. ClaimEdge = [from |-> "claim_hall", to |-> "assigned", event |-> "claim", roles |-> {"worker", "admin"},
                       perms |-> {}, req |-> {}, effects |-> {}]
      BY GatedEdge DEF ClaimEdge
    <2> QED BY <2>1
  <1>5. "assigned" \in h.states
    BY <1>1, <1>3, <1>4 DEF WellFormed
  <1>6. \A e \in Edges(h) : e.from # "assigned"
    <2>1. \A e \in Edges(def) : e.from # "assigned"
      BY DEF WellFormed
    <2>2. "assigned" \notin HallStarts(def)
      BY DEF HallStarts, WellFormed
    <2> QED BY <1>1, <2>1, <2>2
  <1>7. "assigned" \in TerminalStates(h)
    BY <1>5, <1>6 DEF TerminalStates
  <1>8. "assigned" \notin ActiveStates(h)
    BY <1>7 DEF ActiveStates
  <1>9. def.done = {} => "assigned" \in DoneStates(h)
    BY <1>1, <1>7 DEF DoneStates, Extended
  <1> QED BY <1>1, <1>2, <1>4, <1>7, <1>8, <1>9 DEF h

(* The edges after the first one come behind it.                             *)
LEMMA ClaimComesFirst ==
  ASSUME NEW Name, EngineNames \subseteq Name, NEW def \in Flows(Name)
  PROVE  /\ AddEdge(KnowsHall(def), ClaimEdge) \in Flows(Name)
         /\ EnsureClaimHall(def) \in Flows(Name)
         /\ Extended(EnsureClaimHall(def), AddEdge(KnowsHall(def), ClaimEdge))
  <1> DEFINE g1 == AddEdge(KnowsHall(def), ClaimEdge)
             g2 == AddEdge(g1, DispatchEdge)
             g3 == AddEdge(g2, CancelEdge)
             g4 == AddEdge(g3, EnterHallEdge(def))
             g5 == AddEdge(g4, PendingClaimEdge)
  <1>1. EnsureClaimHall(def) = IF "pending_dispatch" \in g4.states THEN g5 ELSE g4
    BY DEF EnsureClaimHall, EntersHall, LeavesHall
  <1>2. g1 \in Flows(Name)
    BY HallKnown, HallEdges, EdgeAdded
  <1> HIDE DEF g1
  <1>3. g2 \in Flows(Name) /\ Extended(g2, g1)
    BY <1>2, HallEdges, EdgeAdded
  <1> HIDE DEF g2
  <1>4. g3 \in Flows(Name) /\ Extended(g3, g2)
    BY <1>3, HallEdges, EdgeAdded
  <1> HIDE DEF g3
  <1>5. g4 \in Flows(Name) /\ Extended(g4, g3)
    BY <1>4, EnterEdge, EdgeAdded
  <1> HIDE DEF g4
  <1>6. g5 \in Flows(Name) /\ Extended(g5, g4)
    BY <1>5, HallEdges, EdgeAdded
  <1> HIDE DEF g5
  <1>7. Extended(g3, g1)
    BY <1>2, <1>3, <1>4, ExtendedOn
  <1>8. Extended(g4, g1)
    BY <1>2, <1>4, <1>5, <1>7, ExtendedOn
  <1>9. Extended(g5, g1)
    BY <1>2, <1>5, <1>6, <1>8, ExtendedOn
  <1> QED BY <1>1, <1>2, <1>5, <1>6, <1>8, <1>9 DEF g1

(* ticket.ts:214 and claimHallEdges.ts:34-38: the engine looks a move up by  *)
(* the states it joins.  In every flow that gets the hall from the engine,   *)
(* the move from the hall to assigned is found to be the one for claiming,   *)
(* so nobody but a worker or an administrator can make it, whatever          *)
(* permissions the role has; the edge for dispatchers behind it is never     *)
(* found, and an order that waits there stays with those who may claim.      *)
THEOREM ClaimHidesDispatch ==
  ASSUME NEW Name, EngineNames \subseteq Name, NEW def \in Flows(Name), ~HasEdge(def, "claim_hall", "claim"),
         \A e \in Edges(def) : ~(e.from = "claim_hall" /\ e.to = "assigned")
  PROVE  /\ FirstTo(EnsureClaimHall(def), "claim_hall", "assigned") = {ClaimEdge}
         /\ \A role, permsOf : Allowed(ClaimEdge, role, permsOf) <=> role \in {"worker", "admin"}
  <1> DEFINE g0 == KnowsHall(def)
             g1 == AddEdge(g0, ClaimEdge)
             h == EnsureClaimHall(def)
             Across(w) == {e \in Edges(w) : e.from = "claim_hall" /\ e.to = "assigned"}
             ts == g0.transitions
             us == g1.transitions
             n == Len(ts)
  <1>1. g0 \in Flows(Name) /\ Edges(g0) = Edges(def)
    BY HallKnown
  <1>2. g1 \in Flows(Name) /\ h \in Flows(Name) /\ Extended(h, g1)
    BY ClaimComesFirst
  <1>3. ClaimEdge = [from |-> "claim_hall", to |-> "assigned", event |-> "claim", roles |-> {"worker", "admin"},
                     perms |-> {}, req |-> {}, effects |-> {}]
    BY GatedEdge DEF ClaimEdge
  <1>4. us = Append(ts, ClaimEdge) /\ Edges(g1) = Edges(g0) \cup {ClaimEdge}
    <2>1. ~HasEdge(g0, ClaimEdge.from, ClaimEdge.event)
      BY <1>1, <1>3 DEF HasEdge
    <2> DEFINE mid == [g0 EXCEPT !.transitions = Append(ts, ClaimEdge)]
    <2>2. Append(ts, ClaimEdge) \in Seq(EdgeRecords(Name))
      BY <1>1, HallEdges, EdgesListed
    <2>3. g1 = [mid EXCEPT !.states = g0.states \cup {ClaimEdge.to}]
      BY <1>1, <2>1 DEF AddEdge, Flows
    <2>4. mid \in Flows(Name) /\ mid.transitions = Append(ts, ClaimEdge)
      BY <1>1, <2>2, TransitionsSet
    <2> HIDE DEF mid
    <2>5. g0.states \cup {ClaimEdge.to} \in SUBSET Name
      BY <1>1, <1>3 DEF Flows, EngineNames
    <2>6. us = Append(ts, ClaimEdge)
      BY <2>3, <2>4, <2>5, StatesSet
    <2> HIDE DEF g1
    <2>7. ts \in Seq(EdgeRecords(Name)) /\ ClaimEdge \in EdgeRecords(Name)
      BY <1>1, EdgesListed, HallEdges
    <2>8. Edges(g1) = {us[i] : i \in 1..Len(us)} /\ Edges(g0) = {ts[i] : i \in 1..Len(ts)}
      BY <1>1, <1>2, EdgesListed
    <2>9. Len(us) = Len(ts) + 1 /\ us[Len(ts) + 1] = ClaimEdge /\ \A i \in 1..Len(ts) : us[i] = ts[i]
      BY <2>6, <2>7
    <2>10. Len(ts) \in Nat BY <2>7
    <2> HIDE DEF us, ts
    <2> QED BY <2>6, <2>8, <2>9, <2>10
  <1>5. Across(g1) = {ClaimEdge}
    BY <1>1, <1>3, <1>4
  <1>6. FirstEdge(g1, Across(g1)) = {ClaimEdge}
    <2>1. ts \in Seq(EdgeRecords(Name)) /\ n \in Nat
      BY <1>1, EdgesListed
    <2>2. DOMAIN us = 1..(n + 1) /\ us[n + 1] = ClaimEdge /\ \A i \in 1..n : us[i] = ts[i]
      BY <1>4, <2>1, HallEdges
    <2>3. \A i \in 1..n : ts[i] \in Edges(def)
      BY <1>1, EdgesListed
    <2>4. \A i \in 1..n : us[i] # ClaimEdge
      BY <1>3, <2>2, <2>3
    <2> HIDE DEF g1, us, n
    <2> DEFINE Hits == {j \in DOMAIN us : us[j] \in {ClaimEdge} /\ \A q \in 1..(j - 1) : us[q] \notin {ClaimEdge}}
    <2>5. Hits = {n + 1}
      BY <2>1, <2>2, <2>4
    <2>6. FirstEdge(g1, {ClaimEdge}) = {us[j] : j \in Hits}
      BY DEF FirstEdge, us
    <2> HIDE DEF Hits
    <2>7. {us[j] : j \in {n + 1}} = {ClaimEdge}
      BY <2>2
    <2>8. FirstEdge(g1, {ClaimEdge}) = {ClaimEdge}
      BY <2>5, <2>6, <2>7
    <2> QED BY <1>5, <2>8
  <1> HIDE DEF g0, g1, h
  <1>7. Across(g1) \subseteq Across(h)
    BY <1>2, EdgeKept
  <1>8. FirstEdge(h, Across(h)) = FirstEdge(g1, Across(g1))
    <2>1. Across(h) \cap Edges(g1) \subseteq Across(g1)
      OBVIOUS
    <2> HIDE DEF Across
    <2> QED BY <1>2, <1>6, <1>7, <2>1, FirstKept
  <1>9. FirstTo(h, "claim_hall", "assigned") = {ClaimEdge}
    BY <1>6, <1>8 DEF FirstTo
  <1>10. \A role, permsOf : Allowed(ClaimEdge, role, permsOf) <=> role \in {"worker", "admin"}
    BY <1>3 DEF Allowed
  <1> QED BY <1>9, <1>10 DEF h
----------------------------------------------------------------------------
(* Acceptance.                                                               *)
LEMMA AcceptanceEdges ==
  ASSUME NEW Name, EngineNames \subseteq Name
  PROVE  /\ PassEdge \in EdgeRecords(Name) /\ PassEdge.from = "completed" /\ PassEdge.event = "acceptance_pass"
         /\ RejectEdge \in EdgeRecords(Name) /\ RejectEdge.from = "completed" /\ RejectEdge.event = "acceptance_reject"
  <1>1. /\ {"completed", "closed", "processing", "acceptance_pass", "acceptance_reject"} \subseteq Name
        /\ {"admin", "operator", "reviewer"} \subseteq Name /\ {"workflow.approve"} \subseteq Name /\ {} \subseteq Name
    BY DEF EngineNames
  <1>2. PassEdge = [from |-> "completed", to |-> "closed", event |-> "acceptance_pass",
                    roles |-> {"admin", "operator", "reviewer"}, perms |-> {"workflow.approve"}, req |-> {}, effects |-> {}]
    BY GatedEdge DEF PassEdge, AcceptanceEdge
  <1>3. RejectEdge = [from |-> "completed", to |-> "processing", event |-> "acceptance_reject",
                      roles |-> {"admin", "operator", "reviewer"}, perms |-> {"workflow.approve"}, req |-> {}, effects |-> {}]
    BY GatedEdge DEF RejectEdge, AcceptanceEdge
  <1> QED BY <1>1, <1>2, <1>3 DEF EdgeRecords

(* acceptanceEdges.ts:42-45 and :64: the flow that acceptance was added to   *)
(* is found to have it, and adding it again changes nothing.                 *)
THEOREM AcceptanceIsIdempotent ==
  ASSUME NEW Name, EngineNames \subseteq Name, NEW def \in Flows(Name)
  PROVE  /\ HasAcceptanceEdges(EnsureAcceptance(def))
         /\ EnsureAcceptance(EnsureAcceptance(def)) = EnsureAcceptance(def)
         /\ Extended(EnsureAcceptance(def), def)
  <1> DEFINE g == AddEdge(def, PassEdge)
             h == AddEdge(g, RejectEdge)
  <1>1. EnsureAcceptance(def) = h
    BY DEF EnsureAcceptance
  <1>2. g \in Flows(Name) /\ Extended(g, def) /\ HasEdge(g, PassEdge.from, PassEdge.event)
    BY AcceptanceEdges, EdgeAdded
  <1> HIDE DEF g
  <1>3. h \in Flows(Name) /\ Extended(h, g) /\ HasEdge(h, RejectEdge.from, RejectEdge.event)
    BY <1>2, AcceptanceEdges, EdgeAdded
  <1> HIDE DEF h
  <1>4. HasEdge(h, PassEdge.from, PassEdge.event)
    BY <1>2, <1>3, EdgeKept
  <1>5. Extended(h, def)
    BY <1>2, <1>3, ExtendedOn
  <1>6. AddEdge(h, PassEdge) = h /\ AddEdge(h, RejectEdge) = h
    BY <1>3, <1>4, AcceptanceEdges, EdgeThere
  <1>7. EnsureAcceptance(h) = h
    BY <1>6 DEF EnsureAcceptance
  <1>8. HasAcceptanceEdges(h)
    BY <1>3, <1>4 DEF HasAcceptanceEdges
  <1> QED BY <1>1, <1>5, <1>7, <1>8
=============================================================================
