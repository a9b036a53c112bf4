----------------------------- MODULE ServicesProofs -----------------------------
(***************************************************************************)
(* Theorems about the services beside the main flow of work orders, each   *)
(* about one module and independent of the others: transport orders,       *)
(* volunteers, patrols, business flows, inspections, collection tasks,     *)
(* settlement numbers and linked orders.  The constants of each are        *)
(* anything the module's assumption admits.                                *)
(***************************************************************************)
EXTENDS Transport, BusinessFlow, Inspection, Patrol, LinkedOrders, Volunteer, EnergyCollection,
        SettlementNumber, FiniteSetTheorems, TLAPS
----------------------------------------------------------------------------
(* Transport orders.  A transition settles a load on what it has read, which *)
(* others may have changed: what it gets wrong is one job.                   *)
TStates == {"none", "pending", "assigned", "transporting", "done", "exception", "cancelled"}
TOrders == [st : TStates, carrier : Worker \cup {NoWorker}]
ActiveCarrier(row) == IF row.st \in TActive THEN row.carrier ELSE NoWorker
HasRead(m) ==
  /\ m.id \in TOrder /\ m.edge \in TransportDef /\ m.carrier \in Worker \cup {NoWorker}
  /\ m.order \in TOrders /\ m.order.st = m.edge.from
(* Nobody has more on his account than on his hands and by stale moves; who  *)
(* is not on the staff has nothing on it.                                    *)
Counted ==
  /\ tload \in [Worker -> Nat]
  /\ staleMoves \in Nat
  /\ \A w \in Worker : /\ IsFiniteSet(Carries(w)) /\ tload[w] <= Cardinality(Carries(w)) + staleMoves
                       /\ w \notin DOMAIN staff => tload[w] = 0
TransportInv ==
  /\ torder \in [TOrder -> TOrders]
  /\ DOMAIN staff \subseteq Worker
  /\ tmove = [r \in TReq |-> tmove[r]]
  /\ \A r \in TReq : tmove[r] # NoMove => HasRead(tmove[r])
  /\ Counted

LEMMA CarriesByActive ==
  ASSUME NEW w \in Worker PROVE Carries(w) = {o \in TOrder : ActiveCarrier(torder[o]) = w}
  BY TransportAssumption DEF Carries, ActiveCarrier, TransportAssumption

LEMMA EdgeStates ==
  \A e \in TransportDef : e.from \in TActive /\ e.from \in TStates /\ e.to \in TStates \ {"none"}
  BY DEF TransportDef, TEdge, TStates, TActive

(* The net settlement, of the row as it is: whoever gives up or takes on the *)
(* order is counted for it.                                                  *)
LEMMA SettlementCounts ==
  ASSUME Counted, NEW o \in TOrder, NEW new, torder = [x \in TOrder |-> torder[x]],
         torder' = [torder EXCEPT ![o] = new], UNCHANGED <<staff, staleMoves>>,
         NEW before, NEW after, before = ActiveCarrier(torder[o]), after = ActiveCarrier(new),
         tload' = [w \in Worker |->
                     IF before = after \/ w \notin DOMAIN staff THEN tload[w]
                     ELSE IF w = before THEN (IF tload[w] = 0 THEN 0 ELSE tload[w] - 1)
                     ELSE IF w = after THEN tload[w] + 1 ELSE tload[w]]
  PROVE  Counted'
  <1>1. tload' \in [Worker -> Nat] /\ \A w \in Worker : w \notin DOMAIN staff' => tload'[w] = 0
    BY DEF Counted
  <1>2. ASSUME NEW w \in Worker
        PROVE  IsFiniteSet(Carries(w)') /\ tload'[w] <= Cardinality(Carries(w)') + staleMoves
    <2> DEFINE C == Carries(w)
               D == Carries(w)'
    <2>1. C = {x \in TOrder : ActiveCarrier(torder[x]) = w} /\ D = {x \in TOrder : ActiveCarrier(torder'[x]) = w}
      BY CarriesByActive, TransportAssumption DEF Carries, ActiveCarrier, TransportAssumption
    <2>2. torder'[o] = new /\ \A x \in TOrder : x # o => torder'[x] = torder[x]
      OBVIOUS
    <2>3. /\ IsFiniteSet(C) /\ tload[w] <= Cardinality(C) + staleMoves
          /\ Cardinality(C) \in Nat /\ tload[w] \in Nat /\ staleMoves \in Nat
      BY FS_CardinalityType DEF Counted
    <2> HIDE DEF C, D
    <2>4. CASE before = after \/ (w # before /\ w # after)
      <3>1. D = C
        BY <2>1, <2>2, <2>4
      <3>2. tload'[w] = tload[w]
        BY <2>4
      <3> QED BY <2>3, <3>1, <3>2 DEF D
    <2>5. CASE before # after /\ w = before
      <3>1. o \in C /\ D = C \ {o}
        BY <2>1, <2>2, <2>5
      <3>2. IsFiniteSet(D) /\ Cardinality(D) = Cardinality(C) - 1 /\ Cardinality(D) \in Nat
        BY <2>3, <3>1, FS_RemoveElement, FS_CardinalityType
      <3>3. tload'[w] = IF w \notin DOMAIN staff \/ tload[w] = 0 THEN tload[w] ELSE tload[w] - 1
        BY <2>5
      <3>4. w \notin DOMAIN staff => tload[w] = 0
        BY DEF Counted
      <3> QED BY <2>3, <3>2, <3>3, <3>4 DEF D
    <2>6. CASE before # after /\ w = after
      <3>1. o \notin C /\ D = C \cup {o}
        BY <2>1, <2>2, <2>6
      <3>2. IsFiniteSet(D) /\ Cardinality(D) = Cardinality(C) + 1
        BY <2>3, <3>1, FS_AddElement
      <3>3. tload'[w] = IF w \notin DOMAIN staff THEN tload[w] ELSE tload[w] + 1
        BY <2>6
      <3> QED BY <2>3, <3>2, <3>3 DEF D
    <2> QED BY <2>4, <2>5, <2>6
  <1> QED BY <1>1, <1>2 DEF Counted

(* The same of a row that is not as it was read: who takes the order on gets *)
(* it whatever it was, and who gives it up loses one job at most.            *)
LEMMA StaleSettlementCounts ==
  ASSUME Counted, NEW o \in TOrder, NEW new, torder = [x \in TOrder |-> torder[x]],
         torder' = [torder EXCEPT ![o] = new], staff' = staff, staleMoves' = staleMoves + 1,
         NEW before, NEW after, after # before => after = ActiveCarrier(new) \/ after = NoWorker,
         tload' = [w \in Worker |->
                     IF before = after \/ w \notin DOMAIN staff THEN tload[w]
                     ELSE IF w = before THEN (IF tload[w] = 0 THEN 0 ELSE tload[w] - 1)
                     ELSE IF w = after THEN tload[w] + 1 ELSE tload[w]]
  PROVE  Counted'
  <1>1. /\ tload' \in [Worker -> Nat] /\ \A w \in Worker : w \notin DOMAIN staff' => tload'[w] = 0
        /\ staleMoves \in Nat /\ staleMoves' \in Nat
    BY DEF Counted
  <1>2. ASSUME NEW w \in Worker
        PROVE  IsFiniteSet(Carries(w)') /\ tload'[w] <= Cardinality(Carries(w)') + staleMoves'
    <2> DEFINE C == Carries(w)
               D == Carries(w)'
    <2>1. C = {x \in TOrder : ActiveCarrier(torder[x]) = w} /\ D = {x \in TOrder : ActiveCarrier(torder'[x]) = w}
      BY CarriesByActive, TransportAssumption DEF Carries, ActiveCarrier, TransportAssumption
    <2>2. torder'[o] = new /\ \A x \in TOrder : x # o => torder'[x] = torder[x]
      OBVIOUS
    <2>3. /\ IsFiniteSet(C) /\ tload[w] <= Cardinality(C) + staleMoves
          /\ Cardinality(C) \in Nat /\ tload[w] \in Nat
      BY FS_CardinalityType DEF Counted
    <2> HIDE DEF C, D
    <2>4. C \ {o} \subseteq D /\ D \subseteq C \cup {o}
      BY <2>1, <2>2
    <2>5. IsFiniteSet(D) /\ Cardinality(D) \in Nat
      <3>1. IsFiniteSet(C \cup {o})
        BY <2>3, FS_AddElement
      <3> QED BY <2>4, <3>1, FS_Subset, FS_CardinalityType
    <2>6. Cardinality(C) <= Cardinality(D) + 1
      <3>1. IsFiniteSet(D \cup {o}) /\ C \subseteq D \cup {o}
        BY <2>4, <2>5, FS_AddElement
      <3>2. Cardinality(D \cup {o}) = Cardinality(D) \/ Cardinality(D \cup {o}) = Cardinality(D) + 1
        BY <2>5, FS_AddElement
      <3>3. Cardinality(C) <= Cardinality(D \cup {o})
        BY <3>1, FS_Subset
      <3> QED BY <2>3, <2>5, <3>2, <3>3
    <2>7. CASE before # after /\ w = after
      <3>1. o \in D
        BY <2>1, <2>2, <2>7, TransportAssumption DEF TransportAssumption
      <3>2. C \subseteq D
        BY <2>4, <3>1
      <3>3. Cardinality(C) <= Cardinality(D)
        BY <2>5, <3>2, FS_Subset
      <3>4. tload'[w] <= tload[w] + 1
        BY <2>3, <2>7
      <3>5. tload'[w] \in Nat
        BY <1>1
      <3> QED BY <1>1, <2>3, <2>5, <3>3, <3>4, <3>5 DEF D
    <2>8. CASE before = after \/ w # after
      <3>1. tload'[w] <= tload[w]
        BY <2>3, <2>8
      <3>2. tload'[w] \in Nat
        BY <1>1
      <3> QED BY <1>1, <2>3, <2>5, <2>6, <3>1, <3>2 DEF D
    <2> QED BY <2>7, <2>8
  <1> QED BY <1>1, <1>2 DEF Counted

(* transitionOrder: the row is new, as it was read, or stale.                *)
LEMMA WriteCounts ==
  ASSUME TransportInv, NEW o \in TOrder, NEW old \in TOrders, NEW e \in TransportDef,
         NEW carrier \in Worker \cup {NoWorker}, old.st = e.from,
         WriteOrder(o, old, e, carrier), staff' = staff,
         \/ old = torder[o] /\ staleMoves' = staleMoves
         \/ torder[o].st = "none" /\ old = [st |-> "pending", carrier |-> NoWorker] /\ carrier # NoWorker
            /\ staleMoves' = staleMoves
         \/ staleMoves' = staleMoves + 1
  PROVE  Counted' /\ torder' \in [TOrder -> TOrders]
  <1> DEFINE new == [st |-> e.to, carrier |-> IF carrier = NoWorker THEN torder[o].carrier ELSE carrier]
             counted == [new EXCEPT !.carrier = IF carrier = NoWorker THEN old.carrier ELSE carrier]
             before == IF old.st \in TActive THEN old.carrier ELSE NoWorker
             after == IF counted.st \in TActive THEN counted.carrier ELSE NoWorker
  <1>1. /\ torder' = [torder EXCEPT ![o] = new]
        /\ tload' = [w \in Worker |->
                       IF before = after \/ w \notin DOMAIN staff THEN tload[w]
                       ELSE IF w = before THEN (IF tload[w] = 0 THEN 0 ELSE tload[w] - 1)
                       ELSE IF w = after THEN tload[w] + 1 ELSE tload[w]]
    BY DEF WriteOrder, Settled
  <1>2. torder[o] \in TOrders
    BY DEF TransportInv
  <1>3. new \in TOrders
    BY <1>2, EdgeStates DEF TOrders
  <1>4. torder = [x \in TOrder |-> torder[x]] /\ Counted
    BY DEF TransportInv
  <1>5. torder' \in [TOrder -> TOrders]
    BY <1>1, <1>3 DEF TransportInv
  <1>6. counted.st = e.to /\ counted.carrier = IF carrier = NoWorker THEN old.carrier ELSE carrier
    OBVIOUS
  <1>7. CASE staleMoves' = staleMoves + 1
    <2>1. ASSUME after # before PROVE after = ActiveCarrier(new) \/ after = NoWorker
      <3>1. CASE e.to \notin TActive
        BY <1>6, <3>1
      <3>2. CASE e.to \in TActive /\ carrier = NoWorker
        <4>1. before = old.carrier /\ after = old.carrier
          BY <1>6, <3>2, EdgeStates
        <4> QED BY <4>1, <2>1
      <3>3. CASE e.to \in TActive /\ carrier # NoWorker
        BY <1>6, <3>3 DEF ActiveCarrier
      <3> QED BY <3>1, <3>2, <3>3
    <2> HIDE DEF new, counted, before, after
    <2> QED BY <1>1, <1>4, <1>5, <1>7, <2>1, StaleSettlementCounts
  <1>8. CASE /\ staleMoves' = staleMoves
             /\ \/ old = torder[o]
                \/ torder[o].st = "none" /\ old = [st |-> "pending", carrier |-> NoWorker] /\ carrier # NoWorker
    <2>1. counted = new
      BY <1>2, <1>8 DEF TOrders
    <2>2. before = ActiveCarrier(torder[o])
      BY <1>8 DEF ActiveCarrier, TActive
    <2>3. after = ActiveCarrier(new)
      BY <2>1 DEF ActiveCarrier
    <2> HIDE DEF new, counted, before, after
    <2> QED BY <1>1, <1>4, <1>5, <1>8, <2>2, <2>3, SettlementCounts
  <1> QED BY <1>7, <1>8

(* What was read before stays read.                                          *)
LEMMA MovesStay ==
  ASSUME Counted', torder' \in [TOrder -> TOrders], UNCHANGED <<staff, tmove>>, TransportInv
  PROVE  TransportInv'
  BY DEF TransportInv, HasRead

LEMMA StaffKeeps ==
  ASSUME TransportInv, NEW w \in Worker, Employ(w) \/ Dismiss(w) \/ SetDuty(w, TRUE) \/ SetDuty(w, FALSE)
  PROVE  TransportInv'
  <1>1. UNCHANGED <<torder, tmove, staleMoves>>
    BY DEF Employ, Dismiss, SetDuty
  <1>2. DOMAIN staff' \subseteq Worker /\ tload' \in [Worker -> Nat]
        /\ \A x \in Worker : tload'[x] <= tload[x] /\ (x \notin DOMAIN staff' => tload'[x] = 0)
    <2>1. /\ DOMAIN staff \subseteq Worker /\ tload \in [Worker -> Nat]
          /\ \A x \in Worker : x \notin DOMAIN staff => tload[x] = 0
      BY DEF TransportInv, Counted
    <2>2. CASE Employ(w)
      BY <2>1, <2>2 DEF Employ
    <2>3. CASE Dismiss(w)
      BY <2>1, <2>3 DEF Dismiss
    <2>4. CASE SetDuty(w, TRUE) \/ SetDuty(w, FALSE)
      <3>1. DOMAIN staff' = DOMAIN staff /\ tload' = tload
        BY <2>4 DEF SetDuty
      <3> QED BY <2>1, <3>1
    <2> QED BY <2>2, <2>3, <2>4
  <1>3. /\ \A x \in Worker : /\ IsFiniteSet(Carries(x)) /\ Cardinality(Carries(x)) \in Nat
                              /\ tload[x] <= Cardinality(Carries(x)) + staleMoves
        /\ staleMoves \in Nat
    BY FS_CardinalityType DEF TransportInv, Counted
  <1>4. \A x \in Worker : Carries(x)' = Carries(x)
    BY <1>1 DEF Carries
  <1>5. \A x \in Worker : tload'[x] <= Cardinality(Carries(x)) + staleMoves
    BY <1>2, <1>3 DEF TransportInv, Counted
  <1>6. Counted'
    BY <1>1, <1>2, <1>3, <1>4, <1>5 DEF Counted
  <1> QED BY <1>1, <1>2, <1>6 DEF TransportInv, HasRead

LEMMA CreateKeeps ==
  ASSUME TransportInv, NEW o \in TOrder, NEW w \in Worker,
         CreateCarried(o, w) \/ CreateDispatched(o, w) \/ ClaimOrder(o, w)
  PROVE  TransportInv'
  <1>1. UNCHANGED <<staff, tmove, staleMoves>>
    BY DEF CreateCarried, CreateDispatched, ClaimOrder
  <1>2. CASE CreateCarried(o, w)
    <2> DEFINE new == [st |-> "pending", carrier |-> w]
    <2>1. torder' = [torder EXCEPT ![o] = new] /\ UNCHANGED <<tload, staff, staleMoves>> /\ torder[o].st = "none"
      BY <1>2 DEF CreateCarried
    <2>2. torder' \in [TOrder -> TOrders]
      BY <2>1 DEF TransportInv, TOrders, TStates
    <2>3. ASSUME NEW x \in Worker
          PROVE  IsFiniteSet(Carries(x)') /\ tload[x] <= Cardinality(Carries(x)') + staleMoves
      <3> DEFINE C == Carries(x)
                 D == Carries(x)'
      <3>1. o \notin C /\ (D = C \/ D = C \cup {o})
        BY <2>1 DEF Carries, TActive, TransportInv
      <3>2. /\ IsFiniteSet(C) /\ tload[x] <= Cardinality(C) + staleMoves
            /\ Cardinality(C) \in Nat /\ tload[x] \in Nat /\ staleMoves \in Nat
        BY FS_CardinalityType DEF TransportInv, Counted
      <3> HIDE DEF C, D
      <3>3. IsFiniteSet(D) /\ tload[x] <= Cardinality(D) + staleMoves
        <4>1. CASE D = C
          BY <3>2, <4>1
        <4>2. CASE D = C \cup {o}
          <5>1. IsFiniteSet(D) /\ Cardinality(D) = Cardinality(C) + 1
            BY <3>1, <3>2, <4>2, FS_AddElement
          <5> QED BY <3>2, <5>1
        <4> QED BY <3>1, <4>1, <4>2
      <3> QED BY <3>3 DEF D
    <2>4. Counted'
      BY <2>1, <2>3 DEF Counted, TransportInv
    <2> QED BY <1>1, <2>2, <2>4, MovesStay
  <1>3. CASE CreateDispatched(o, w)
    <2>1. PICK e \in TransportDef : e.from = "pending" /\ WriteOrder(o, [st |-> "pending", carrier |-> NoWorker], e, w)
      BY <1>3 DEF CreateDispatched
    <2>2. w # NoWorker /\ [st |-> "pending", carrier |-> NoWorker] \in TOrders
      BY TransportAssumption DEF TransportAssumption, TOrders, TStates
    <2>3. torder[o].st = "none" /\ e.from = "pending"
      BY <1>3, <2>1 DEF CreateDispatched
    <2> QED BY <1>1, <2>1, <2>2, <2>3, WriteCounts, MovesStay
  <1>4. CASE ClaimOrder(o, w)
    <2>1. PICK e \in TransportDef : e.from = "pending" /\ WriteOrder(o, torder[o], e, w)
      BY <1>4 DEF ClaimOrder
    <2>2. torder[o].st = e.from /\ torder[o] \in TOrders
      BY <1>4, <2>1 DEF ClaimOrder, TransportInv
    <2> QED BY <1>1, <2>1, <2>2, WriteCounts, MovesStay
  <1> QED BY <1>2, <1>3, <1>4

LEMMA WaitKeeps == ASSUME TransportInv, NEW o \in TOrder, CreateWaiting(o) PROVE TransportInv'
  <1>1. /\ UNCHANGED <<staff, tmove, tload, staleMoves>>
        /\ torder' = [torder EXCEPT ![o] = [st |-> "pending", carrier |-> NoWorker]] /\ torder[o].st = "none"
    BY DEF CreateWaiting
  <1>2. torder' \in [TOrder -> TOrders]
    BY <1>1 DEF TransportInv, TOrders, TStates
  <1>3. \A w \in Worker : Carries(w)' = Carries(w)
    BY <1>1, TransportAssumption DEF Carries, TActive, TransportInv, TransportAssumption
  <1>4. Counted'
    BY <1>1, <1>3 DEF Counted, TransportInv
  <1> QED BY <1>1, <1>2, <1>4, MovesStay

LEMMA ReadKeepsOrder ==
  ASSUME TransportInv, NEW r \in TReq, NEW o \in TOrder, NEW who, NEW e \in TransportDef,
         NEW carrier \in Worker \cup {NoWorker}, ReadOrder(r, o, who, e, carrier)
  PROVE  TransportInv'
  <1> DEFINE m == [order |-> torder[o], id |-> o, edge |-> e, carrier |-> carrier]
  <1>1. tmove' = [tmove EXCEPT ![r] = m] /\ UNCHANGED <<torder, tload, staff, staleMoves>> /\ e.from = torder[o].st
    BY DEF ReadOrder
  <1>2. HasRead(m)
    BY <1>1 DEF HasRead, TransportInv
  <1>3. Counted'
    BY <1>1 DEF Counted, Carries, TransportInv
  <1> HIDE DEF m
  <1>4. tmove' = [q \in TReq |-> tmove'[q]] /\ tmove'[r] = m /\ \A q \in TReq : q # r => tmove'[q] = tmove[q]
    BY <1>1 DEF TransportInv
  <1> QED BY <1>1, <1>2, <1>3, <1>4 DEF TransportInv, HasRead

LEMMA FinishKeeps == ASSUME TransportInv, NEW r \in TReq, Finish(r) PROVE TransportInv'
  <1> DEFINE m == tmove[r]
  <1>1. /\ HasRead(m) /\ WriteOrder(m.id, m.order, m.edge, m.carrier) /\ staff' = staff
        /\ staleMoves' = staleMoves + IF torder[m.id] # m.order THEN 1 ELSE 0
    BY DEF TransportInv, Finish, Stale
  <1>2. tmove' = [q \in TReq |-> IF q = r THEN NoMove ELSE tmove[q]]
    BY DEF Finish, TransportInv
  <1>3. (m.order = torder[m.id] /\ staleMoves' = staleMoves) \/ staleMoves' = staleMoves + 1
    BY <1>1 DEF TransportInv, Counted
  <1> HIDE DEF m
  <1>4. Counted' /\ torder' \in [TOrder -> TOrders]
    BY <1>1, <1>3, WriteCounts DEF HasRead
  <1> QED BY <1>1, <1>2, <1>4 DEF TransportInv, HasRead

(* NeverOvercounted: whatever is created, claimed, dispatched, handed on,    *)
(* cancelled or finished, and whoever is hired, dismissed or off duty        *)
(* meanwhile, by any number of requests that overlap, a worker is thought    *)
(* busier than he is by no more jobs than there were transitions that wrote  *)
(* over what they had not read (transitionOrder of routes/transport.ts).     *)
THEOREM LoadNotOvercounted == TransportSpec => []NeverOvercounted
  <1>1. TransportInit => TransportInv
    <2> SUFFICES ASSUME TransportInit PROVE TransportInv
      OBVIOUS
    <2>1. \A w \in Worker : Carries(w) = {}
      BY DEF TransportInit, Carries, NoOrder, TActive
    <2>2. Counted
      BY <2>1, FS_EmptySet DEF TransportInit, Counted
    <2> QED BY <2>2 DEF TransportInit, TransportInv, TOrders, TStates, NoOrder
  <1>2. TransportInv /\ [TransportNext]_tvars => TransportInv'
    <2> SUFFICES ASSUME TransportInv, [TransportNext]_tvars PROVE TransportInv'
      OBVIOUS
    <2>1. CASE UNCHANGED tvars
      BY <2>1 DEF tvars, TransportInv, Counted, Carries, HasRead
    <2>2. ASSUME NEW w \in Worker, Employ(w) \/ Dismiss(w) \/ SetDuty(w, TRUE) \/ SetDuty(w, FALSE) PROVE TransportInv'
      BY <2>2, StaffKeeps
    <2>3. ASSUME NEW o \in TOrder, NEW w \in Worker,
                 CreateCarried(o, w) \/ CreateDispatched(o, w) \/ ClaimOrder(o, w)
          PROVE  TransportInv'
      BY <2>3, CreateKeeps
    <2>4. ASSUME NEW o \in TOrder, CreateWaiting(o) PROVE TransportInv'
      BY <2>4, WaitKeeps
    <2>5. ASSUME NEW r \in TReq, NEW o \in TOrder, NEW who, NEW e \in TransportDef,
                 NEW carrier \in Worker \cup {NoWorker},
                 BeginTransition(r, o, who, e, carrier) \/ BeginFlowTransition(r, o, who, e, carrier)
          PROVE  TransportInv'
      BY <2>5, ReadKeepsOrder DEF BeginTransition, BeginFlowTransition
    <2>6. ASSUME NEW r \in TReq, Finish(r) PROVE TransportInv'
      BY <2>6, FinishKeeps
    <2> QED BY <2>1, <2>2, <2>3, <2>4, <2>5, <2>6 DEF TransportNext, Moves
  <1>3. TransportInv => NeverOvercounted
    BY DEF TransportInv, Counted, NeverOvercounted
  <1> QED BY <1>1, <1>2, <1>3, PTL DEF TransportSpec
----------------------------------------------------------------------------
(* Volunteers.                                                               *)
VolunteerSpec == VolunteerInit /\ [][VolunteerNext]_vvars

SignUps == [activity : Activity, person : Person, id : VReq, st : Statuses, late : BOOLEAN]
(* A sign-up under way has the activity to itself: there is a slot left for  *)
(* it, and its person has none.                                              *)
Entitled(q) ==
  q.pc = "signup" =>
    /\ q.activity \in Activity /\ q.person \in Person
    /\ Cardinality(Ups(q.activity)) < activity[q.activity].slots
    /\ \A s \in Ups(q.activity) : s.person # q.person
VolunteerInv ==
  /\ signed \subseteq SignUps
  /\ activity \in [Activity -> [slots : Nat, st : {"none", "open", "closed"}, clock : {"before", "grace", "past"}]]
  /\ vreq = [r \in VReq |-> vreq[r]]
  /\ \A a \in Activity : IsFiniteSet(Ups(a))
  /\ \A r \in VReq : Entitled(vreq[r])
  /\ \A q, r \in VReq : vreq[q].pc = "signup" /\ vreq[r].pc = "signup" /\ vreq[q].activity = vreq[r].activity => q = r
  /\ SlotsKept

(* What happens to the activity leaves its slots, or adds some.              *)
LEMMA ActivityKeeps ==
  ASSUME VolunteerInv, NEW a \in Activity,
         \/ \E n \in 1..MaxSlots : Announce(a, n)
         \/ \E st \in {"open", "closed"} : SetStatus(a, st)
         \/ Pass(a)
  PROVE  VolunteerInv'
  <1>1. UNCHANGED <<signed, vreq>>
    BY DEF Announce, SetStatus, Pass
  <1>2. /\ activity' \in [Activity -> [slots : Nat, st : {"none", "open", "closed"}, clock : {"before", "grace", "past"}]]
        /\ \A x \in Activity : activity'[x].slots >= activity[x].slots
    <2>1. CASE \E n \in 1..MaxSlots : Announce(a, n)
      BY <2>1 DEF Announce, VolunteerInv, NoActivity
    <2>2. CASE \E st \in {"open", "closed"} : SetStatus(a, st)
      BY <2>2 DEF SetStatus, VolunteerInv
    <2>3. CASE Pass(a)
      BY <2>3 DEF Pass, VolunteerInv
    <2> QED BY <2>1, <2>2, <2>3
  <1>3. \A x \in Activity : Ups(x)' = Ups(x) /\ Cardinality(Ups(x)) \in Nat
                            /\ activity[x].slots \in Nat /\ activity'[x].slots \in Nat
    BY <1>1, <1>2, FS_CardinalityType DEF Ups, VolunteerInv
  <1>4. SlotsKept'
    BY <1>2, <1>3 DEF SlotsKept, VolunteerInv
  <1>5. \A r \in VReq : Entitled(vreq[r])'
    BY <1>1, <1>2, <1>3 DEF Entitled, VolunteerInv
  <1> QED BY <1>1, <1>2, <1>3, <1>4, <1>5 DEF VolunteerInv

LEMMA BeginKeepsSlots ==
  ASSUME VolunteerInv, NEW r \in VReq, NEW a \in Activity, NEW p \in Person, BeginSignup(r, a, p)
  PROVE  VolunteerInv'
  <1>1. /\ vreq' = [vreq EXCEPT ![r] = [pc |-> "signup", activity |-> a, person |-> p]]
        /\ UNCHANGED <<activity, signed>>
        /\ \A q \in VReq : vreq[q].pc # "signup" \/ vreq[q].activity # a
        /\ \A s \in Ups(a) : s.person # p
        /\ Cardinality(Ups(a)) < activity[a].slots
    BY DEF BeginSignup, Unlocked
  <1>2. \A q \in VReq : vreq'[q] = IF q = r THEN [pc |-> "signup", activity |-> a, person |-> p] ELSE vreq[q]
    BY <1>1 DEF VolunteerInv
  <1>3. \A q \in VReq : Entitled(vreq'[q])
    BY <1>1, <1>2 DEF Entitled, VolunteerInv
  <1>4. \A x : Ups(x)' = Ups(x)
    BY <1>1 DEF Ups
  <1>5. \A q \in VReq : Entitled(vreq[q])'
    BY <1>1, <1>3, <1>4 DEF Entitled
  <1>6. SlotsKept'
    BY <1>1, <1>4 DEF SlotsKept, VolunteerInv
  <1> QED BY <1>1, <1>2, <1>4, <1>5, <1>6 DEF VolunteerInv

LEMMA SignupKeepsSlots == ASSUME VolunteerInv, NEW r \in VReq, Signup(r) PROVE VolunteerInv'
  <1>0. PICK a \in Activity : a = vreq[r].activity
    BY DEF VolunteerInv, Signup, Entitled
  <1> DEFINE new == [activity |-> a, person |-> vreq[r].person, id |-> r, st |-> "registered", late |-> FALSE]
  <1>1. /\ new \in SignUps /\ new.activity = a /\ new.person = vreq[r].person
        /\ Cardinality(Ups(a)) < activity[a].slots /\ \A s \in Ups(a) : s.person # new.person
    BY <1>0 DEF VolunteerInv, Signup, Entitled, SignUps, Statuses
  <1>2. signed' = signed \cup {new} /\ vreq' = [vreq EXCEPT ![r] = AtEase] /\ activity' = activity
    BY <1>0 DEF Signup
  <1>3. \A q \in VReq : vreq'[q] = IF q = r THEN AtEase ELSE vreq[q]
    BY <1>2 DEF VolunteerInv
  <1>4. AtEase.pc # "signup"
    BY DEF AtEase
  <1>5. vreq[r].pc = "signup"
    BY DEF Signup
  <1> HIDE DEF new
  <1>6. new \notin Ups(a) /\ Ups(a)' = Ups(a) \cup {new}
    <2>1. new \notin Ups(a)
      BY <1>1
    <2>2. Ups(a)' = {s \in signed' : s.activity = a}
      BY DEF Ups
    <2> QED BY <1>1, <1>2, <2>1, <2>2 DEF Ups
  <1>7. \A x \in Activity : x # a => Ups(x)' = Ups(x)
    BY <1>1, <1>2 DEF Ups
  <1>8. IsFiniteSet(Ups(a)) /\ Cardinality(Ups(a)) \in Nat /\ activity[a].slots \in Nat
    BY <1>1, FS_CardinalityType DEF VolunteerInv
  <1>9. IsFiniteSet(Ups(a)') /\ Cardinality(Ups(a)') = Cardinality(Ups(a)) + 1
    BY <1>6, <1>8, FS_AddElement
  <1>10. SlotsKept'
    <2> SUFFICES ASSUME NEW x \in Activity
                 PROVE  /\ Cardinality(Ups(x)') <= activity'[x].slots
                        /\ \A s, u \in Ups(x)' : s.person = u.person => s = u
      BY DEF SlotsKept
    <2>1. CASE x = a
      <3>1. Cardinality(Ups(x)') <= activity'[x].slots
        BY <1>1, <1>2, <1>8, <1>9, <2>1
      <3>2. \A s, u \in Ups(a) : s.person = u.person => s = u
        BY <1>1 DEF VolunteerInv, SlotsKept
      <3>3. \A s, u \in Ups(a) \cup {new} : s.person = u.person => s = u
        BY <1>1, <3>2
      <3> QED BY <1>6, <2>1, <3>1, <3>3
    <2>2. CASE x # a
      BY <1>2, <1>7, <2>2 DEF VolunteerInv, SlotsKept
    <2> QED BY <2>1, <2>2
  <1>11. \A q \in VReq : Entitled(vreq[q])'
    <2> SUFFICES ASSUME NEW q \in VReq, q # r, vreq[q].pc = "signup"
                 PROVE  Entitled(vreq[q])'
      BY <1>3, <1>4 DEF Entitled
    <2>1. vreq'[q] = vreq[q] /\ vreq[q].activity # a /\ vreq[q].activity \in Activity
      BY <1>0, <1>3, <1>5 DEF VolunteerInv, Entitled
    <2> QED BY <1>2, <1>7, <2>1 DEF VolunteerInv, Entitled
  <1> QED BY <1>1, <1>2, <1>3, <1>4, <1>7, <1>9, <1>10, <1>11 DEF VolunteerInv

(* A sign-up that moves on remains one sign-up of its person.                *)
LEMMA BecomeKeepsSlots ==
  ASSUME VolunteerInv, NEW s \in signed, NEW st \in Statuses, NEW late \in BOOLEAN, Become(s, st, late)
  PROVE  VolunteerInv'
  <1>0. PICK a \in Activity : a = s.activity
    BY DEF VolunteerInv, SignUps
  <1> DEFINE new == [s EXCEPT !.st = st, !.late = late]
  <1>1. s \in SignUps /\ s.activity = a
    BY <1>0 DEF VolunteerInv
  <1>2. new \in SignUps /\ new.activity = a /\ new.person = s.person
    BY <1>1 DEF SignUps
  <1>3. signed' = (signed \ {s}) \cup {new} /\ UNCHANGED <<activity, vreq>>
    BY DEF Become
  <1> HIDE DEF new
  <1>4. s \in Ups(a) /\ Ups(a)' = (Ups(a) \ {s}) \cup {new} /\ \A x \in Activity : x # a => Ups(x)' = Ups(x)
    BY <1>1, <1>2, <1>3 DEF Ups
  <1>5. IsFiniteSet(Ups(a)) /\ Cardinality(Ups(a)) \in Nat /\ \A u, v \in Ups(a) : u.person = v.person => u = v
    BY <1>1, FS_CardinalityType DEF VolunteerInv, SlotsKept
  <1>6. IsFiniteSet(Ups(a) \ {s}) /\ Cardinality(Ups(a) \ {s}) = Cardinality(Ups(a)) - 1
    BY <1>4, <1>5, FS_RemoveElement
  <1>7. new \notin Ups(a) \ {s}
    BY <1>2, <1>4, <1>5
  <1>8. IsFiniteSet(Ups(a)') /\ Cardinality(Ups(a)') = Cardinality(Ups(a))
    <2>1. /\ IsFiniteSet((Ups(a) \ {s}) \cup {new})
          /\ Cardinality((Ups(a) \ {s}) \cup {new}) = Cardinality(Ups(a) \ {s}) + 1
      BY <1>6, <1>7, FS_AddElement
    <2> QED BY <1>4, <1>5, <1>6, <2>1
  <1>9. \A x \in Activity : IsFiniteSet(Ups(x)') /\ Cardinality(Ups(x)') = Cardinality(Ups(x))
    BY <1>4, <1>8 DEF VolunteerInv
  <1>10. \A u, v \in Ups(a)' : u.person = v.person => u = v
    BY <1>2, <1>4, <1>5
  <1>11. SlotsKept'
    BY <1>3, <1>4, <1>9, <1>10 DEF SlotsKept, VolunteerInv
  <1>12. \A q \in VReq : Entitled(vreq[q])'
    <2> SUFFICES ASSUME NEW q \in VReq, vreq[q].pc = "signup" PROVE Entitled(vreq[q])'
      BY <1>3 DEF Entitled
    <2>0. PICK c \in Activity : c = vreq[q].activity
      BY DEF VolunteerInv, Entitled
    <2>1. /\ vreq[q].person \in Person /\ Cardinality(Ups(c)) < activity[c].slots
          /\ \A u \in Ups(c) : u.person # vreq[q].person
      BY <2>0 DEF VolunteerInv, Entitled
    <2>2. \A u \in Ups(c)' : u.person # vreq[q].person
      BY <1>2, <1>4, <2>1
    <2>3. vreq'[q] = vreq[q]
      BY <1>3
    <2> QED BY <1>3, <1>9, <2>0, <2>1, <2>2, <2>3 DEF Entitled
  <1> QED BY <1>2, <1>3, <1>9, <1>11, <1>12 DEF VolunteerInv

(* SlotsKept: however many sign up at once, for any number of slots, people  *)
(* and requests (FOR UPDATE in POST /activities/:id/signup).                 *)
THEOREM SlotsSound == VolunteerSpec => []SlotsKept
  <1>1. VolunteerInit => VolunteerInv
    <2> SUFFICES ASSUME VolunteerInit PROVE VolunteerInv
      OBVIOUS
    <2>1. \A a : Ups(a) = {}
      BY DEF VolunteerInit, Ups
    <2> QED BY <2>1, FS_EmptySet DEF VolunteerInit, VolunteerInv, SlotsKept, Entitled, AtEase, NoActivity
  <1>2. VolunteerInv /\ [VolunteerNext]_vvars => VolunteerInv'
    <2> SUFFICES ASSUME VolunteerInv, [VolunteerNext]_vvars PROVE VolunteerInv'
      OBVIOUS
    <2>1. CASE UNCHANGED vvars
      BY <2>1 DEF vvars, VolunteerInv, Entitled, SlotsKept, Ups
    <2>2. ASSUME NEW s \in signed, CheckinVolunteer(s) \/ Checkout(s) \/ Approve(s) PROVE VolunteerInv'
      <3>1. s.late \in BOOLEAN
        BY DEF VolunteerInv, SignUps
      <3> QED BY <2>2, <3>1, BecomeKeepsSlots DEF CheckinVolunteer, Checkout, Approve, Statuses
    <2> QED BY <2>1, <2>2, ActivityKeeps, BeginKeepsSlots, SignupKeepsSlots DEF VolunteerNext
  <1> QED BY <1>1, <1>2, PTL DEF VolunteerSpec, VolunteerInv
----------------------------------------------------------------------------
(* Patrols.                                                                  *)
PatrolSpec == PatrolInit /\ AlertsInit /\ [][PatrolStep]_<<pvars, avars>>

PTasks == [st : {"none", "pending", "in_progress", "done", "missed"}, points : SUBSET Point, seen : SUBSET Point]
(* The points of a task stay: what a check-in has concluded from them holds  *)
(* when it is written.                                                       *)
PatrolInv ==
  /\ ptask \in [PTask -> PTasks]
  /\ preq = [r \in PReq |-> preq[r]]
  /\ \A r \in PReq : preq[r].kind = "checkin" =>
       /\ preq[r].task \in PTask /\ ptask[preq[r].task] # NoPatrol
       /\ preq[r].seen \subseteq Point /\ preq[r].st \in {"done", "in_progress"}
       /\ preq[r].st = "done" => ptask[preq[r].task].points \subseteq preq[r].seen
  /\ DoneMeansAll

(* Tasks are written, their points stay, and no request but r moves.         *)
LEMMA PatrolWrites ==
  ASSUME PatrolInv, ptask' \in [PTask -> PTasks], preq' = [r \in PReq |-> preq'[r]],
         \A t \in PTask : ptask[t] # NoPatrol => ptask'[t] # NoPatrol /\ ptask'[t].points = ptask[t].points,
         \A r \in PReq : preq'[r] = preq[r] \/ preq'[r].kind # "checkin",
         \A t \in PTask : ptask'[t].st = "done" => ptask'[t].points \subseteq ptask'[t].seen
  PROVE  PatrolInv'
  BY DEF PatrolInv, DoneMeansAll

LEMMA BeginCheckinKeeps ==
  ASSUME PatrolInv, NEW r \in PReq, NEW t \in PTask, NEW p \in Point, BeginCheckin(r, t, p) PROVE PatrolInv'
  <1> DEFINE seen == ptask[t].seen \cup {p}
             new == [kind |-> "checkin", task |-> t, seen |-> seen, st |-> IF AllSeen(t, seen) THEN "done" ELSE "in_progress"]
  <1>1. preq' = [preq EXCEPT ![r] = new] /\ ptask' = ptask /\ ptask[t] # NoPatrol
    BY DEF BeginCheckin
  <1>2. seen \subseteq Point
    BY DEF PatrolInv, PTasks
  <1>3. /\ new.task = t /\ new.seen = seen /\ new.st \in {"done", "in_progress"}
        /\ new.st = "done" => ptask[t].points \subseteq seen
    BY DEF AllSeen
  <1> HIDE DEF new, seen
  <1>4. \A q \in PReq : preq'[q] = IF q = r THEN new ELSE preq[q]
    BY <1>1 DEF PatrolInv
  <1> QED BY <1>1, <1>2, <1>3, <1>4 DEF PatrolInv, DoneMeansAll

LEMMA PatrolEnds ==
  ASSUME PatrolInv, NEW r \in PReq, Checkin(r) \/ Miss(r) PROVE PatrolInv'
  <1>1. /\ preq' = [preq EXCEPT ![r] = AtRest]
        /\ \A q \in PReq : preq'[q] = preq[q] \/ preq'[q].kind # "checkin"
    BY DEF Checkin, Miss, AtRest, PatrolInv
  <1>2. CASE Checkin(r)
    <2> DEFINE t == preq[r].task
    <2>1. ptask' = [ptask EXCEPT ![t] = [@ EXCEPT !.st = preq[r].st, !.seen = preq[r].seen]]
          /\ t \in PTask /\ ptask[t] \in PTasks /\ ptask[t] # NoPatrol
          /\ preq[r].seen \subseteq Point /\ preq[r].st \in {"done", "in_progress"}
          /\ (preq[r].st = "done" => ptask[t].points \subseteq preq[r].seen)
      BY <1>2 DEF Checkin, PatrolInv
    <2>2. /\ ptask'[t] \in PTasks /\ ptask'[t].points = ptask[t].points /\ ptask'[t].st = preq[r].st
          /\ ptask'[t].seen = preq[r].seen /\ ptask'[t] # NoPatrol
      BY <2>1 DEF PTasks, PatrolInv, NoPatrol
    <2> HIDE DEF t
    <2>3. \A x \in PTask : x # t => ptask'[x] = ptask[x]
      BY <2>1 DEF PatrolInv
    <2>4. ptask' \in [PTask -> PTasks]
      BY <2>1, <2>2 DEF PatrolInv
    <2>5. \A x \in PTask : ptask'[x].st = "done" => ptask'[x].points \subseteq ptask'[x].seen
      BY <2>1, <2>2, <2>3 DEF PatrolInv, DoneMeansAll
    <2> QED BY <1>1, <2>2, <2>3, <2>4, <2>5, PatrolWrites DEF PatrolInv
  <1>3. CASE Miss(r)
    <2>1. ptask' = [ptask EXCEPT ![preq[r].task].st = "missed"]
      BY <1>3 DEF Miss
    <2>2. /\ ptask' \in [PTask -> PTasks]
          /\ \A x \in PTask : \/ ptask'[x] = ptask[x]
                              \/ ptask'[x].points = ptask[x].points /\ ptask'[x].st = "missed"
      <3>1. CASE preq[r].task \notin PTask
        BY <2>1, <3>1 DEF PatrolInv
      <3>2. CASE preq[r].task \in PTask
        <4> DEFINE new == [ptask[preq[r].task] EXCEPT !.st = "missed"]
        <4>1. new \in PTasks /\ new.points = ptask[preq[r].task].points /\ new.st = "missed"
          BY <3>2 DEF PatrolInv, PTasks
        <4>2. ptask' = [ptask EXCEPT ![preq[r].task] = new]
          BY <2>1
        <4> HIDE DEF new
        <4> QED BY <3>2, <4>1, <4>2 DEF PatrolInv
      <3> QED BY <3>1, <3>2
    <2>3. \A x \in PTask : ptask[x] # NoPatrol => ptask'[x] # NoPatrol /\ ptask'[x].points = ptask[x].points
      <3>1. NoPatrol.st # "missed"
        BY DEF NoPatrol
      <3> QED BY <2>2, <3>1
    <2>4. \A x \in PTask : ptask'[x].st = "done" => ptask'[x].points \subseteq ptask'[x].seen
      BY <2>2 DEF PatrolInv, DoneMeansAll
    <2> QED BY <1>1, <2>2, <2>3, <2>4, PatrolWrites DEF PatrolInv
  <1> QED BY <1>2, <1>3

(* DoneMeansAll: for any points, tasks and requests, though a request writes *)
(* back check-ins that another has overtaken (routes/patrol.ts).             *)
THEOREM DoneIsComplete == PatrolSpec => []DoneMeansAll
  <1>1. PatrolInit => PatrolInv
    BY DEF PatrolInit, PatrolInv, PTasks, NoPatrol, AtRest, DoneMeansAll
  <1>2. PatrolInv /\ [PatrolStep]_<<pvars, avars>> => PatrolInv'
    <2> SUFFICES ASSUME PatrolInv, [PatrolStep]_<<pvars, avars>> PROVE PatrolInv'
      OBVIOUS
    <2>1. CASE UNCHANGED <<ptask, preq>>
      BY <2>1 DEF PatrolInv, DoneMeansAll
    <2>2. ASSUME NEW t \in PTask, NEW ps \in SUBSET Point, CreatePatrol(t, ps) PROVE PatrolInv'
      BY <2>2 DEF CreatePatrol, PatrolInv, PTasks, DoneMeansAll, NoPatrol
    <2>3. ASSUME NEW r \in PReq, NEW t \in PTask, BeginMiss(r, t) PROVE PatrolInv'
      BY <2>3, PatrolWrites DEF BeginMiss, PatrolInv, DoneMeansAll, AtRest
    <2> QED BY <2>1, <2>2, <2>3, BeginCheckinKeeps, PatrolEnds DEF PatrolStep, PatrolMoves, AddPoint, DeletePoint, pvars
  <1> QED BY <1>1, <1>2, PTL DEF PatrolSpec, PatrolInv
----------------------------------------------------------------------------
(* Business flows.  The id of a task is its creator's alone until it is      *)
(* there: nothing but a transition touches a task that exists.               *)
FlowInv ==
  /\ task = [t \in Task |-> [st |-> task[t].st, dv |-> task[t].dv]]
  /\ freq = [r \in FReq |-> freq[r]]
  /\ \A r \in FReq : freq[r].kind = "create" =>
       /\ freq[r].id \in Task /\ task[freq[r].id] = NoTask /\ freq[r].id # "none"
       /\ \A q \in FReq : q # r => freq[q].id # freq[r].id

FlowStep == \A t \in Task : task[t] # NoTask /\ task'[t].st # task[t].st =>
              \E e \in At(task[t].dv).edges : e.from = task[t].st /\ e.to = task'[t].st

LEMMA CreateTaskKeeps == ASSUME FlowInv, NEW r \in FReq, CreateTask(r) PROVE FlowInv' /\ FlowStep
  <1> DEFINE i == freq[r].id
             new == [st |-> InitialAt(freq[r].dv), dv |-> freq[r].dv]
  <1>1. /\ task' = [task EXCEPT ![i] = new] /\ freq' = [freq EXCEPT ![r] = NoRequest]
        /\ i \in Task /\ task[i] = NoTask /\ \A q \in FReq : q # r => freq[q].id # i
    BY DEF CreateTask, FlowInv
  <1>2. new = [st |-> new.st, dv |-> new.dv]
    OBVIOUS
  <1> HIDE DEF i, new
  <1>3. \A q \in FReq : freq'[q] = IF q = r THEN NoRequest ELSE freq[q]
    BY <1>1 DEF FlowInv
  <1>4. \A t \in Task : t # i => task'[t] = task[t]
    BY <1>1 DEF FlowInv
  <1>5. FlowStep
    BY <1>1, <1>4 DEF FlowStep
  <1>6. task' = [t \in Task |-> [st |-> task'[t].st, dv |-> task'[t].dv]]
    BY <1>1, <1>2 DEF FlowInv
  <1>7. freq' = [q \in FReq |-> freq'[q]]
    BY <1>1 DEF FlowInv
  <1> QED BY <1>1, <1>3, <1>4, <1>5, <1>6, <1>7 DEF FlowInv, NoRequest

LEMMA TransitionKeeps == ASSUME FlowInv, NEW r \in FReq, TransitionEntity(r) PROVE FlowInv' /\ FlowStep
  <1> DEFINE i == freq[r].id
  <1>1. PICK to \in MoveTo(r) : task' = [task EXCEPT ![i].st = to]
    BY DEF TransitionEntity
  <1>2. freq[r].kind = "move" /\ freq' = [freq EXCEPT ![r] = NoRequest]
    BY DEF TransitionEntity
  <1>3. PICK e \in At(task[i].dv).edges : e.from = task[i].st /\ e.to = to
    BY <1>1 DEF MoveTo, Targets
  <1> HIDE DEF i
  <1>4. \A q \in FReq : freq'[q] = IF q = r THEN NoRequest ELSE freq[q]
    BY <1>2 DEF FlowInv
  <1>5. /\ task' = [t \in Task |-> [st |-> task'[t].st, dv |-> task'[t].dv]]
        /\ \A t \in Task : t # i => task'[t] = task[t]
        /\ i \in Task => task'[i].st = to
    <2> DEFINE new == [task[i] EXCEPT !.st = to]
    <2>1. task' = [task EXCEPT ![i] = new]
      BY <1>1
    <2>2. i \in Task => new = [st |-> new.st, dv |-> new.dv] /\ new.st = to
      BY DEF FlowInv
    <2> HIDE DEF new
    <2>3. \A t \in Task : task'[t] = IF t = i THEN new ELSE task[t]
      BY <2>1 DEF FlowInv
    <2>4. task' = [t \in Task |-> task'[t]]
      BY <2>1 DEF FlowInv
    <2> QED BY <2>2, <2>3, <2>4 DEF FlowInv
  <1>6. FlowStep
    BY <1>3, <1>5 DEF FlowStep
  <1>7. \A q \in FReq : freq[q].kind = "create" => freq[q].id # i
    BY <1>2 DEF FlowInv, i
  <1> QED BY <1>2, <1>4, <1>5, <1>6, <1>7 DEF FlowInv, NoRequest

(* AlongEdges: for any definitions published meanwhile, and any requests     *)
(* that overlap (FOR UPDATE in transitionEntity).                            *)
THEOREM MovesAlongEdges == FlowSpec => AlongEdges
  <1>1. FlowInit => FlowInv
    BY DEF FlowInit, FlowInv, NoTask, NoRequest
  <1>2. FlowInv /\ [FlowNext]_fvars => FlowInv' /\ FlowStep
    <2> SUFFICES ASSUME FlowInv, [FlowNext]_fvars PROVE FlowInv' /\ FlowStep
      OBVIOUS
    <2>1. CASE UNCHANGED <<task, freq>>
      BY <2>1 DEF FlowInv, FlowStep
    <2>2. ASSUME NEW r \in FReq, RefuseEvent(r) PROVE FlowInv' /\ FlowStep
      BY <2>2 DEF RefuseEvent, FlowInv, FlowStep, NoRequest
    <2>3. ASSUME NEW r \in FReq, NEW t \in Task, BeginTask(r, t) PROVE FlowInv' /\ FlowStep
      <3> DEFINE new == [NoRequest EXCEPT !.kind = "create", !.id = t, !.dv = flive]
      <3>1. freq' = [freq EXCEPT ![r] = new] /\ task' = task /\ task[t] = NoTask
            /\ \A q \in FReq : freq[q].id # t
        BY <2>3 DEF BeginTask
      <3>2. new.kind = "create" /\ new.id = t /\ freq[r] = NoRequest
        BY <2>3 DEF NoRequest, BeginTask
      <3> HIDE DEF new
      <3>3. \A q \in FReq : freq'[q] = IF q = r THEN new ELSE freq[q]
        BY <3>1 DEF FlowInv
      <3>4. t # "none"
        BY <3>1, <3>2 DEF NoRequest
      <3> QED BY <3>1, <3>2, <3>3, <3>4 DEF FlowInv, FlowStep
    <2>4. ASSUME NEW r \in FReq, NEW t \in Task, NEW ev, NEW filled, BeginEvent(r, t, ev, filled)
          PROVE  FlowInv' /\ FlowStep
      <3>1. /\ task' = task /\ task[t] # NoTask /\ freq' = [q \in FReq |-> freq'[q]]
            /\ \A q \in FReq : q # r => freq'[q] = freq[q]
            /\ freq'[r].kind = "move" /\ freq'[r].id = t
        BY <2>4 DEF BeginEvent, FlowInv
      <3> QED BY <3>1 DEF FlowInv, FlowStep
    <2> QED BY <2>1, <2>2, <2>3, <2>4, CreateTaskKeeps, TransitionKeeps DEF FlowNext, fvars, PublishFlow
  <1>3. FlowStep => (FlowStep \/ UNCHANGED fvars)
    OBVIOUS
  <1> QED BY <1>1, <1>2, PTL DEF FlowSpec, AlongEdges, FlowStep
----------------------------------------------------------------------------
(* Inspections.                                                              *)
InspectionSpec == InspectionInit /\ AlertsInit /\ [][InspectionStep]_<<ivars, avars>>

ITasksTyped == itask = [t \in ITask |-> [st |-> itask[t].st, owner |-> itask[t].owner, snap |-> itask[t].snap]]
OwnerStep == \A t \in ITask : Exists(t) /\ itask[t].owner # Nobody => itask'[t].owner = itask[t].owner

LEMMA FieldsKept ==
  ASSUME NEW old, NEW st, NEW owner, NEW snap, NEW st1, NEW snap1, old = [st |-> st, owner |-> owner, snap |-> snap]
  PROVE  [old EXCEPT !.st = st1, !.snap = snap1] = [st |-> st1, owner |-> owner, snap |-> snap1]
  <1> DEFINE mid == [old EXCEPT !.st = st1]
  <1>1. mid = [st |-> st1, owner |-> owner, snap |-> snap]
    OBVIOUS
  <1>2. [old EXCEPT !.st = st1, !.snap = snap1] = [mid EXCEPT !.snap = snap1]
    OBVIOUS
  <1> HIDE DEF mid
  <1>3. [mid EXCEPT !.snap = snap1] = [st |-> st1, owner |-> owner, snap |-> snap1]
    BY <1>1
  <1> QED BY <1>2, <1>3
LEMMA WrittenKeepsOwner ==
  ASSUME ITasksTyped, NEW t, NEW new, itask' = [itask EXCEPT ![t] = new],
         t \in ITask => new = [st |-> new.st, owner |-> new.owner, snap |-> new.snap] /\ new.owner = itask[t].owner
  PROVE  ITasksTyped' /\ OwnerStep
  BY DEF ITasksTyped, OwnerStep

(* OwnerKept: for any tasks, workers, findings and requests under way: only  *)
(* a claim, under the lock of the row, gives a task to somebody              *)
(* (routes/inspection.ts).                                                   *)
THEOREM OwnersStay == InspectionSpec => OwnerKept
  <1>1. InspectionInit => ITasksTyped
    BY DEF InspectionInit, ITasksTyped, Absent
  <1>2. ITasksTyped /\ [InspectionStep]_<<ivars, avars>> => ITasksTyped' /\ OwnerStep
    <2> SUFFICES ASSUME ITasksTyped, [InspectionStep]_<<ivars, avars>> PROVE ITasksTyped' /\ OwnerStep
      OBVIOUS
    <2>1. CASE itask' = itask
      BY <2>1 DEF ITasksTyped, OwnerStep
    <2>2. ASSUME NEW items, GenerateTasks(items) PROVE ITasksTyped' /\ OwnerStep
      BY <2>2 DEF GenerateTasks, ITasksTyped, OwnerStep
    <2>3. ASSUME NEW t \in ITask, NEW owner, NEW items, CreateInspection(t, owner, items) PROVE ITasksTyped' /\ OwnerStep
      BY <2>3 DEF CreateInspection, ITasksTyped, OwnerStep
    <2>4. ASSUME NEW t \in ITask, NEW w, ClaimTask(t, w) PROVE ITasksTyped' /\ OwnerStep
      BY <2>4 DEF ClaimTask, Unclaimed, ITasksTyped, OwnerStep
    <2>5. ASSUME NEW r \in IReq, Findings(r) PROVE ITasksTyped' /\ OwnerStep
      <3> DEFINE new == [itask[ireq[r].task] EXCEPT !.snap = Rewritten(r)]
      <3>1. itask' = [itask EXCEPT ![ireq[r].task] = new]
        BY <2>5 DEF Findings
      <3>2. ireq[r].task \in ITask =>
              new = [st |-> new.st, owner |-> new.owner, snap |-> new.snap] /\ new.owner = itask[ireq[r].task].owner
        BY DEF ITasksTyped
      <3> HIDE DEF new
      <3> QED BY <3>1, <3>2, WrittenKeepsOwner
    <2>6. ASSUME NEW r \in IReq, Move(r) PROVE ITasksTyped' /\ OwnerStep
      <3> DEFINE new == [itask[ireq[r].task] EXCEPT !.st = ireq[r].edge.to, !.snap = Over(itask[ireq[r].task].snap, ireq[r].finds)]
      <3>1. itask' = [itask EXCEPT ![ireq[r].task] = new]
        BY <2>6 DEF Move
      <3>2. ireq[r].task \in ITask =>
              new = [st |-> new.st, owner |-> new.owner, snap |-> new.snap] /\ new.owner = itask[ireq[r].task].owner
        <4> DEFINE old == itask[ireq[r].task]
                   to == ireq[r].edge.to
                   over == Over(itask[ireq[r].task].snap, ireq[r].finds)
        <4>1. ireq[r].task \in ITask => old = [st |-> old.st, owner |-> old.owner, snap |-> old.snap]
          BY DEF ITasksTyped
        <4>2. new = [old EXCEPT !.st = to, !.snap = over]
          OBVIOUS
        <4> HIDE DEF ITasksTyped, old, to, over, new
        <4>3. ireq[r].task \in ITask => new = [st |-> to, owner |-> old.owner, snap |-> over]
          BY <4>1, <4>2, FieldsKept
        <4> QED BY <4>3 DEF old
      <3> HIDE DEF new
      <3> QED BY <3>1, <3>2, WrittenKeepsOwner
    <2>7. ASSUME NEW r \in IReq, GiveUp(r) PROVE itask' = itask
      BY <2>7 DEF GiveUp
    <2>8. ASSUME NEW r, NEW t, NEW who, NEW finds, NEW e,
                 BeginFindings(r, t, who, finds) \/ BeginMove(r, t, who, e, finds) \/ BeginAnyEvent(r, t, who, e)
          PROVE  itask' = itask
      BY <2>8 DEF BeginFindings, BeginMove, BeginAnyEvent, ReadTask
    <2>9. ASSUME NEW i, AddItem(i) \/ DropItem(i) PROVE itask' = itask
      BY <2>9 DEF AddItem, DropItem
    <2> QED BY <2>1, <2>2, <2>3, <2>4, <2>5, <2>6, <2>7, <2>8, <2>9 DEF InspectionStep, InspectionMoves, ivars
  <1> QED BY <1>1, <1>2, PTL DEF InspectionSpec, OwnerKept, OwnerStep
----------------------------------------------------------------------------
(* Collection tasks of the energy platform.                                  *)
EnergyStep ==
  \A x \in Row : energy[x] # NoRow /\ energy'[x] # energy[x] =>
    \E e \in EnergyEdges : energy[x].st = e[1] /\ energy'[x] = [energy[x] EXCEPT !.st = e[3]]

(* NeverTakenBack: for any refs, rows and deliveries: what a delivery does   *)
(* to a task that exists it looks up again under the lock                    *)
(* (routes/energyCollection.ts).                                             *)
THEOREM CallbacksOnlyAdvance == EnergySpec => NeverTakenBack
  <1>1. EnergyInit => energy = [x \in Row |-> energy[x]]
    BY DEF EnergyInit
  <1>2. energy = [x \in Row |-> energy[x]] /\ [EnergyNext]_evars => (energy = [x \in Row |-> energy[x]])' /\ EnergyStep
    <2> SUFFICES ASSUME energy = [x \in Row |-> energy[x]], [EnergyNext]_evars
                 PROVE  (energy = [x \in Row |-> energy[x]])' /\ EnergyStep
      OBVIOUS
    <2>1. CASE energy' = energy
      BY <2>1 DEF EnergyStep
    <2>2. ASSUME NEW r \in EReq, CreateRow(r) PROVE (energy = [x \in Row |-> energy[x]])' /\ EnergyStep
      BY <2>2 DEF CreateRow, EnergyStep
    <2>3. ASSUME NEW r \in EReq, Submit(r) PROVE (energy = [x \in Row |-> energy[x]])' /\ EnergyStep
      <3>1. PICK e \in SubmitFrom(r) : energy' = [energy EXCEPT ![ereq[r].row].st = e[3]]
        BY <2>3 DEF Submit
      <3>2. e \in EnergyEdges /\ e[1] = energy[ereq[r].row].st
        BY DEF SubmitFrom
      <3> QED BY <3>1, <3>2 DEF EnergyStep
    <2>4. ASSUME NEW x \in Row, PersonMoves(x) PROVE (energy = [y \in Row |-> energy[y]])' /\ EnergyStep
      <3>1. PICK e \in EnergyEdges : e[1] = energy[x].st /\ energy' = [energy EXCEPT ![x].st = e[3]]
        BY <2>4 DEF PersonMoves
      <3> QED BY <3>1 DEF EnergyStep
    <2> QED BY <2>1, <2>2, <2>3, <2>4 DEF EnergyNext, evars, LookForDup, FindRow, RefuseSubmit
  <1> QED BY <1>1, <1>2, PTL DEF EnergySpec, NeverTakenBack, EnergyStep
----------------------------------------------------------------------------
(* Settlement numbers.                                                       *)
Trying == [step : {"counted", "inserted", "refused"}, seq : Nat, tries : Nat, since : Nat]
(* What a request holds when n numbers are taken and d drafts were deleted:  *)
(* it began at most one for each commit of the others below n + 1, and it    *)
(* stepped over taken numbers only.                                          *)
Accounted(x, n, d) ==
  /\ x \in Trying
  /\ n + x.tries + 1 <= x.seq + x.since
  /\ x.seq <= n + d + 1
  /\ x.step = "refused" => x.tries = RetryLimit
NumberInv ==
  /\ draft \subseteq Nat /\ kept \subseteq Nat /\ deleted \in Nat
  /\ IsFiniteSet(draft) /\ IsFiniteSet(kept) /\ draft \cap kept = {}
  /\ \A m \in Taken : m <= Cardinality(Taken) + deleted
  /\ tx = [c \in Creator |-> tx[c]]
  /\ \A c \in Creator : tx[c] = Idle \/ Accounted(tx[c], Cardinality(Taken), deleted)
  /\ \A c \in Creator : tx[c].step = "inserted" =>
       tx[c].seq \notin Taken /\ \A d \in Creator : tx[d].step = "inserted" /\ tx[d].seq = tx[c].seq => d = c

LEMMA TakenCounted == ASSUME NumberInv PROVE IsFiniteSet(Taken) /\ Cardinality(Taken) \in Nat
  <1>1. IsFiniteSet(Taken)
    BY FS_Union DEF NumberInv, Taken
  <1> QED BY <1>1, FS_CardinalityType

(* Nothing is committed or deleted: one request moves on.                    *)
LEMMA RequestMoves ==
  ASSUME NumberInv, NEW c \in Creator, NEW x, UNCHANGED <<draft, kept, deleted>>, tx' = [tx EXCEPT ![c] = x],
         x = Idle \/ Accounted(x, Cardinality(Taken), deleted),
         x.step = "inserted" =>
           x.seq \notin Taken /\ \A d \in Creator : tx[d].step = "inserted" /\ tx[d].seq = x.seq => d = c
  PROVE  NumberInv'
  <1>1. Taken' = Taken
    BY DEF Taken
  <1>2. \A d \in Creator : tx'[d] = IF d = c THEN x ELSE tx[d]
    BY DEF NumberInv
  <1>3. tx' = [d \in Creator |-> tx'[d]]
    BY DEF NumberInv
  <1>4. \A d \in Creator : tx'[d] = Idle \/ Accounted(tx'[d], Cardinality(Taken'), deleted')
    BY <1>1, <1>2 DEF NumberInv
  <1>5. \A d \in Creator : tx'[d].step = "inserted" =>
          tx'[d].seq \notin Taken' /\ \A e \in Creator : tx'[e].step = "inserted" /\ tx'[e].seq = tx'[d].seq => e = d
    BY <1>1, <1>2 DEF NumberInv
  <1> QED BY <1>1, <1>3, <1>4, <1>5 DEF NumberInv

LEMMA CountSound == ASSUME NumberInv, NEW c \in Creator, Count(c) PROVE NumberInv'
  <1> DEFINE x == [Idle EXCEPT !.step = "counted", !.seq = Cardinality(Taken) + 1]
  <1>1. Cardinality(Taken) \in Nat
    BY TakenCounted
  <1>2. x \in Trying /\ x.step = "counted" /\ x.seq = Cardinality(Taken) + 1 /\ x.tries = 0 /\ x.since = 0
    <2> DEFINE mid == [Idle EXCEPT !.step = "counted"]
    <2>1. mid = [step |-> "counted", seq |-> 0, tries |-> 0, since |-> 0]
      BY DEF Idle
    <2>2. x = [mid EXCEPT !.seq = Cardinality(Taken) + 1]
      OBVIOUS
    <2> HIDE DEF mid, x
    <2>3. x = [step |-> "counted", seq |-> Cardinality(Taken) + 1, tries |-> 0, since |-> 0]
      BY <2>1, <2>2
    <2> QED BY <1>1, <2>3 DEF Trying
  <1>3. deleted \in Nat
    BY DEF NumberInv
  <1>4. x.step = "counted" /\ Accounted(x, Cardinality(Taken), deleted)
    <2> HIDE DEF x
    <2> QED BY <1>1, <1>2, <1>3 DEF Accounted
  <1>5. tx' = [tx EXCEPT ![c] = x] /\ UNCHANGED <<draft, kept, deleted>>
    BY DEF Count
  <1> HIDE DEF x
  <1> QED BY <1>4, <1>5, RequestMoves

LEMMA InsertSound == ASSUME NumberInv, NEW c \in Creator, Insert(c) PROVE NumberInv'
  <1> DEFINE x == [tx[c] EXCEPT !.step = "inserted"]
  <1>1. tx[c] \in Trying /\ Accounted(tx[c], Cardinality(Taken), deleted)
    BY DEF Insert, NumberInv, Idle, Accounted
  <1>2. x \in Trying /\ x.step = "inserted" /\ x.seq = tx[c].seq /\ x.tries = tx[c].tries /\ x.since = tx[c].since
    BY <1>1 DEF Trying
  <1>3. tx' = [tx EXCEPT ![c] = x] /\ UNCHANGED <<draft, kept, deleted>>
        /\ tx[c].seq \notin Taken /\ \A d \in Creator : ~(tx[d].step = "inserted" /\ tx[d].seq = tx[c].seq)
    BY DEF Insert, Inserting
  <1> HIDE DEF x
  <1>4. Accounted(x, Cardinality(Taken), deleted)
    BY <1>1, <1>2 DEF Accounted
  <1> QED BY <1>2, <1>3, <1>4, RequestMoves

LEMMA CollideSound == ASSUME NumberInv, NEW c \in Creator, Collide(c) PROVE NumberInv'
  <1> DEFINE y == tx[c]
             x == [y EXCEPT !.tries = y.tries + 1, !.seq = y.seq + 1,
                            !.step = IF y.tries + 1 = RetryLimit THEN "refused" ELSE y.step]
  <1>1. y \in Trying /\ Accounted(y, Cardinality(Taken), deleted) /\ y.step = "counted" /\ y.seq \in Taken
    BY DEF Collide, NumberInv, Idle, Accounted
  <1>2. UNCHANGED <<draft, kept, deleted>> /\ tx' = [tx EXCEPT ![c] = x]
    BY DEF Collide
  <1>3. /\ x \in Trying /\ x.tries = y.tries + 1 /\ x.seq = y.seq + 1 /\ x.since = y.since
        /\ x.step \in {"counted", "refused"} /\ (x.step = "refused" => x.tries = RetryLimit)
    <2> DEFINE st == IF y.tries + 1 = RetryLimit THEN "refused" ELSE y.step
               one == [y EXCEPT !.tries = y.tries + 1]
               two == [one EXCEPT !.seq = y.seq + 1]
    <2>1. one \in Trying /\ one.tries = y.tries + 1 /\ one.seq = y.seq /\ one.since = y.since
      BY <1>1 DEF Trying
    <2>2. two \in Trying /\ two.tries = one.tries /\ two.seq = y.seq + 1 /\ two.since = one.since
      <3>1. y.seq + 1 \in Nat
        BY <1>1 DEF Trying
      <3> HIDE DEF one
      <3> QED BY <2>1, <3>1 DEF Trying
    <2>3. x = [two EXCEPT !.step = st]
      OBVIOUS
    <2>4. st \in {"counted", "refused"} /\ (st = "refused" => y.tries + 1 = RetryLimit)
      BY <1>1
    <2> HIDE DEF one, two, st, x
    <2>5. x \in Trying /\ x.tries = two.tries /\ x.seq = two.seq /\ x.since = two.since /\ x.step = st
      BY <2>2, <2>3, <2>4 DEF Trying
    <2> QED BY <2>1, <2>2, <2>4, <2>5
  <1>4. y.seq <= Cardinality(Taken) + deleted /\ Cardinality(Taken) \in Nat /\ deleted \in Nat
    BY <1>1, TakenCounted DEF NumberInv
  <1>5. y.tries \in Nat /\ y.seq \in Nat /\ y.since \in Nat
    BY <1>1 DEF Trying
  <1> HIDE DEF x, y
  <1>6. Accounted(x, Cardinality(Taken), deleted) /\ x.step # "inserted"
    BY <1>1, <1>3, <1>4, <1>5 DEF Accounted
  <1> QED BY <1>2, <1>6, RequestMoves

(* A commit adds a number and counts for every other request under way.      *)
LEMMA CommitSound == ASSUME NumberInv, NEW c \in Creator, Commit(c) PROVE NumberInv'
  <1> DEFINE n == Cardinality(Taken)
  <1>1. PICK s \in Nat : s = tx[c].seq
    BY DEF Commit, NumberInv, Idle, Accounted, Trying
  <1>2. s \notin Taken /\ Accounted(tx[c], n, deleted) /\ tx[c].step = "inserted"
    BY <1>1 DEF Commit, NumberInv, Idle
  <1>3. /\ draft' = draft \cup {s} /\ kept' = kept /\ deleted' = deleted
        /\ tx' = [d \in Creator |-> IF d = c \/ tx[d] = Idle THEN Idle ELSE [tx[d] EXCEPT !.since = @ + 1]]
    BY <1>1 DEF Commit
  <1>4. Taken' = Taken \cup {s}
    BY <1>3 DEF Taken
  <1>5. n \in Nat /\ IsFiniteSet(Taken)
    BY TakenCounted
  <1>6. Cardinality(Taken') = n + 1
    BY <1>2, <1>4, <1>5, FS_AddElement
  <1>7. draft' \subseteq Nat /\ IsFiniteSet(draft') /\ draft' \cap kept' = {} /\ deleted \in Nat
    BY <1>1, <1>2, <1>3, FS_AddElement DEF NumberInv, Taken
  <1>8. s <= n + deleted + 1
    BY <1>1, <1>2 DEF Accounted
  <1>9. \A m \in Taken' : m <= n + 1 + deleted
    <2>1. \A m \in Taken : m \in Nat /\ m <= n + deleted
      BY DEF NumberInv, Taken
    <2> QED BY <1>4, <1>5, <1>7, <1>8, <2>1
  <1>10. ASSUME NEW d \in Creator
         PROVE  /\ tx'[d] = Idle \/ Accounted(tx'[d], n + 1, deleted)
                /\ tx'[d].step = "inserted" => d # c /\ tx[d].step = "inserted" /\ tx'[d].seq = tx[d].seq
    <2>1. CASE d = c \/ tx[d] = Idle
      BY <1>3, <2>1 DEF Idle
    <2>2. CASE ~(d = c \/ tx[d] = Idle)
      <3> DEFINE x == tx[d]
                 y == [x EXCEPT !.since = x.since + 1]
      <3>1. Accounted(x, n, deleted) /\ x \in Trying
        BY <2>2 DEF NumberInv, Accounted
      <3>2. tx'[d] = y
        BY <1>3, <2>2
      <3>3. y \in Trying /\ y.step = x.step /\ y.seq = x.seq /\ y.tries = x.tries /\ y.since = x.since + 1
        BY <3>1 DEF Trying
      <3> HIDE DEF x, y
      <3>4. x.tries \in Nat /\ x.seq \in Nat /\ x.since \in Nat
        BY <3>1 DEF Trying
      <3> HIDE DEF n
      <3>5. Accounted(y, n + 1, deleted)
        BY <1>5, <1>7, <3>1, <3>3, <3>4 DEF Accounted
      <3> QED BY <2>2, <3>2, <3>3, <3>5 DEF x
    <2> QED BY <2>1, <2>2
  <1>11. \A d \in Creator : tx'[d].step = "inserted" =>
           tx'[d].seq \notin Taken' /\ \A e \in Creator : tx'[e].step = "inserted" /\ tx'[e].seq = tx'[d].seq => e = d
    BY <1>1, <1>2, <1>4, <1>10 DEF NumberInv
  <1>12. tx' = [d \in Creator |-> tx'[d]]
    BY <1>3
  <1>13. \A d \in Creator : tx'[d] = Idle \/ Accounted(tx'[d], Cardinality(Taken'), deleted')
    BY <1>3, <1>6, <1>10
  <1>14. \A m \in Taken' : m <= Cardinality(Taken') + deleted'
    BY <1>3, <1>6, <1>9
  <1>15. kept' \subseteq Nat /\ IsFiniteSet(kept') /\ deleted' \in Nat
    BY <1>3 DEF NumberInv
  <1> QED BY <1>7, <1>11, <1>12, <1>13, <1>14, <1>15 DEF NumberInv

(* A deletion frees a number and is counted.                                 *)
LEMMA DeleteSound == ASSUME NumberInv, NEW m \in draft, DeleteDraft(m) PROVE NumberInv'
  <1> DEFINE n == Cardinality(Taken)
  <1>1. draft' = draft \ {m} /\ kept' = kept /\ tx' = tx /\ deleted' = deleted + 1
    BY DEF DeleteDraft
  <1>2. Taken' = Taken \ {m} /\ m \in Taken
    BY <1>1 DEF Taken, NumberInv
  <1>3. n \in Nat /\ IsFiniteSet(Taken) /\ deleted \in Nat
    BY TakenCounted DEF NumberInv
  <1>4. Cardinality(Taken') = n - 1
    BY <1>2, <1>3, FS_RemoveElement
  <1>5. Cardinality(Taken') \in Nat
    <2>1. IsFiniteSet(Taken')
      BY <1>2, <1>3, FS_Subset
    <2> QED BY <2>1, FS_CardinalityType
  <1>6. \A k \in Taken' : k <= Cardinality(Taken') + deleted'
    <2>1. \A k \in Taken : k \in Nat /\ k <= n + deleted
      BY DEF NumberInv, Taken
    <2> QED BY <1>1, <1>2, <1>3, <1>4, <2>1
  <1>7. \A d \in Creator : tx'[d] = Idle \/ Accounted(tx'[d], Cardinality(Taken'), deleted')
    <2> SUFFICES ASSUME NEW d \in Creator, tx[d] # Idle PROVE Accounted(tx[d], n - 1, deleted + 1)
      BY <1>1, <1>4
    <2>1. Accounted(tx[d], n, deleted)
      BY DEF NumberInv
    <2> HIDE DEF n
    <2>2. tx[d].tries \in Nat /\ tx[d].seq \in Nat /\ tx[d].since \in Nat
      BY <2>1 DEF Accounted, Trying
    <2> QED BY <1>3, <2>1, <2>2 DEF Accounted
  <1>8. draft' \subseteq Nat /\ IsFiniteSet(draft') /\ draft' \cap kept' = {} /\ deleted' \in Nat
    BY <1>1, <1>3, FS_Subset DEF NumberInv
  <1> QED BY <1>1, <1>2, <1>6, <1>7, <1>8 DEF NumberInv

LEMMA ConfirmSound == ASSUME NumberInv, NEW m \in draft, Confirm(m) PROVE NumberInv'
  <1>1. draft' = draft \ {m} /\ kept' = kept \cup {m} /\ tx' = tx /\ deleted' = deleted
    BY DEF Confirm
  <1>2. Taken' = Taken
    BY <1>1 DEF Taken
  <1>3. IsFiniteSet(draft')
    BY <1>1, FS_Subset DEF NumberInv
  <1>4. IsFiniteSet(kept')
    BY <1>1, FS_AddElement DEF NumberInv
  <1> QED BY <1>1, <1>2, <1>3, <1>4 DEF NumberInv

(* RefusedForAReason: for any requests at a time, attempts and settlements   *)
(* of the day, the retry loop of createSettlementDraft gives up only after   *)
(* as many commits of others and deletions as it made attempts.              *)
THEOREM RefusalsExplained == NumberSpec => []RefusedForAReason
  <1>1. NumberInit => NumberInv
    <2> SUFFICES ASSUME NumberInit PROVE NumberInv
      OBVIOUS
    <2>1. Taken = {}
      BY DEF NumberInit, Taken
    <2> QED BY <2>1, FS_EmptySet DEF NumberInit, NumberInv, Idle
  <1>2. NumberInv /\ [NumberNext]_numberVars => NumberInv'
    <2> SUFFICES ASSUME NumberInv, [NumberNext]_numberVars PROVE NumberInv'
      OBVIOUS
    <2>1. CASE UNCHANGED numberVars
      BY <2>1 DEF numberVars, NumberInv, Taken
    <2>2. ASSUME NEW c \in Creator, Abort(c) PROVE NumberInv'
      <3>1. Idle.step # "inserted" /\ UNCHANGED <<draft, kept, deleted>> /\ tx' = [tx EXCEPT ![c] = Idle]
        BY <2>2 DEF Idle, Abort
      <3> QED BY <3>1, RequestMoves
    <2> QED BY <2>1, <2>2, CountSound, InsertSound, CollideSound, CommitSound, DeleteSound, ConfirmSound DEF NumberNext
  <1>3. NumberInv => RefusedForAReason
    <2> SUFFICES ASSUME NumberInv, NEW c \in Creator, tx[c].step = "refused"
                 PROVE  deleted + tx[c].since >= RetryLimit
      BY DEF RefusedForAReason
    <2>1. Accounted(tx[c], Cardinality(Taken), deleted)
      BY DEF NumberInv, Idle
    <2>2. Cardinality(Taken) \in Nat /\ deleted \in Nat
      BY TakenCounted DEF NumberInv
    <2>3. tx[c].tries \in Nat /\ tx[c].seq \in Nat /\ tx[c].since \in Nat /\ tx[c].tries = RetryLimit
      BY <2>1 DEF Accounted, Trying
    <2> QED BY <2>1, <2>2, <2>3, NumberAssumption DEF Accounted
  <1> QED BY <1>1, <1>2, <1>3, PTL DEF NumberSpec
----------------------------------------------------------------------------
(* Linked orders: OneOrder for any sources, orders and conversions under     *)
(* way, whichever of them fail.                                              *)
LinkedSpec == LinkedInit /\ [][\/ Converting
                               \/ \E r \in CReq, s \in Source, o \in Order : BeginConvert(r, s, o)]_lvars

Conversions ==
  [pc : {"asking", "holding"}, source : Source, order : Order] \cup {NoConversion}
LType ==
  /\ key \in [Source -> Order \cup {Unlinked}]
  /\ orders \in [Order -> Source \cup {NoSource}]
  /\ conv \in [CReq -> Conversions]
Under(r) == conv[r].pc \in {"asking", "holding"}
(* The id of an order is one conversion's own, and not in the table yet; who *)
(* holds a key holds it alone, and it is not in the table yet.               *)
OwnId ==
  \A r \in CReq : Under(r) =>
    /\ orders[conv[r].order] = NoSource
    /\ \A q \in CReq : Under(q) /\ conv[q].order = conv[r].order => q = r
OwnKey ==
  \A r \in CReq : conv[r].pc = "holding" =>
    /\ key[conv[r].source] = Unlinked
    /\ \A q \in CReq : conv[q].pc = "holding" /\ conv[q].source = conv[r].source => q = r
LInv == LType /\ OwnId /\ OwnKey /\ OneOrder

LEMMA UnderIsTyped ==
  ASSUME LType, NEW r \in CReq, Under(r) PROVE conv[r].source \in Source /\ conv[r].order \in Order
  BY DEF LType, Under, Conversions, NoConversion

LEMMA BeginKeeps ==
  ASSUME NoSource \notin Source, LInv, NEW r \in CReq, NEW s \in Source, NEW o \in Order, BeginConvert(r, s, o)
  PROVE  LInv'
<1>1. conv' = [conv EXCEPT ![r] = [pc |-> "asking", source |-> s, order |-> o]] /\ UNCHANGED <<key, orders>>
  BY DEF BeginConvert
<1>2. LType'
  BY <1>1 DEF LInv, LType, Conversions
<1>3. OwnId'
  BY <1>1 DEF BeginConvert, LInv, LType, OwnId, Under
<1>4. OwnKey'
  BY <1>1 DEF LInv, LType, OwnKey
<1> QED BY <1>1, <1>2, <1>3, <1>4 DEF LInv, OneOrder

(* Taking the key: nobody has it, nobody is about to.                        *)
LEMMA TakeKeeps == ASSUME LInv, NEW r \in CReq, TakeKey(r) PROVE LInv'
<1>1. conv' = [conv EXCEPT ![r].pc = "holding"] /\ UNCHANGED <<key, orders>>
  BY DEF TakeKey
<1>2. Under(r)
  BY DEF TakeKey, Under
<1>3. LType'
  BY <1>1, <1>2 DEF LInv, LType, Conversions, Under, NoConversion
<1>4. \A q \in CReq : conv'[q].source = conv[q].source /\ conv'[q].order = conv[q].order /\ (q # r => conv'[q].pc = conv[q].pc)
  BY <1>1 DEF LInv, LType, Conversions
<1>5. OwnId'
  BY <1>1, <1>2, <1>4 DEF LInv, OwnId, Under
<1>6. OwnKey'
  BY <1>1, <1>2, <1>4 DEF TakeKey, Takes, LInv, OwnKey
<1> QED BY <1>1, <1>3, <1>5, <1>6 DEF LInv, OneOrder

(* A conversion that ends without an order leaves no trace.                  *)
LEMMA EndKeeps ==
  ASSUME LInv, NEW r \in CReq, conv' = [conv EXCEPT ![r] = NoConversion], UNCHANGED <<key, orders>>
  PROVE  LInv'
<1>1. LType' /\ \A q \in CReq : conv'[q] = IF q = r THEN NoConversion ELSE conv[q]
  BY DEF LInv, LType, Conversions
<1> QED BY <1>1 DEF LInv, OwnId, OwnKey, OneOrder, Under, NoConversion

LEMMA ConvertedKeeps ==
  ASSUME Unlinked \notin Order, NoSource \notin Source, LInv, NEW r \in CReq, Converted(r) PROVE LInv'
<1> DEFINE s == conv[r].source
           o == conv[r].order
<1>1. conv[r].pc = "holding" /\ s \in Source /\ o \in Order /\ orders[o] = NoSource /\ key[s] = Unlinked
  BY UnderIsTyped DEF Converted, LInv, OwnId, OwnKey, Under
<1>2. /\ key' = [key EXCEPT ![s] = o] /\ orders' = [orders EXCEPT ![o] = s]
      /\ conv' = [conv EXCEPT ![r] = NoConversion]
  BY DEF Converted
<1>3. LType' /\ \A q \in CReq : conv'[q] = IF q = r THEN NoConversion ELSE conv[q]
  BY <1>1, <1>2 DEF LInv, LType, Conversions
<1>4. OwnId'
  <2> SUFFICES ASSUME NEW q \in CReq, q # r, Under(q)
               PROVE  orders'[conv[q].order] = NoSource /\ \A p \in CReq : Under(p) /\ conv[p].order = conv[q].order => p = q
    BY <1>3 DEF OwnId, Under, NoConversion
  <2>1. conv[q].order \in Order /\ conv[q].order # o
    BY <1>1, UnderIsTyped DEF LInv, OwnId, Under
  <2> QED BY <2>1, <1>2 DEF LInv, OwnId, LType
<1>5. OwnKey'
  <2> SUFFICES ASSUME NEW q \in CReq, q # r, conv[q].pc = "holding"
               PROVE  key'[conv[q].source] = Unlinked
                      /\ \A p \in CReq : conv[p].pc = "holding" /\ conv[p].source = conv[q].source => p = q
    BY <1>3 DEF OwnKey, NoConversion
  <2>1. conv[q].source \in Source /\ conv[q].source # s
    BY <1>1, UnderIsTyped DEF LInv, OwnKey, Under
  <2> QED BY <2>1, <1>2 DEF LInv, OwnKey, LType
<1>6. OneOrder'
  (* No other order was made from this source: its key would know it. *)
  <2> SUFFICES ASSUME NEW p \in Order, orders'[p] # NoSource PROVE key'[orders'[p]] = p
    BY DEF OneOrder
  <2>1. CASE p = o
    BY <2>1, <1>1, <1>2 DEF LInv, LType
  <2>2. CASE p # o
    <3>1. orders'[p] = orders[p] /\ orders[p] \in Source
      BY <2>2, <1>2 DEF LInv, LType
    <3>2. key[orders[p]] = p /\ orders[p] # s
      BY <3>1, <1>1 DEF LInv, OneOrder
    <3> QED BY <3>1, <3>2, <1>2 DEF LInv, LType
  <2> QED BY <2>1, <2>2
<1> QED BY <1>3, <1>4, <1>5, <1>6 DEF LInv

(* A source has one repair order at most, however often and by however many  *)
(* it is converted (createWithIdem takes the key first).                     *)
THEOREM OneOrderEach ==
  ASSUME NoSource \notin Source, Unlinked \notin Order PROVE LinkedSpec => []OneOrder
<1>1. LinkedInit => LInv
  BY DEF LinkedInit, LInv, LType, OwnId, OwnKey, OneOrder, Conversions, Under, NoConversion
<1>2. LInv /\ [\/ Converting
               \/ \E r \in CReq, s \in Source, o \in Order : BeginConvert(r, s, o)]_lvars => LInv'
  <2> SUFFICES ASSUME LInv, [\/ Converting
               \/ \E r \in CReq, s \in Source, o \in Order : BeginConvert(r, s, o)]_lvars PROVE LInv'
    OBVIOUS
  <2>1. CASE UNCHANGED lvars
    BY <2>1 DEF lvars, LInv, LType, OwnId, OwnKey, OneOrder, Under
  <2>2. ASSUME NEW r \in CReq, AlreadyConverted(r) \/ NotConverted(r) PROVE LInv'
    BY <2>2, EndKeeps DEF AlreadyConverted, NotConverted
  <2> QED BY <2>1, <2>2, BeginKeeps, TakeKeeps, ConvertedKeeps DEF Converting
<1> QED BY <1>1, <1>2, PTL DEF LinkedSpec, LInv
================================================================================
