-------------------------- MODULE WorkOrdersProofs --------------------------
(***************************************************************************)
(* Proofs about WorkOrders and Boards for any number of orders, workers,   *)
(* versions and rules.  worker.load counts the orders a worker is on duty  *)
(* for (LoadSound): what a transaction has settled so far is the           *)
(* difference between the row it read and the row it is about to write.    *)
(* What its hops have reached lies on the flow of its order                *)
(* (KeptToItsFlow), which gives when an order is learned from              *)
(* (CompletionsLearned).                                                   *)
(***************************************************************************)
EXTENDS Boards, FiniteSetTheorems, TLAPS

(* The edges found by two states or by an event are edges of the definition.*)
LEMMA FoundEdges ==
  ASSUME NEW def, NEW x, NEW y
  PROVE  FirstTo(def, x, y) \subseteq Edges(def) /\ FirstOn(def, x, y) \subseteq Edges(def)
BY DEF FirstTo, FirstOn, FirstEdge, Edges, ToSet

(* What the constants promise of every definition an order can be pinned to.*)
LEMMA DefFacts ==
  ASSUME NEW v \in Version
  PROVE  /\ Defs[v].states \subseteq State /\ "none" \notin Defs[v].states
         /\ \A e \in Edges(Defs[v]) : e.to \in State /\ e.event \in Event
<1>1. Defs[v].states \subseteq State
  BY DEF State
<1>2. "none" \notin Defs[v].states /\ WellFormed(Defs[v])
  BY ConstantAssumption DEF ConstantAssumption
<1>3. \A e \in Edges(Defs[v]) : e.to \in Defs[v].states
  BY <1>2 DEF WellFormed
<1>4. \A e \in Edges(Defs[v]) : e.event \in Event
  BY DEF Event
<1> QED
  BY <1>1, <1>2, <1>3, <1>4

LEMMA PinnedVersion ==
  ASSUME live \in Version, NEW row \in Row
  PROVE  \E v \in Version : PinnedDef(row) = Defs[v]
BY DEF PinnedDef, Row

----------------------------------------------------------------------------
(* Type correctness.                                                        *)

LEMMA NoTxType == NoTx \in Tx /\ NoOrder \in Row
<1>1. 0 \in Version
  BY ConstantAssumption DEF ConstantAssumption, Version
<1>2. NoOrder \in Row
  BY <1>1 DEF NoOrder, Row
<1>3. [w \in Worker |-> 0] \in [Worker -> Nat]
  OBVIOUS
<1>4. "none" \in Event
  BY DEF Event
<1> QED
  BY <1>2, <1>3, <1>4 DEF NoTx, Tx

(* A hop of a well-typed transaction leaves a well-typed transaction.        *)
LEMMA HopType ==
  ASSUME TypeOK, NEW t \in Tx, NEW e, e.to \in State, NEW w \in Worker \cup {NoWorker}
  PROVE  /\ AfterHop(t, e, w) \in Tx
         /\ AfterHop(t, e, w).step = t.step
         /\ AfterHop(t, e, w).row = Moved(t.row, e, w)
<1> DEFINE a == Contrib(t.row)
           b == Contrib(Moved(t.row, e, w))
<1>1. Moved(t.row, e, w) \in Row
  BY DEF Moved, Row, Tx
<1>2. Touched(t, a, b) \in SUBSET Worker
  <2>1. t.row.assignee \in Worker \cup {NoWorker} /\ Moved(t.row, e, w).assignee \in Worker \cup {NoWorker}
    BY <1>1 DEF Row, Tx
  <2>2. {a, b} \subseteq Worker \cup {NoWorker}
    BY <2>1 DEF Contrib
  <2> QED
    BY <2>2 DEF Touched, Tx
<1>3. Settled(t, a, b) \in [Worker -> Nat]
  <2>1. \A x \in Worker : Counted(t, x) \in Nat /\ t.load[x] \in Nat
    BY DEF Counted, Tx, TypeOK
  <2>2. \A n \in Nat : n + 1 \in Nat /\ (n # 0 => n - 1 \in Nat)
    OBVIOUS
  <2> QED
    BY <2>1, <2>2 DEF Settled
<1> QED
  BY <1>1, <1>2, <1>3 DEF AfterHop, Tx

(* A step that only puts a well-typed open transaction in the place of       *)
(* another one preserves the types.                                         *)
LEMMA OpenTxType ==
  ASSUME TypeOK, NEW o \in Order, NEW t \in Tx, t.step # "idle",
         tx' = [tx EXCEPT ![o] = t],
         UNCHANGED <<order, load, active, live, learned, redone, correcting>>
  PROVE  TypeOK'
BY DEF TypeOK

(* A hop over an edge found in the definition of the row, by a transaction   *)
(* that is or becomes open.                                                  *)
LEMMA HopTypeOK ==
  ASSUME TypeOK, NEW o \in Order, NEW t \in Tx, t.step # "idle",
         NEW e, NEW w \in Worker \cup {NoWorker}, Hop(o, t, e, w),
         UNCHANGED <<order, load, active, live, learned, redone, correcting>>
  PROVE  TypeOK'
<1>1. PICK v \in Version : PinnedDef(t.row) = Defs[v]
  BY PinnedVersion DEF TypeOK, Tx
<1>2. e.to \in State
  BY <1>1, DefFacts DEF Hop
<1> QED
  BY <1>2, HopType, OpenTxType DEF Hop

(* The transaction a request opens on an existing order.                     *)
LEMMA BeginType ==
  ASSUME TypeOK, NEW row \in Row, NEW kind \in {"transition", "claim", "accept"},
         NEW to \in State, NEW event \in Event
  PROVE  /\ Begin(kind, row, to, event) \in Tx
         /\ Begin(kind, row, to, event).step = "moved"
         /\ Begin(kind, row, to, event).row = row
BY NoTxType DEF Begin, Tx, NoTx, Row

(* An edge found for a row ends in a known state and has a known event.      *)
LEMMA FoundTypes ==
  ASSUME TypeOK, NEW row \in Row, NEW x, NEW y, NEW e,
         e \in FirstTo(PinnedDef(row), x, y) \cup FirstOn(PinnedDef(row), x, y)
  PROVE  e.to \in State /\ e.event \in Event
<1>1. PICK v \in Version : PinnedDef(row) = Defs[v]
  BY PinnedVersion DEF TypeOK
<1> QED
  BY <1>1, FoundEdges, DefFacts

LEMMA RecountedType == ASSUME NEW row \in Row PROVE Recounted(row) \in Row
<1>1. row.count \in Nat
  BY DEF Row
<1>2. row.count + 1 \in Nat
  BY <1>1
<1> QED
  BY <1>2 DEF Recounted, Row

(* The transaction that has just inserted a draft.                           *)
LEMMA DraftType ==
  ASSUME TypeOK
  PROVE  [NoTx EXCEPT !.kind = "create", !.step = "inserted",
                      !.row = [NoOrder EXCEPT !.status = "draft", !.dv = live]] \in Tx
BY NoTxType DEF Tx, NoTx, Row, NoOrder, State, TypeOK

LEMMA TypeStep == TypeOK /\ [Next]_vars => TypeOK'
<1> SUFFICES ASSUME TypeOK, [Next]_vars PROVE TypeOK'
  OBVIOUS
<1> USE DEF TypeOK
<1>1. ASSUME NEW o \in Order, OrderStep(o) PROVE TypeOK'
  <2>0. tx[o] \in Tx /\ order[o] \in Row /\ tx[o].row \in Row /\ tx[o].event \in Event
    BY DEF Tx
  <2>1. CASE CreateRow(o)
    <3>1. [NoTx EXCEPT !.kind = "create", !.step = "inserted",
                       !.row = [NoOrder EXCEPT !.status = "draft", !.dv = live]] \in Tx
      BY DraftType
    <3> QED
      BY <2>1, <3>1, OpenTxType DEF CreateRow, NoTx
  <2>2. ASSUME NEW w \in Worker, AutoDispatch(o, w) PROVE TypeOK'
    <3>1. PICK e : Hop(o, [tx[o] EXCEPT !.step = "moved"], e, w)
      BY <2>2 DEF AutoDispatch
    <3>2. [tx[o] EXCEPT !.step = "moved"] \in Tx
      BY <2>0 DEF Tx
    <3>3. [tx[o] EXCEPT !.step = "moved"].step # "idle"
      BY <2>0 DEF Tx
    <3> QED
      BY <2>2, <3>1, <3>2, <3>3, HopTypeOK DEF AutoDispatch
  <2>3. CASE EnterHall(o)
    <3>1. PICK e : Hop(o, [tx[o] EXCEPT !.step = "moved"], e, NoWorker)
      BY <2>3 DEF EnterHall
    <3>2. [tx[o] EXCEPT !.step = "moved"] \in Tx
      BY <2>0 DEF Tx
    <3>3. [tx[o] EXCEPT !.step = "moved"].step # "idle"
      BY <2>0 DEF Tx
    <3> QED
      BY <2>3, <3>1, <3>2, <3>3, HopTypeOK DEF EnterHall
  <2>4. ASSUME NEW to \in State, NEW role \in Role, NEW w \in Worker \cup {NoWorker},
               Transition(o, to, role, w) PROVE TypeOK'
    <3>1. PICK e \in FirstTo(PinnedDef(order[o]), order[o].status, to) :
                 Hop(o, Begin("transition", order[o], to, e.event), e, w)
      BY <2>4 DEF Transition
    <3>2. Begin("transition", order[o], to, e.event) \in Tx
          /\ Begin("transition", order[o], to, e.event).step = "moved"
      BY <2>0, <3>1, FoundTypes, BeginType
    <3> QED
      BY <2>4, <3>1, <3>2, HopTypeOK DEF Transition
  <2>5. ASSUME NEW role \in Role, NEW w \in Worker \cup {NoWorker}, Claim(o, role, w) PROVE TypeOK'
    <3>1. PICK e \in FirstOn(PinnedDef(order[o]), order[o].status, "claim") :
                 Hop(o, Begin("claim", order[o], e.to, "claim"), e, w)
      BY <2>5 DEF Claim
    <3>2. "claim" \in Event
      BY DEF Event
    <3>3. Begin("claim", order[o], e.to, "claim") \in Tx
          /\ Begin("claim", order[o], e.to, "claim").step = "moved"
      BY <2>0, <3>1, <3>2, FoundTypes, BeginType
    <3> QED
      BY <2>5, <3>1, <3>3, HopTypeOK DEF Claim
  <2>6. ASSUME NEW event \in AcceptanceEvents, NEW role \in Role, Accept(o, event, role) PROVE TypeOK'
    <3>1. PICK e \in FirstOn(PinnedDef(order[o]), order[o].status, event) :
                 Hop(o, Begin("accept", order[o], e.to, event), e, NoWorker)
      BY <2>6 DEF Accept
    <3>2. event \in Event
      BY <2>6 DEF Event
    <3>3. Begin("accept", order[o], e.to, event) \in Tx
          /\ Begin("accept", order[o], e.to, event).step = "moved"
      BY <2>0, <3>1, <3>2, FoundTypes, BeginType
    <3> QED
      BY <2>6, <3>1, <3>3, HopTypeOK DEF Accept
  <2>7. ASSUME NEW event \in AutoEvents, AutoAdvance(o, event) PROVE TypeOK'
    <3>1. PICK t, e : /\ t = IF tx[o].kind = "redispatch" THEN [tx[o] EXCEPT !.step = "advanced"]
                             ELSE [tx[o] EXCEPT !.step = "advanced", !.from = tx[o].row.status, !.event = event]
                      /\ Hop(o, t, e, NoWorker)
      BY <2>7 DEF AutoAdvance
    <3>2. event \in Event
      BY <2>7 DEF Event
    <3>3. t \in Tx /\ t.step = "advanced"
      BY <2>0, <3>1, <3>2 DEF Tx, Row
    <3> QED
      BY <2>7, <3>1, <3>3, HopTypeOK DEF AutoAdvance
  <2>8. ASSUME NEW w \in Worker, Redispatch(o, w) PROVE TypeOK'
    <3>1. PICK e : Hop(o, [tx[o] EXCEPT !.kind = "redispatch", !.step = "moved", !.row = Recounted(@)], e, w)
      BY <2>8 DEF Redispatch
    <3>0. Recounted(tx[o].row) \in Row
      BY <2>0, RecountedType
    <3>2. [tx[o] EXCEPT !.kind = "redispatch", !.step = "moved", !.row = Recounted(@)] \in Tx
      BY <2>0, <3>0 DEF Tx
    <3>3. [tx[o] EXCEPT !.kind = "redispatch", !.step = "moved", !.row = Recounted(@)].step = "moved"
      BY <2>0 DEF Tx
    <3> QED
      BY <2>8, <3>1, <3>2, <3>3, HopTypeOK DEF Redispatch
  <2>9. CASE Commit(o)
    <3>1. load' \in [Worker -> Nat]
      BY <2>0, <2>9 DEF Commit, Counted, Tx
    <3>2. learned' \subseteq Order \X State
      <4>1. "none" \notin LearnOn
        <5>1. {order[p].dv : p \in {q \in Order : Exists(q)}} \cup {live} \subseteq Version
          BY DEF Row
        <5>2. \A v \in Version : "none" \notin LearningTriggers(Defs[v])
          BY ConstantAssumption DEF ConstantAssumption, LearningTriggers, DoneStates, TerminalStates
        <5> QED
          BY <5>1, <5>2 DEF LearnOn
      <4>2. tx[o].to \in LearnOn => tx[o].to \in State
        BY <2>0, <4>1 DEF Tx
      <4> QED
        BY <2>9, <4>2 DEF Commit, LearnedBy
    <3>3. redone' \in [Order -> Nat]
      BY <2>9 DEF Commit
    <3>4. order' \in [Order -> Row] /\ tx' \in [Order -> Tx]
      BY <2>0, <2>9, NoTxType DEF Commit
    <3>5. \A p \in Order : tx'[p].step = "idle" => tx'[p] = NoTx
      BY <2>9 DEF Commit
    <3> QED
      BY <2>9, <3>1, <3>2, <3>3, <3>4, <3>5 DEF Commit
  <2>10. CASE Abort(o)
    BY <2>10, NoTxType DEF Abort
  <2>11. CASE CorrectRead(o)
    BY <2>0, <2>11 DEF CorrectRead, Row
  <2>12. CASE CorrectWrite(o)
    <3>1. [order[o] EXCEPT !.count = correcting[o].count] \in Row
      BY <2>0 DEF Row
    <3>2. NotReading \in [reading : BOOLEAN, count : Nat]
      BY DEF NotReading
    <3> QED
      BY <2>12, <3>1, <3>2 DEF CorrectWrite
  <2> QED
    BY <1>1, <2>1, <2>2, <2>3, <2>4, <2>5, <2>6, <2>7, <2>8, <2>9, <2>10, <2>11, <2>12 DEF OrderStep
<1>2. ASSUME NEW w \in Worker, SetActive(w) PROVE TypeOK'
  BY <1>2 DEF SetActive
<1>3. CASE PublishDef
  BY <1>3, ConstantAssumption DEF PublishDef, Version, ConstantAssumption
<1>4. CASE UNCHANGED vars
  BY <1>4 DEF vars
<1> QED
  BY <1>1, <1>2, <1>3, <1>4 DEF Next

(* Every reachable state is well typed.                                      *)
THEOREM TypeCorrect == Spec => []TypeOK
<1>1. Init => TypeOK
  <2> SUFFICES ASSUME Init PROVE TypeOK
    OBVIOUS
  <2>1. FirstVersion \in Version
    BY ConstantAssumption DEF ConstantAssumption
  <2> QED
    BY <2>1, NoTxType DEF Init, TypeOK, NotReading
<1>2. TypeOK /\ [Next]_vars => TypeOK'
  BY TypeStep
<1> QED
  BY <1>1, <1>2, PTL DEF Spec

----------------------------------------------------------------------------
(* The load of a worker.  Once every row is stamped with a version, the      *)
(* worker a row counts for depends on the row alone.                         *)

Duty(row)   == IF row.status \in ActiveStates(Defs[row.dv]) THEN row.assignee ELSE NoWorker
One(row, w) == IF Duty(row) = w THEN 1 ELSE 0
Stamped(row) == row.dv # 0 \/ row.status = "none"

(* What an open transaction t on order o has settled so far: with its own    *)
(* copies in the place of the table, the loads count the row it will write.  *)
Settles(o, t) == \A w \in Worker : Counted(t, w) + One(order[o], w) = load[w] + One(t.row, w)
HoldsAlone(o, t) == \A p \in Order \ {o} : t.held \cap tx[p].held = {}

Balance == \A w \in Worker : load[w] = Cardinality({o \in Order : Duty(order[o]) = w})

LedgerInv ==
  /\ TypeOK
  /\ live # 0
  /\ \A o \in Order : Stamped(order[o]) /\ Stamped(tx[o].row)
  /\ \A o \in Order : ~Idle(o) => Settles(o, tx[o])
  /\ \A o \in Order : HoldsAlone(o, tx[o])
  /\ Balance

LEMMA ContribIsDuty ==
  ASSUME live \in Version, NEW row \in Row, Stamped(row)
  PROVE  Contrib(row) = Duty(row)
<1>1. CASE row.dv # 0
  BY <1>1 DEF Contrib, Duty, PinnedDef
<1>2. CASE row.status = "none"
  <2>1. \A v \in Version : "none" \notin ActiveStates(Defs[v])
    BY ConstantAssumption DEF ConstantAssumption, ActiveStates
  <2> QED
    BY <1>2, <2>1 DEF Contrib, Duty, PinnedDef, Row
<1> QED
  BY <1>1, <1>2 DEF Stamped

LEMMA OneType == \A row, w : One(row, w) \in {0, 1}
BY DEF One

(* Two sets of orders that agree except on o.                                *)
LEMMA CardinalityExcept ==
  ASSUME NEW o \in Order, NEW A \in SUBSET Order, NEW B \in SUBSET Order, A \ {o} = B \ {o}
  PROVE  Cardinality(A) + (IF o \in B THEN 1 ELSE 0) = Cardinality(B) + (IF o \in A THEN 1 ELSE 0)
<1>1. IsFiniteSet(A) /\ IsFiniteSet(B)
  BY ConstantAssumption, FS_Subset DEF ConstantAssumption
<1>2. Cardinality(A) \in Nat /\ Cardinality(B) \in Nat
  BY <1>1, FS_CardinalityType
<1>3. Cardinality(A \ {o}) = IF o \in A THEN Cardinality(A) - 1 ELSE Cardinality(A)
  BY <1>1, FS_RemoveElement
<1>4. Cardinality(B \ {o}) = IF o \in B THEN Cardinality(B) - 1 ELSE Cardinality(B)
  BY <1>1, FS_RemoveElement
<1> QED
  BY <1>2, <1>3, <1>4

(* A worker who is on duty for some order has a positive load, so the        *)
(* GREATEST(load - 1, 0) of the code never cuts anything off.                *)
LEMMA DutyPositive ==
  ASSUME Balance, NEW o \in Order, NEW w \in Worker, Duty(order[o]) = w
  PROVE  load[w] # 0
<1> DEFINE S == {p \in Order : Duty(order[p]) = w}
<1>1. IsFiniteSet(S) /\ o \in S
  BY ConstantAssumption, FS_Subset DEF ConstantAssumption
<1>2. Cardinality(S) # 0
  BY <1>1, FS_EmptySet
<1> QED
  BY <1>2 DEF Balance

(* A hop keeps the ledger of its transaction.                                *)
LEMMA HopSettles ==
  ASSUME LedgerInv, NEW o \in Order, NEW t \in Tx, Stamped(t.row), Settles(o, t),
         NEW e, e.to \in State, t.row.dv # 0, NEW w \in Worker \cup {NoWorker}
  PROVE  Settles(o, AfterHop(t, e, w)) /\ Stamped(AfterHop(t, e, w).row)
<1> DEFINE row == Moved(t.row, e, w)
           a == Duty(t.row)
           b == Duty(row)
           u == AfterHop(t, e, w)
<1>1. row \in Row /\ Stamped(row) /\ t.row \in Row
  BY DEF Moved, Row, Tx, Stamped
<1>2. Contrib(t.row) = a /\ Contrib(row) = b
  BY <1>1, ContribIsDuty DEF LedgerInv, TypeOK
<1>3. u.row = row /\ u.held = Touched(t, a, b) /\ u.load = Settled(t, a, b)
  BY <1>2 DEF AfterHop, Tx
<1> HIDE DEF u, a, b, row
<1>4. ASSUME NEW x \in Worker
      PROVE  Counted(u, x) + One(order[o], x) = load[x] + One(row, x)
  <2>0. /\ Counted(t, x) \in Nat /\ load[x] \in Nat
        /\ Counted(t, x) + One(order[o], x) = load[x] + One(t.row, x)
    BY DEF Counted, Tx, LedgerInv, TypeOK, Settles
  <2>1. CASE a = b \/ x \notin {a, b}
    <3>1. Counted(u, x) = Counted(t, x)
      BY <1>3, <2>1 DEF Counted, Touched, Settled
    <3>2. One(row, x) = One(t.row, x)
      BY <2>1 DEF One, a, b
    <3> QED
      BY <2>0, <3>1, <3>2
  <2>2. CASE a # b /\ x = b
    <3>1. Counted(u, x) = Counted(t, x) + 1
      BY <1>3, <2>2, ConstantAssumption DEF Counted, Touched, Settled, ConstantAssumption
    <3>2. One(row, x) = 1 /\ One(t.row, x) = 0
      BY <2>2 DEF One, a, b
    <3> QED
      BY <2>0, <3>1, <3>2, OneType
  <2>3. CASE a # b /\ x = a
    <3>1. One(row, x) = 0 /\ One(t.row, x) = 1
      BY <2>3 DEF One, a, b
    <3>2. Counted(t, x) # 0
      <4>1. CASE One(order[o], x) = 0
        BY <2>0, <3>1, <4>1
      <4>2. CASE One(order[o], x) = 1
        <5>1. load[x] # 0
          BY <4>2, DutyPositive DEF LedgerInv, One
        <5> QED
          BY <2>0, <3>1, <4>2, <5>1
      <4> QED
        BY <4>1, <4>2, OneType
    <3>3. Counted(u, x) = Counted(t, x) - 1
      BY <1>3, <2>3, <3>2, ConstantAssumption DEF Counted, Touched, Settled, ConstantAssumption
    <3> QED
      BY <2>0, <3>1, <3>3, OneType
  <2> QED
    BY <2>1, <2>2, <2>3
<1>5. Settles(o, u)
  BY <1>3, <1>4 DEF Settles
<1> QED
  BY <1>1, <1>3, <1>5 DEF u

(* A step that opens or advances the transaction of o and leaves the tables  *)
(* alone.                                                                    *)
LEMMA OpenTxLedger ==
  ASSUME LedgerInv, TypeOK', NEW o \in Order, NEW t \in Tx, Stamped(t.row),
         Settles(o, t), HoldsAlone(o, t),
         tx' = [tx EXCEPT ![o] = t], UNCHANGED <<order, load, live>>
  PROVE  LedgerInv'
<1>0. \A p \in Order : tx'[p] = IF p = o THEN t ELSE tx[p]
  BY DEF LedgerInv, TypeOK
<1>1. \A p \in Order : Stamped(order'[p]) /\ Stamped(tx'[p].row)
  BY <1>0 DEF LedgerInv
<1>2. ASSUME NEW p \in Order, tx'[p].step # "idle" PROVE Settles(p, tx[p])'
  <2>1. Settles(p, tx'[p])
    BY <1>0, <1>2 DEF LedgerInv, Idle
  <2> QED
    BY <2>1 DEF Settles, Counted, One, Duty
<1>3. \A p \in Order : HoldsAlone(p, tx[p])'
  BY <1>0 DEF LedgerInv, HoldsAlone
<1>4. Balance'
  BY DEF LedgerInv, Balance, Duty
<1> QED
  BY <1>1, <1>2, <1>3, <1>4 DEF LedgerInv, Idle, Stamped

(* Every hop of an open or just opened transaction.                          *)
LEMMA HopLedger ==
  ASSUME LedgerInv, TypeOK', NEW o \in Order, NEW t \in Tx, Stamped(t.row), Settles(o, t),
         NEW e, NEW w \in Worker \cup {NoWorker}, Hop(o, t, e, w), UNCHANGED <<order, load, live>>
  PROVE  LedgerInv'
<1>1. PICK v \in Version : PinnedDef(t.row) = Defs[v]
  BY PinnedVersion DEF LedgerInv, TypeOK, Tx
<1>2. e.to \in State /\ t.row.status # "none"
  BY <1>1, DefFacts DEF Hop
<1>3. t.row.dv # 0
  BY <1>2 DEF Stamped
<1>4. Settles(o, AfterHop(t, e, w)) /\ Stamped(AfterHop(t, e, w).row)
  BY <1>2, <1>3, HopSettles
<1>5. AfterHop(t, e, w) \in Tx
  BY <1>2, HopType DEF LedgerInv
<1>6. HoldsAlone(o, AfterHop(t, e, w))
  BY DEF Hop, WorkersFree, HoldsAlone
<1> QED
  BY <1>4, <1>5, <1>6, OpenTxLedger DEF Hop

(* The transaction a request opens on a row it has just locked.              *)
LEMMA BeginSettles ==
  ASSUME LedgerInv, NEW o \in Order, NEW kind, NEW to, NEW event
  PROVE  Settles(o, Begin(kind, order[o], to, event)) /\ Stamped(Begin(kind, order[o], to, event).row)
<1>1. Begin(kind, order[o], to, event).row = order[o] /\ Begin(kind, order[o], to, event).held = {}
  BY DEF Begin, NoTx
<1>2. \A w \in Worker : load[w] \in Nat
  BY DEF LedgerInv, TypeOK
<1> QED
  BY <1>1, <1>2 DEF Settles, Counted, LedgerInv

(* Changing what is not the row, the held workers or their loads; counting a *)
(* re-dispatch does not change who is on duty.                               *)
LEMMA SameLedger ==
  ASSUME LedgerInv, NEW o \in Order, ~Idle(o), NEW t,
         t.held = tx[o].held, t.load = tx[o].load, t.row \in {tx[o].row, Recounted(tx[o].row)}
  PROVE  Stamped(t.row) /\ Settles(o, t)
<1>1. tx[o].row \in Row
  BY DEF LedgerInv, TypeOK, Tx
<1>2. t.row.dv = tx[o].row.dv /\ t.row.status = tx[o].row.status /\ t.row.assignee = tx[o].row.assignee
  BY <1>1 DEF Recounted, Row
<1>3. \A w : One(t.row, w) = One(tx[o].row, w) /\ Counted(t, w) = Counted(tx[o], w)
  BY <1>2 DEF One, Duty, Counted
<1>4. Settles(o, tx[o]) /\ Stamped(tx[o].row)
  BY DEF LedgerInv
<1> QED
  BY <1>2, <1>3, <1>4 DEF Settles, Stamped

(* Commit: the tables take over the copies of one transaction.               *)
LEMMA CommitLedger ==
  ASSUME LedgerInv, TypeOK', NEW o \in Order, Commit(o)
  PROVE  LedgerInv'
<1>0. /\ order \in [Order -> Row] /\ tx \in [Order -> Tx] /\ tx[o].step # "idle"
      /\ order' = [order EXCEPT ![o] = tx[o].row]
      /\ load' = [w \in Worker |-> Counted(tx[o], w)]
      /\ tx' = [tx EXCEPT ![o] = NoTx] /\ live' = live
  BY DEF LedgerInv, TypeOK, Commit
<1>1. /\ \A p \in Order : order'[p] = IF p = o THEN tx[o].row ELSE order[p]
      /\ \A p \in Order : tx'[p] = IF p = o THEN NoTx ELSE tx[p]
      /\ \A w \in Worker : load'[w] = Counted(tx[o], w)
  BY <1>0
<1>2. Settles(o, tx[o])
  BY <1>0 DEF LedgerInv, Idle
<1>3. \A p \in Order : Stamped(order'[p]) /\ Stamped(tx'[p].row)
  BY <1>1 DEF LedgerInv, Stamped, NoTx, NoOrder
<1>4. \A p \in Order : HoldsAlone(p, tx[p])'
  BY <1>1 DEF LedgerInv, HoldsAlone, NoTx
<1>5. ASSUME NEW p \in Order, tx'[p].step # "idle" PROVE Settles(p, tx[p])'
  <2>1. p # o /\ tx'[p] = tx[p] /\ order'[p] = order[p]
    BY <1>1, <1>5 DEF NoTx
  <2>2. Settles(p, tx[p]) /\ HoldsAlone(p, tx[p])
    BY <1>5, <2>1 DEF LedgerInv, Idle
  <2>3. ASSUME NEW w \in Worker
        PROVE  (IF w \in tx[p].held THEN tx[p].load[w] ELSE load'[w]) + One(order[p], w)
                 = load'[w] + One(tx[p].row, w)
    <3>0. /\ Counted(tx[p], w) + One(order[p], w) = load[w] + One(tx[p].row, w)
          /\ load[w] \in Nat /\ load'[w] \in Nat /\ tx[p].load[w] \in Nat
      BY <1>0, <2>2 DEF Settles, LedgerInv, TypeOK, Tx
    <3>1. CASE w \in tx[p].held
      <4>1. load'[w] = load[w]
        BY <1>1, <2>1, <2>2, <3>1 DEF HoldsAlone, Counted
      <4> QED
        BY <3>0, <3>1, <4>1 DEF Counted
    <3>2. CASE w \notin tx[p].held
      <4>1. One(order[p], w) = One(tx[p].row, w)
        BY <3>0, <3>2, OneType DEF Counted
      <4> QED
        BY <3>2, <4>1
    <3> QED
      BY <3>1, <3>2
  <2> QED
    BY <2>1, <2>3 DEF Settles, Counted, One, Duty
<1>6. ASSUME NEW w \in Worker
      PROVE  load'[w] = Cardinality({p \in Order : Duty(order'[p]) = w})
  <2> DEFINE A == {p \in Order : Duty(order[p]) = w}
             B == {p \in Order : Duty(order'[p]) = w}
  <2>1. Cardinality(A) + (IF o \in B THEN 1 ELSE 0) = Cardinality(B) + (IF o \in A THEN 1 ELSE 0)
    <3>1. A \ {o} = B \ {o}
      BY <1>1
    <3> HIDE DEF A, B
    <3>2. A \in SUBSET Order /\ B \in SUBSET Order
      BY DEF A, B
    <3> QED
      BY <3>1, <3>2, CardinalityExcept
  <2>2. (IF o \in B THEN 1 ELSE 0) = One(tx[o].row, w) /\ (IF o \in A THEN 1 ELSE 0) = One(order[o], w)
    BY <1>1 DEF One
  <2>3. load[w] = Cardinality(A) /\ load[w] \in Nat
    BY DEF LedgerInv, Balance, TypeOK
  <2>4. Cardinality(B) \in Nat
    BY ConstantAssumption, FS_Subset, FS_CardinalityType DEF ConstantAssumption
  <2>5. load'[w] + One(order[o], w) = load[w] + One(tx[o].row, w) /\ load'[w] \in Nat
    BY <1>1, <1>2 DEF Settles, TypeOK
  <2> HIDE DEF A, B
  <2>6. load'[w] = Cardinality(B)
    BY <2>1, <2>2, <2>3, <2>4, <2>5, OneType
  <2> QED
    BY <2>6 DEF B
<1>7. Balance'
  BY <1>6 DEF Balance, Duty
<1> QED
  BY <1>0, <1>3, <1>4, <1>5, <1>7 DEF LedgerInv, Idle, Stamped

LEMMA LedgerStep == LedgerInv /\ [Next]_vars => LedgerInv'
<1> SUFFICES ASSUME LedgerInv, [Next]_vars PROVE LedgerInv'
  OBVIOUS
<1>0. TypeOK'
  BY TypeStep DEF LedgerInv
<1>1. ASSUME NEW o \in Order, OrderStep(o) PROVE LedgerInv'
  <2>0. TypeOK /\ tx[o] \in Tx /\ order[o] \in Row /\ tx[o].row \in Row
    BY DEF LedgerInv, TypeOK, Tx
  <2>1. CASE CreateRow(o)
    <3> DEFINE t == [NoTx EXCEPT !.kind = "create", !.step = "inserted",
                                 !.row = [NoOrder EXCEPT !.status = "draft", !.dv = live]]
    <3>0. t \in Tx
      BY <2>0, DraftType
    <3>1. t \in Tx /\ t.held = {}
      BY <3>0 DEF NoTx
    <3>2. t.row.assignee = NoWorker /\ t.row.dv = live
      BY DEF NoTx, NoOrder
    <3>3. Stamped(t.row)
      BY <3>2 DEF Stamped, LedgerInv
    <3>4. Duty(t.row) = NoWorker
      BY <3>2 DEF Duty
    <3>5. Duty(order[o]) = NoWorker
      <4>1. order[o].status = "none" /\ order[o].dv \in Version
        BY <2>0, <2>1 DEF CreateRow, Exists, Row
      <4>2. "none" \notin ActiveStates(Defs[order[o].dv])
        BY <4>1, ConstantAssumption DEF ConstantAssumption, ActiveStates
      <4> QED
        BY <4>1, <4>2 DEF Duty
    <3>6. Settles(o, t)
      BY <3>1, <3>4, <3>5, ConstantAssumption DEF Settles, Counted, One, ConstantAssumption
    <3>7. HoldsAlone(o, t)
      BY <3>1 DEF HoldsAlone
    <3>8. tx' = [tx EXCEPT ![o] = t] /\ UNCHANGED <<order, load, live>>
      BY <2>1 DEF CreateRow
    <3> HIDE DEF t
    <3> QED
      BY <1>0, <3>1, <3>3, <3>6, <3>7, <3>8, OpenTxLedger
  <2>2. ASSUME NEW w \in Worker, AutoDispatch(o, w) PROVE LedgerInv'
    <3> DEFINE t == [tx[o] EXCEPT !.step = "moved"]
    <3>1. PICK e : Hop(o, t, e, w)
      BY <2>2 DEF AutoDispatch
    <3>2. t \in Tx /\ t.held = tx[o].held /\ t.load = tx[o].load /\ t.row = tx[o].row
      BY <2>0 DEF Tx
    <3>3. ~Idle(o) /\ UNCHANGED <<order, load, live>>
      BY <2>2 DEF AutoDispatch, Idle
    <3> HIDE DEF t
    <3> QED
      BY <1>0, <3>1, <3>2, <3>3, SameLedger, HopLedger
  <2>3. CASE EnterHall(o)
    <3> DEFINE t == [tx[o] EXCEPT !.step = "moved"]
    <3>1. PICK e : Hop(o, t, e, NoWorker)
      BY <2>3 DEF EnterHall
    <3>2. t \in Tx /\ t.held = tx[o].held /\ t.load = tx[o].load /\ t.row = tx[o].row
      BY <2>0 DEF Tx
    <3>3. ~Idle(o) /\ UNCHANGED <<order, load, live>>
      BY <2>3 DEF EnterHall, Idle
    <3> HIDE DEF t
    <3> QED
      BY <1>0, <3>1, <3>2, <3>3, SameLedger, HopLedger
  <2>4. ASSUME NEW to \in State, NEW role \in Role, NEW w \in Worker \cup {NoWorker},
               Transition(o, to, role, w) PROVE LedgerInv'
    <3>1. PICK e \in FirstTo(PinnedDef(order[o]), order[o].status, to) :
                 Hop(o, Begin("transition", order[o], to, e.event), e, w)
      BY <2>4 DEF Transition
    <3>2. Begin("transition", order[o], to, e.event) \in Tx
      BY <2>0, <3>1, FoundTypes, BeginType
    <3>3. UNCHANGED <<order, load, live>>
      BY <2>4 DEF Transition
    <3> QED
      BY <1>0, <3>1, <3>2, <3>3, BeginSettles, HopLedger
  <2>5. ASSUME NEW role \in Role, NEW w \in Worker \cup {NoWorker}, Claim(o, role, w) PROVE LedgerInv'
    <3>1. PICK e \in FirstOn(PinnedDef(order[o]), order[o].status, "claim") :
                 Hop(o, Begin("claim", order[o], e.to, "claim"), e, w)
      BY <2>5 DEF Claim
    <3>2. "claim" \in Event
      BY DEF Event
    <3>3. Begin("claim", order[o], e.to, "claim") \in Tx
      BY <2>0, <3>1, <3>2, FoundTypes, BeginType
    <3>4. UNCHANGED <<order, load, live>>
      BY <2>5 DEF Claim
    <3> QED
      BY <1>0, <3>1, <3>3, <3>4, BeginSettles, HopLedger
  <2>6. ASSUME NEW event \in AcceptanceEvents, NEW role \in Role, Accept(o, event, role) PROVE LedgerInv'
    <3>1. PICK e \in FirstOn(PinnedDef(order[o]), order[o].status, event) :
                 Hop(o, Begin("accept", order[o], e.to, event), e, NoWorker)
      BY <2>6 DEF Accept
    <3>2. event \in Event
      BY <2>6 DEF Event
    <3>3. Begin("accept", order[o], e.to, event) \in Tx
      BY <2>0, <3>1, <3>2, FoundTypes, BeginType
    <3>4. UNCHANGED <<order, load, live>>
      BY <2>6 DEF Accept
    <3> QED
      BY <1>0, <3>1, <3>3, <3>4, BeginSettles, HopLedger
  <2>7. ASSUME NEW event \in AutoEvents, AutoAdvance(o, event) PROVE LedgerInv'
    <3>1. PICK t, e : /\ t = IF tx[o].kind = "redispatch" THEN [tx[o] EXCEPT !.step = "advanced"]
                             ELSE [tx[o] EXCEPT !.step = "advanced", !.from = tx[o].row.status, !.event = event]
                      /\ Hop(o, t, e, NoWorker)
      BY <2>7 DEF AutoAdvance
    <3>2. event \in Event
      BY <2>7 DEF Event
    <3>3. t \in Tx /\ t.held = tx[o].held /\ t.load = tx[o].load /\ t.row = tx[o].row
      BY <2>0, <3>1, <3>2 DEF Tx, Row
    <3>4. ~Idle(o) /\ UNCHANGED <<order, load, live>>
      BY <2>7 DEF AutoAdvance, Idle
    <3> QED
      BY <1>0, <3>1, <3>3, <3>4, SameLedger, HopLedger
  <2>8. ASSUME NEW w \in Worker, Redispatch(o, w) PROVE LedgerInv'
    <3> DEFINE t == [tx[o] EXCEPT !.kind = "redispatch", !.step = "moved", !.row = Recounted(@)]
    <3>1. PICK e : Hop(o, t, e, w)
      BY <2>8 DEF Redispatch
    <3>2. Recounted(tx[o].row) \in Row
      BY <2>0, RecountedType
    <3>3. t \in Tx /\ t.held = tx[o].held /\ t.load = tx[o].load /\ t.row = Recounted(tx[o].row)
      BY <2>0, <3>2 DEF Tx
    <3>4. ~Idle(o) /\ UNCHANGED <<order, load, live>>
      BY <2>8 DEF Redispatch, Idle
    <3> HIDE DEF t
    <3> QED
      BY <1>0, <3>1, <3>3, <3>4, SameLedger, HopLedger
  <2>9. CASE Commit(o)
    BY <1>0, <2>9, CommitLedger
  <2>10. CASE Abort(o)
    <3>1. \A p \in Order : tx'[p] = IF p = o THEN NoTx ELSE tx[p]
      BY <2>0, <2>10 DEF Abort, TypeOK
    <3>2. UNCHANGED <<order, load, live>>
      BY <2>10 DEF Abort
    <3>3. \A p \in Order : Stamped(tx'[p].row)
      BY <3>1 DEF LedgerInv, Stamped, NoTx, NoOrder
    <3>4. \A p \in Order : HoldsAlone(p, tx[p])'
      BY <3>1 DEF LedgerInv, HoldsAlone, NoTx
    <3>5. ASSUME NEW p \in Order, tx'[p].step # "idle" PROVE Settles(p, tx[p])'
      <4>1. p # o /\ tx'[p] = tx[p]
        BY <3>1, <3>5 DEF NoTx
      <4>2. Settles(p, tx'[p])
        BY <3>5, <4>1 DEF LedgerInv, Idle
      <4> QED
        BY <3>2, <4>2 DEF Settles, Counted, One, Duty
    <3>6. Balance'
      BY <3>2 DEF LedgerInv, Balance, Duty
    <3> QED
      BY <1>0, <3>2, <3>3, <3>4, <3>5, <3>6 DEF LedgerInv, Idle, Stamped
  <2>11. CASE CorrectRead(o)
    BY <1>0, <2>11 DEF CorrectRead, LedgerInv, Idle, Stamped, Settles, Counted, One, Duty, HoldsAlone, Balance
  <2>12. CASE CorrectWrite(o)
    <3>1. UNCHANGED <<load, live, tx>> /\ order' = [order EXCEPT ![o].count = correcting[o].count]
      BY <2>12 DEF CorrectWrite
    <3>2. \A p \in Order : order[p] \in Row
      BY <2>0 DEF TypeOK
    <3>3. \A p \in Order : /\ order'[p].status = order[p].status /\ order'[p].dv = order[p].dv
                             /\ order'[p].assignee = order[p].assignee
      BY <2>0, <3>1, <3>2 DEF TypeOK, Row
    <3>4. \A p \in Order : Duty(order'[p]) = Duty(order[p])
      BY <3>3 DEF Duty
    <3>5. \A p \in Order, w \in Worker : One(order'[p], w) = One(order[p], w)
      BY <3>4 DEF One
    <3>6. ASSUME NEW p \in Order, tx[p].step # "idle" PROVE Settles(p, tx[p])'
      <4>1. Settles(p, tx[p])
        BY <3>6 DEF LedgerInv, Idle
      <4>2. \A w \in Worker : Counted(tx[p], w) + One(order'[p], w) = load[w] + One(tx[p].row, w)
        BY <3>5, <4>1 DEF Settles
      <4> QED
        BY <3>1, <4>2 DEF Settles, Counted, One, Duty
    <3>7. Balance'
      <4>1. ASSUME NEW w \in Worker
            PROVE  {p \in Order : Duty(order'[p]) = w} = {p \in Order : Duty(order[p]) = w}
        BY <3>4
      <4> QED
        BY <3>1, <4>1 DEF LedgerInv, Balance, Duty
    <3>8. \A p \in Order : Stamped(order'[p]) /\ Stamped(tx'[p].row)
      BY <3>1, <3>3 DEF LedgerInv, Stamped
    <3> QED
      BY <1>0, <3>1, <3>6, <3>7, <3>8 DEF LedgerInv, Idle, Stamped, HoldsAlone
  <2> QED
    BY <1>1, <2>1, <2>2, <2>3, <2>4, <2>5, <2>6, <2>7, <2>8, <2>9, <2>10, <2>11, <2>12 DEF OrderStep
<1>2. CASE \/ \E w \in Worker : SetActive(w)
           \/ PublishDef
           \/ UNCHANGED vars
  <2>1. UNCHANGED <<order, load, tx>> /\ live' # 0
    BY <1>2, ConstantAssumption DEF SetActive, PublishDef, vars, LedgerInv, TypeOK, Version, ConstantAssumption
  <2> QED
    BY <1>0, <2>1 DEF LedgerInv, Idle, Stamped, Settles, Counted, One, Duty, HoldsAlone, Balance
<1> QED
  BY <1>1, <1>2 DEF Next

LEMMA LedgerStarts == ASSUME FirstVersion # 0 PROVE Init => LedgerInv
<1> SUFFICES ASSUME Init PROVE LedgerInv
  OBVIOUS
<1>1. TypeOK
  <2>1. FirstVersion \in Version
    BY ConstantAssumption DEF ConstantAssumption
  <2> QED
    BY <2>1, NoTxType DEF Init, TypeOK, NotReading
<1>2. live # 0
  BY DEF Init
<1>3. \A o \in Order : order[o] = NoOrder /\ tx[o] = NoTx
  BY DEF Init
<1>4. \A o \in Order : Stamped(order[o]) /\ Stamped(tx[o].row) /\ Idle(o) /\ HoldsAlone(o, tx[o])
  BY <1>3 DEF Stamped, NoOrder, NoTx, Idle, HoldsAlone
<1>5. ASSUME NEW w \in Worker PROVE load[w] = Cardinality({o \in Order : Duty(order[o]) = w})
  <2>1. \A o \in Order : Duty(order[o]) = NoWorker
    BY <1>3 DEF Duty, NoOrder
  <2>2. {o \in Order : Duty(order[o]) = w} = {}
    BY <2>1, ConstantAssumption DEF ConstantAssumption
  <2> QED
    BY <2>2, FS_EmptySet DEF Init
<1> QED
  BY <1>1, <1>2, <1>4, <1>5 DEF LedgerInv, Balance

(* worker.load counts the orders a worker is on duty for, in every reachable *)
(* state, when the tenant starts with a definition of its own: every row is  *)
(* then stamped with its version (ticket.ts:294-318).                       *)
THEOREM LoadSound ==
  ASSUME FirstVersion # 0
  PROVE  Spec => []LoadMatches
<1>1. LedgerInv => LoadMatches
  <2> SUFFICES ASSUME LedgerInv, NEW w \in Worker
               PROVE  load[w] = Cardinality({o \in Order : Contrib(order[o]) = w})
    BY DEF LoadMatches
  <2>1. \A o \in Order : Contrib(order[o]) = Duty(order[o])
    BY ContribIsDuty DEF LedgerInv, TypeOK
  <2>2. {o \in Order : Contrib(order[o]) = w} = {o \in Order : Duty(order[o]) = w}
    BY <2>1
  <2> QED
    BY <2>2 DEF LedgerInv, Balance
<1> QED
  BY <1>1, LedgerStarts, LedgerStep, PTL DEF Spec

LEMMA LedgerDuty == LedgerInv => DutyOf = [o \in Order |-> Duty(order[o])]
<1> SUFFICES ASSUME LedgerInv PROVE DutyOf = [o \in Order |-> Duty(order[o])]
  OBVIOUS
<1>1. \A o \in Order : Contrib(order[o]) = Duty(order[o])
  BY ContribIsDuty DEF LedgerInv, TypeOK
<1> QED
  BY <1>1 DEF DutyOf

(* A step that is no commit makes no entry.                                  *)
LEMMA NoEntry ==
  ASSUME LedgerInv, NEW o \in Order, OrderStep(o), ~Commit(o)
  PROVE  load' = load /\ \A p \in Order : Duty(order'[p]) = Duty(order[p])
<1>1. CASE CorrectWrite(o)
  <2>1. order[o] \in Row /\ order \in [Order -> Row]
    BY DEF LedgerInv, TypeOK
  <2> DEFINE new == [order[o] EXCEPT !.count = correcting[o].count]
  <2>2. new.status = order[o].status /\ new.assignee = order[o].assignee /\ new.dv = order[o].dv
    BY <2>1 DEF Row
  <2>3. order' = [order EXCEPT ![o] = new] /\ load' = load
    BY <1>1, <2>1 DEF CorrectWrite
  <2> HIDE DEF new
  <2>4. \A p \in Order : order'[p] = IF p = o THEN new ELSE order[p]
    BY <2>1, <2>3
  <2> QED
    BY <2>2, <2>3, <2>4 DEF Duty
<1>2. CASE ~CorrectWrite(o)
  <2>1. order' = order /\ load' = load
    BY <1>2 DEF OrderStep, CreateRow, AutoDispatch, EnterHall, Transition, Claim, Accept, AutoAdvance, Redispatch, Abort,
                CorrectRead
  <2> QED
    BY <2>1
<1> QED
  BY <1>1, <1>2

(* A commit enters the handover of its order, or nothing.                    *)
LEMMA CommitEnters ==
  ASSUME LedgerInv, TypeOK', NEW o \in Order, Commit(o), DutyOf = [p \in Order |-> Duty(order[p])],
         DutyOf' = [p \in Order |-> Duty(order'[p])]
  PROVE  \/ DutyOf' = DutyOf /\ load' = load
         \/ \E w \in Worker \cup {NoWorker} : Books!Handover(o, w)
<1> DEFINE a == Duty(order[o])
           b == Duty(tx[o].row)
<1>0. /\ order \in [Order -> Row] /\ tx[o] \in Tx /\ ~Idle(o) /\ load \in [Worker -> Nat] /\ load' \in [Worker -> Nat]
      /\ order' = [order EXCEPT ![o] = tx[o].row]
      /\ load' = [w \in Worker |-> Counted(tx[o], w)]
  BY DEF LedgerInv, TypeOK, Commit, Idle
<1>1. a \in Worker \cup {NoWorker} /\ b \in Worker \cup {NoWorker}
  BY <1>0 DEF Duty, Row, Tx
<1>2. \A p \in Order : Duty(order'[p]) = IF p = o THEN b ELSE Duty(order[p])
  BY <1>0
<1>3. DutyOf' = [DutyOf EXCEPT ![o] = b] /\ DutyOf[o] = a /\ DutyOf = [p \in Order |-> DutyOf[p]]
  BY <1>2
<1>4. \A w \in Worker : load'[w] + (IF a = w THEN 1 ELSE 0) = load[w] + (IF b = w THEN 1 ELSE 0)
  BY <1>0 DEF LedgerInv, Settles, One
<1>5. a # NoWorker => load[a] > 0
  BY <1>0, <1>1, DutyPositive DEF LedgerInv
<1> HIDE DEF a, b
<1>6. CASE a = b
  <2>1. DutyOf' = DutyOf
    BY <1>3, <1>6
  <2>2. \A w \in Worker : load'[w] = load[w]
    BY <1>0, <1>4, <1>6
  <2> QED
    BY <1>0, <2>1, <2>2
<1>7. CASE a # b
  <2>1. \A w \in Worker : load'[w] = IF w = b THEN load[w] + 1 ELSE IF w = a THEN load[w] - 1 ELSE load[w]
    BY <1>0, <1>4, <1>7
  <2>2. load' = [w \in Worker |-> IF w = b THEN load[w] + 1 ELSE IF w = a THEN load[w] - 1 ELSE load[w]]
    BY <1>0, <2>1
  <2>3. load' # load
    BY <1>0, <1>1, <1>7, <2>1, ConstantAssumption DEF ConstantAssumption
  <2>4. Books!Handover(o, b)
    BY <1>3, <1>5, <1>7, <2>2, <2>3 DEF Books!Handover
  <2> QED
    BY <1>1, <2>4
<1> QED
  BY <1>6, <1>7

(* Loads and the duties of the orders implement DutyLedger, under the same   *)
(* condition: whatever hops, reviews and re-dispatches a request makes, what *)
(* it commits is one handover with its share of the load, or none.           *)
THEOREM LoadIsALedger ==
  ASSUME FirstVersion # 0
  PROVE  Spec => ImplementsLedger
<1>1. Init => Books!Init
  <2> SUFFICES ASSUME Init PROVE Books!Init
    OBVIOUS
  <2>1. DutyOf = [o \in Order |-> Duty(order[o])]
    BY LedgerStarts, LedgerDuty
  <2>2. \A o \in Order : Duty(order[o]) = NoWorker
    BY DEF Init, Duty, NoOrder
  <2> QED
    BY <2>1, <2>2 DEF Books!Init, Init
<1>2. (LedgerInv => DutyOf = [o \in Order |-> Duty(order[o])])'
  BY LedgerDuty, PTL
<1>3. LedgerInv /\ [Next]_vars => Books!Next \/ UNCHANGED <<DutyOf, load>>
  <2> SUFFICES ASSUME LedgerInv, [Next]_vars PROVE Books!Next \/ UNCHANGED <<DutyOf, load>>
    OBVIOUS
  <2>1. LedgerInv' /\ TypeOK'
    BY LedgerStep DEF LedgerInv
  <2>2. DutyOf = [o \in Order |-> Duty(order[o])] /\ DutyOf' = [o \in Order |-> Duty(order'[o])]
    BY <2>1, <1>2, LedgerDuty
  <2>3. ASSUME NEW o \in Order, OrderStep(o) PROVE Books!Next \/ UNCHANGED <<DutyOf, load>>
    <3>1. CASE Commit(o)
      BY <2>1, <2>2, <3>1, CommitEnters DEF Books!Next
    <3>2. CASE ~Commit(o)
      BY <2>2, <2>3, <3>2, NoEntry
    <3> QED
      BY <3>1, <3>2
  <2>4. CASE \/ \E w \in Worker : SetActive(w)
             \/ PublishDef
             \/ UNCHANGED vars
    <3>1. UNCHANGED <<order, load>>
      BY <2>4 DEF SetActive, PublishDef, vars
    <3> QED
      BY <2>2, <3>1
  <2> QED
    BY <2>3, <2>4 DEF Next
<1>4. LedgerInv /\ [Next]_vars => [Books!Next]_<<DutyOf, load>>
  BY <1>3
<1> QED
  BY <1>1, <1>4, LedgerStarts, LedgerStep, PTL DEF Spec, ImplementsLedger, Books!Spec

----------------------------------------------------------------------------
(* Re-dispatches.  As long as nobody writes ext back from an older read, the *)
(* count kept in ext is at least the number of re-dispatches committed, and  *)
(* the row a re-dispatch is about to write is the only one that counts more  *)
(* than the table.                                                          *)

Counts(o, t) ==
  IF t.kind = "redispatch"
  THEN t.row.count = order[o].count + 1 /\ t.row.count <= RedispatchLimit
  ELSE t.row.count = order[o].count

CountKept(o) ==
  /\ redone[o] <= order[o].count
  /\ order[o].count <= RedispatchLimit
  /\ ~correcting[o].reading
  /\ ~Exists(o) => order[o].count = 0
  /\ ~Idle(o) => tx[o].row.status # "none" /\ Counts(o, tx[o])

CountInv == \A o \in Order : CountKept(o)

(* A step that only puts another transaction in the place of one.            *)
LEMMA OpenTxCount ==
  ASSUME TypeOK, CountInv, NEW o \in Order, NEW t, tx' = [tx EXCEPT ![o] = t],
         t.row.status # "none", Counts(o, t),
         UNCHANGED <<order, redone, correcting>>
  PROVE  CountInv'
<1> SUFFICES ASSUME NEW p \in Order PROVE CountKept(p)'
  BY DEF CountInv
<1>1. CountKept(p) /\ tx \in [Order -> Tx]
  BY DEF CountInv, TypeOK
<1>2. CASE p = o
  BY <1>1, <1>2 DEF CountKept, Counts, Exists, Idle
<1>3. CASE p # o
  BY <1>1, <1>3 DEF CountKept, Counts, Exists, Idle
<1> QED
  BY <1>2, <1>3

(* transition() leaves the count of the row alone.                           *)
LEMMA HopCount ==
  ASSUME TypeOK, CountInv, NEW o \in Order, NEW t \in Tx, Counts(o, t),
         NEW e, NEW w \in Worker \cup {NoWorker}, Hop(o, t, e, w),
         UNCHANGED <<order, redone, correcting>>
  PROVE  CountInv'
<1>1. PICK v \in Version : PinnedDef(t.row) = Defs[v]
  BY PinnedVersion DEF TypeOK, Tx
<1>2. e.to \in State /\ e.to # "none"
  BY <1>1, DefFacts DEF Hop
<1>3. AfterHop(t, e, w).row = Moved(t.row, e, w)
  BY <1>2, HopType
<1>4. AfterHop(t, e, w).kind = t.kind
  BY DEF AfterHop, Tx
<1>5. Moved(t.row, e, w).count = t.row.count /\ Moved(t.row, e, w).status = e.to
  BY DEF Moved, Row, Tx
<1>6. Counts(o, AfterHop(t, e, w)) /\ AfterHop(t, e, w).row.status # "none"
  BY <1>2, <1>3, <1>4, <1>5 DEF Counts
<1> QED
  BY <1>6, OpenTxCount DEF Hop

(* A request that begins works on the row of the table.                      *)
LEMMA BeginCount ==
  ASSUME NEW o \in Order, NEW kind \in {"transition", "claim", "accept"}, NEW to, NEW event
  PROVE  Counts(o, Begin(kind, order[o], to, event))
<1>1. Begin(kind, order[o], to, event).kind = kind /\ Begin(kind, order[o], to, event).row = order[o]
  BY DEF Begin, NoTx
<1> QED
  BY <1>1 DEF Counts

LEMMA CountStep ==
  ASSUME ~Corrections
  PROVE  TypeOK /\ CountInv /\ [Next]_vars => CountInv'
<1> SUFFICES ASSUME TypeOK, CountInv, [Next]_vars PROVE CountInv'
  OBVIOUS
<1>1. ASSUME NEW o \in Order, OrderStep(o) PROVE CountInv'
  <2>0. /\ tx \in [Order -> Tx] /\ order \in [Order -> Row] /\ redone \in [Order -> Nat]
        /\ tx[o] \in Tx /\ order[o] \in Row /\ tx[o].row \in Row /\ CountKept(o)
    BY DEF Tx, TypeOK, CountInv
  <2>1. CASE CreateRow(o)
    <3> DEFINE t == [NoTx EXCEPT !.kind = "create", !.step = "inserted",
                                 !.row = [NoOrder EXCEPT !.status = "draft", !.dv = live]]
    <3>1. t.kind = "create" /\ t.row.count = 0 /\ t.row.status = "draft"
      BY DEF NoTx, NoOrder
    <3>2. order[o].count = 0
      BY <2>0, <2>1 DEF CreateRow, CountKept
    <3>3. Counts(o, t) /\ t.row.status # "none"
      BY <3>1, <3>2 DEF Counts
    <3>4. tx' = [tx EXCEPT ![o] = t] /\ UNCHANGED <<order, redone, correcting>>
      BY <2>1 DEF CreateRow
    <3> HIDE DEF t
    <3> QED
      BY <3>3, <3>4, OpenTxCount
  <2>2. ASSUME NEW e, NEW w \in Worker \cup {NoWorker}, tx[o].step = "inserted",
               Hop(o, [tx[o] EXCEPT !.step = "moved"], e, w), UNCHANGED <<order, redone, correcting>>
        PROVE  CountInv'
    <3>1. [tx[o] EXCEPT !.step = "moved"] \in Tx
      BY <2>0 DEF Tx
    <3>2. Counts(o, [tx[o] EXCEPT !.step = "moved"])
      BY <2>0, <2>2 DEF CountKept, Counts, Idle, Tx
    <3> QED
      BY <2>2, <3>1, <3>2, HopCount
  <2>21. ASSUME NEW w \in Worker, AutoDispatch(o, w) PROVE CountInv'
    BY <2>2, <2>21 DEF AutoDispatch
  <2>22. CASE EnterHall(o)
    BY <2>2, <2>22 DEF EnterHall
  <2>3. ASSUME NEW to \in State, NEW role \in Role, NEW w \in Worker \cup {NoWorker},
               Transition(o, to, role, w) PROVE CountInv'
    <3>1. PICK e \in FirstTo(PinnedDef(order[o]), order[o].status, to) :
                 Hop(o, Begin("transition", order[o], to, e.event), e, w)
      BY <2>3 DEF Transition
    <3>2. Begin("transition", order[o], to, e.event) \in Tx
      BY <2>0, <3>1, FoundTypes, BeginType
    <3> QED
      BY <2>3, <3>1, <3>2, BeginCount, HopCount DEF Transition
  <2>4. ASSUME NEW role \in Role, NEW w \in Worker \cup {NoWorker}, Claim(o, role, w) PROVE CountInv'
    <3>1. PICK e \in FirstOn(PinnedDef(order[o]), order[o].status, "claim") :
                 Hop(o, Begin("claim", order[o], e.to, "claim"), e, w)
      BY <2>4 DEF Claim
    <3>2. "claim" \in Event
      BY DEF Event
    <3>3. Begin("claim", order[o], e.to, "claim") \in Tx
      BY <2>0, <3>1, <3>2, FoundTypes, BeginType
    <3> QED
      BY <2>4, <3>1, <3>3, BeginCount, HopCount DEF Claim
  <2>5. ASSUME NEW event \in AcceptanceEvents, NEW role \in Role, Accept(o, event, role) PROVE CountInv'
    <3>1. PICK e \in FirstOn(PinnedDef(order[o]), order[o].status, event) :
                 Hop(o, Begin("accept", order[o], e.to, event), e, NoWorker)
      BY <2>5 DEF Accept
    <3>2. event \in Event
      BY <2>5 DEF Event
    <3>3. Begin("accept", order[o], e.to, event) \in Tx
      BY <2>0, <3>1, <3>2, FoundTypes, BeginType
    <3> QED
      BY <2>5, <3>1, <3>3, BeginCount, HopCount DEF Accept
  <2>6. ASSUME NEW event \in AutoEvents, AutoAdvance(o, event) PROVE CountInv'
    <3>1. PICK t, e : /\ t = IF tx[o].kind = "redispatch" THEN [tx[o] EXCEPT !.step = "advanced"]
                             ELSE [tx[o] EXCEPT !.step = "advanced", !.from = tx[o].row.status, !.event = event]
                      /\ Hop(o, t, e, NoWorker)
      BY <2>6 DEF AutoAdvance
    <3>2. event \in Event
      BY <2>6 DEF Event
    <3>3. t \in Tx /\ t.kind = tx[o].kind /\ t.row = tx[o].row
      BY <2>0, <3>1, <3>2 DEF Tx, Row
    <3>4. Counts(o, t)
      BY <2>0, <2>6, <3>3 DEF AutoAdvance, CountKept, Counts, Idle
    <3> QED
      BY <2>6, <3>1, <3>3, <3>4, HopCount DEF AutoAdvance
  <2>7. ASSUME NEW w \in Worker, Redispatch(o, w) PROVE CountInv'
    <3> DEFINE t == [tx[o] EXCEPT !.kind = "redispatch", !.step = "moved", !.row = Recounted(@)]
    <3>1. PICK e : Hop(o, t, e, w)
      BY <2>7 DEF Redispatch
    <3>2. Recounted(tx[o].row) \in Row /\ Recounted(tx[o].row).count = tx[o].row.count + 1
      BY <2>0, RecountedType DEF Recounted, Row
    <3>3. t \in Tx /\ t.kind = "redispatch" /\ t.row = Recounted(tx[o].row)
      BY <2>0, <3>2 DEF Tx
    <3>4. tx[o].row.count = order[o].count
      BY <2>0, <2>7 DEF Redispatch, CountKept, Counts, Idle
    <3>5. tx[o].row.count \in Nat /\ tx[o].row.count < RedispatchLimit /\ RedispatchLimit \in Nat
      BY <2>0, <2>7, ConstantAssumption DEF Redispatch, Row, ConstantAssumption
    <3>6. Counts(o, t)
      <4> HIDE DEF t
      <4> QED
        BY <3>2, <3>3, <3>4, <3>5 DEF Counts
    <3> HIDE DEF t
    <3> QED
      BY <2>7, <3>1, <3>3, <3>6, HopCount DEF Redispatch
  <2>8. CASE Commit(o)
    <3>1. /\ order' = [order EXCEPT ![o] = tx[o].row] /\ tx' = [tx EXCEPT ![o] = NoTx]
          /\ redone' = [redone EXCEPT ![o] = IF tx[o].kind = "redispatch" /\ @ <= RedispatchLimit THEN @ + 1 ELSE @]
          /\ UNCHANGED correcting /\ ~Idle(o)
      BY <2>8 DEF Commit, Idle
    <3>2. ASSUME NEW p \in Order PROVE CountKept(p)'
      <4>1. CountKept(p)
        BY DEF CountInv
      <4>2. CASE p # o
        BY <2>0, <3>1, <4>1, <4>2 DEF CountKept, Counts, Exists, Idle
      <4>3. CASE p = o
        <5>1. /\ order'[o] = tx[o].row /\ tx'[o].step = "idle"
              /\ redone'[o] = IF tx[o].kind = "redispatch" /\ redone[o] <= RedispatchLimit
                              THEN redone[o] + 1 ELSE redone[o]
          BY <2>0, <3>1 DEF NoTx
        <5>2. redone[o] \in Nat /\ order[o].count \in Nat /\ tx[o].row.count \in Nat /\ RedispatchLimit \in Nat
          BY <2>0, ConstantAssumption DEF Row, ConstantAssumption
        <5>3. redone'[o] <= order'[o].count /\ order'[o].count <= RedispatchLimit
          BY <2>0, <3>1, <5>1, <5>2 DEF CountKept, Counts
        <5>4. order'[o].status # "none" /\ ~correcting'[o].reading
          BY <2>0, <3>1, <5>1 DEF CountKept
        <5> QED
          BY <4>3, <5>1, <5>3, <5>4 DEF CountKept, Exists, Idle
      <4> QED
        BY <4>2, <4>3
    <3> QED
      BY <3>2 DEF CountInv
  <2>9. CASE Abort(o)
    <3>1. tx' = [tx EXCEPT ![o] = NoTx] /\ UNCHANGED <<order, redone, correcting>>
      BY <2>9 DEF Abort
    <3>2. ASSUME NEW p \in Order PROVE CountKept(p)'
      <4>1. CountKept(p)
        BY DEF CountInv
      <4>2. tx'[p] = IF p = o THEN NoTx ELSE tx[p]
        BY <2>0, <3>1
      <4> QED
        BY <3>1, <4>1, <4>2 DEF CountKept, Counts, Exists, Idle, NoTx
    <3> QED
      BY <3>2 DEF CountInv
  <2>10. CASE CorrectRead(o) \/ CorrectWrite(o)
    BY <2>0, <2>10 DEF CorrectRead, CorrectWrite, CountKept
  <2> QED
    BY <1>1, <2>1, <2>21, <2>22, <2>3, <2>4, <2>5, <2>6, <2>7, <2>8, <2>9, <2>10 DEF OrderStep
<1>2. CASE \/ \E w \in Worker : SetActive(w)
           \/ PublishDef
           \/ UNCHANGED vars
  <2>1. UNCHANGED <<order, tx, redone, correcting>>
    BY <1>2 DEF SetActive, PublishDef, vars
  <2> QED
    BY <2>1 DEF CountInv, CountKept, Counts, Exists, Idle
<1> QED
  BY <1>1, <1>2 DEF Next

(* The system re-dispatches an order at most RedispatchLimit times, however  *)
(* requests, rollbacks and new definitions come between, as long as no       *)
(* correction writes an older ext back (autoRedispatch.ts:315-331).          *)
THEOREM RedispatchLimited ==
  ASSUME ~Corrections
  PROVE  Spec => []RedispatchBounded
<1>1. Init => CountInv
  <2> SUFFICES ASSUME Init, NEW o \in Order PROVE CountKept(o)
    BY DEF CountInv
  <2>1. order[o] = NoOrder /\ tx[o] = NoTx /\ redone[o] = 0 /\ correcting[o] = NotReading
    BY DEF Init
  <2>2. RedispatchLimit \in Nat
    BY ConstantAssumption DEF ConstantAssumption
  <2> QED
    BY <2>1, <2>2 DEF CountKept, NoOrder, NoTx, NotReading, Exists, Idle
<1>2. TypeOK /\ CountInv => RedispatchBounded
  <2> SUFFICES ASSUME TypeOK, CountInv, NEW o \in Order PROVE redone[o] <= RedispatchLimit
    BY DEF RedispatchBounded
  <2>1. redone[o] \in Nat /\ order[o].count \in Nat /\ RedispatchLimit \in Nat
    BY ConstantAssumption DEF TypeOK, Row, ConstantAssumption
  <2> QED
    BY <2>1 DEF CountInv, CountKept
<1> QED
  BY <1>1, <1>2, CountStep, TypeCorrect, PTL DEF Spec

----------------------------------------------------------------------------
(* What a request does to its transaction, hop by hop.                       *)

(* The row a hop starts from.                                                *)
Source(o) == IF Idle(o) THEN order[o] ELSE tx[o].row

Dispatched(o, t, e) ==
  /\ tx[o].step = "inserted" /\ t.step = "moved" /\ t.kind = tx[o].kind
  /\ e.to \in DispatchTarget(Defs[live], Defs[live].initial) \cup {"claim_hall"}
Begun(o, t, e) ==
  /\ Idle(o) /\ Exists(o) /\ t.step = "moved" /\ t.from = order[o].status
  /\ \/ t.kind = "transition" /\ t.to = e.to
     \/ t.kind = "claim" /\ e.event = "claim"
     \/ t.kind = "accept" /\ e.event \in AcceptanceEvents
Advanced(o, t, e) ==
  /\ tx[o].step = "moved" /\ t.step = "advanced" /\ t.kind = tx[o].kind
  /\ \E event \in AutoEvents : /\ <<tx[o].row.status, event>> \in AutoRules
                               /\ e \in AutoEdge(PinnedDef(tx[o].row), tx[o].row.status, event)
Redispatched(o, t, e) ==
  /\ tx[o].kind = "transition" /\ tx[o].step \in {"moved", "advanced"}
  /\ t.kind = "redispatch" /\ t.step = "moved"
  /\ tx[o].row.status \in ClaimableStates(PinnedDef(tx[o].row))
  /\ e.to \in DispatchTarget(PinnedDef(tx[o].row), tx[o].row.status)

(* The transaction t that a hop over e leaves.                               *)
Hopped(o, t, e) ==
  /\ tx' = [tx EXCEPT ![o] = t]
  /\ e \in Edges(PinnedDef(Source(o))) /\ e.from = Source(o).status
  /\ t.row.status = e.to /\ t.row.dv = Source(o).dv
  /\ Dispatched(o, t, e) \/ Begun(o, t, e) \/ Advanced(o, t, e) \/ Redispatched(o, t, e)

(* An edge is found among those of the state it is looked up for.            *)
LEMMA FoundFrom ==
  ASSUME NEW def, NEW x, NEW y, NEW e
  PROVE  /\ e \in FirstTo(def, x, y) => e \in Edges(def) /\ e.from = x /\ e.to = y
         /\ e \in FirstOn(def, x, y) => e \in Edges(def) /\ e.from = x /\ e.event = y
BY DEF FirstTo, FirstOn, FirstEdge

LEMMA SystemFrom ==
  ASSUME NEW row, NEW d, NEW e \in SystemEdge(row, d)
  PROVE  e \in Edges(PinnedDef(row)) /\ e.from = row.status /\ e.to = d.to
BY FoundFrom DEF SystemEdge

(* transition() writes the state and leaves the stamp.                       *)
LEMMA HopWrites ==
  ASSUME TypeOK, NEW o \in Order, NEW t \in Tx, NEW e, NEW w \in Worker \cup {NoWorker}, Hop(o, t, e, w)
  PROVE  /\ tx' = [tx EXCEPT ![o] = AfterHop(t, e, w)]
         /\ AfterHop(t, e, w).row.status = e.to /\ AfterHop(t, e, w).row.dv = t.row.dv
         /\ AfterHop(t, e, w).kind = t.kind /\ AfterHop(t, e, w).step = t.step
         /\ AfterHop(t, e, w).from = t.from /\ AfterHop(t, e, w).to = t.to
<1>1. PICK v \in Version : PinnedDef(t.row) = Defs[v]
  BY PinnedVersion DEF TypeOK, Tx
<1>2. e.to \in State
  BY <1>1, DefFacts DEF Hop
<1>3. AfterHop(t, e, w).row = Moved(t.row, e, w) /\ AfterHop(t, e, w).step = t.step
  BY <1>2, HopType
<1>4. AfterHop(t, e, w).kind = t.kind /\ AfterHop(t, e, w).from = t.from /\ AfterHop(t, e, w).to = t.to
  BY DEF AfterHop, Tx
<1>5. Moved(t.row, e, w).status = e.to /\ Moved(t.row, e, w).dv = t.row.dv
  BY DEF Moved, Row, Tx
<1> QED
  BY <1>3, <1>4, <1>5 DEF Hop

LEMMA BeginShape ==
  ASSUME TypeOK, NEW o \in Order, NEW kind \in {"transition", "claim", "accept"}, NEW to \in State, NEW event \in Event
  PROVE  LET t == Begin(kind, order[o], to, event) IN
         t \in Tx /\ t.kind = kind /\ t.step = "moved" /\ t.row = order[o] /\ t.from = order[o].status /\ t.to = to
<1>1. order[o] \in Row
  BY DEF TypeOK
<1>2. Begin(kind, order[o], to, event) \in Tx
  BY <1>1, BeginType
<1> QED
  BY <1>2 DEF Begin, NoTx

(* Every step of a request that makes a hop has one of these shapes.         *)
HopStep(o) ==
  \/ \E w \in Worker : AutoDispatch(o, w)
  \/ EnterHall(o)
  \/ \E to \in State, role \in Role, w \in Worker \cup {NoWorker} : Transition(o, to, role, w)
  \/ \E role \in Role, w \in Worker \cup {NoWorker} : Claim(o, role, w)
  \/ \E event \in AcceptanceEvents, role \in Role : Accept(o, event, role)
  \/ \E event \in AutoEvents : AutoAdvance(o, event)
  \/ \E w \in Worker : Redispatch(o, w)

LEMMA HopShape ==
  ASSUME TypeOK, NEW o \in Order, HopStep(o)
  PROVE  UNCHANGED <<order, live, learned>> /\ \E t, e : Hopped(o, t, e)
<1>0. tx[o] \in Tx /\ order[o] \in Row /\ tx[o].row \in Row
  BY DEF TypeOK, Tx
<1>1. ASSUME NEW w \in Worker, AutoDispatch(o, w) PROVE \E t, e : Hopped(o, t, e)
  <2> DEFINE b == [tx[o] EXCEPT !.step = "moved"]
  <2>1. PICK to, d, e : /\ to \in DispatchTarget(Defs[live], Defs[live].initial)
                        /\ d \in FirstTo(Defs[live], Defs[live].initial, to)
                        /\ e \in SystemEdge(tx[o].row, d) /\ Hop(o, b, e, w)
    BY <1>1 DEF AutoDispatch
  <2>2. b \in Tx /\ b.kind = tx[o].kind /\ b.step = "moved" /\ b.row = tx[o].row
    BY <1>0 DEF Tx
  <2>3. tx[o].step = "inserted" /\ ~Idle(o)
    BY <1>1 DEF AutoDispatch, Idle
  <2>4. e \in Edges(PinnedDef(tx[o].row)) /\ e.from = tx[o].row.status /\ e.to = to
    BY <2>1, SystemFrom, FoundFrom
  <2> HIDE DEF b
  <2>5. Hopped(o, AfterHop(b, e, w), e)
    BY <2>1, <2>2, <2>3, <2>4, HopWrites DEF Hopped, Dispatched, Source
  <2> QED
    BY <2>5
<1>2. ASSUME EnterHall(o) PROVE \E t, e : Hopped(o, t, e)
  <2> DEFINE b == [tx[o] EXCEPT !.step = "moved"]
  <2>1. PICK e \in FirstOn(PinnedDef(tx[o].row), tx[o].row.status, "enter_hall") : e.to = "claim_hall" /\ Hop(o, b, e, NoWorker)
    BY <1>2 DEF EnterHall
  <2>2. b \in Tx /\ b.kind = tx[o].kind /\ b.step = "moved" /\ b.row = tx[o].row
    BY <1>0 DEF Tx
  <2>3. tx[o].step = "inserted" /\ ~Idle(o)
    BY <1>2 DEF EnterHall, Idle
  <2>4. e \in Edges(PinnedDef(tx[o].row)) /\ e.from = tx[o].row.status
    BY FoundFrom
  <2> HIDE DEF b
  <2>5. Hopped(o, AfterHop(b, e, NoWorker), e)
    BY <2>1, <2>2, <2>3, <2>4, HopWrites DEF Hopped, Dispatched, Source
  <2> QED
    BY <2>5
<1>3. ASSUME NEW to \in State, NEW role \in Role, NEW w \in Worker \cup {NoWorker}, Transition(o, to, role, w)
      PROVE  \E t, e : Hopped(o, t, e)
  <2>1. PICK e \in FirstTo(PinnedDef(order[o]), order[o].status, to) : Hop(o, Begin("transition", order[o], to, e.event), e, w)
    BY <1>3 DEF Transition
  <2>2. e \in Edges(PinnedDef(order[o])) /\ e.from = order[o].status /\ e.to = to /\ e.event \in Event
    BY <1>0, FoundFrom, FoundTypes
  <2> DEFINE b == Begin("transition", order[o], to, e.event)
  <2>3. b \in Tx /\ b.kind = "transition" /\ b.step = "moved" /\ b.row = order[o] /\ b.from = order[o].status /\ b.to = to
    BY <2>2, BeginShape
  <2>4. Idle(o) /\ Exists(o)
    BY <1>3 DEF Transition
  <2> HIDE DEF b
  <2>5. Hop(o, b, e, w)
    BY <2>1 DEF b
  <2>6. Hopped(o, AfterHop(b, e, w), e)
    BY <2>2, <2>3, <2>4, <2>5, HopWrites DEF Hopped, Begun, Source
  <2> QED
    BY <2>6
<1>4. ASSUME NEW role \in Role, NEW w \in Worker \cup {NoWorker}, Claim(o, role, w) PROVE \E t, e : Hopped(o, t, e)
  <2>1. PICK e \in FirstOn(PinnedDef(order[o]), order[o].status, "claim") : Hop(o, Begin("claim", order[o], e.to, "claim"), e, w)
    BY <1>4 DEF Claim
  <2>2. e \in Edges(PinnedDef(order[o])) /\ e.from = order[o].status /\ e.event = "claim" /\ e.to \in State /\ e.event \in Event
    BY <1>0, FoundFrom, FoundTypes
  <2> DEFINE b == Begin("claim", order[o], e.to, "claim")
  <2>3. b \in Tx /\ b.kind = "claim" /\ b.step = "moved" /\ b.row = order[o] /\ b.from = order[o].status
    BY <2>2, BeginShape
  <2>4. Idle(o) /\ Exists(o)
    BY <1>4 DEF Claim
  <2> HIDE DEF b
  <2>5. Hop(o, b, e, w)
    BY <2>1 DEF b
  <2>6. Hopped(o, AfterHop(b, e, w), e)
    BY <2>2, <2>3, <2>4, <2>5, HopWrites DEF Hopped, Begun, Source
  <2> QED
    BY <2>6
<1>5. ASSUME NEW event \in AcceptanceEvents, NEW role \in Role, Accept(o, event, role) PROVE \E t, e : Hopped(o, t, e)
  <2>1. PICK e \in FirstOn(PinnedDef(order[o]), order[o].status, event) :
               Hop(o, Begin("accept", order[o], e.to, event), e, NoWorker)
    BY <1>5 DEF Accept
  <2>2. e \in Edges(PinnedDef(order[o])) /\ e.from = order[o].status /\ e.event = event /\ e.to \in State /\ e.event \in Event
    BY <1>0, FoundFrom, FoundTypes
  <2> DEFINE b == Begin("accept", order[o], e.to, event)
  <2>3. b \in Tx /\ b.kind = "accept" /\ b.step = "moved" /\ b.row = order[o] /\ b.from = order[o].status
    BY <2>2, BeginShape
  <2>4. Idle(o) /\ Exists(o)
    BY <1>5 DEF Accept
  <2> HIDE DEF b
  <2>5. Hop(o, b, e, NoWorker)
    BY <2>1 DEF b
  <2>6. Hopped(o, AfterHop(b, e, NoWorker), e)
    BY <2>2, <2>3, <2>4, <2>5, HopWrites DEF Hopped, Begun, Source
  <2> QED
    BY <2>6
<1>6. ASSUME NEW event \in AutoEvents, AutoAdvance(o, event) PROVE \E t, e : Hopped(o, t, e)
  <2>1. PICK b, e : /\ b = IF tx[o].kind = "redispatch" THEN [tx[o] EXCEPT !.step = "advanced"]
                           ELSE [tx[o] EXCEPT !.step = "advanced", !.from = tx[o].row.status, !.event = event]
                    /\ e \in AutoEdge(PinnedDef(tx[o].row), tx[o].row.status, event) /\ Hop(o, b, e, NoWorker)
    BY <1>6 DEF AutoAdvance
  <2>2. event \in Event
    BY DEF Event
  <2>3. b \in Tx /\ b.kind = tx[o].kind /\ b.step = "advanced" /\ b.row = tx[o].row
    BY <1>0, <2>1, <2>2 DEF Tx, Row
  <2>4. tx[o].step = "moved" /\ ~Idle(o) /\ <<tx[o].row.status, event>> \in AutoRules
    BY <1>6 DEF AutoAdvance, Idle
  <2>5. e \in Edges(PinnedDef(tx[o].row)) /\ e.from = tx[o].row.status
    BY <2>1, FoundFrom DEF AutoEdge
  <2>6. /\ tx' = [tx EXCEPT ![o] = AfterHop(b, e, NoWorker)]
        /\ AfterHop(b, e, NoWorker).row.status = e.to /\ AfterHop(b, e, NoWorker).row.dv = b.row.dv
        /\ AfterHop(b, e, NoWorker).kind = b.kind /\ AfterHop(b, e, NoWorker).step = b.step
    <3>1. Hop(o, b, e, NoWorker) /\ b \in Tx /\ NoWorker \in Worker \cup {NoWorker}
      BY <2>1, <2>3
    <3> QED
      BY <3>1, HopWrites
  <2>7. Advanced(o, AfterHop(b, e, NoWorker), e)
    BY <2>1, <2>3, <2>4, <2>6 DEF Advanced
  <2>8. Hopped(o, AfterHop(b, e, NoWorker), e)
    BY <2>3, <2>4, <2>5, <2>6, <2>7 DEF Hopped, Source
  <2> QED
    BY <2>8
<1>7. ASSUME NEW w \in Worker, Redispatch(o, w) PROVE \E t, e : Hopped(o, t, e)
  <2> DEFINE b == [tx[o] EXCEPT !.kind = "redispatch", !.step = "moved", !.row = Recounted(@)]
  <2>1. PICK to, d, e : /\ to \in DispatchTarget(PinnedDef(tx[o].row), tx[o].row.status)
                        /\ d \in FirstTo(PinnedDef(tx[o].row), tx[o].row.status, to)
                        /\ e \in SystemEdge(tx[o].row, d) /\ Hop(o, b, e, w)
    BY <1>7 DEF Redispatch
  <2>2. Recounted(tx[o].row) \in Row /\ Recounted(tx[o].row).dv = tx[o].row.dv
    BY <1>0, RecountedType DEF Recounted, Row
  <2>3. b \in Tx /\ b.kind = "redispatch" /\ b.step = "moved" /\ b.row = Recounted(tx[o].row)
    BY <1>0, <2>2 DEF Tx
  <2>4. /\ tx[o].kind = "transition" /\ tx[o].step \in {"moved", "advanced"} /\ ~Idle(o)
        /\ tx[o].row.status \in ClaimableStates(PinnedDef(tx[o].row))
    BY <1>7 DEF Redispatch, Idle
  <2>5. e \in Edges(PinnedDef(tx[o].row)) /\ e.from = tx[o].row.status /\ e.to = to
    BY <2>1, SystemFrom, FoundFrom
  <2> HIDE DEF b
  <2>6. Hopped(o, AfterHop(b, e, w), e)
    BY <2>1, <2>2, <2>3, <2>4, <2>5, HopWrites DEF Hopped, Redispatched, Source
  <2> QED
    BY <2>6
<1>8. UNCHANGED <<order, live, learned>>
  <2>1. ASSUME NEW w, AutoDispatch(o, w) \/ Redispatch(o, w) PROVE UNCHANGED <<order, live, learned>>
    BY <2>1 DEF AutoDispatch, Redispatch
  <2>2. ASSUME NEW to, NEW role, NEW w, Transition(o, to, role, w) \/ Claim(o, role, w) PROVE UNCHANGED <<order, live, learned>>
    BY <2>2 DEF Transition, Claim
  <2>3. ASSUME NEW event, NEW role, Accept(o, event, role) \/ AutoAdvance(o, event) PROVE UNCHANGED <<order, live, learned>>
    BY <2>3 DEF Accept, AutoAdvance
  <2>4. CASE EnterHall(o)
    BY <2>4 DEF EnterHall
  <2> QED
    BY <2>1, <2>2, <2>3, <2>4 DEF HopStep
<1> QED
  BY <1>1, <1>2, <1>3, <1>4, <1>5, <1>6, <1>7, <1>8 DEF HopStep

----------------------------------------------------------------------------
(* The flow of an order.  A request makes at most four hops: the one it was  *)
(* asked for, the automatic review, the re-dispatch and the review again.    *)

Reached(def, s, t) ==
  LET one == Steps(def, {s})  two == Steps(def, one)  three == Steps(def, two)
  IN  IF t.kind # "redispatch" THEN IF t.step = "moved" THEN one ELSE two
      ELSE IF t.step = "moved" THEN two \cup three ELSE three \cup Steps(def, three)

OnItsWay(o, t) ==
  /\ t.step \in {"moved", "advanced"} /\ Exists(o)
  /\ t.row.dv = order[o].dv /\ t.row.status \in Reached(Defs[order[o].dv], order[o].status, t)
PathKept(o) ==
  \/ Idle(o)
  \/ tx[o].kind = "create" /\ ~Exists(o) /\ tx[o].step # "idle"
  \/ tx[o].kind # "create" /\ OnItsWay(o, tx[o])
PathInv == \A o \in Order : PathKept(o)

LEMMA StepOn ==
  ASSUME NEW def, NEW S, NEW s \in S, NEW e \in Edges(def), e.from = s
  PROVE  e.to \in Steps(def, S)
BY DEF Steps

LEMMA StepsOfUnion ==
  ASSUME NEW def, NEW A, NEW B
  PROVE  Steps(def, A \cup B) = Steps(def, A) \cup Steps(def, B)
BY DEF Steps

LEMMA HopKeepsPath ==
  ASSUME LedgerInv, PathInv, NEW o \in Order, HopStep(o)
  PROVE  PathInv'
<1>0. TypeOK /\ tx \in [Order -> Tx] /\ PathKept(o) /\ order[o] \in Row /\ tx[o] \in Tx
  BY DEF LedgerInv, TypeOK, PathInv
<1>1. PICK t, e : Hopped(o, t, e)
  BY <1>0, HopShape
<1>2. UNCHANGED order
  BY <1>0, HopShape
<1>3. tx' = [tx EXCEPT ![o] = t] /\ t.row.status = e.to /\ t.row.dv = Source(o).dv
  BY <1>1 DEF Hopped
<1>4. t.step \in {"moved", "advanced"}
  BY <1>1 DEF Hopped, Dispatched, Begun, Advanced, Redispatched
<1>5. CASE Dispatched(o, t, e)
  <2>1. tx[o].kind = "create" /\ ~Exists(o)
    BY <1>0, <1>5 DEF Dispatched, PathKept, OnItsWay, Idle
  <2>2. t.kind = "create"
    BY <1>5, <2>1 DEF Dispatched
  <2> QED
    BY <1>0, <1>2, <1>3, <1>4, <2>1, <2>2 DEF PathInv, PathKept, OnItsWay, Idle, Exists
<1>6. ASSUME Exists(o), Source(o).dv = order[o].dv PROVE e \in Edges(Defs[order[o].dv]) /\ e.from = Source(o).status
  <2>1. order[o].dv # 0
    BY <1>6 DEF LedgerInv, Stamped, Exists
  <2> QED
    BY <1>1, <1>6, <2>1 DEF Hopped, PinnedDef
<1>7. ASSUME t.kind # "create", OnItsWay(o, t) PROVE PathInv'
  BY <1>0, <1>2, <1>3, <1>4, <1>7 DEF PathInv, PathKept, OnItsWay, Idle, Exists
<1>8. CASE Begun(o, t, e)
  <2>1. Source(o) = order[o] /\ t.kind \in {"transition", "claim", "accept"} /\ t.step = "moved" /\ Exists(o)
    BY <1>8 DEF Begun, Source
  <2>2. e.to \in Steps(Defs[order[o].dv], {order[o].status})
    BY <1>6, <2>1, StepOn
  <2>3. t.row.status \in Reached(Defs[order[o].dv], order[o].status, t)
    BY <1>3, <2>1, <2>2 DEF Reached
  <2> QED
    BY <1>3, <1>7, <2>1, <2>3 DEF OnItsWay
<1>9. CASE Advanced(o, t, e) \/ Redispatched(o, t, e)
  <2>1. ~Idle(o) /\ Source(o) = tx[o].row
    BY <1>9 DEF Advanced, Redispatched, Source, Idle
  <2>2. CASE tx[o].kind = "create"
    <3>1. t.kind = "create" /\ ~Exists(o)
      BY <1>0, <1>9, <2>1, <2>2 DEF Advanced, Redispatched, PathKept
    <3> QED
      BY <1>0, <1>2, <1>3, <1>4, <3>1 DEF PathInv, PathKept, OnItsWay, Idle, Exists
  <2>3. CASE tx[o].kind # "create"
    <3>1. OnItsWay(o, tx[o])
      BY <1>0, <2>1, <2>3 DEF PathKept
    <3> DEFINE def == Defs[order[o].dv]
               one == Steps(def, {order[o].status})
               two == Steps(def, one)
               three == Steps(def, two)
    <3>2. /\ e \in Edges(def) /\ e.from = tx[o].row.status /\ t.row.dv = order[o].dv /\ Exists(o)
          /\ tx[o].row.status \in Reached(def, order[o].status, tx[o])
      BY <1>3, <1>6, <2>1, <3>1 DEF OnItsWay
    <3>3. t.row.status \in Reached(def, order[o].status, t) /\ t.kind # "create"
      <4>1. CASE Advanced(o, t, e) /\ tx[o].kind # "redispatch"
        <5>1. t.kind = tx[o].kind /\ tx[o].step = "moved" /\ t.step = "advanced"
          BY <4>1 DEF Advanced
        <5>2. tx[o].row.status \in one
          BY <3>2, <4>1, <5>1 DEF Reached
        <5>3. e.to \in two
          BY <3>2, <5>2, StepOn
        <5> QED
          BY <1>3, <2>3, <4>1, <5>1, <5>3 DEF Reached
      <4>2. CASE Advanced(o, t, e) /\ tx[o].kind = "redispatch"
        <5>1. t.kind = "redispatch" /\ tx[o].step = "moved" /\ t.step = "advanced"
          BY <4>2 DEF Advanced
        <5>2. tx[o].row.status \in two \cup three
          BY <3>2, <4>2, <5>1 DEF Reached
        <5>3. e.to \in three \cup Steps(def, three)
          BY <3>2, <5>2, StepOn
        <5> QED
          BY <1>3, <5>1, <5>3 DEF Reached
      <4>3. CASE Redispatched(o, t, e)
        <5>1. t.kind = "redispatch" /\ t.step = "moved" /\ tx[o].kind = "transition" /\ tx[o].step \in {"moved", "advanced"}
          BY <4>3 DEF Redispatched
        <5>2. tx[o].row.status \in one \cup two
          BY <3>2, <5>1 DEF Reached
        <5>3. e.to \in two \cup three
          BY <3>2, <5>2, StepOn
        <5> QED
          BY <1>3, <5>1, <5>3 DEF Reached
      <4> QED
        BY <1>9, <4>1, <4>2, <4>3
    <3> QED
      BY <1>4, <1>7, <3>2, <3>3 DEF OnItsWay
  <2> QED
    BY <2>2, <2>3
<1> QED
  BY <1>1, <1>5, <1>8, <1>9 DEF Hopped

LEMMA PathStarts == Init => PathInv
BY DEF Init, PathInv, PathKept, Idle, NoTx

LEMMA PathStep == LedgerInv /\ PathInv /\ [Next]_vars => PathInv'
<1> SUFFICES ASSUME LedgerInv, PathInv, [Next]_vars PROVE PathInv'
  OBVIOUS
<1>0. tx \in [Order -> Tx] /\ order \in [Order -> Row]
  BY DEF LedgerInv, TypeOK
<1>1. ASSUME UNCHANGED <<order, tx>> PROVE PathInv'
  BY <1>1 DEF PathInv, PathKept, OnItsWay, Idle, Exists, Reached
<1>2. ASSUME NEW o \in Order, CreateRow(o) PROVE PathInv'
  <2> DEFINE t == [NoTx EXCEPT !.kind = "create", !.step = "inserted",
                               !.row = [NoOrder EXCEPT !.status = "draft", !.dv = live]]
  <2>1. t.kind = "create" /\ t.step = "inserted"
    BY DEF NoTx
  <2>2. tx' = [tx EXCEPT ![o] = t] /\ UNCHANGED order /\ ~Exists(o)
    BY <1>2 DEF CreateRow
  <2> HIDE DEF t
  <2> QED
    BY <1>0, <2>1, <2>2 DEF PathInv, PathKept, OnItsWay, Idle, Exists
<1>3. ASSUME NEW o \in Order, Commit(o) \/ Abort(o) PROVE PathInv'
  <2>1. tx' = [tx EXCEPT ![o] = NoTx] /\ \A p \in Order : p # o => order'[p] = order[p]
    BY <1>0, <1>3 DEF Commit, Abort
  <2> QED
    BY <1>0, <2>1 DEF PathInv, PathKept, OnItsWay, Idle, Exists, NoTx
<1>4. ASSUME NEW o \in Order, CorrectWrite(o) PROVE PathInv'
  <2>1. tx' = tx /\ Idle(o) /\ \A p \in Order : p # o => order'[p] = order[p]
    BY <1>0, <1>4 DEF CorrectWrite
  <2> QED
    BY <2>1 DEF PathInv, PathKept, OnItsWay, Idle, Exists
<1>5. ASSUME NEW o \in Order, CorrectRead(o) PROVE PathInv'
  BY <1>1, <1>5 DEF CorrectRead
<1>6. CASE PublishDef \/ UNCHANGED vars \/ \E w \in Worker : SetActive(w)
  BY <1>1, <1>6 DEF PublishDef, vars, SetActive
<1> QED
  BY <1>2, <1>3, <1>4, <1>5, <1>6, HopKeepsPath DEF Next, OrderStep, HopStep

(* FlowPinned: what a request commits is reached by edges of the version its *)
(* order was created under, when rows are stamped (workflowDef.ts:669-733,   *)
(* ticket.ts:190-215).                                                      *)
THEOREM KeptToItsFlow == ASSUME FirstVersion # 0 PROVE Spec => FlowPinned
<1>1. Init => LedgerInv /\ PathInv
  BY LedgerStarts, PathStarts
<1>2. LedgerInv /\ PathInv /\ [Next]_vars
        => [\A o \in Order : Exists(o) /\ order'[o].status # order[o].status
              => order'[o].status \in Within4(Defs[order[o].dv], order[o].status)]_vars
  <2> SUFFICES ASSUME LedgerInv, PathInv, [Next]_vars, NEW o \in Order, Exists(o), order'[o].status # order[o].status
               PROVE  order'[o].status \in Within4(Defs[order[o].dv], order[o].status)
    OBVIOUS
  <2>0. order \in [Order -> Row] /\ TypeOK
    BY DEF LedgerInv, TypeOK
  <2>1. CASE Commit(o)
    <3>1. order'[o] = tx[o].row /\ ~Idle(o)
      BY <2>0, <2>1 DEF Commit, Idle
    <3>2. OnItsWay(o, tx[o])
      BY <3>1 DEF PathInv, PathKept
    <3> QED
      BY <3>1, <3>2 DEF OnItsWay, Reached, Within4
  <2>2. ASSUME NEW p \in Order, p # o, Commit(p) PROVE FALSE
    BY <2>0, <2>2 DEF Commit
  <2>3. ASSUME NEW p \in Order, CorrectWrite(p) PROVE FALSE
    <3>1. order' = [order EXCEPT ![p].count = correcting[p].count]
      BY <2>3 DEF CorrectWrite
    <3>2. order'[o].status = order[o].status
      BY <2>0, <3>1 DEF Row
    <3> QED
      BY <3>2
  <2>4. ASSUME NEW p \in Order, HopStep(p) \/ CreateRow(p) \/ Abort(p) \/ CorrectRead(p) PROVE FALSE
    BY <2>0, <2>4, HopShape DEF CreateRow, Abort, CorrectRead
  <2>5. CASE PublishDef \/ UNCHANGED vars \/ \E w \in Worker : SetActive(w)
    BY <2>5 DEF PublishDef, vars, SetActive
  <2> QED
    BY <2>1, <2>2, <2>3, <2>4, <2>5 DEF Next, OrderStep, HopStep
<1> QED
  BY <1>1, <1>2, LedgerStep, PathStep, PTL DEF Spec, FlowPinned

----------------------------------------------------------------------------
(* Learning.  The step of the generic endpoint looks at the state that was   *)
(* asked for and the one before it, under the triggers of every version in   *)
(* use: an order that enters a learning state in another way is missed.      *)

LearnedFrom(o) == \E s \in State : <<o, s>> \in learned
(* What the commit of an open transaction will learn.                        *)
AboutToLearn(t) ==
  /\ t.kind = "transition" /\ t.to \in Triggers(t.row.dv)
  /\ \A u \in Version : t.from \notin Triggers(u)
LearnKept(o) ==
  /\ Exists(o) /\ order[o].status \in Triggers(order[o].dv) => LearnedFrom(o)
  /\ ~Idle(o) /\ tx[o].row.status \in Triggers(tx[o].row.dv) => LearnedFrom(o) \/ AboutToLearn(tx[o])
  /\ ~Idle(o) => tx[o].row.dv # 0
LearnInv == \A o \in Order : LearnKept(o)

LEMMA HopKeepsLearned ==
  ASSUME \A v \in Version : EnteredOnRequest(v), LedgerInv, PathInv, LearnInv, NEW o \in Order, HopStep(o)
  PROVE  LearnInv'
<1>0. TypeOK /\ tx \in [Order -> Tx] /\ order[o] \in Row /\ tx[o] \in Tx /\ tx[o].row \in Row /\ live \in Version
  BY DEF LedgerInv, TypeOK, Tx
<1>1. PICK t, e : Hopped(o, t, e)
  BY <1>0, HopShape
<1>2. UNCHANGED <<order, learned>>
  BY <1>0, HopShape
<1>3. tx' = [tx EXCEPT ![o] = t] /\ t.row.status = e.to /\ t.row.dv = Source(o).dv
  BY <1>1 DEF Hopped
<1>4. Source(o).dv # 0 /\ Source(o).dv \in Version
  <2>1. CASE Idle(o)
    <3>1. Exists(o)
      BY <1>1, <2>1 DEF Hopped, Begun, Dispatched, Advanced, Redispatched, Idle
    <3> QED
      BY <1>0, <2>1, <3>1 DEF Source, LedgerInv, Stamped, Exists, Row
  <2>2. CASE ~Idle(o)
    BY <1>0, <2>2 DEF Source, LearnInv, LearnKept, Row
  <2> QED
    BY <2>1, <2>2
<1> DEFINE v == Source(o).dv
<1>5. v \in Version /\ EnteredOnRequest(v) /\ PinnedDef(Source(o)) = Defs[v] /\ t.row.dv = v /\ v # 0
  BY <1>3, <1>4 DEF PinnedDef
<1>6. e \in Edges(Defs[v]) /\ e.from = Source(o).status
  BY <1>1, <1>5 DEF Hopped
<1>7. ASSUME e.to \in Triggers(v) PROVE LearnedFrom(o) \/ AboutToLearn(t)
  <2>1. ~Dispatched(o, t, e)
    <3>1. DispatchTarget(Defs[live], Defs[live].initial) \cap Triggers(v) = {} /\ "claim_hall" \notin Triggers(v)
      BY <1>0, <1>5 DEF EnteredOnRequest
    <3> QED
      BY <1>7, <3>1 DEF Dispatched
  <2>2. ~Advanced(o, t, e)
    <3> SUFFICES ASSUME Advanced(o, t, e) PROVE FALSE
      OBVIOUS
    <3>1. Source(o) = tx[o].row
      BY DEF Advanced, Source, Idle
    <3>2. PICK event \in AutoEvents : /\ <<tx[o].row.status, event>> \in AutoRules
                                      /\ e \in AutoEdge(Defs[v], tx[o].row.status, event)
      BY <1>5, <3>1 DEF Advanced
    <3>3. \A rule \in AutoRules : \A x \in AutoEdge(Defs[v], rule[1], rule[2]) : x.to \notin Triggers(v)
      BY <1>5 DEF EnteredOnRequest
    <3> QED
      BY <1>7, <3>2, <3>3
  <2>3. ~Redispatched(o, t, e)
    <3> SUFFICES ASSUME Redispatched(o, t, e) PROVE FALSE
      OBVIOUS
    <3>1. Source(o) = tx[o].row
      BY DEF Redispatched, Source, Idle
    <3>2. tx[o].row.status \in ClaimableStates(Defs[v]) /\ e.to \in DispatchTarget(Defs[v], tx[o].row.status)
      BY <1>5, <3>1 DEF Redispatched
    <3> QED
      BY <1>5, <1>7, <3>2 DEF EnteredOnRequest
  <2>4. Begun(o, t, e)
    BY <1>1, <2>1, <2>2, <2>3 DEF Hopped
  <2>5. Source(o) = order[o] /\ Exists(o) /\ t.from = order[o].status
    BY <2>4 DEF Begun, Source
  <2>6. /\ e.event # "claim" /\ (e.event \in AcceptanceEvents => e.from \in Triggers(v))
        /\ e.from \in Triggers(v) \/ \A u \in Version : e.from \notin Triggers(u)
    BY <1>5, <1>6, <1>7 DEF EnteredOnRequest
  <2>7. CASE e.from \in Triggers(v)
    BY <1>6, <2>5, <2>7 DEF LearnInv, LearnKept
  <2>8. CASE e.from \notin Triggers(v)
    <3>1. t.kind = "transition" /\ t.to = e.to
      BY <2>4, <2>6, <2>8 DEF Begun
    <3> QED
      BY <1>5, <1>6, <1>7, <2>5, <2>6, <2>8, <3>1 DEF AboutToLearn
  <2> QED
    BY <2>7, <2>8
<1>8. t.row.status \in Triggers(t.row.dv) => LearnedFrom(o) \/ AboutToLearn(t)
  BY <1>3, <1>5, <1>7
<1> QED
  BY <1>0, <1>2, <1>3, <1>5, <1>8 DEF LearnInv, LearnKept, LearnedFrom, AboutToLearn, Triggers, Idle, Exists

(* The step of the generic endpoint, at the commit.                          *)
LEMMA CommitLearns ==
  ASSUME LedgerInv, PathInv, LearnInv, NEW o \in Order, Commit(o)
  PROVE  LearnInv'
<1>0. TypeOK /\ tx \in [Order -> Tx] /\ order \in [Order -> Row] /\ tx[o] \in Tx /\ tx[o].row \in Row /\ live \in Version
  BY DEF LedgerInv, TypeOK, Tx
<1>1. /\ order' = [order EXCEPT ![o] = tx[o].row] /\ tx' = [tx EXCEPT ![o] = NoTx] /\ ~Idle(o)
      /\ learned' = learned \cup LearnedBy(o)
  BY DEF Commit, Idle
<1>2. \A p \in Order : LearnedFrom(p) => LearnedFrom(p)'
  BY <1>1 DEF LearnedFrom, State
<1>3. ASSUME AboutToLearn(tx[o]) PROVE LearnedFrom(o)'
  <2>1. tx[o].kind = "transition" /\ OnItsWay(o, tx[o])
    BY <1>1, <1>3 DEF AboutToLearn, PathInv, PathKept
  <2>2. tx[o].row.dv = order[o].dv /\ Exists(o) /\ order[o].dv \in Version
    BY <1>0, <2>1 DEF OnItsWay, Row
  <2>3. tx[o].to \in LearnOn
    BY <1>3, <2>2 DEF AboutToLearn, LearnOn, Triggers
  <2>4. tx[o].from \notin LearnOn
    BY <1>0, <1>3 DEF AboutToLearn, LearnOn, Triggers, Row
  <2>5. <<o, tx[o].to>> \in LearnedBy(o)
    BY <2>1, <2>3, <2>4 DEF LearnedBy
  <2>6. tx[o].to \in State
    <3>1. "none" \notin Triggers(tx[o].row.dv)
      BY <2>2, ConstantAssumption DEF ConstantAssumption, Triggers, LearningTriggers, DoneStates, TerminalStates
    <3>2. tx[o].to \in State \cup {"none"}
      BY <1>0 DEF Tx
    <3> QED
      BY <1>3, <3>1, <3>2 DEF AboutToLearn
  <2> QED
    BY <1>1, <2>5, <2>6 DEF LearnedFrom, State
<1>4. tx[o].row.status \in Triggers(tx[o].row.dv) => LearnedFrom(o)'
  BY <1>1, <1>2, <1>3 DEF LearnInv, LearnKept
<1>5. order'[o] = tx[o].row /\ \A p \in Order : p # o => order'[p] = order[p] /\ tx'[p] = tx[p]
  BY <1>0, <1>1
<1>6. tx'[o].step = "idle"
  BY <1>0, <1>1 DEF NoTx
<1>7. ASSUME NEW p \in Order PROVE LearnKept(p)'
  <2>1. CASE p = o
    BY <1>4, <1>5, <1>6, <2>1 DEF LearnKept, Triggers, Idle
  <2>2. CASE p # o
    BY <1>2, <1>5, <2>2 DEF LearnInv, LearnKept, AboutToLearn, Triggers, Idle, Exists
  <2> QED
    BY <2>1, <2>2
<1> QED
  BY <1>7 DEF LearnInv

LEMMA LearnStep ==
  ASSUME \A v \in Version : EnteredOnRequest(v)
  PROVE  LedgerInv /\ PathInv /\ LearnInv /\ [Next]_vars => LearnInv'
<1> SUFFICES ASSUME LedgerInv, PathInv, LearnInv, [Next]_vars PROVE LearnInv'
  OBVIOUS
<1>0. tx \in [Order -> Tx] /\ order \in [Order -> Row] /\ live \in Version /\ live # 0
  BY DEF LedgerInv, TypeOK
<1>1. ASSUME UNCHANGED <<order, tx, learned>> PROVE LearnInv'
  BY <1>1 DEF LearnInv, LearnKept, LearnedFrom, AboutToLearn, Triggers, Idle, Exists
<1>2. ASSUME NEW o \in Order, CreateRow(o) PROVE LearnInv'
  <2> DEFINE t == [NoTx EXCEPT !.kind = "create", !.step = "inserted",
                               !.row = [NoOrder EXCEPT !.status = "draft", !.dv = live]]
  <2>1. t.row.status = "draft" /\ t.row.dv = live
    BY DEF NoTx, NoOrder
  <2>2. tx' = [tx EXCEPT ![o] = t] /\ UNCHANGED <<order, learned>>
    BY <1>2 DEF CreateRow
  <2>3. "draft" \notin Triggers(live)
    BY <1>0 DEF EnteredOnRequest
  <2> HIDE DEF t
  <2> QED
    BY <1>0, <2>1, <2>2, <2>3 DEF LearnInv, LearnKept, LearnedFrom, AboutToLearn, Triggers, Idle, Exists
<1>3. ASSUME NEW o \in Order, Abort(o) PROVE LearnInv'
  <2>1. tx' = [tx EXCEPT ![o] = NoTx] /\ UNCHANGED <<order, learned>>
    BY <1>3 DEF Abort
  <2>2. tx'[o].step = "idle" /\ \A p \in Order : p # o => tx'[p] = tx[p]
    BY <1>0, <2>1 DEF NoTx
  <2> QED
    BY <1>0, <2>1, <2>2 DEF LearnInv, LearnKept, LearnedFrom, AboutToLearn, Triggers, Idle, Exists
<1>4. ASSUME NEW o \in Order, CorrectWrite(o) PROVE LearnInv'
  <2>1. UNCHANGED <<tx, learned>> /\ order' = [order EXCEPT ![o].count = correcting[o].count]
    BY <1>4 DEF CorrectWrite
  <2>2. \A p \in Order : order'[p].status = order[p].status /\ order'[p].dv = order[p].dv
    BY <1>0, <2>1 DEF Row
  <2> QED
    BY <2>1, <2>2 DEF LearnInv, LearnKept, LearnedFrom, AboutToLearn, Triggers, Idle, Exists
<1>5. ASSUME NEW o \in Order, CorrectRead(o) PROVE LearnInv'
  BY <1>1, <1>5 DEF CorrectRead
<1>6. CASE PublishDef \/ UNCHANGED vars \/ \E w \in Worker : SetActive(w)
  BY <1>1, <1>6 DEF PublishDef, vars, SetActive
<1> QED
  BY <1>2, <1>3, <1>4, <1>5, <1>6, HopKeepsLearned, CommitLearns DEF Next, OrderStep, HopStep

(* EveryCompletionLearned, for tenants whose flows enter their learning      *)
(* states on request only; which is what the nested hop of an automatic rule *)
(* and a trigger of another version break (workOrder.ts:591).                *)
THEOREM CompletionsLearned ==
  ASSUME FirstVersion # 0, \A v \in Version : EnteredOnRequest(v)
  PROVE  Spec => []EveryCompletionLearned
<1>1. Init => LedgerInv /\ PathInv /\ LearnInv
  <2>1. Init => LearnInv
    BY DEF Init, LearnInv, LearnKept, Idle, Exists, NoTx, NoOrder
  <2> QED
    BY <2>1, LedgerStarts, PathStarts
<1>2. LedgerInv /\ LearnInv => EveryCompletionLearned
  <2> SUFFICES ASSUME LedgerInv, LearnInv, NEW o \in Order, Exists(o), order[o].status \in LearningTriggers(PinnedDef(order[o]))
               PROVE  \E s \in State : <<o, s>> \in learned
    BY DEF EveryCompletionLearned
  <2>1. PinnedDef(order[o]) = Defs[order[o].dv]
    BY DEF PinnedDef, LedgerInv, Stamped, Exists
  <2> QED
    BY <2>1 DEF LearnInv, LearnKept, LearnedFrom, Triggers
<1> QED
  BY <1>1, <1>2, LedgerStep, PathStep, LearnStep, PTL DEF Spec

----------------------------------------------------------------------------
(* NoOrderOutOfSight, for any definitions a tenant publishes: the lists are  *)
(* made of every version in use, the version of each order among them, and   *)
(* what one version calls done is done before it is active.                  *)
THEOREM NoneOutOfSight == Spec => []NoOrderOutOfSight
<1>1. NoOrderOutOfSight
  <2> SUFFICES ASSUME NEW o \in Rows
               PROVE  LET own == PinnedDef(order[o])  w == order[o].assignee  at == order[o].status IN
                      /\ at \in ClaimableStates(own) => o \in Hall
                      /\ w # NoWorker /\ at \in DoneStates(own) => o \in DoneBy(w) \ OnDuty(w)
                      /\ w # NoWorker /\ at \in ActiveStates(own) \ ClaimableStates(own)
                         => o \in (OnDuty(w) \cup DoneBy(w)) \cap Listed("worker", {w}, {})
                      /\ o \in Overdue(Rows) <=> at \notin DoneStates(own) \cup TerminalStates(own)
    BY DEF NoOrderOutOfSight
  <2> DEFINE own == PinnedDef(order[o])  w == order[o].assignee  at == order[o].status
  <2>1. own = DefAt(order[o].dv) /\ order[o].dv \in VersionsInUse
    BY DEF PinnedDef, DefAt, VersionsInUse
  <2>2. own \in AllDefs
    BY <2>1 DEF AllDefs
  <2> HIDE DEF own
  <2>3. at \in ClaimableStates(own) => o \in Hall
    BY <2>2 DEF Hall, UnionStates
  <2>4. at \in DoneStates(own) => o \in DoneBy(w) \ OnDuty(w)
    BY <2>2 DEF DoneBy, OnDuty, Mine, DoneSet, ActiveSet, UnionStates
  <2>5. at \in ActiveStates(own) \ ClaimableStates(own) => o \in OnDuty(w) \cup DoneBy(w)
    <3> SUFFICES ASSUME at \in ActiveStates(own), at \notin ClaimableStates(own) PROVE at \in ActiveSet \cup DoneSet
      BY DEF DoneBy, OnDuty, Mine
    <3>1. at \in UnionStates({ActiveStates(def) : def \in AllDefs})
      BY <2>2 DEF UnionStates
    <3>2. at \notin IntersectStates({ClaimableStates(def) : def \in AllDefs})
      BY <2>2 DEF IntersectStates
    <3> QED
      BY <3>1, <3>2 DEF ActiveSet
  <2>6. o \in Listed("worker", {w}, {})
    BY DEF Listed, MasterRoles, Selected
  <2>7. o \in Overdue(Rows) <=> at \notin DoneStates(own) \cup TerminalStates(own)
    BY <2>1 DEF Overdue, Selected, LeftOut
  <2> QED
    BY <2>3, <2>4, <2>5, <2>6, <2>7 DEF own
<1> QED
  BY <1>1, PTL
============================================================================
