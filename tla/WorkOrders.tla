----------------------------- MODULE WorkOrders -----------------------------
(***************************************************************************)
(* Work orders and the transactions that move them (repo/ticket.ts and its *)
(* callers: routes/workOrder.ts, services/claimWorkOrder.ts,               *)
(* services/acceptance.ts, services/autoRedispatch.ts).                    *)
(*                                                                         *)
(* Every request is one READ COMMITTED transaction that holds the row lock *)
(* of its order (SELECT ... FOR UPDATE) from its first read to its commit, *)
(* and the row lock of each worker whose load it has updated.  order and   *)
(* load are the committed tables; tx[o] is the request that holds order o, *)
(* with its own uncommitted copies.  A request makes several hops through  *)
(* the flow (the one it was asked for, the automatic review, the automatic *)
(* re-dispatch of a returned order) and other requests, administrators and *)
(* newly published definitions take their steps in between.                *)
(***************************************************************************)
EXTENDS WorkflowGraph

CONSTANTS
  Order,           \* work-order ids
  Worker,          \* worker ids
  NoWorker,        \* assignee_id IS NULL
  Role,            \* roles of the people who call the API
  RolePerms,       \* the permission points a role has
  MaxVersion,      \* bound: versions a tenant publishes
  FirstVersion,    \* version that is live at the start; 0 is "no workflow_def row"
  Defs,            \* Defs[v] is version v as it is read; Defs[0] the built-in default
  AutoRules,       \* enabled automatic-review rules, pairs <<state, event>>
  RedispatchLimit, \* workOrder.redispatchLimit
  Corrections      \* BOOLEAN: reporters use the public correction link

Version == 0..MaxVersion
State   == (UNION {Defs[v].states : v \in Version}) \cup {"draft"}
AcceptanceEvents == {"acceptance_pass", "acceptance_reject"}
Event   == (UNION {{e.event : e \in Edges(Defs[v])} : v \in Version})
             \cup AutoEvents \cup AcceptanceEvents \cup {"none", "claim"}

ASSUME ConstantAssumption ==
  /\ NoWorker \notin Worker
  /\ MaxVersion \in Nat /\ FirstVersion \in Version /\ RedispatchLimit \in Nat
  /\ DOMAIN Defs = Version
  /\ \A v \in Version : WellFormed(Defs[v])
  /\ \A v \in Version : "none" \notin Defs[v].states \cup Defs[v].done
  /\ IsFiniteSet(Order)
  /\ Corrections \in BOOLEAN

VARIABLES
  order,       \* work_orders: status, assignee_id, def_version, ext.redispatch_count
  load,        \* worker.load
  active,      \* workers with worker.active
  live,        \* workflow_def.version
  learned,     \* ticket_learn_log, pairs <<order, trigger_state>>
  tx,          \* the transaction that holds each order
  redone,      \* history: automatic re-dispatches committed for each order,
               \* counted up to RedispatchLimit + 1
  correcting   \* redispatch_count inside the ext that a correction has read

vars == <<order, load, active, live, learned, tx, redone, correcting>>

NoOrder == [status |-> "none", assignee |-> NoWorker, dv |-> 0, count |-> 0]
NoTx    == [kind |-> "none", step |-> "idle", row |-> NoOrder, to |-> "none", from |-> "none",
            event |-> "none", held |-> {}, load |-> [w \in Worker |-> 0]]
NotReading == [reading |-> FALSE, count |-> 0]

Idle(o)   == tx[o].step = "idle"
Exists(o) == order[o].status # "none"

(* A fault: every row follows the live definition, whatever its stamp.       *)
PinnedToLive(row) == Defs[live]

(* getWorkflowDefAtVersion: a row stamped 0 follows the live definition.     *)
PinnedDef(row) == Defs[IF row.dv = 0 THEN live ELSE row.dv]

(* The worker an order counts for.                                          *)
Contrib(row) == IF row.status \in ActiveStates(PinnedDef(row)) THEN row.assignee ELSE NoWorker

(* worker.load as the transaction t sees it: its own copy of the rows it     *)
(* holds.  Touched and Settled: the rows and loads after transition() has    *)
(* settled a hop that takes the order from worker a to worker b.            *)
Counted(t, w)    == IF w \in t.held THEN t.load[w] ELSE load[w]
TouchedWithNobody(t, a, b) == t.held \cup {a, b}   \* a fault: no test for an absent assignee
Touched(t, a, b) == IF a = b THEN t.held ELSE t.held \cup ({a, b} \ {NoWorker})
Settled(t, a, b) ==
  [w \in Worker |->
     IF a = b \/ w \notin {a, b} THEN t.load[w]
     ELSE IF w = b THEN Counted(t, w) + 1
     ELSE IF Counted(t, w) = 0 THEN 0 ELSE Counted(t, w) - 1]

Moved(row, e, w) ==
  [row EXCEPT !.status = e.to, !.assignee = IF w = NoWorker THEN @ ELSE w]
AfterHop(t, e, w) ==
  LET before == Contrib(t.row)  after == Contrib(Moved(t.row, e, w)) IN
  [t EXCEPT !.row = Moved(@, e, w), !.held = Touched(t, before, after), !.load = Settled(t, before, after)]

WorkersUnlocked(o, ws) == TRUE   \* a fault: the load is read and written back without a row lock
WorkersFree(o, ws) == \A p \in Order \ {o} : ws \cap tx[p].held = {}

(* One run of transition() over the edge it resolved, w the assignee among   *)
(* its fields: both states known to the definition of the row, the assignee  *)
(* an active worker, the row and the loads rewritten under their locks.      *)
Hop(o, t, e, w) ==
  /\ {t.row.status, e.to} \subseteq PinnedDef(t.row).states
  /\ w # NoWorker => w \in active
  /\ WorkersFree(o, AfterHop(t, e, w).held)
  /\ tx' = [tx EXCEPT ![o] = AfterHop(t, e, w)]

Begin(kind, row, to, event) ==
  [NoTx EXCEPT !.kind = kind, !.step = "moved", !.row = row,
               !.to = to, !.from = row.status, !.event = event]
----------------------------------------------------------------------------
Init ==
  /\ order = [o \in Order |-> NoOrder]
  /\ load = [w \in Worker |-> 0]
  /\ active \in SUBSET Worker
  /\ live = FirstVersion
  /\ learned = {}
  /\ tx = [o \in Order |-> NoTx]
  /\ redone = [o \in Order |-> 0]
  /\ correcting = [o \in Order |-> NotReading]

(* createWithIdem: the row is inserted as a draft of the live version.       *)
CreateRow(o) ==
  /\ Idle(o) /\ ~Exists(o)
  /\ tx' = [tx EXCEPT ![o] = [NoTx EXCEPT !.kind = "create", !.step = "inserted",
                                          !.row = [NoOrder EXCEPT !.status = "draft", !.dv = live]]]
  /\ UNCHANGED <<order, load, active, live, learned, redone, correcting>>

(* The edge a system dispatch takes: the dispatch edge d was looked up by    *)
(* its two states, transition() looks it up again by its event.              *)
SystemEdge(row, d) ==
  {e \in FirstOn(PinnedDef(row), row.status, d.event) :
     e.to = d.to /\ d.req \subseteq {"assignee"} /\ e.req \subseteq {"assignee"}}

(* autoDispatchAfterCreate, a worker was found.  The target and its edge     *)
(* come from the live definition of that moment.                            *)
AutoDispatch(o, w) ==
  LET def == Defs[live] IN
  /\ tx[o].step = "inserted"
  /\ \E to \in DispatchTarget(def, def.initial) :
     \E d \in FirstTo(def, def.initial, to) :
     \E e \in SystemEdge(tx[o].row, d) :
        Hop(o, [tx[o] EXCEPT !.step = "moved"], e, w)
  /\ UNCHANGED <<order, load, active, live, learned, redone, correcting>>

(* autoDispatchAfterCreate, nobody was found.                               *)
EnterHall(o) ==
  /\ tx[o].step = "inserted"
  /\ DispatchTarget(Defs[live], Defs[live].initial) # {}
  /\ \E e \in FirstOn(PinnedDef(tx[o].row), tx[o].row.status, "enter_hall") :
        /\ e.to = "claim_hall" /\ e.req = {}
        /\ Hop(o, [tx[o] EXCEPT !.step = "moved"], e, NoWorker)
  /\ UNCHANGED <<order, load, active, live, learned, redone, correcting>>

(* POST /open/work_order/:id/transition.  The caller names the target state  *)
(* and may send an assignee with it.                                        *)
Transition(o, to, role, w) ==
  /\ Idle(o) /\ Exists(o)
  /\ \E e \in FirstTo(PinnedDef(order[o]), order[o].status, to) :
        /\ Allowed(e, role, RolePerms)
        /\ "assignee" \in e.req => w # NoWorker
        /\ Hop(o, Begin("transition", order[o], to, e.event), e, w)
  /\ UNCHANGED <<order, load, active, live, learned, redone, correcting>>

(* POST /open/work_order/:id/claim.  An assignee in the body takes the place *)
(* of the claiming worker.                                                  *)
Claim(o, role, w) ==
  /\ Idle(o) /\ Exists(o)
  /\ order[o].status \in ClaimableStates(PinnedDef(order[o]))
  /\ \E e \in FirstOn(PinnedDef(order[o]), order[o].status, "claim") :
        /\ Allowed(e, role, RolePerms)
        /\ "assignee" \in e.req => w # NoWorker
        /\ Hop(o, Begin("claim", order[o], e.to, "claim"), e, w)
  /\ UNCHANGED <<order, load, active, live, learned, redone, correcting>>

(* POST /open/work_order/:id/acceptance.                                     *)
Accept(o, event, role) ==
  LET def == PinnedDef(order[o]) IN
  /\ Idle(o) /\ Exists(o)
  /\ order[o].status \in AcceptanceFromStates(def)
  /\ HasAcceptanceEdges(def)
  /\ \E e \in FirstOn(def, order[o].status, event) :
        /\ e.to \in AcceptanceTarget(def, event)
        /\ Allowed(e, role, RolePerms) /\ e.req = {}
        /\ Hop(o, Begin("accept", order[o], e.to, event), e, NoWorker)
  /\ UNCHANGED <<order, load, active, live, learned, redone, correcting>>

(* tryAutoAdvance: one further hop, never a second.  The result of the       *)
(* nested transition() takes the place of the one that called it.            *)
AutoAdvance(o, event) ==
  LET t == tx[o]
      result == IF t.kind = "redispatch" THEN [t EXCEPT !.step = "advanced"]
                ELSE [t EXCEPT !.step = "advanced", !.from = t.row.status, !.event = event]
  IN /\ t.step = "moved"
     /\ <<t.row.status, event>> \in AutoRules
     /\ \E e \in AutoEdge(PinnedDef(t.row), t.row.status, event) : Hop(o, result, e, NoWorker)
     /\ UNCHANGED <<order, load, active, live, learned, redone, correcting>>

NotRecounted(row) == row   \* a fault: the new count does not reach ext
Recounted(row) == [row EXCEPT !.count = @ + 1]

(* performRedispatch: a returned order goes to somebody else, at most        *)
(* RedispatchLimit times by the counter kept in ext.                        *)
Redispatch(o, w) ==
  LET t == tx[o]  def == PinnedDef(tx[o].row) IN
  /\ t.kind = "transition" /\ t.step \in {"moved", "advanced"} /\ t.event = "return"
  /\ t.row.count < RedispatchLimit
  /\ t.row.status \in ClaimableStates(def)
  /\ w # t.row.assignee
  /\ \E to \in DispatchTarget(def, t.row.status) :
     \E d \in FirstTo(def, t.row.status, to) :
     \E e \in SystemEdge(t.row, d) :
        Hop(o, [t EXCEPT !.kind = "redispatch", !.step = "moved", !.row = Recounted(@)], e, w)
  /\ UNCHANGED <<order, load, active, live, learned, redone, correcting>>

(* getDefsAcrossAllVersions: the versions of the rows and the live one.      *)
LearnOn ==
  UNION {LearningTriggers(Defs[v]) : v \in {order[p].dv : p \in {q \in Order : Exists(q)}} \cup {live}}

(* A fault: the from-state is read back after the move.                      *)
LearnedFromAfter(o) ==
  IF /\ tx[o].kind \in {"transition", "redispatch"}
     /\ tx[o].to \in LearnOn /\ tx[o].row.status \notin LearnOn
  THEN {<<o, tx[o].to>>} ELSE {}

(* runIncrementalLearnStep of the generic endpoint, with the state that was  *)
(* asked for and the from-state that transition() returned.                 *)
LearnedBy(o) ==
  IF /\ tx[o].kind \in {"transition", "redispatch"}
     /\ tx[o].to \in LearnOn /\ tx[o].from \notin LearnOn
  THEN {<<o, tx[o].to>>} ELSE {}

(* The handler ends and its transaction commits; the generic endpoint        *)
(* refuses at this point a hop over an acceptance edge.                      *)
Commit(o) ==
  /\ tx[o].step \in {"moved", "advanced"}
  /\ tx[o].kind = "transition" => tx[o].event \notin AcceptanceEvents
  /\ order' = [order EXCEPT ![o] = tx[o].row]
  /\ load' = [w \in Worker |-> Counted(tx[o], w)]
  /\ learned' = learned \cup LearnedBy(o)
  /\ redone' = [redone EXCEPT ![o] = IF tx[o].kind = "redispatch" /\ @ <= RedispatchLimit THEN @ + 1 ELSE @]
  /\ tx' = [tx EXCEPT ![o] = NoTx]
  /\ UNCHANGED <<active, live, correcting>>

(* An error, a deadlock victim or a crash: the transaction is rolled back.   *)
Abort(o) ==
  /\ ~Idle(o)
  /\ tx' = [tx EXCEPT ![o] = NoTx]
  /\ UNCHANGED <<order, load, active, live, learned, redone, correcting>>

(* PUT /workers/:id switches a worker on or off; the row must not be locked. *)
SetActive(w) ==
  /\ \A o \in Order : w \notin tx[o].held
  /\ active' = IF w \in active THEN active \ {w} ELSE active \cup {w}
  /\ UNCHANGED <<order, load, live, learned, tx, redone, correcting>>

(* saveWorkflowDef: the next version becomes the live one.                   *)
PublishDef ==
  /\ live < MaxVersion
  /\ live' = live + 1
  /\ UNCHANGED <<order, load, active, learned, tx, redone, correcting>>

(* PATCH /public/report-correct reads ext without a lock ...                 *)
CorrectRead(o) ==
  /\ Corrections /\ Exists(o)
  /\ ~correcting[o].reading
  /\ correcting' = [correcting EXCEPT ![o] = [reading |-> TRUE, count |-> order[o].count]]
  /\ UNCHANGED <<order, load, active, live, learned, tx, redone>>

(* ... and writes all of it back once the row is free.                       *)
CorrectWrite(o) ==
  /\ correcting[o].reading /\ Idle(o)
  /\ order' = [order EXCEPT ![o].count = correcting[o].count]
  /\ correcting' = [correcting EXCEPT ![o] = NotReading]
  /\ UNCHANGED <<load, active, live, learned, tx, redone>>

OrderStep(o) ==
  \/ CreateRow(o)
  \/ \E w \in Worker : AutoDispatch(o, w)
  \/ EnterHall(o)
  \/ \E to \in State, role \in Role, w \in Worker \cup {NoWorker} : Transition(o, to, role, w)
  \/ \E role \in Role, w \in Worker \cup {NoWorker} : Claim(o, role, w)
  \/ \E event \in AcceptanceEvents, role \in Role : Accept(o, event, role)
  \/ \E event \in AutoEvents : AutoAdvance(o, event)
  \/ \E w \in Worker : Redispatch(o, w)
  \/ Commit(o)
  \/ Abort(o)
  \/ CorrectRead(o)
  \/ CorrectWrite(o)

Next ==
  \/ \E o \in Order : OrderStep(o)
  \/ \E w \in Worker : SetActive(w)
  \/ PublishDef

Spec == Init /\ [][Next]_vars
----------------------------------------------------------------------------
(* Types.  A transaction exists exactly while its order is not idle, and     *)
(* settles the load of real workers only.                                   *)
Row == [status : State \cup {"none"}, assignee : Worker \cup {NoWorker}, dv : Version, count : Nat]
Tx  == [kind : {"none", "create", "transition", "redispatch", "claim", "accept"},
        step : {"idle", "inserted", "moved", "advanced"},
        row : Row, to : State \cup {"none"}, from : State \cup {"none"}, event : Event,
        held : SUBSET Worker, load : [Worker -> Nat]]

TypeOK ==
  /\ order \in [Order -> Row]
  /\ load \in [Worker -> Nat]
  /\ active \subseteq Worker
  /\ live \in Version
  /\ learned \subseteq Order \X State
  /\ tx \in [Order -> Tx]
  /\ \A o \in Order : tx[o].step = "idle" => tx[o] = NoTx
  /\ redone \in [Order -> Nat]
  /\ correcting \in [Order -> [reading : BOOLEAN, count : Nat]]

(* worker.load is the number of orders the worker is on duty for, whatever   *)
(* requests, rollbacks and re-dispatches came between (ticket.ts:294-318).  *)
LoadMatches ==
  \A w \in Worker : load[w] = Cardinality({o \in Order : Contrib(order[o]) = w})

(* A row a request has just inserted stands in a state of its flow, so that  *)
(* the dispatch or the way into the hall that follows can move it; a request *)
(* that can do neither is refused (ticket.ts:107-127, claimHallEdges.ts:55). *)
NewOrderKnown ==
  \A o \in Order : tx[o].step = "inserted" => tx[o].row.status \in PinnedDef(tx[o].row).states

(* An order that can go no further is finished or cancelled: the edges the   *)
(* engine injects lead nowhere that the flow does not continue from          *)
(* (stateMachine.ts:375-401, claimHallEdges.ts:34-115).                      *)
NeverStranded ==
  \A o \in Order :
     LET def == PinnedDef(order[o]) IN
     /\ Exists(o)
     /\ order[o].status \in TerminalStates(def)
     => order[o].status \in def.done \cup {"cancelled", "voided"}

(* The system re-dispatches an order at most RedispatchLimit times           *)
(* (autoRedispatch.ts:315-331).                                             *)
RedispatchBounded == \A o \in Order : redone[o] <= RedispatchLimit

(* Every order found in a learning state has been learned from once, under   *)
(* one trigger state or another (workOrder.ts:294-351).                     *)
EveryCompletionLearned ==
  \A o \in Order :
     Exists(o) /\ order[o].status \in LearningTriggers(PinnedDef(order[o]))
       => \E s \in State : <<o, s>> \in learned

(* It holds of flows that enter their learning states on request only: not   *)
(* by creation, the hall, a claim, dispatch or an automatic rule, by an      *)
(* acceptance only from another learning state, and not from a state in      *)
(* which another version learns.                                             *)
Triggers(v) == LearningTriggers(Defs[v])
EnteredOnRequest(v) ==
  /\ {"draft", "claim_hall"} \cap Triggers(v) = {}
  /\ \A u \in Version : DispatchTarget(Defs[u], Defs[u].initial) \cap Triggers(v) = {}
  /\ \A s \in ClaimableStates(Defs[v]) : DispatchTarget(Defs[v], s) \cap Triggers(v) = {}
  /\ \A rule \in AutoRules : \A e \in AutoEdge(Defs[v], rule[1], rule[2]) : e.to \notin Triggers(v)
  /\ \A e \in Edges(Defs[v]) : e.to \in Triggers(v) =>
       /\ e.event # "claim"
       /\ e.event \in AcceptanceEvents => e.from \in Triggers(v)
       /\ e.from \in Triggers(v) \/ \A u \in Version : e.from \notin Triggers(u)

(* A dispatcher, who holds dispatch.override, can take an order out of the   *)
(* claim hall with the generic endpoint (claimHallEdges.ts:29-38).           *)
DispatcherCanDispatch ==
  \A o \in Order :
     Exists(o) /\ order[o].status = "claim_hall"
       => \E e \in FirstTo(PinnedDef(order[o]), "claim_hall", "assigned") :
             Allowed(e, "operator", RolePerms)

(* The states a definition leads to in at most n hops.                       *)
Steps(def, ss) == {e.to : e \in {x \in Edges(def) : x.from \in ss}}
Within4(def, s) ==
  LET one == Steps(def, {s})  two == Steps(def, one)  three == Steps(def, two)
  IN  one \cup two \cup three \cup Steps(def, three)

(* An order moves along the version it was created under and no other: what  *)
(* a request commits is reached by edges of that version                     *)
(* (workflowDef.ts:669-733, ticket.ts:190-215).                              *)
FlowPinned ==
  [][\A o \in Order :
       Exists(o) /\ order'[o].status # order[o].status
         => order'[o].status \in Within4(Defs[order[o].dv], order[o].status)]_vars

(* The worker who returned an order does not get it back from the automatic  *)
(* re-dispatch (workOrder.ts:554-562).                                      *)
ReturnerExcluded ==
  [][\A o \in Order : redone'[o] # redone[o] => order'[o].assignee # order[o].assignee]_vars

(* Whom the committed rows count for, beside the loads of the workers table: *)
(* a ledger in which only a committing request makes entries, for its order  *)
(* and the one or two workers it is taken from and given to                  *)
(* (ticket.ts:294-318).                                                      *)
DutyOf == [o \in Order |-> Contrib(order[o])]
Books  == INSTANCE DutyLedger WITH duty <- DutyOf
ImplementsLedger == Books!Spec
============================================================================
