------------------------------ MODULE Settlement ------------------------------
(***************************************************************************)
(* Settlements, the consumption of material they bill, and the stock it is *)
(* taken from (repo/settlement.ts, routes/material.ts, and the part of a   *)
(* rejected acceptance, services/acceptance.ts, that touches settlements). *)
(*                                                                         *)
(* Requests are READ COMMITTED transactions.  status, head, line, stock    *)
(* and net are the committed tables; tx[r] is a request in progress with   *)
(* the rows it has locked and what it is going to write.  A transaction    *)
(* that locks its settlement first and waits for nothing afterwards is one *)
(* step: none of its later statements can see or disturb another one.      *)
(* Prices are one, so that a material's amount is its quantity.            *)
(***************************************************************************)
EXTENDS Integers, FiniteSets, FiniteSetsExt

CONSTANTS
  Order, Material, Settlement,
  Request,        \* requests in progress at a time
  NoOrder, NoSettlement,
  Service,        \* source = 'service', the line of the work itself
  Status,         \* states of an order, as far as settlements tell them apart
  FirstStatus,
  Eligible,       \* settlementEligibleStatuses: done in any version of the flow
  Blocked,        \* consumeBlockedStatuses: done in the live version, or cancelled
  Evaluated,      \* evaluatedStates: settled automatically on arrival
  Acceptable, Reworked,   \* where an acceptance is asked for, where a rejection leads
  Moves,          \* pairs of states that other transitions connect
  Kinds,          \* bound: the kinds of request that are made
  ServicePrice, ManualAmounts,
  MaxStock, MaxQty        \* bounds: a material on stock or used, the quantity of one request

ASSUME SettlementAssumption ==
  /\ NoOrder \notin Order /\ NoSettlement \notin Settlement /\ Service \notin Material
  /\ FirstStatus \in Status /\ Reworked \in Status \ Acceptable /\ Evaluated \subseteq Status
  /\ "same" \notin Status
  /\ MaxStock \in Nat /\ MaxQty \in Nat /\ ServicePrice \in Nat /\ ManualAmounts \subseteq Nat

VARIABLES
  status,    \* work_orders.status
  head,      \* settlement: status, total, item_count
  line,      \* settlement_item by its unique key (order, service or material)
  stock,     \* inventory.qty
  balance,   \* what all rows of inventory_log add up to for a material
  net,       \* SUM(qty) of the 'out' rows of inventory_log for an order and a material
  tx

vars == <<status, head, line, stock, balance, net, tx>>

Row       == Order \X (Material \cup {Service})
RowsOf(o) == {row \in Row : row[1] = o}
Billable(o) == {row \in RowsOf(o) : row[2] # Service}

NoLine == [in |-> NoSettlement, amount |-> 0, edit |-> "no"]
NoHead == [status |-> "none", total |-> 0, count |-> 0]
Nothing == [o \in Order |-> [m \in Material |-> 0]]
NoTx   == [kind |-> "none", step |-> "idle", order |-> NoOrder, locks |-> {}, to |-> "same",
           want |-> [m \in Material |-> 0], held |-> {}, stock |-> [m \in Material |-> 0],
           header |-> NoSettlement, seen |-> Nothing, cut |-> {}, sum |-> NoHead]

LinesIn(ln, s) == {row \in Row : ln[row].in = s}
LinesOf(o)     == {row \in RowsOf(o) : line[row].in # NoSettlement}
HeadsOf(o, st) == {s \in {line[row].in : row \in LinesOf(o)} : head[s].status = st}

(* recalcHeader, the status kept.                                           *)
Recalculated(h, ln, s) ==
  [h EXCEPT ![s].total = MapThenSumSet(LAMBDA row : ln[row].amount, LinesIn(ln, s)),
            ![s].count = Cardinality(LinesIn(ln, s))]

OrdersUnlocked(os) == \A r \in Request : os \cap tx[r].locks = {}
StockNotLocked(m)  == TRUE                          \* a fault: no FOR UPDATE on stock
StockUnlocked(m)   == \A r \in Request : m \notin tx[r].held
RowsUnlocked(rows, own) == \A r \in Request \ own : rows \cap tx[r].cut = {}
Unused(s) == head[s].status = "none" /\ \A r \in Request : ~(tx[r].kind = "create" /\ tx[r].header = s)

OnNoConfirmed(o) == HeadsOf(o, "confirmed") = {}    \* a fault: drafts do not count as settled
Unsettled(o) == LinesOf(o) = {}
(* assertSettlementNotConfirmed *)
ConfirmedLock(o) == HeadsOf(o, "confirmed") # {}

(* Faults: orders that have material on a settlement are skipped; the sign   *)
(* of what was used is not looked at.                                        *)
ProjectedOnce(ln, s, os, used, prune) ==
  [row \in Row |->
     IF row[1] \notin os \/ row[2] = Service \/ used[row[1]][row[2]] <= 0 \/ ln[row].in # NoSettlement
     THEN ln[row] ELSE [in |-> s, amount |-> used[row[1]][row[2]], edit |-> "no"]]

(* syncMaterialCostRows: every material an order has used becomes its line   *)
(* of s, lines whose material is used no more go, lines edited by hand stay. *)
Projected(ln, s, os, used, prune) ==
  [row \in Row |->
     IF row[1] \notin os \/ row[2] = Service \/ ln[row].edit = "manual" THEN ln[row]
     ELSE IF used[row[1]][row[2]] > 0
       THEN [ln[row] EXCEPT !.in = s, !.amount = used[row[1]][row[2]], !.edit = "no"]
     ELSE IF prune /\ ln[row].in = s THEN NoLine ELSE ln[row]]

Without(ln, rows) == [row \in Row |-> IF row \in rows THEN NoLine ELSE ln[row]]

Begin(r, kind, t) == tx[r] = NoTx /\ kind \in Kinds /\ tx' = [tx EXCEPT ![r] = [t EXCEPT !.kind = kind]]
Commit(r) ==
  /\ tx' = [tx EXCEPT ![r] = NoTx]
  /\ status' = [o \in Order |-> IF o \in tx[r].locks /\ tx[r].to # "same" THEN tx[r].to ELSE status[o]]
----------------------------------------------------------------------------
Init ==
  /\ status = [o \in Order |-> FirstStatus]
  /\ head = [s \in Settlement |-> NoHead]
  /\ line = [row \in Row |-> NoLine]
  /\ stock = [m \in Material |-> 0]
  /\ balance = [m \in Material |-> 0]
  /\ net = Nothing
  /\ tx = [r \in Request |-> NoTx]

(* Any transition that does not touch settlements, or whose automatic        *)
(* settlement was skipped or rolled back to its savepoint.                   *)
MoveOrder(o, to) ==
  /\ OrdersUnlocked({o}) /\ <<status[o], to>> \in Moves
  /\ status' = [status EXCEPT ![o] = to]
  /\ UNCHANGED <<head, line, stock, balance, net, tx>>

(* POST /inventory/in, as long as stock and open consumption together stay   *)
(* within MaxStock (a bound of the model).                                   *)
OnHand(m) == stock[m] + MapThenSumSet(LAMBDA o : net[o][m], Order)
StockIn(m, q) ==
  /\ "in" \in Kinds /\ StockUnlocked(m) /\ OnHand(m) + q <= MaxStock
  /\ stock' = [stock EXCEPT ![m] = @ + q]
  /\ balance' = [balance EXCEPT ![m] = @ + q]
  /\ UNCHANGED <<status, head, line, net, tx>>

(* POST /inventory/out that names no order *)
LooseOut(m, q) ==
  /\ "loose" \in Kinds /\ StockUnlocked(m) /\ stock[m] >= q
  /\ stock' = [stock EXCEPT ![m] = @ - q]
  /\ balance' = [balance EXCEPT ![m] = @ - q]
  /\ UNCHANGED <<status, head, line, net, tx>>

Wanting(o, m, q) ==
  [NoTx EXCEPT !.step = "taking", !.order = o, !.want = [x \in Material |-> IF x = m THEN q ELSE 0]]

(* POST /inventory/out for an order: the order is not locked.                *)
BeginOut(r, o, m, q) ==
  /\ ~ConfirmedLock(o)
  /\ Begin(r, "out", Wanting(o, m, q))
  /\ UNCHANGED <<status, head, line, stock, balance, net>>

(* POST /inventory/return: no more than what the order has used.             *)
BeginReturn(r, o, m, q) ==
  /\ ~ConfirmedLock(o) /\ net[o][m] >= q
  /\ Begin(r, "return", Wanting(o, m, -q))
  /\ UNCHANGED <<status, head, line, stock, balance, net>>

(* POST /inventory/consume: locks the order; want has one quantity for each  *)
(* material, repeated items already merged.                                  *)
BeginConsume(r, o, want) ==
  /\ OrdersUnlocked({o}) /\ status[o] \notin Blocked /\ ~ConfirmedLock(o)
  /\ \E m \in Material : want[m] > 0
  /\ Begin(r, "consume", [NoTx EXCEPT !.step = "taking", !.order = o, !.locks = {o}, !.want = want])
  /\ UNCHANGED <<status, head, line, stock, balance, net>>

(* A stock row is locked and what will be left of it computed.  A row that   *)
(* has too little ends the request (Abort).                                  *)
Take(r, m) ==
  /\ tx[r].step = "taking" /\ tx[r].want[m] # 0 /\ m \notin tx[r].held
  /\ StockUnlocked(m) /\ stock[m] >= tx[r].want[m]
  /\ tx' = [tx EXCEPT ![r].held = @ \cup {m}, ![r].stock[m] = stock[m] - tx[r].want[m]]
  /\ UNCHANGED <<status, head, line, stock, balance, net>>

(* Everything taken and logged: the draft the order is on, if any.           *)
FindDraft(r) ==
  /\ tx[r].step = "taking" /\ tx[r].held = {m \in Material : tx[r].want[m] # 0}
  /\ \E s \in (IF HeadsOf(tx[r].order, "draft") = {} THEN {NoSettlement}
               ELSE HeadsOf(tx[r].order, "draft")) :
        tx' = [tx EXCEPT ![r].step = "logged", ![r].header = s]
  /\ UNCHANGED <<status, head, line, stock, balance, net>>

Used(t) == [net EXCEPT ![t.order] = [m \in Material |-> @[m] + t.want[m]]]
AnyHeader(s)  == s # NoSettlement   \* a fault: the locked header is not looked at again
StillDraft(s) == s # NoSettlement /\ head[s].status = "draft"

(* The draft is locked, and if it still is one its lines are projected anew. *)
CommitStock(r) ==
  LET t == tx[r] IN
  /\ t.step = "logged"
  /\ IF StillDraft(t.header)
     THEN /\ RowsUnlocked(Billable(t.order), {r})
          /\ line' = Projected(line, t.header, {t.order}, Used(t), TRUE)
          /\ head' = Recalculated(head, line', t.header)
     ELSE UNCHANGED <<head, line>>
  /\ stock' = [m \in Material |-> IF m \in t.held THEN t.stock[m] ELSE stock[m]]
  /\ balance' = [m \in Material |-> balance[m] - t.want[m]]
  /\ net' = Used(t)
  /\ Commit(r)

(* createSettlementDraft up to its last statement, for orders os that are    *)
(* or become st: all of them locked, eligible and not settled; the header s  *)
(* and the lines it inserts are not visible before the commit.               *)
BeginCreate(r, os, s, to) ==
  /\ os # {} /\ OrdersUnlocked(os) /\ Unused(s)
  /\ \A o \in os : (IF to = "same" THEN status[o] ELSE to) \in Eligible /\ Unsettled(o)
  /\ Begin(r, "create", [NoTx EXCEPT !.step = "inserted", !.locks = os, !.to = to, !.header = s,
                                     !.seen = [o \in Order |-> IF o \in os THEN net[o] ELSE @[o]]])
  /\ UNCHANGED <<status, head, line, stock, balance, net>>

(* runAutoSettleStep, in the transaction of the transition to an evaluated   *)
(* state.                                                                    *)
BeginAutoSettle(r, o, s, to) ==
  /\ to \in Evaluated /\ <<status[o], to>> \in Moves
  /\ BeginCreate(r, {o}, s, to)

CommitCreate(r) ==
  LET t == tx[r]
      serviced == [row \in Row |->
                     IF row[1] \in t.locks /\ row[2] = Service
                     THEN [in |-> t.header, amount |-> ServicePrice, edit |-> "no"] ELSE line[row]]
  IN
  /\ t.step = "inserted"
  /\ line' = Projected(serviced, t.header, t.locks, t.seen, FALSE)
  /\ head' = Recalculated([head EXCEPT ![t.header].status = "draft"], line', t.header)
  /\ Commit(r)
  /\ UNCHANGED <<stock, balance, net>>

(* A fault: a line changes without recalcHeader.                             *)
EditUncounted(s, row, amount) ==
  /\ "edit" \in Kinds /\ head[s].status = "draft" /\ line[row].in = s
  /\ line' = [line EXCEPT ![row].amount = amount, ![row].edit = "manual"]
  /\ UNCHANGED <<status, head, stock, balance, net, tx>>

(* updateSettlementItem with a price or a quantity *)
EditLine(s, row, amount) ==
  /\ "edit" \in Kinds /\ head[s].status = "draft" /\ line[row].in = s /\ RowsUnlocked({row}, {})
  /\ line' = [line EXCEPT ![row].amount = amount, ![row].edit = "manual"]
  /\ head' = Recalculated(head, line', s)
  /\ UNCHANGED <<status, stock, balance, net, tx>>

(* updateSettlementItem with manual_edited = false: the amount is left for   *)
(* the next projection ("released" differs from "no" for the properties).    *)
ReleaseLine(s, row) ==
  /\ "edit" \in Kinds /\ head[s].status = "draft" /\ line[row].in = s /\ RowsUnlocked({row}, {})
  /\ line[row].edit = "manual"
  /\ line' = [line EXCEPT ![row].edit = "released"]
  /\ head' = Recalculated(head, line', s)
  /\ UNCHANGED <<status, stock, balance, net, tx>>

(* deleteSettlement, the lines by the cascade of the foreign key *)
DeleteDraft(s) ==
  /\ "delete" \in Kinds /\ head[s].status = "draft" /\ RowsUnlocked(LinesIn(line, s), {})
  /\ head' = [head EXCEPT ![s] = [NoHead EXCEPT !.status = "deleted"]]
  /\ line' = Without(line, LinesIn(line, s))
  /\ UNCHANGED <<status, stock, balance, net, tx>>

(* confirmSettlement: locks the header only.                                 *)
ConfirmSettlement(s) ==
  /\ "confirm" \in Kinds /\ head[s].status = "draft" /\ LinesIn(line, s) # {}
  /\ head' = [head EXCEPT ![s].status = "confirmed"]
  /\ UNCHANGED <<status, line, stock, balance, net, tx>>

(* voidSettlement: the lines go into the snapshot, the totals stay.          *)
VoidSettlement(s) ==
  /\ "void" \in Kinds /\ head[s].status = "confirmed" /\ RowsUnlocked(LinesIn(line, s), {})
  /\ head' = [head EXCEPT ![s].status = "voided"]
  /\ line' = Without(line, LinesIn(line, s))
  /\ UNCHANGED <<status, stock, balance, net, tx>>

(* applyAcceptance with a rejection: the lines the order has on drafts are   *)
(* deleted, without a lock on the drafts.                                    *)
DraftLines(o) == {row \in LinesOf(o) : head[line[row].in].status = "draft"}
BeginReject(r, o) ==
  /\ OrdersUnlocked({o}) /\ status[o] \in Acceptable
  /\ \E s \in (IF DraftLines(o) = {} THEN {NoSettlement} ELSE {line[row].in : row \in DraftLines(o)}) :
        Begin(r, "reject", [NoTx EXCEPT !.step = "cut", !.order = o, !.locks = {o}, !.to = Reworked,
                                        !.cut = DraftLines(o), !.header = s])
  /\ UNCHANGED <<status, head, line, stock, balance, net>>

(* The draft is to be deleted when the rejection sees no other line on it.   *)
SeeEmpty(r) ==
  /\ tx[r].step = "cut" /\ tx[r].header # NoSettlement /\ LinesIn(line, tx[r].header) \subseteq tx[r].cut
  /\ tx' = [tx EXCEPT ![r].step = "empty"]
  /\ UNCHANGED <<status, head, line, stock, balance, net>>

DropDraft(r) ==
  LET s == tx[r].header IN
  /\ tx[r].step = "empty" /\ StillDraft(s) /\ RowsUnlocked(LinesIn(line, s), {r})
  /\ head' = [head EXCEPT ![s] = [NoHead EXCEPT !.status = "deleted"]]
  /\ line' = Without(line, LinesIn(line, s) \cup tx[r].cut)
  /\ Commit(r)
  /\ UNCHANGED <<stock, balance, net>>

(* recalcHeader of a draft that was not deleted: the sum is read ...         *)
SumLines(r) ==
  LET s == tx[r].header IN
  /\ \/ /\ tx[r].step = "cut" /\ s # NoSettlement
        /\ ~(LinesIn(line, s) \subseteq tx[r].cut)
     \/ tx[r].step = "empty" /\ ~StillDraft(s)
  /\ tx' = [tx EXCEPT ![r].step = "summed",
                      ![r].sum = Recalculated(head, Without(line, tx[r].cut), s)[s]]
  /\ UNCHANGED <<status, head, line, stock, balance, net>>

(* ... and written, whatever the status of the header is by then.            *)
CommitReject(r) ==
  LET t == tx[r] IN
  /\ t.step = "summed" \/ (t.step = "cut" /\ t.header = NoSettlement)
  /\ head' = IF t.header = NoSettlement \/ head[t.header].status = "deleted" THEN head
             ELSE [head EXCEPT ![t.header].total = t.sum.total, ![t.header].count = t.sum.count]
  /\ line' = Without(line, t.cut)
  /\ Commit(r)
  /\ UNCHANGED <<stock, balance, net>>

(* Too little stock, a lost connection, or a deadlock that the database      *)
(* resolves against this request.                                            *)
Abort(r) ==
  /\ tx[r] # NoTx
  /\ tx' = [tx EXCEPT ![r] = NoTx]
  /\ UNCHANGED <<status, head, line, stock, balance, net>>

StockStep ==
  \/ \E m \in Material, q \in 1..MaxQty : StockIn(m, q) \/ LooseOut(m, q)
  \/ \E r \in Request, o \in Order, m \in Material, q \in 1..MaxQty :
        BeginOut(r, o, m, q) \/ BeginReturn(r, o, m, q)
  \/ \E r \in Request, o \in Order, want \in [Material -> 0..MaxQty] : BeginConsume(r, o, want)
  \/ \E r \in Request, m \in Material : Take(r, m)
  \/ \E r \in Request : FindDraft(r) \/ CommitStock(r)

SettlementStep ==
  \/ \E r \in Request, os \in SUBSET Order, s \in Settlement : BeginCreate(r, os, s, "same")
  \/ \E r \in Request, o \in Order, s \in Settlement, to \in Status : BeginAutoSettle(r, o, s, to)
  \/ \E r \in Request : CommitCreate(r)
  \/ \E s \in Settlement, row \in Row : ReleaseLine(s, row) \/ \E a \in ManualAmounts : EditLine(s, row, a)
  \/ \E s \in Settlement : DeleteDraft(s) \/ ConfirmSettlement(s) \/ VoidSettlement(s)

RejectStep ==
  \/ \E r \in Request, o \in Order : BeginReject(r, o)
  \/ \E r \in Request : SeeEmpty(r) \/ DropDraft(r) \/ SumLines(r) \/ CommitReject(r)

Next ==
  \/ \E o \in Order, to \in Status : MoveOrder(o, to)
  \/ StockStep \/ SettlementStep \/ RejectStep
  \/ \E r \in Request : Abort(r)

Spec == Init /\ [][Next]_vars
----------------------------------------------------------------------------
(* Stock and log agree: a stock row is what the rows of its log add up to,   *)
(* and never negative, however outgoing material, consumption, returns and   *)
(* deliveries interleave (FOR UPDATE in routes/material.ts).                 *)
StockMatchesLog == \A m \in Material : stock[m] = balance[m] /\ stock[m] >= 0

(* All lines of an order are on one settlement: an order is settled once     *)
(* (repo/settlement.ts, "already_settled" and the upsert that can move a     *)
(* line to another settlement).                                              *)
OneSettlement ==
  \A o \in Order : \A a, b \in LinesOf(o) : line[a].in = line[b].in

(* The total and the count of a draft or confirmed settlement are those of   *)
(* its lines (recalcHeader after every change of a line).                    *)
TotalsMatch ==
  \A s \in Settlement : head[s].status \in {"draft", "confirmed"} => Recalculated(head, line, s) = head

(* A confirmed settlement changes in one way only, by being voided: neither  *)
(* its totals nor its lines (confirmSettlement).                             *)
ConfirmedFrozen ==
  [][\A s \in Settlement : head[s].status = "confirmed" =>
       \/ head'[s] = [head[s] EXCEPT !.status = "voided"]
       \/ head'[s] = head[s] /\ \A row \in Row : s \in {line[row].in, line'[row].in} => line'[row] = line[row]]_vars

(* The tables implement Billing: orders come onto a settlement together, as  *)
(* it is created for them, stay on it and on no other until it is deleted or *)
(* voided, and its total changes while it is a draft only, whatever requests *)
(* overlap (createSettlementDraft, confirmSettlement, voidSettlement,        *)
(* deleteSettlement and what projects onto drafts).                          *)
BilledOn == [o \in Order |-> {line[row].in : row \in LinesOf(o)}]
Papers   == [s \in Settlement |-> [status |-> head[s].status, total |-> head[s].total]]
Bills    == INSTANCE Billing WITH on <- BilledOn, paper <- Papers
ImplementsBilling == Bills!Spec

(* On a draft, a line that nobody has edited bills what its order has used   *)
(* of the material, and there is one whenever something was used             *)
(* (syncMaterialCostRows).                                                   *)
DraftFollowsConsumption ==
  \A o \in Order : HeadsOf(o, "draft") # {} =>
    \A row \in Billable(o) : line[row].edit = "no" =>
      line[row].amount = (IF net[o][row[2]] > 0 THEN net[o][row[2]] ELSE 0)

(* While the settlement of an order is confirmed, what the order has used    *)
(* does not change (assertSettlementNotConfirmed).                           *)
ConfirmedConsumption ==
  [][\A o \in Order : HeadsOf(o, "confirmed") # {} => net'[o] = net[o]]_vars

(* What an order has used of a material never becomes negative: not more is  *)
(* returned than was taken (POST /inventory/return).                         *)
NetNotNegative == \A o \in Order, m \in Material : net[o][m] >= 0
=============================================================================
