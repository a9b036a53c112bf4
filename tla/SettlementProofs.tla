--------------------------- MODULE SettlementProofs ---------------------------
(***************************************************************************)
(* Theorems about Settlement, for any sets of orders, materials,           *)
(* settlements and requests, any flow and any kinds of request.            *)
(***************************************************************************)
EXTENDS Settlement, TLAPS

(* A request record has the fields of NoTx.                                  *)
IsTx(t) == DOMAIN t = {"kind", "step", "order", "locks", "to", "want", "held", "stock", "header",
                       "seen", "cut", "sum"}

(* What a request has taken from the stock: of every row it holds it has     *)
(* computed the remainder, and when it logs it holds all it wants.           *)
Taking(t) ==
  /\ t.held \subseteq Material /\ t.want \in [Material -> Int] /\ t.stock \in [Material -> Int]
  /\ \A m \in t.held : t.stock[m] = stock[m] - t.want[m] /\ t.stock[m] >= 0
  /\ t.step = "logged" => \A m \in Material : t.want[m] # 0 => m \in t.held

StockInv ==
  /\ stock \in [Material -> Int] /\ balance \in [Material -> Int]
  /\ StockMatchesLog
  /\ tx = [r \in Request |-> tx[r]]
  /\ \A r \in Request : IsTx(tx[r]) /\ Taking(tx[r])
  /\ \A q, r \in Request : q # r => tx[q].held \cap tx[r].held = {}

LEMMA NoTxTaking == IsTx(NoTx) /\ Taking(NoTx) /\ NoTx.held = {} /\ NoTx.step = "idle"
  BY DEF IsTx, Taking, NoTx

LEMMA StockInit == Init => StockInv
  <1> SUFFICES ASSUME Init PROVE StockInv OBVIOUS
  <1>1. tx = [r \in Request |-> NoTx] /\ stock = [m \in Material |-> 0] /\ balance = [m \in Material |-> 0]
    BY DEF Init
  <1>2. \A r \in Request : tx[r] = NoTx
    BY <1>1
  <1> QED BY <1>1, <1>2, NoTxTaking DEF StockInv, StockMatchesLog

(* A request replaced by one that is as careful with the stock.              *)
LEMMA Replace ==
  ASSUME StockInv, NEW r \in Request, NEW t, tx' = [tx EXCEPT ![r] = t], UNCHANGED <<stock, balance>>,
         IsTx(t), Taking(t), \A q \in Request : q # r => t.held \cap tx[q].held = {}
  PROVE  StockInv'
  <1>1. tx' = [q \in Request |-> tx'[q]] /\ tx'[r] = t /\ \A q \in Request : q # r => tx'[q] = tx[q]
    BY DEF StockInv
  <1>2. \A q \in Request : IsTx(tx'[q])
    BY <1>1 DEF StockInv
  <1>3. \A q \in Request : Taking(tx'[q])
    BY <1>1 DEF StockInv
  <1>4. \A q \in Request : Taking(tx[q])'
    BY <1>3 DEF Taking
  <1>5. \A p, q \in Request : p # q => tx'[p].held \cap tx'[q].held = {}
    BY <1>1 DEF StockInv
  <1> QED BY <1>1, <1>2, <1>4, <1>5 DEF StockInv, StockMatchesLog, IsTx

(* Requests that hold nothing may come and go.                               *)
LEMMA Fresh ==
  ASSUME StockInv, NEW r \in Request, NEW t, tx' = [tx EXCEPT ![r] = t], UNCHANGED <<stock, balance>>,
         IsTx(t), t.held = {}, t.want \in [Material -> Int], t.stock \in [Material -> Int], t.step # "logged"
  PROVE  StockInv'
  BY Replace DEF Taking

LEMMA BegunFresh ==
  ASSUME StockInv, NEW r \in Request, NEW kind, NEW t, Begin(r, kind, t), UNCHANGED <<stock, balance>>,
         IsTx(t), t.held = {}, t.want \in [Material -> Int], t.stock = NoTx.stock, t.step # "logged"
  PROVE  StockInv'
  <1> DEFINE u == [t EXCEPT !.kind = kind]
  <1>1. tx' = [tx EXCEPT ![r] = u]
    BY DEF Begin
  <1>2. IsTx(u) /\ u.held = {} /\ u.want = t.want /\ u.stock = t.stock /\ u.step = t.step
    BY DEF IsTx
  <1>3. u.stock \in [Material -> Int]
    BY <1>2 DEF NoTx
  <1> HIDE DEF u
  <1> QED BY <1>1, <1>2, <1>3, Fresh

(* The requests that begin hold no stock.                                    *)
LEMMA BeginWanting ==
  ASSUME StockInv, NEW r \in Request, NEW o \in Order, NEW m \in Material, NEW q \in Int, NEW kind,
         Begin(r, kind, Wanting(o, m, q)), UNCHANGED <<stock, balance>>
  PROVE  StockInv'
  <1>1. LET t == Wanting(o, m, q)
        IN  IsTx(t) /\ t.held = {} /\ t.want \in [Material -> Int] /\ t.stock = NoTx.stock /\ t.step # "logged"
    BY DEF IsTx, Wanting, NoTx
  <1> QED BY <1>1, BegunFresh

LEMMA BegunConsume ==
  ASSUME StockInv, NEW r \in Request, NEW o \in Order, NEW want \in [Material -> 0..MaxQty],
         BeginConsume(r, o, want)
  PROVE  StockInv'
  <1> DEFINE t == [NoTx EXCEPT !.step = "taking", !.order = o, !.locks = {o}, !.want = want]
  <1>1. IsTx(t) /\ t.held = {} /\ t.want = want /\ t.stock = NoTx.stock /\ t.step # "logged"
    BY DEF IsTx, NoTx
  <1>2. t.want \in [Material -> Int]
    BY <1>1
  <1>3. Begin(r, "consume", t) /\ UNCHANGED <<stock, balance>>
    BY DEF BeginConsume
  <1> HIDE DEF t
  <1> QED BY <1>1, <1>2, <1>3, BegunFresh

LEMMA BegunCreate ==
  ASSUME StockInv, NEW r \in Request, NEW os, NEW s, NEW to, BeginCreate(r, os, s, to)
  PROVE  StockInv'
  <1> DEFINE t == [NoTx EXCEPT !.step = "inserted", !.locks = os, !.to = to, !.header = s,
                               !.seen = [o \in Order |-> IF o \in os THEN net[o] ELSE @[o]]]
  <1>1. IsTx(t) /\ t.held = {} /\ t.want = NoTx.want /\ t.stock = NoTx.stock /\ t.step # "logged"
    BY DEF IsTx, NoTx
  <1>2. t.want \in [Material -> Int]
    BY <1>1 DEF NoTx
  <1>3. Begin(r, "create", t) /\ UNCHANGED <<stock, balance>>
    BY DEF BeginCreate
  <1> HIDE DEF t
  <1> QED BY <1>1, <1>2, <1>3, BegunFresh

LEMMA BegunReject ==
  ASSUME StockInv, NEW r \in Request, NEW o, BeginReject(r, o)
  PROVE  StockInv'
  <1>1. PICK s : Begin(r, "reject", [NoTx EXCEPT !.step = "cut", !.order = o, !.locks = {o}, !.to = Reworked,
                                                 !.cut = DraftLines(o), !.header = s])
    BY DEF BeginReject
  <1> DEFINE t == [NoTx EXCEPT !.step = "cut", !.order = o, !.locks = {o}, !.to = Reworked,
                               !.cut = DraftLines(o), !.header = s]
  <1>2. IsTx(t) /\ t.held = {} /\ t.want = NoTx.want /\ t.stock = NoTx.stock /\ t.step # "logged"
    BY DEF IsTx, NoTx
  <1>3. t.want \in [Material -> Int]
    BY <1>2 DEF NoTx
  <1>4. Begin(r, "reject", t) /\ UNCHANGED <<stock, balance>>
    BY <1>1 DEF BeginReject
  <1> HIDE DEF t
  <1> QED BY <1>2, <1>3, <1>4, BegunFresh

(* A request that ends without a write of its own to the stock.              *)
LEMMA Ended ==
  ASSUME StockInv, NEW r \in Request, tx' = [tx EXCEPT ![r] = NoTx], UNCHANGED <<stock, balance>>
  PROVE  StockInv'
  <1>1. NoTx.want \in [Material -> Int] /\ NoTx.stock \in [Material -> Int]
    BY DEF NoTx
  <1> QED BY <1>1, NoTxTaking, Fresh

(* Steps of a request that leave its share of the stock alone.               *)
LEMMA Carried ==
  ASSUME StockInv, NEW r \in Request, NEW t, tx' = [tx EXCEPT ![r] = t], UNCHANGED <<stock, balance>>,
         IsTx(t), t.held = tx[r].held, t.want = tx[r].want, t.stock = tx[r].stock, t.step # "logged"
  PROVE  StockInv'
  <1>1. Taking(t)
    BY DEF StockInv, Taking
  <1>2. \A q \in Request : q # r => t.held \cap tx[q].held = {}
    BY DEF StockInv
  <1> QED BY <1>1, <1>2, Replace

LEMMA Taken ==
  ASSUME StockInv, NEW r \in Request, NEW m \in Material, Take(r, m)
  PROVE  StockInv'
  <1> DEFINE t == [tx[r] EXCEPT !.held = @ \cup {m}, !.stock[m] = stock[m] - tx[r].want[m]]
  <1>1. IsTx(tx[r]) /\ Taking(tx[r]) /\ tx[r].step = "taking"
    BY DEF StockInv, Take
  <1>2. IsTx(t)
    BY <1>1 DEF IsTx
  <1>3. /\ t.held = tx[r].held \cup {m} /\ t.want = tx[r].want /\ t.step = "taking"
        /\ t.stock = [tx[r].stock EXCEPT ![m] = stock[m] - tx[r].want[m]]
    BY <1>1 DEF IsTx
  <1>4. tx' = [tx EXCEPT ![r] = t]
    BY <1>1 DEF Take, IsTx, StockInv
  <1>5. stock[m] - tx[r].want[m] \in Int /\ stock[m] - tx[r].want[m] >= 0
    BY <1>1 DEF Take, StockInv, Taking
  <1> HIDE DEF t
  <1>6. Taking(t)
    BY <1>1, <1>3, <1>5 DEF Taking
  <1>7. \A q \in Request : q # r => t.held \cap tx[q].held = {}
    BY <1>3 DEF StockInv, Take, StockUnlocked
  <1> QED BY <1>2, <1>4, <1>6, <1>7, Replace DEF Take

LEMMA DraftFound ==
  ASSUME StockInv, NEW r \in Request, FindDraft(r)
  PROVE  StockInv'
  <1>1. PICK s : tx' = [tx EXCEPT ![r].step = "logged", ![r].header = s]
    BY DEF FindDraft
  <1> DEFINE t == [tx[r] EXCEPT !.step = "logged", !.header = s]
  <1>2. IsTx(tx[r]) /\ Taking(tx[r])
    BY DEF StockInv
  <1>3. IsTx(t) /\ t.held = tx[r].held /\ t.want = tx[r].want /\ t.stock = tx[r].stock
    BY <1>2 DEF IsTx
  <1>4. tx' = [tx EXCEPT ![r] = t]
    BY <1>1, <1>2 DEF IsTx, StockInv
  <1>5. \A m \in Material : tx[r].want[m] # 0 => m \in tx[r].held
    BY DEF FindDraft
  <1> HIDE DEF t
  <1>6. Taking(t)
    BY <1>2, <1>3, <1>5 DEF Taking
  <1>7. \A q \in Request : q # r => t.held \cap tx[q].held = {}
    BY <1>3 DEF StockInv
  <1> QED BY <1>1, <1>3, <1>4, <1>6, <1>7, Replace DEF FindDraft

(* A row that nobody holds may change, if stock and log change together.     *)
LEMMA Moved ==
  ASSUME StockInv, NEW m \in Material, NEW q \in Int, StockUnlocked(m), stock[m] + q >= 0,
         stock' = [stock EXCEPT ![m] = @ + q], balance' = [balance EXCEPT ![m] = @ + q], UNCHANGED tx
  PROVE  StockInv'
  <1>1. \A r \in Request : Taking(tx[r])'
    BY DEF StockInv, Taking, StockUnlocked
  <1>2. stock' \in [Material -> Int] /\ balance' \in [Material -> Int] /\ StockMatchesLog'
    BY DEF StockInv, StockMatchesLog
  <1> QED BY <1>1, <1>2 DEF StockInv, IsTx

(* The remainders that a request has computed are still right when it        *)
(* commits, for what it wanted and nothing else; no other request holds one  *)
(* of its rows.                                                              *)
LEMMA Committed ==
  ASSUME StockInv, NEW r \in Request, CommitStock(r)
  PROVE  StockInv'
  <1> DEFINE t == tx[r]
  <1>1. /\ t.step = "logged" /\ tx' = [tx EXCEPT ![r] = NoTx]
        /\ stock' = [m \in Material |-> IF m \in t.held THEN t.stock[m] ELSE stock[m]]
        /\ balance' = [m \in Material |-> balance[m] - t.want[m]]
    BY DEF CommitStock, Commit
  <1>2. Taking(t) /\ IsTx(t)
    BY DEF StockInv
  <1>3. \A m \in Material : stock'[m] = stock[m] - t.want[m] /\ stock'[m] >= 0
    <2> SUFFICES ASSUME NEW m \in Material PROVE stock'[m] = stock[m] - t.want[m] /\ stock'[m] >= 0
      OBVIOUS
    <2>1. CASE m \in t.held
      BY <1>1, <1>2, <2>1 DEF Taking
    <2>2. CASE m \notin t.held
      <3>1. t.want[m] = 0
        BY <1>1, <1>2, <2>2 DEF Taking
      <3> QED BY <1>1, <2>2, <3>1 DEF StockInv, StockMatchesLog
    <2> QED BY <2>1, <2>2
  <1>4. stock' \in [Material -> Int] /\ balance' \in [Material -> Int]
    BY <1>1, <1>2 DEF StockInv, Taking
  <1>5. StockMatchesLog'
    BY <1>1, <1>3 DEF StockInv, StockMatchesLog
  <1>6. /\ tx' = [q \in Request |-> tx'[q]] /\ tx'[r] = NoTx
        /\ \A q \in Request : q # r => tx'[q] = tx[q]
    BY <1>1 DEF StockInv
  <1>7. \A q \in Request : IsTx(tx'[q])
    BY <1>6, NoTxTaking DEF StockInv
  <1>8. \A q \in Request : Taking(tx[q])'
    <2> SUFFICES ASSUME NEW q \in Request PROVE Taking(tx[q])'
      OBVIOUS
    <2>1. CASE q = r
      BY <1>6, <2>1, NoTxTaking DEF Taking
    <2>2. CASE q # r
      <3>1. tx'[q] = tx[q] /\ Taking(tx[q])
        BY <1>6, <2>2 DEF StockInv
      <3>2. \A m \in tx[q].held : m \in Material /\ m \notin t.held
        BY <2>2, <3>1 DEF StockInv, Taking
      <3>3. \A m \in tx[q].held : stock'[m] = stock[m]
        BY <1>1, <3>2
      <3> QED BY <3>1, <3>3 DEF Taking
    <2> QED BY <2>1, <2>2
  <1>9. \A p, q \in Request : p # q => tx'[p].held \cap tx'[q].held = {}
    BY <1>6, NoTxTaking DEF StockInv
  <1> QED BY <1>4, <1>5, <1>6, <1>7, <1>8, <1>9 DEF StockInv, IsTx

LEMMA Seen ==
  ASSUME StockInv, NEW r \in Request, NEW step, step # "logged", UNCHANGED <<stock, balance>>,
         tx' = [tx EXCEPT ![r].step = step]
  PROVE  StockInv'
  <1> DEFINE t == [tx[r] EXCEPT !.step = step]
  <1>1. IsTx(tx[r])
    BY DEF StockInv
  <1>2. IsTx(t) /\ t.held = tx[r].held /\ t.want = tx[r].want /\ t.stock = tx[r].stock /\ t.step = step
    BY <1>1 DEF IsTx
  <1>3. tx' = [tx EXCEPT ![r] = t]
    BY <1>1 DEF IsTx, StockInv
  <1> HIDE DEF t
  <1> QED BY <1>2, <1>3, Carried

LEMMA Summed ==
  ASSUME StockInv, NEW r \in Request, SumLines(r)
  PROVE  StockInv'
  <1> DEFINE sum == Recalculated(head, Without(line, tx[r].cut), tx[r].header)[tx[r].header]
             t == [tx[r] EXCEPT !.step = "summed", !.sum = sum]
  <1>1. IsTx(tx[r]) /\ tx' = [tx EXCEPT ![r].step = "summed", ![r].sum = sum]
    BY DEF StockInv, SumLines
  <1> HIDE DEF sum
  <1>2. IsTx(t) /\ t.held = tx[r].held /\ t.want = tx[r].want /\ t.stock = tx[r].stock /\ t.step = "summed"
    BY <1>1 DEF IsTx
  <1>3. tx' = [tx EXCEPT ![r] = t]
    BY <1>1 DEF IsTx, StockInv
  <1> HIDE DEF t
  <1> QED BY <1>2, <1>3, Carried DEF SumLines

LEMMA StockKept ==
  ASSUME StockInv, UNCHANGED <<stock, balance, tx>>
  PROVE  StockInv'
  BY DEF StockInv, StockMatchesLog, Taking, IsTx

(* Every step of a request or of the desk keeps stock and log in agreement.  *)
LEMMA StockNext == StockInv /\ [Next]_vars => StockInv'
  <1> USE SettlementAssumption DEF SettlementAssumption
  <1> SUFFICES ASSUME StockInv, [Next]_vars PROVE StockInv'
    OBVIOUS
  <1>1. CASE UNCHANGED vars
    BY <1>1, StockKept DEF vars
  <1>2. ASSUME NEW o \in Order, NEW to \in Status, MoveOrder(o, to) PROVE StockInv'
    BY <1>2, StockKept DEF MoveOrder
  <1>3. CASE StockStep
    <2>1. ASSUME NEW m \in Material, NEW q \in 1..MaxQty, StockIn(m, q) PROVE StockInv'
      <3>1. q \in Int /\ stock[m] + q >= 0
        BY DEF StockInv, StockMatchesLog
      <3> QED BY <2>1, <3>1, Moved DEF StockIn
    <2>2. ASSUME NEW m \in Material, NEW q \in 1..MaxQty, LooseOut(m, q) PROVE StockInv'
      <3>1. -q \in Int /\ stock[m] + (-q) >= 0 /\ stock[m] - q = stock[m] + (-q)
            /\ balance[m] - q = balance[m] + (-q)
        BY <2>2 DEF StockInv, StockMatchesLog, LooseOut
      <3>2. stock' = [stock EXCEPT ![m] = @ + (-q)] /\ balance' = [balance EXCEPT ![m] = @ + (-q)]
        BY <2>2, <3>1 DEF LooseOut
      <3> QED BY <2>2, <3>1, <3>2, Moved DEF LooseOut
    <2>3. ASSUME NEW r \in Request, NEW o \in Order, NEW m \in Material, NEW q \in 1..MaxQty,
                 BeginOut(r, o, m, q) \/ BeginReturn(r, o, m, q)
          PROVE  StockInv'
      <3>1. q \in Int /\ -q \in Int
        OBVIOUS
      <3> QED BY <2>3, <3>1, BeginWanting DEF BeginOut, BeginReturn
    <2>4. ASSUME NEW r \in Request, NEW o \in Order, NEW want \in [Material -> 0..MaxQty],
                 BeginConsume(r, o, want)
          PROVE  StockInv'
      BY <2>4, BegunConsume
    <2>5. ASSUME NEW r \in Request, NEW m \in Material, Take(r, m) PROVE StockInv'
      BY <2>5, Taken
    <2>6. ASSUME NEW r \in Request, FindDraft(r) \/ CommitStock(r) PROVE StockInv'
      BY <2>6, DraftFound, Committed
    <2> QED BY <1>3, <2>1, <2>2, <2>3, <2>4, <2>5, <2>6 DEF StockStep
  <1>4. CASE SettlementStep
    <2>1. ASSUME NEW r \in Request, NEW os \in SUBSET Order, NEW s \in Settlement,
                 BeginCreate(r, os, s, "same")
          PROVE  StockInv'
      BY <2>1, BegunCreate
    <2>2. ASSUME NEW r \in Request, NEW o \in Order, NEW s \in Settlement, NEW to \in Status,
                 BeginAutoSettle(r, o, s, to)
          PROVE  StockInv'
      BY <2>2, BegunCreate DEF BeginAutoSettle
    <2>3. ASSUME NEW r \in Request, CommitCreate(r) PROVE StockInv'
      BY <2>3, Ended DEF CommitCreate, Commit
    <2>4. ASSUME NEW s \in Settlement, NEW row \in Row,
                 ReleaseLine(s, row) \/ \E a \in ManualAmounts : EditLine(s, row, a)
          PROVE  StockInv'
      BY <2>4, StockKept DEF ReleaseLine, EditLine
    <2>5. ASSUME NEW s \in Settlement, DeleteDraft(s) \/ ConfirmSettlement(s) \/ VoidSettlement(s)
          PROVE  StockInv'
      BY <2>5, StockKept DEF DeleteDraft, ConfirmSettlement, VoidSettlement
    <2> QED BY <1>4, <2>1, <2>2, <2>3, <2>4, <2>5 DEF SettlementStep
  <1>5. CASE RejectStep
    <2>1. ASSUME NEW r \in Request, NEW o \in Order, BeginReject(r, o) PROVE StockInv'
      BY <2>1, BegunReject
    <2>2. ASSUME NEW r \in Request, SeeEmpty(r) PROVE StockInv'
      BY <2>2, Seen DEF SeeEmpty
    <2>3. ASSUME NEW r \in Request, DropDraft(r) PROVE StockInv'
      BY <2>3, Ended DEF DropDraft, Commit
    <2>4. ASSUME NEW r \in Request, SumLines(r) PROVE StockInv'
      BY <2>4, Summed
    <2>5. ASSUME NEW r \in Request, CommitReject(r) PROVE StockInv'
      BY <2>5, Ended DEF CommitReject, Commit
    <2> QED BY <1>5, <2>1, <2>2, <2>3, <2>4, <2>5 DEF RejectStep
  <1>6. ASSUME NEW r \in Request, Abort(r) PROVE StockInv'
    BY <1>6, Ended DEF Abort
  <1> QED BY <1>1, <1>2, <1>3, <1>4, <1>5, <1>6 DEF Next

(* Stock and log agree in every reachable state, and no stock is ever        *)
(* negative: the row locks of routes/material.ts are enough for that,        *)
(* whatever the other requests do.                                           *)
THEOREM StockSound == Spec => []StockMatchesLog
  <1>1. StockInv => StockMatchesLog
    BY DEF StockInv
  <1> QED BY <1>1, StockInit, StockNext, PTL DEF Spec
----------------------------------------------------------------------------
(* The settlement an order's work is billed by.                              *)
Work(o) == line[<<o, Service>>].in
Live(s) == head[s].status \in {"draft", "confirmed"}

IsHead(h) == h = [field \in {"status", "total", "count"} |-> h[field]]
IsLine(l) == DOMAIN l = {"in", "amount", "edit"}
Tables ==
  /\ head = [s \in Settlement |-> head[s]] /\ \A s \in Settlement : IsHead(head[s])
  /\ line = [row \in Row |-> line[row]]
  /\ \A row \in Row : IsLine(line[row]) /\ line[row].in \in Settlement \cup {NoSettlement}
  /\ tx = [r \in Request |-> tx[r]] /\ \A r \in Request : IsTx(tx[r])

(* Material is billed with the work of its order, on a settlement that is    *)
(* neither deleted nor voided.                                               *)
WithWork ==
  \A row \in Row : line[row].in # NoSettlement => line[row].in = Work(row[1]) /\ Live(line[row].in)

(* The draft a request has found bills the work of its order as long as it   *)
(* is a draft; the settlement that is being created is new, and so are the   *)
(* lines of the orders it locks.                                             *)
Careful(t) ==
  /\ t.step \in {"idle", "taking", "logged", "inserted"}
  /\ t.step \in {"taking", "logged"} => t.order \in Order
  /\ t.step = "logged" /\ t.header # NoSettlement =>
       /\ t.header \in Settlement /\ head[t.header].status # "none"
       /\ head[t.header].status = "draft" => Work(t.order) = t.header
  /\ t.step = "inserted" =>
       /\ t.kind = "create" /\ t.header \in Settlement /\ head[t.header].status = "none"
       /\ t.locks \subseteq Order /\ t.locks # {} /\ \A o \in t.locks : Work(o) = NoSettlement
Apart(t, u) == t.step = "inserted" /\ u.step = "inserted" => t.locks \cap u.locks = {} /\ t.header # u.header

BillInv ==
  /\ Tables /\ WithWork
  /\ \A r \in Request : Careful(tx[r])
  /\ \A q, r \in Request : q # r => Apart(tx[q], tx[r])

LEMMA RowFacts ==
  /\ \A row \in Row : row[1] \in Order /\ <<row[1], Service>> \in Row
  /\ \A o \in Order : <<o, Service>> \in Row /\ <<o, Service>>[1] = o /\ <<o, Service>>[2] = Service
  BY DEF Row

LEMMA NoTxCareful == Careful(NoTx) /\ NoTx.step = "idle"
  BY DEF Careful, NoTx

LEMMA BillStart == Init => BillInv
  <1> SUFFICES ASSUME Init PROVE BillInv OBVIOUS
  <1>1. \A r \in Request : tx[r] = NoTx
    BY DEF Init
  <1>2. Tables
    BY <1>1, NoTxTaking DEF Init, Tables, NoHead, NoLine, IsHead, IsLine
  <1>3. WithWork
    BY DEF Init, WithWork, NoLine
  <1> QED BY <1>1, <1>2, <1>3, NoTxCareful DEF BillInv, Apart

(* A request moves on, and the tables stay as they are.                      *)
LEMMA RequestMoves ==
  ASSUME BillInv, NEW r \in Request, NEW t, tx' = [tx EXCEPT ![r] = t], UNCHANGED <<head, line>>,
         IsTx(t), Careful(t), \A q \in Request : q # r => Apart(t, tx[q])
  PROVE  BillInv'
  <1>1. tx' = [q \in Request |-> tx'[q]] /\ tx'[r] = t /\ \A q \in Request : q # r => tx'[q] = tx[q]
    BY DEF BillInv, Tables
  <1>2. Tables'
    BY <1>1 DEF BillInv, Tables, IsHead, IsLine, IsTx
  <1>3. \A q \in Request : Careful(tx'[q])
    BY <1>1 DEF BillInv
  <1>4. \A q \in Request : Careful(tx[q])'
    BY <1>3 DEF Careful, Work
  <1>5. \A p, q \in Request : p # q => Apart(tx'[p], tx'[q])
    BY <1>1 DEF BillInv, Apart
  <1> QED BY <1>2, <1>4, <1>5 DEF BillInv, WithWork, Work, Live, Apart

(* The tables change under the requests: no settlement comes or comes back,  *)
(* and the work of an order leaves one only when it stops being a draft.     *)
Disturbs ==
  /\ tx' = tx \/ \E r \in Request : tx' = [tx EXCEPT ![r] = NoTx]
  /\ \A s \in Settlement : head[s].status = "none" <=> head'[s].status = "none"
  /\ \A s \in Settlement : head'[s].status = "draft" => head[s].status = "draft"
  /\ \A o \in Order : \/ line'[<<o, Service>>].in = Work(o)
                      \/ line'[<<o, Service>>].in = NoSettlement /\ head'[Work(o)].status # "draft"
LEMMA TablesChange == ASSUME BillInv, Tables', WithWork', Disturbs PROVE BillInv'
  <1>1. \A r \in Request : tx'[r] = tx[r] \/ tx'[r] = NoTx
    BY DEF BillInv, Tables, Disturbs
  <1>2. ASSUME NEW t, Careful(t) PROVE Careful(t)'
    BY <1>2 DEF Careful, Work, Disturbs
  <1>3. Careful(NoTx)'
    BY NoTxCareful DEF Careful
  <1>4. \A r \in Request : Careful(tx[r])'
    BY <1>1, <1>2, <1>3 DEF BillInv
  <1>5. \A p, q \in Request : p # q => Apart(tx'[p], tx'[q])
    BY <1>1, NoTxCareful DEF BillInv, Apart
  <1> QED BY <1>4, <1>5 DEF BillInv, Apart

(* recalcHeader leaves the status alone, and the other headers.              *)
LEMMA RecalculatedIs ==
  ASSUME NEW h, h = [x \in Settlement |-> h[x]], \A x \in Settlement : IsHead(h[x]), NEW ln, NEW s \in Settlement
  PROVE  /\ Recalculated(h, ln, s) = [x \in Settlement |-> Recalculated(h, ln, s)[x]]
         /\ \A x \in Settlement : IsHead(Recalculated(h, ln, s)[x]) /\ Recalculated(h, ln, s)[x].status = h[x].status
         /\ \A x \in Settlement : x # s => Recalculated(h, ln, s)[x] = h[x]
  <1> DEFINE a == MapThenSumSet(LAMBDA row : ln[row].amount, LinesIn(ln, s))
             b == Cardinality(LinesIn(ln, s))
             g == [h EXCEPT ![s].total = a, ![s].count = b]
  <1>1. Recalculated(h, ln, s) = g
    BY DEF Recalculated
  <1> HIDE DEF a, b
  <1>2. /\ g = [x \in Settlement |-> g[x]] /\ \A x \in Settlement : IsHead(g[x]) /\ g[x].status = h[x].status
        /\ \A x \in Settlement : x # s => g[x] = h[x]
    BY DEF IsHead
  <1> HIDE DEF g
  <1> QED BY <1>1, <1>2

(* Requests that take material have no settlement yet.                       *)
LEMMA BillTaking ==
  ASSUME BillInv, NEW r \in Request, NEW kind, NEW t, Begin(r, kind, t), UNCHANGED <<head, line>>,
         IsTx(t), t.step = "taking", t.order \in Order
  PROVE  BillInv'
  <1> DEFINE u == [t EXCEPT !.kind = kind]
  <1>1. tx' = [tx EXCEPT ![r] = u]
    BY DEF Begin
  <1>2. IsTx(u) /\ u.order = t.order /\ u.step = "taking"
    BY DEF IsTx
  <1> HIDE DEF u
  <1>3. Careful(u) /\ \A q \in Request : Apart(u, tx[q])
    BY <1>2 DEF Careful, Apart
  <1> QED BY <1>1, <1>2, <1>3, RequestMoves

LEMMA BillOut ==
  ASSUME BillInv, NEW r \in Request, NEW o \in Order, NEW m, NEW q, NEW kind,
         Begin(r, kind, Wanting(o, m, q)), UNCHANGED <<head, line>>
  PROVE  BillInv'
  <1>1. IsTx(Wanting(o, m, q)) /\ Wanting(o, m, q).step = "taking" /\ Wanting(o, m, q).order = o
    BY DEF IsTx, Wanting, NoTx
  <1> QED BY <1>1, BillTaking

LEMMA BillConsume == ASSUME BillInv, NEW r \in Request, NEW o \in Order, NEW want, BeginConsume(r, o, want) PROVE BillInv'
  <1> DEFINE t == [NoTx EXCEPT !.step = "taking", !.order = o, !.locks = {o}, !.want = want]
  <1>1. IsTx(t) /\ t.step = "taking" /\ t.order = o
    BY DEF IsTx, NoTx
  <1>2. Begin(r, "consume", t) /\ UNCHANGED <<head, line>>
    BY DEF BeginConsume
  <1> HIDE DEF t
  <1> QED BY <1>1, <1>2, BillTaking

LEMMA BillTake == ASSUME BillInv, NEW r \in Request, NEW m, Take(r, m) PROVE BillInv'
  <1> DEFINE t == [tx[r] EXCEPT !.held = @ \cup {m}, !.stock[m] = stock[m] - tx[r].want[m]]
  <1>1. IsTx(tx[r]) /\ tx[r].step = "taking" /\ tx[r].order \in Order
    BY DEF BillInv, Tables, Take, Careful
  <1>2. IsTx(t) /\ t.step = "taking" /\ t.order = tx[r].order
    BY <1>1 DEF IsTx
  <1>3. tx' = [tx EXCEPT ![r] = t]
    BY <1>1 DEF Take, IsTx, BillInv, Tables
  <1> HIDE DEF t
  <1>4. Careful(t) /\ \A q \in Request : Apart(t, tx[q])
    BY <1>1, <1>2 DEF Careful, Apart
  <1> QED BY <1>2, <1>3, <1>4, RequestMoves DEF Take

(* The draft that is found is the one that bills the work.                   *)
LEMMA BillFind == ASSUME BillInv, NEW r \in Request, FindDraft(r) PROVE BillInv'
  <1> DEFINE o == tx[r].order
  <1>1. PICK s \in (IF HeadsOf(o, "draft") = {} THEN {NoSettlement} ELSE HeadsOf(o, "draft")) :
          tx' = [tx EXCEPT ![r].step = "logged", ![r].header = s]
    BY DEF FindDraft
  <1> DEFINE t == [tx[r] EXCEPT !.step = "logged", !.header = s]
  <1>2. IsTx(tx[r]) /\ o \in Order
    BY DEF BillInv, Tables, FindDraft, Careful
  <1>3. IsTx(t) /\ t.step = "logged" /\ t.order = o /\ t.header = s
    BY <1>2 DEF IsTx
  <1>4. tx' = [tx EXCEPT ![r] = t]
    BY <1>1, <1>2 DEF IsTx, BillInv, Tables
  <1>5. s # NoSettlement => s \in Settlement /\ head[s].status = "draft" /\ Work(o) = s
    <2> SUFFICES ASSUME s # NoSettlement PROVE s \in Settlement /\ head[s].status = "draft" /\ Work(o) = s
      OBVIOUS
    <2>1. s \in HeadsOf(o, "draft")
      BY <1>1
    <2>2. PICK row \in LinesOf(o) : line[row].in = s /\ head[s].status = "draft"
      BY <2>1 DEF HeadsOf
    <2>3. row \in Row /\ row[1] = o
      BY DEF LinesOf, RowsOf
    <2> QED BY <2>2, <2>3 DEF BillInv, Tables, WithWork
  <1> HIDE DEF t, o
  <1>6. Careful(t) /\ \A q \in Request : Apart(t, tx[q])
    BY <1>2, <1>3, <1>5 DEF Careful, Apart
  <1> QED BY <1>3, <1>4, <1>6, RequestMoves DEF FindDraft

LEMMA BillEnd == ASSUME BillInv, NEW r \in Request, tx' = [tx EXCEPT ![r] = NoTx], UNCHANGED <<head, line>> PROVE BillInv'
  <1>1. \A q \in Request : Apart(NoTx, tx[q])
    BY NoTxCareful DEF Apart
  <1> QED BY <1>1, NoTxCareful, NoTxTaking, RequestMoves

(* A settlement is created for locked orders that are on none.               *)
LEMMA BillCreate ==
  ASSUME BillInv, NEW r \in Request, NEW os \in SUBSET Order, NEW s \in Settlement, NEW to, BeginCreate(r, os, s, to)
  PROVE  BillInv'
  <1> DEFINE t == [NoTx EXCEPT !.step = "inserted", !.locks = os, !.to = to, !.header = s,
                               !.seen = [o \in Order |-> IF o \in os THEN net[o] ELSE @[o]]]
             u == [t EXCEPT !.kind = "create"]
  <1>1. IsTx(t) /\ t.step = "inserted" /\ t.locks = os /\ t.header = s
    BY DEF IsTx, NoTx
  <1>2. tx' = [tx EXCEPT ![r] = u] /\ UNCHANGED <<head, line>>
    BY DEF BeginCreate, Begin
  <1> HIDE DEF t
  <1>3. IsTx(u) /\ u.step = "inserted" /\ u.locks = os /\ u.header = s /\ u.kind = "create"
    BY <1>1 DEF IsTx
  <1> HIDE DEF u
  <1>4. \A o \in os : Work(o) = NoSettlement
    BY RowFacts DEF BeginCreate, Unsettled, LinesOf, RowsOf, Work
  <1>5. Careful(u)
    BY <1>3, <1>4 DEF Careful, BeginCreate, Unused
  <1>6. \A q \in Request : Apart(u, tx[q])
    <2> SUFFICES ASSUME NEW q \in Request, tx[q].step = "inserted" PROVE os \cap tx[q].locks = {} /\ s # tx[q].header
      BY <1>3 DEF Apart
    <2>1. tx[q].kind = "create"
      BY DEF BillInv, Careful
    <2> QED BY <2>1 DEF BeginCreate, Unused, OrdersUnlocked
  <1> QED BY <1>2, <1>3, <1>5, <1>6, RequestMoves

(* A projection leaves the work alone, and moves lines onto s or off it.     *)
ProjectsOnto(p, ln, s, os) ==
  /\ p = [row \in Row |-> p[row]]
  /\ \A row \in Row :
       /\ IsLine(p[row])
       /\ p[row].in = ln[row].in \/ (row[1] \in os /\ p[row].in \in {s, NoSettlement})
       /\ row[1] \notin os \/ row[2] = Service => p[row] = ln[row]
LEMMA ProjectedIs ==
  ASSUME NEW ln, NEW s, NEW os, NEW used, \A row \in Row : IsLine(ln[row]),
         NEW p, p = Projected(ln, s, os, used, TRUE) \/ p = Projected(ln, s, os, used, FALSE)
  PROVE  ProjectsOnto(p, ln, s, os)
  <1>1. p = [row \in Row |-> p[row]]
    BY DEF Projected
  <1>2. ASSUME NEW row \in Row
        PROVE  /\ IsLine(p[row])
               /\ p[row].in = ln[row].in \/ (row[1] \in os /\ p[row].in \in {s, NoSettlement})
               /\ row[1] \notin os \/ row[2] = Service => p[row] = ln[row]
    <2> DEFINE n == [ln[row] EXCEPT !.in = s, !.amount = used[row[1]][row[2]], !.edit = "no"]
    <2>1. \/ p[row] = ln[row]
          \/ row[1] \in os /\ row[2] # Service /\ p[row] \in {n, NoLine}
      BY DEF Projected
    <2>2. IsLine(n) /\ n.in = s
      BY DEF IsLine
    <2>3. IsLine(NoLine) /\ NoLine.in = NoSettlement
      BY DEF IsLine, NoLine
    <2> HIDE DEF n
    <2> QED BY <2>1, <2>2, <2>3
  <1> QED BY <1>1, <1>2 DEF ProjectsOnto

LEMMA BillCommitStock == ASSUME BillInv, NEW r \in Request, CommitStock(r) PROVE BillInv'
  <1> DEFINE t == tx[r]
             s == t.header
  <1>1. tx' = [tx EXCEPT ![r] = NoTx] /\ t.step = "logged" /\ Careful(t)
    BY DEF CommitStock, Commit, BillInv
  <1>2. CASE ~StillDraft(s)
    BY <1>1, <1>2, BillEnd DEF CommitStock
  <1>3. CASE StillDraft(s)
    <2>1. s \in Settlement /\ head[s].status = "draft" /\ Work(t.order) = s /\ t.order \in Order
      BY <1>1, <1>3 DEF StillDraft, Careful
    <2>2. line' = Projected(line, s, {t.order}, Used(t), TRUE) /\ head' = Recalculated(head, line', s)
      BY <1>3 DEF CommitStock
    <2> HIDE DEF t, s
    <2>3. /\ line' = [row \in Row |-> line'[row]]
          /\ \A row \in Row :
               /\ IsLine(line'[row])
               /\ line'[row].in = line[row].in \/ (row[1] = t.order /\ line'[row].in \in {s, NoSettlement})
               /\ row[2] = Service => line'[row] = line[row]
      <3>1. \A row \in Row : IsLine(line[row])
        BY DEF BillInv, Tables
      <3>2. ProjectsOnto(line', line, s, {t.order})
        BY <2>2, <3>1, ProjectedIs
      <3> QED BY <3>2 DEF ProjectsOnto
    <2>4. /\ head' = [x \in Settlement |-> head'[x]]
          /\ \A x \in Settlement : IsHead(head'[x]) /\ head'[x].status = head[x].status
      <3>1. head = [x \in Settlement |-> head[x]] /\ \A x \in Settlement : IsHead(head[x])
        BY DEF BillInv, Tables
      <3>2. s \in Settlement /\ head' = Recalculated(head, line', s)
        BY <2>1, <2>2
      <3> QED BY <3>1, <3>2, RecalculatedIs
    <2>5. Tables'
      <3>1. tx' = [q \in Request |-> tx'[q]] /\ \A q \in Request : IsTx(tx'[q])
        BY <1>1, NoTxTaking DEF BillInv, Tables
      <3>2. \A row \in Row : line'[row].in \in Settlement \cup {NoSettlement}
        BY <2>1, <2>3 DEF BillInv, Tables
      <3> QED BY <2>3, <2>4, <3>1, <3>2 DEF Tables, IsHead, IsLine, IsTx
    <2>6. \A o \in Order : Work(o)' = Work(o)
      BY <2>3, RowFacts DEF Work
    <2>7. WithWork'
      <3> SUFFICES ASSUME NEW row \in Row, line'[row].in # NoSettlement
                   PROVE  /\ line'[row].in = line'[<<row[1], Service>>].in
                          /\ head'[line'[row].in].status \in {"draft", "confirmed"}
        BY DEF WithWork, Work, Live
      <3>1. row[1] \in Order /\ line'[<<row[1], Service>>].in = Work(row[1])
        BY <2>6, RowFacts DEF Work
      <3>2. CASE line'[row].in = line[row].in
        <4>1. line[row].in = Work(row[1]) /\ Live(line[row].in) /\ line[row].in \in Settlement
          BY <3>2 DEF BillInv, Tables, WithWork
        <4> QED BY <2>4, <3>1, <3>2, <4>1 DEF Live
      <3>3. CASE row[1] = t.order /\ line'[row].in = s
        BY <2>1, <2>4, <3>1, <3>3
      <3> QED BY <2>3, <3>2, <3>3
    <2> QED BY <1>1, <2>4, <2>5, <2>6, <2>7, TablesChange DEF Disturbs, Work
  <1> QED BY <1>2, <1>3

(* The desk changes a line, or takes a whole settlement away.                *)
LEMMA EditedLines ==
  ASSUME BillInv, NEW s \in Settlement, NEW row \in Row,
         ReleaseLine(s, row) \/ \E a \in ManualAmounts : EditLine(s, row, a)
  PROVE  /\ line' = [x \in Row |-> line'[x]]
         /\ \A x \in Row : IsLine(line'[x]) /\ line'[x].in = line[x].in
  BY DEF ReleaseLine, EditLine, BillInv, Tables, IsLine
LEMMA BillEdit ==
  ASSUME BillInv, NEW s \in Settlement, NEW row \in Row,
         ReleaseLine(s, row) \/ \E a \in ManualAmounts : EditLine(s, row, a)
  PROVE  BillInv'
  <1>1. /\ line' = [x \in Row |-> line'[x]]
        /\ \A x \in Row : IsLine(line'[x]) /\ line'[x].in = line[x].in
    BY EditedLines
  <1>2. head' = Recalculated(head, line', s) /\ tx' = tx
    BY DEF ReleaseLine, EditLine
  <1>3. /\ head' = [x \in Settlement |-> head'[x]]
        /\ \A x \in Settlement : IsHead(head'[x]) /\ head'[x].status = head[x].status
    BY <1>2, RecalculatedIs DEF BillInv, Tables
  <1>4. Tables'
    BY <1>1, <1>2, <1>3 DEF BillInv, Tables, IsHead, IsLine, IsTx
  <1>5. \A o \in Order : Work(o)' = Work(o)
    BY <1>1, RowFacts DEF Work
  <1>6. WithWork'
    <2> SUFFICES ASSUME NEW x \in Row, line'[x].in # NoSettlement
                 PROVE  /\ line'[x].in = line'[<<x[1], Service>>].in
                        /\ head'[line'[x].in].status \in {"draft", "confirmed"}
      BY DEF WithWork, Work, Live
    <2>1. line[x].in = Work(x[1]) /\ Live(line[x].in) /\ line[x].in \in Settlement
      BY <1>1 DEF BillInv, Tables, WithWork
    <2>2. line'[<<x[1], Service>>].in = Work(x[1])
      BY <1>5, RowFacts DEF Work
    <2> QED BY <1>1, <1>3, <2>1, <2>2 DEF Live
  <1> QED BY <1>2, <1>3, <1>4, <1>5, <1>6, TablesChange DEF Disturbs, Work

LEMMA BillLeave ==
  ASSUME BillInv, NEW s \in Settlement, DeleteDraft(s) \/ ConfirmSettlement(s) \/ VoidSettlement(s)
  PROVE  BillInv'
  <1>1. /\ head' = [x \in Settlement |-> head'[x]] /\ \A x \in Settlement : IsHead(head'[x])
        /\ \A x \in Settlement : x # s => head'[x].status = head[x].status
        /\ head'[s].status \in {"deleted", "confirmed", "voided"} /\ head[s].status # "none"
    BY DEF DeleteDraft, ConfirmSettlement, VoidSettlement, BillInv, Tables, IsHead, NoHead
  <1>2. \/ head'[s].status = "confirmed" /\ line' = line
        \/ line' = Without(line, LinesIn(line, s))
    BY DEF DeleteDraft, ConfirmSettlement, VoidSettlement, BillInv, Tables, IsHead
  <1>3. tx' = tx
    BY DEF DeleteDraft, ConfirmSettlement, VoidSettlement
  <1>4. /\ line' = [x \in Row |-> line'[x]]
        /\ \A x \in Row : /\ IsLine(line'[x])
                          /\ line'[x].in = IF line[x].in = s /\ head'[s].status # "confirmed"
                                           THEN NoSettlement ELSE line[x].in
    <2>1. CASE head'[s].status = "confirmed" /\ line' = line
      BY <2>1 DEF BillInv, Tables
    <2>2. CASE head'[s].status # "confirmed" /\ line' = Without(line, LinesIn(line, s))
      BY <2>2 DEF Without, LinesIn, NoLine, IsLine, BillInv, Tables
    <2>3. head'[s].status = "confirmed" => line' = line
      BY DEF DeleteDraft, ConfirmSettlement, VoidSettlement, BillInv, Tables, IsHead, NoHead
    <2> QED BY <1>2, <2>1, <2>2, <2>3
  <1>5. Tables'
    BY <1>1, <1>3, <1>4 DEF BillInv, Tables, IsHead, IsLine, IsTx
  <1>6. \A o \in Order : Work(o)' = Work(o) \/ (Work(o)' = NoSettlement /\ Work(o) = s)
    BY <1>4, RowFacts DEF Work
  <1>7. WithWork'
    <2> SUFFICES ASSUME NEW x \in Row, line'[x].in # NoSettlement
                 PROVE  /\ line'[x].in = line'[<<x[1], Service>>].in
                        /\ head'[line'[x].in].status \in {"draft", "confirmed"}
      BY DEF WithWork, Work, Live
    <2>1. line'[x].in = line[x].in
      BY <1>4
    <2>2. line[x].in = Work(x[1]) /\ Live(line[x].in) /\ line[x].in \in Settlement /\ <<x[1], Service>> \in Row
      BY <2>1, RowFacts DEF BillInv, Tables, WithWork
    <2>3. line[x].in = s => head'[s].status = "confirmed"
      BY <1>4
    <2>4. line'[<<x[1], Service>>].in = Work(x[1])
      BY <1>4, <2>2, <2>3 DEF Work
    <2> QED BY <1>1, <2>1, <2>2, <2>3, <2>4 DEF Live
  <1> QED BY <1>1, <1>3, <1>5, <1>6, <1>7, TablesChange DEF Disturbs, Work

(* A new settlement takes the lines of the orders it was created for.        *)
Takes(s, os) ==
  /\ s \in Settlement /\ head[s].status = "none"
  /\ os \subseteq Order /\ os # {} /\ \A o \in os : Work(o) = NoSettlement
  /\ head' = [x \in Settlement |-> head'[x]]
  /\ \A x \in Settlement : /\ IsHead(head'[x])
                           /\ head'[x].status = IF x = s THEN "draft" ELSE head[x].status
                           /\ x # s => head'[x] = head[x]
  /\ line' = [row \in Row |-> line'[row]]
  /\ \A row \in Row : /\ IsLine(line'[row])
                      /\ row[1] \notin os => line'[row].in = line[row].in
                      /\ row[1] \in os /\ row[2] = Service => line'[row].in = s
                      /\ row[1] \in os => line'[row].in \in {s, NoSettlement}
LEMMA Creates == ASSUME BillInv, NEW r \in Request, CommitCreate(r) PROVE Takes(tx[r].header, tx[r].locks)
  <1> DEFINE t == tx[r]
             s == t.header
             serviced == [row \in Row |->
                            IF row[1] \in t.locks /\ row[2] = Service
                            THEN [in |-> s, amount |-> ServicePrice, edit |-> "no"] ELSE line[row]]
             drafted == [head EXCEPT ![s].status = "draft"]
  <1>1. t.step = "inserted" /\ Careful(t) /\ tx' = [tx EXCEPT ![r] = NoTx]
    BY DEF CommitCreate, Commit, BillInv
  <1>2. s \in Settlement /\ head[s].status = "none" /\ t.locks \subseteq Order /\ t.locks # {}
        /\ \A o \in t.locks : Work(o) = NoSettlement
    BY <1>1 DEF Careful
  <1>3. line' = Projected(serviced, s, t.locks, t.seen, FALSE) /\ head' = Recalculated(drafted, line', s)
    BY DEF CommitCreate
  <1>4. ASSUME NEW row \in Row
        PROVE  IsLine(serviced[row]) /\ serviced[row].in = IF row[1] \in t.locks /\ row[2] = Service THEN s ELSE line[row].in
    BY DEF IsLine, BillInv, Tables
  <1>5. /\ drafted = [x \in Settlement |-> drafted[x]]
        /\ \A x \in Settlement : /\ IsHead(drafted[x])
                                 /\ drafted[x].status = IF x = s THEN "draft" ELSE head[x].status
                                 /\ x # s => drafted[x] = head[x]
    BY <1>2 DEF IsHead, BillInv, Tables
  <1> HIDE DEF serviced, drafted
  <1>7. ProjectsOnto(line', serviced, s, t.locks)
    BY <1>3, <1>4, ProjectedIs
  <1>8. /\ head' = [x \in Settlement |-> head'[x]]
        /\ \A x \in Settlement : /\ IsHead(head'[x])
                                 /\ head'[x].status = IF x = s THEN "draft" ELSE head[x].status
                                 /\ x # s => head'[x] = head[x]
    <2>1. head' = Recalculated(drafted, line', s)
      BY <1>3
    <2> HIDE DEF s, t
    <2>2. /\ head' = [x \in Settlement |-> head'[x]]
          /\ \A x \in Settlement : IsHead(head'[x]) /\ head'[x].status = drafted[x].status
          /\ \A x \in Settlement : x # s => head'[x] = drafted[x]
      BY <1>2, <1>5, <2>1, RecalculatedIs
    <2> QED BY <1>5, <2>2
  <1>9. \A row \in Row : /\ IsLine(line'[row])
                         /\ row[1] \notin t.locks => line'[row].in = line[row].in
                         /\ row[1] \in t.locks /\ row[2] = Service => line'[row].in = s
                         /\ row[1] \in t.locks => line'[row].in \in {s, NoSettlement}
    <2> SUFFICES ASSUME NEW row \in Row
                 PROVE  /\ IsLine(line'[row])
                        /\ row[1] \notin t.locks => line'[row].in = line[row].in
                        /\ row[1] \in t.locks /\ row[2] = Service => line'[row].in = s
                        /\ row[1] \in t.locks => line'[row].in \in {s, NoSettlement}
      OBVIOUS
    <2>1. row[1] \in t.locks => line[row].in = NoSettlement
      BY <1>2, RowFacts DEF BillInv, WithWork
    <2> HIDE DEF s, t
    <2> QED BY <1>4, <1>7, <2>1 DEF ProjectsOnto
  <1>10. line' = [row \in Row |-> line'[row]]
    BY <1>7 DEF ProjectsOnto
  <1> HIDE DEF s, t
  <1>11. Takes(s, t.locks)
    BY <1>2, <1>8, <1>9, <1>10 DEF Takes
  <1> QED BY <1>11 DEF s, t

LEMMA BillCommitCreate == ASSUME BillInv, NEW r \in Request, CommitCreate(r) PROVE BillInv'
  <1> DEFINE t == tx[r]
             s == t.header
  <1>1. t.step = "inserted" /\ Careful(t) /\ tx' = [tx EXCEPT ![r] = NoTx]
    BY DEF CommitCreate, Commit, BillInv
  <1>5. Takes(s, t.locks)
    BY Creates
  <1>6. \A q \in Request : q # r => tx'[q] = tx[q] /\ Apart(tx[r], tx[q])
    BY <1>1 DEF BillInv, Tables
  <1> HIDE DEF s
  <1>2. s \in Settlement /\ head[s].status = "none" /\ t.locks \subseteq Order
        /\ \A o \in t.locks : Work(o) = NoSettlement
    BY <1>5 DEF Takes
  <1>8. /\ head' = [x \in Settlement |-> head'[x]]
        /\ \A x \in Settlement : /\ IsHead(head'[x])
                                 /\ head'[x].status = IF x = s THEN "draft" ELSE head[x].status
    BY <1>5 DEF Takes
  <1>9. \A row \in Row : /\ IsLine(line'[row])
                         /\ row[1] \notin t.locks => line'[row].in = line[row].in
                         /\ row[1] \in t.locks /\ row[2] = Service => line'[row].in = s
                         /\ row[1] \in t.locks => line'[row].in \in {s, NoSettlement}
    BY <1>5 DEF Takes
  <1>10. Tables'
    <2>1. tx' = [q \in Request |-> tx'[q]] /\ \A q \in Request : IsTx(tx'[q])
      BY <1>1, NoTxTaking DEF BillInv, Tables
    <2>2. line' = [row \in Row |-> line'[row]]
      BY <1>5 DEF Takes
    <2>3. \A row \in Row : line'[row].in \in Settlement \cup {NoSettlement}
      BY <1>2, <1>9 DEF BillInv, Tables
    <2> HIDE DEF s, t
    <2> QED BY <1>8, <1>9, <2>1, <2>2, <2>3 DEF Tables, IsHead, IsLine, IsTx
  <1>11. \A o \in Order : line'[<<o, Service>>].in = IF o \in t.locks THEN s ELSE Work(o)
    BY <1>9, RowFacts DEF Work
  <1> HIDE DEF s, t
  <1>12. WithWork'
    <2> SUFFICES ASSUME NEW row \in Row, line'[row].in # NoSettlement
                 PROVE  /\ line'[row].in = line'[<<row[1], Service>>].in
                        /\ head'[line'[row].in].status \in {"draft", "confirmed"}
      BY DEF WithWork, Work, Live
    <2>1. CASE row[1] \in t.locks
      BY <1>2, <1>8, <1>9, <1>11, <2>1, RowFacts
    <2>2. CASE row[1] \notin t.locks
      <3>1. line'[row].in = line[row].in
        BY <1>9, <2>2
      <3>2. line[row].in = Work(row[1]) /\ Live(line[row].in) /\ line[row].in \in Settlement
        BY <3>1 DEF BillInv, Tables, WithWork
      <3> QED BY <1>2, <1>8, <1>11, <2>2, <3>1, <3>2, RowFacts DEF Live
    <2> QED BY <2>1, <2>2
  <1>13. \A q \in Request : Careful(tx[q])'
    <2> SUFFICES ASSUME NEW q \in Request PROVE Careful(tx[q])'
      OBVIOUS
    <2>1. CASE q = r
      BY <1>1, <2>1, NoTxCareful DEF Careful, BillInv, Tables
    <2>2. CASE q # r
      <3>1. tx'[q] = tx[q] /\ Careful(tx[q]) /\ Apart(t, tx[q])
        BY <1>6, <2>2 DEF BillInv, t
      <3>2. tx[q].step = "logged" /\ tx[q].header # NoSettlement =>
              /\ tx[q].header # s /\ head'[tx[q].header].status = head[tx[q].header].status
              /\ head[tx[q].header].status = "draft" =>
                   tx[q].order \notin t.locks /\ line'[<<tx[q].order, Service>>].in = tx[q].header
        BY <1>2, <1>8, <1>11, <3>1 DEF Careful
      <3>3. tx[q].step = "inserted" =>
              /\ head'[tx[q].header].status = "none"
              /\ \A o \in tx[q].locks : line'[<<o, Service>>].in = NoSettlement
        <4> SUFFICES ASSUME tx[q].step = "inserted"
                     PROVE  /\ head'[tx[q].header].status = "none"
                            /\ \A o \in tx[q].locks : line'[<<o, Service>>].in = NoSettlement
          OBVIOUS
        <4>1. t.locks \cap tx[q].locks = {} /\ s # tx[q].header
          BY <1>1, <3>1 DEF Apart, s
        <4>2. /\ tx[q].header \in Settlement /\ head[tx[q].header].status = "none" /\ tx[q].locks \subseteq Order
              /\ \A o \in tx[q].locks : Work(o) = NoSettlement
          BY <3>1 DEF Careful
        <4> QED BY <1>8, <1>11, <4>1, <4>2
      <3> QED BY <3>1, <3>2, <3>3 DEF Careful, Work
    <2> QED BY <2>1, <2>2
  <1>14. \A p, q \in Request : p # q => Apart(tx'[p], tx'[q])
    <2>1. \A q \in Request : tx'[q] = tx[q] \/ tx'[q] = NoTx
      BY <1>1 DEF BillInv, Tables
    <2> QED BY <2>1, NoTxCareful DEF BillInv, Apart
  <1> QED BY <1>10, <1>12, <1>13, <1>14 DEF BillInv, Apart

(* Without rejections, every step keeps an order on one settlement.          *)
LEMMA BillNext == ASSUME "reject" \notin Kinds, BillInv, [Next]_vars PROVE BillInv'
  <1>1. ASSUME UNCHANGED <<head, line, tx>> PROVE BillInv'
    <2>1. Tables' /\ WithWork'
      BY <1>1 DEF BillInv, Tables, WithWork, Work, Live, IsHead, IsLine, IsTx
    <2>2. \A r \in Request : Careful(tx[r])'
      BY <1>1 DEF BillInv, Careful, Work
    <2>3. \A q, r \in Request : q # r => Apart(tx[q], tx[r])'
      BY <1>1 DEF BillInv, Apart
    <2> QED BY <2>1, <2>2, <2>3 DEF BillInv
  <1>2. CASE StockStep
    <2>1. ASSUME NEW m \in Material, NEW q \in 1..MaxQty, StockIn(m, q) \/ LooseOut(m, q) PROVE BillInv'
      BY <1>1, <2>1 DEF StockIn, LooseOut
    <2>2. ASSUME NEW r \in Request, NEW o \in Order, NEW m \in Material, NEW q \in 1..MaxQty,
                 BeginOut(r, o, m, q) \/ BeginReturn(r, o, m, q)
          PROVE  BillInv'
      BY <2>2, BillOut DEF BeginOut, BeginReturn
    <2> QED BY <1>2, <2>1, <2>2, BillConsume, BillTake, BillFind, BillCommitStock DEF StockStep
  <1>3. CASE SettlementStep
    <2>1. ASSUME NEW r \in Request, NEW o \in Order, NEW s \in Settlement, NEW to \in Status,
                 BeginAutoSettle(r, o, s, to)
          PROVE  BillInv'
      BY <2>1, BillCreate DEF BeginAutoSettle
    <2> QED BY <1>3, <2>1, BillCreate, BillCommitCreate, BillEdit, BillLeave DEF SettlementStep
  <1>4. CASE RejectStep
    <2>1. ASSUME NEW r \in Request, NEW o \in Order, BeginReject(r, o) PROVE FALSE
      BY <2>1 DEF BeginReject, Begin
    <2>2. \A r \in Request : tx[r].step \notin {"cut", "empty", "summed"}
      BY DEF BillInv, Careful
    <2> QED BY <1>4, <2>1, <2>2 DEF RejectStep, SeeEmpty, DropDraft, SumLines, CommitReject
  <1>5. ASSUME NEW r \in Request, Abort(r) PROVE BillInv'
    BY <1>5, BillEnd DEF Abort
  <1> QED BY <1>1, <1>2, <1>3, <1>4, <1>5 DEF Next, vars, MoveOrder

(* An order is settled once, on one settlement, by whatever requests, as     *)
(* long as none of them rejects an acceptance (repo/settlement.ts,           *)
(* "already_settled").                                                       *)
THEOREM SettledOnce == ASSUME "reject" \notin Kinds PROVE Spec => []OneSettlement
  <1>1. BillInv /\ [Next]_vars => BillInv'
    BY BillNext
  <1>2. BillInv => OneSettlement
    BY DEF BillInv, WithWork, OneSettlement, LinesOf, RowsOf
  <1> QED BY <1>1, <1>2, BillStart, PTL DEF Spec
----------------------------------------------------------------------------
(* What recalcHeader writes: the sum and the number of the lines.            *)
Amounts(ln, rows) == MapThenSumSet(LAMBDA row : ln[row].amount, rows)
LineSum(ln, s) == Amounts(ln, LinesIn(ln, s))
Recounted(s) == head'[s].total = LineSum(line', s) /\ head'[s].count = Cardinality(LinesIn(line', s))

LEMMA RecalculatesOne ==
  ASSUME NEW h, h = [x \in Settlement |-> h[x]], NEW ln, NEW s \in Settlement
  PROVE  /\ \A x \in Settlement : x # s => Recalculated(h, ln, s)[x] = h[x]
         /\ IsHead(h[s]) => /\ Recalculated(h, ln, s)[s].total = LineSum(ln, s)
                            /\ Recalculated(h, ln, s)[s].count = Cardinality(LinesIn(ln, s))
  <1> DEFINE a == MapThenSumSet(LAMBDA row : ln[row].amount, LinesIn(ln, s))
             b == Cardinality(LinesIn(ln, s))
             g == [h EXCEPT ![s].total = a, ![s].count = b]
  <1>1. Recalculated(h, ln, s) = g
    BY DEF Recalculated
  <1>2. a = LineSum(ln, s)
    BY DEF LineSum, Amounts
  <1> HIDE DEF a
  <1>3. /\ \A x \in Settlement : x # s => g[x] = h[x]
        /\ IsHead(h[s]) => g[s].total = a /\ g[s].count = b
    BY DEF IsHead
  <1> HIDE DEF g
  <1> QED BY <1>1, <1>2, <1>3

(* The sum of lines depends on their amounts only: the two folds are the     *)
(* same function.                                                            *)
LEMMA SumsAlike ==
  ASSUME NEW a, NEW b, NEW S, \A row \in S : a[row].amount = b[row].amount
  PROVE  Amounts(a, S) = Amounts(b, S)
  <1> DEFINE first(s) == CHOOSE x \in s : TRUE
             A(f) == f = [s \in SUBSET S |-> IF s = {} THEN 0 ELSE a[first(s)].amount + f[s \ {first(s)}]]
             B(f) == f = [s \in SUBSET S |-> IF s = {} THEN 0 ELSE b[first(s)].amount + f[s \ {first(s)}]]
  <1>1. \A s \in SUBSET S : s # {} => first(s) \in S
    OBVIOUS
  <1>2. \A f : [s \in SUBSET S |-> IF s = {} THEN 0 ELSE a[first(s)].amount + f[s \ {first(s)}]]
             = [s \in SUBSET S |-> IF s = {} THEN 0 ELSE b[first(s)].amount + f[s \ {first(s)}]]
    BY <1>1
  <1>3. \A f : A(f) <=> B(f)
    BY <1>2
  <1>4. Amounts(a, S) = (CHOOSE f : A(f))[S]
    BY DEF Amounts, MapThenSumSet, MapThenFoldSet, A
  <1>5. Amounts(b, S) = (CHOOSE f : B(f))[S]
    BY DEF Amounts, MapThenSumSet, MapThenFoldSet, B
  <1> HIDE DEF A, B
  <1>6. (CHOOSE f : A(f)) = (CHOOSE f : B(f))
    BY <1>3
  <1> QED BY <1>4, <1>5, <1>6

(* Only the header one and lines of it change.                               *)
OnlyOf(one) ==
  /\ \A s \in Settlement : s # one => head'[s] = head[s]
  /\ \A row \in Row : line'[row] # line[row] => {line[row].in, line'[row].in} \subseteq {one, NoSettlement}

(* Every write is to one settlement: one that is not confirmed is counted    *)
(* anew or deleted; or it is confirmed or voided as it stands.               *)
Written(one) ==
  /\ OnlyOf(one)
  /\ \/ head[one].status # "confirmed" /\ (Recounted(one) \/ head'[one].status = "deleted")
     \/ head[one].status = "draft" /\ head'[one] = [head[one] EXCEPT !.status = "confirmed"] /\ line' = line
     \/ head[one].status = "confirmed" /\ head'[one] = [head[one] EXCEPT !.status = "voided"]
OneWritten == UNCHANGED <<head, line>> \/ \E one \in Settlement : Written(one)

LEMMA WrittenStock == ASSUME BillInv, NEW r \in Request, CommitStock(r) PROVE OneWritten
  <1> DEFINE t == tx[r]
             s == t.header
  <1>1. CASE ~StillDraft(s)
    BY <1>1 DEF CommitStock, OneWritten
  <1>2. CASE StillDraft(s)
    <2>1. s \in Settlement /\ head[s].status = "draft" /\ Work(t.order) = s /\ t.order \in Order
      BY <1>2 DEF StillDraft, Careful, BillInv, CommitStock
    <2>2. line' = Projected(line, s, {t.order}, Used(t), TRUE)
      BY <1>2 DEF CommitStock
    <2>3. head' = Recalculated(head, line', s)
      BY <1>2 DEF CommitStock
    <2> HIDE DEF t, s
    <2>4. ProjectsOnto(line', line, s, {t.order})
      <3>1. \A row \in Row : IsLine(line[row])
        BY DEF BillInv, Tables
      <3> QED BY <2>2, <3>1, ProjectedIs
    <2>5. (\A x \in Settlement : x # s => head'[x] = head[x]) /\ Recounted(s)
      <3>1. head = [x \in Settlement |-> head[x]] /\ IsHead(head[s])
        BY <2>1 DEF BillInv, Tables
      <3> QED BY <2>1, <2>3, <3>1, RecalculatesOne DEF Recounted
    <2>6. \A row \in Row : line'[row] # line[row] => {line[row].in, line'[row].in} \subseteq {s, NoSettlement}
      BY <2>1, <2>4, RowFacts DEF ProjectsOnto, BillInv, WithWork
    <2> QED BY <2>1, <2>5, <2>6 DEF OnlyOf, OneWritten, Written
  <1> QED BY <1>1, <1>2

LEMMA WrittenCreate == ASSUME BillInv, NEW r \in Request, CommitCreate(r) PROVE OneWritten
  <1> DEFINE t == tx[r]
             s == t.header
             serviced == [row \in Row |->
                            IF row[1] \in t.locks /\ row[2] = Service
                            THEN [in |-> s, amount |-> ServicePrice, edit |-> "no"] ELSE line[row]]
             drafted == [head EXCEPT ![s].status = "draft"]
  <1>1. Careful(t) /\ t.step = "inserted"
    BY DEF CommitCreate, BillInv
  <1>2. s \in Settlement /\ head[s].status = "none" /\ t.locks \subseteq Order
        /\ \A o \in t.locks : Work(o) = NoSettlement
    BY <1>1 DEF Careful
  <1>3. line' = Projected(serviced, s, t.locks, t.seen, FALSE)
    BY DEF CommitCreate
  <1>4. head' = Recalculated(drafted, line', s)
    BY DEF CommitCreate
  <1>5. \A row \in Row : /\ IsLine(serviced[row])
                         /\ row[1] \notin t.locks => serviced[row] = line[row]
                         /\ serviced[row].in \in {line[row].in, s}
    BY DEF IsLine, BillInv, Tables
  <1>6. /\ drafted = [x \in Settlement |-> drafted[x]] /\ IsHead(drafted[s])
        /\ \A x \in Settlement : x # s => drafted[x] = head[x]
    BY <1>2 DEF BillInv, Tables, IsHead
  <1>7. \A row \in Row : row[1] \in t.locks => line[row].in = NoSettlement
    BY <1>2, RowFacts DEF BillInv, WithWork
  <1> HIDE DEF serviced, drafted, t, s
  <1>8. ProjectsOnto(line', serviced, s, t.locks)
    <2>1. \A row \in Row : IsLine(serviced[row])
      BY <1>5
    <2> QED BY <1>3, <2>1, ProjectedIs
  <1>9. (\A x \in Settlement : x # s => head'[x] = head[x]) /\ Recounted(s)
    BY <1>2, <1>4, <1>6, RecalculatesOne DEF Recounted
  <1>10. \A row \in Row : line'[row] # line[row] => {line[row].in, line'[row].in} \subseteq {s, NoSettlement}
    BY <1>5, <1>7, <1>8 DEF ProjectsOnto
  <1> QED BY <1>2, <1>9, <1>10 DEF OnlyOf, OneWritten, Written

LEMMA WrittenEdit ==
  ASSUME BillInv, NEW s \in Settlement, NEW row \in Row,
         ReleaseLine(s, row) \/ \E a \in ManualAmounts : EditLine(s, row, a)
  PROVE  OneWritten
  <1>1. head' = Recalculated(head, line', s) /\ head[s].status = "draft"
    BY DEF ReleaseLine, EditLine
  <1>2. \A x \in Row : line'[x] # line[x] => line[x].in = s /\ line'[x].in = s
    <2>1. \A x \in Row : x # row => line'[x] = line[x]
      BY DEF ReleaseLine, EditLine, BillInv, Tables
    <2>2. line[row].in = s /\ line'[row].in = s
      BY DEF ReleaseLine, EditLine, BillInv, Tables, IsLine
    <2> QED BY <2>1, <2>2
  <1>3. (\A x \in Settlement : x # s => head'[x] = head[x]) /\ Recounted(s)
    <2>1. head = [x \in Settlement |-> head[x]] /\ IsHead(head[s])
      BY DEF BillInv, Tables
    <2> QED BY <1>1, <2>1, RecalculatesOne DEF Recounted
  <1> QED BY <1>1, <1>2, <1>3 DEF OnlyOf, OneWritten, Written

LEMMA WrittenLeave ==
  ASSUME BillInv, NEW s \in Settlement, DeleteDraft(s) \/ ConfirmSettlement(s) \/ VoidSettlement(s)
  PROVE  OneWritten
  <1>1. \A x \in Settlement : x # s => head'[x] = head[x]
    BY DEF DeleteDraft, ConfirmSettlement, VoidSettlement, BillInv, Tables
  <1>2. \A row \in Row : line'[row] # line[row] => {line[row].in, line'[row].in} \subseteq {s, NoSettlement}
    BY DEF DeleteDraft, ConfirmSettlement, VoidSettlement, Without, LinesIn, NoLine
  <1>3. CASE DeleteDraft(s)
    <2>1. head[s].status = "draft" /\ head'[s].status = "deleted"
      BY <1>3 DEF DeleteDraft, BillInv, Tables, NoHead
    <2> QED BY <1>1, <1>2, <2>1 DEF OnlyOf, OneWritten, Written
  <1>4. CASE ConfirmSettlement(s)
    <2>1. head[s].status = "draft" /\ head'[s] = [head[s] EXCEPT !.status = "confirmed"] /\ line' = line
      BY <1>4 DEF ConfirmSettlement, BillInv, Tables
    <2> QED BY <1>1, <1>2, <2>1 DEF OnlyOf, OneWritten, Written
  <1>5. CASE VoidSettlement(s)
    <2>1. head[s].status = "confirmed" /\ head'[s] = [head[s] EXCEPT !.status = "voided"]
      BY <1>5 DEF VoidSettlement, BillInv, Tables
    <2> QED BY <1>1, <1>2, <2>1 DEF OnlyOf, OneWritten, Written
  <1> QED BY <1>3, <1>4, <1>5

LEMMA WrittenNext == ASSUME "reject" \notin Kinds, BillInv, [Next]_vars PROVE OneWritten
  <1>1. ASSUME UNCHANGED <<head, line>> PROVE OneWritten
    BY <1>1 DEF OneWritten
  <1>2. CASE StockStep
    BY <1>1, <1>2, WrittenStock
    DEF StockStep, StockIn, LooseOut, BeginOut, BeginReturn, BeginConsume, Take, FindDraft
  <1>3. CASE SettlementStep
    BY <1>1, <1>3, WrittenCreate, WrittenEdit, WrittenLeave DEF SettlementStep, BeginAutoSettle, BeginCreate
  <1>4. CASE RejectStep
    <2>1. ASSUME NEW r \in Request, NEW o \in Order, BeginReject(r, o) PROVE FALSE
      BY <2>1 DEF BeginReject, Begin
    <2>2. \A r \in Request : tx[r].step \notin {"cut", "empty", "summed"}
      BY DEF BillInv, Careful
    <2> QED BY <1>4, <2>1, <2>2 DEF RejectStep, SeeEmpty, DropDraft, SumLines, CommitReject
  <1> QED BY <1>1, <1>2, <1>3, <1>4 DEF Next, vars, MoveOrder, Abort
----------------------------------------------------------------------------
FrozenStep ==
  \A s \in Settlement : head[s].status = "confirmed" =>
    \/ head'[s] = [head[s] EXCEPT !.status = "voided"]
    \/ head'[s] = head[s] /\ \A row \in Row : s \in {line[row].in, line'[row].in} => line'[row] = line[row]

LEMMA WrittenFreezes == ASSUME OneWritten PROVE FrozenStep
  <1>1. CASE UNCHANGED <<head, line>>
    BY <1>1 DEF FrozenStep
  <1>2. ASSUME NEW one \in Settlement, Written(one) PROVE FrozenStep
    BY <1>2, SettlementAssumption DEF Written, OnlyOf, FrozenStep, SettlementAssumption
  <1> QED BY <1>1, <1>2 DEF OneWritten

(* A confirmed settlement is voided or stays as it is (confirmSettlement),   *)
(* as long as no request rejects an acceptance.                              *)
THEOREM ConfirmedStays == ASSUME "reject" \notin Kinds PROVE Spec => ConfirmedFrozen
  <1>1. BillInv /\ [Next]_vars => BillInv'
    BY BillNext
  <1>2. BillInv /\ [Next]_vars => FrozenStep
    BY WrittenNext, WrittenFreezes
  <1> QED BY <1>1, <1>2, BillStart, PTL DEF Spec, ConfirmedFrozen, FrozenStep
----------------------------------------------------------------------------
Counted(s) == head[s].total = LineSum(line, s) /\ head[s].count = Cardinality(LinesIn(line, s))
TotalsInv == BillInv /\ \A s \in Settlement : Live(s) => Counted(s)

(* A settlement none of whose lines changed has the sum it had.              *)
LEMMA SameLines ==
  ASSUME NEW s \in Settlement, \A row \in Row : line'[row] # line[row] => s \notin {line[row].in, line'[row].in}
  PROVE  LinesIn(line', s) = LinesIn(line, s) /\ LineSum(line', s) = LineSum(line, s)
  <1>1. LinesIn(line', s) = LinesIn(line, s)
    BY DEF LinesIn
  <1>2. \A row \in LinesIn(line, s) : line'[row].amount = line[row].amount
    BY DEF LinesIn
  <1>3. Amounts(line', LinesIn(line, s)) = Amounts(line, LinesIn(line, s))
    BY <1>2, SumsAlike
  <1> QED BY <1>1, <1>3 DEF LineSum

LEMMA TotalsNext == ASSUME TotalsInv, OneWritten, BillInv' PROVE TotalsInv'
  <1> SUFFICES ASSUME NEW s \in Settlement, Live(s)' PROVE Counted(s)'
    BY DEF TotalsInv
  <1>1. CASE UNCHANGED <<head, line>>
    BY <1>1 DEF TotalsInv, Live, Counted
  <1>2. ASSUME NEW one \in Settlement, Written(one), s # one PROVE Counted(s)'
    <2>1. head'[s] = head[s] /\ Counted(s)
      BY <1>2 DEF Written, OnlyOf, TotalsInv, Live
    <2>2. \A row \in Row : line'[row] # line[row] => s \notin {line[row].in, line'[row].in}
      BY <1>2, SettlementAssumption DEF Written, OnlyOf, SettlementAssumption
    <2> QED BY <2>1, <2>2, SameLines DEF Counted
  <1>3. ASSUME Written(s) PROVE Counted(s)'
    <2>1. CASE Recounted(s)
      BY <2>1 DEF Recounted, Counted
    <2>2. CASE head'[s].status \in {"deleted", "voided"}
      BY <2>2 DEF Live
    <2>3. CASE head[s].status = "draft" /\ head'[s] = [head[s] EXCEPT !.status = "confirmed"] /\ line' = line
      BY <2>3 DEF TotalsInv, BillInv, Tables, IsHead, Live, Counted
    <2>4. CASE head[s].status = "confirmed" /\ head'[s] = [head[s] EXCEPT !.status = "voided"]
      BY <2>4 DEF TotalsInv, BillInv, Tables, IsHead, Live
    <2> QED BY <1>3, <2>1, <2>2, <2>3, <2>4 DEF Written
  <1> QED BY <1>1, <1>2, <1>3 DEF OneWritten

(* The totals of every draft and of every confirmed settlement are those of  *)
(* its lines (recalcHeader), as long as no request rejects an acceptance.    *)
THEOREM TotalsSound == ASSUME "reject" \notin Kinds PROVE Spec => []TotalsMatch
  <1>1. Init => TotalsInv
    BY BillStart DEF Init, TotalsInv, Live, NoHead
  <1>2. TotalsInv /\ [Next]_vars => TotalsInv'
    BY BillNext, WrittenNext, TotalsNext DEF TotalsInv
  <1>3. TotalsInv => TotalsMatch
    <2> SUFFICES ASSUME TotalsInv, NEW s \in Settlement, Live(s) PROVE Recalculated(head, line, s) = head
      BY DEF TotalsMatch, Live
    <2>1. head = [x \in Settlement |-> head[x]] /\ \A x \in Settlement : IsHead(head[x])
      BY DEF TotalsInv, BillInv, Tables
    <2>2. Counted(s)
      BY DEF TotalsInv
    <2> DEFINE a == MapThenSumSet(LAMBDA row : line[row].amount, LinesIn(line, s))
               b == Cardinality(LinesIn(line, s))
    <2>3. head[s].total = a /\ head[s].count = b
      BY <2>2 DEF Counted, LineSum, Amounts
    <2>4. Recalculated(head, line, s) = [head EXCEPT ![s].total = a, ![s].count = b]
      BY DEF Recalculated
    <2> HIDE DEF a, b
    <2> QED BY <2>1, <2>3, <2>4 DEF IsHead
  <1> QED BY <1>1, <1>2, <1>3, PTL DEF Spec
----------------------------------------------------------------------------
(* Billing.  The settlements an order is on are the one that bills its work. *)
LEMMA OnWork ==
  ASSUME NEW ln, NEW o \in Order,
         \A row \in RowsOf(o) : ln[row].in # NoSettlement => ln[row].in = ln[<<o, Service>>].in
  PROVE  {ln[row].in : row \in {x \in RowsOf(o) : ln[x].in # NoSettlement}}
           = {ln[<<o, Service>>].in} \ {NoSettlement}
  <1>1. <<o, Service>> \in RowsOf(o)
    BY RowFacts DEF RowsOf
  <1> QED BY <1>1

OnItsWork == \A o \in Order : BilledOn[o] = {Work(o)} \ {NoSettlement}
LEMMA OnBefore == BillInv => OnItsWork
  <1> SUFFICES ASSUME BillInv, NEW o \in Order PROVE BilledOn[o] = {Work(o)} \ {NoSettlement}
    BY DEF OnItsWork
  <1>1. \A row \in RowsOf(o) : line[row].in # NoSettlement => line[row].in = line[<<o, Service>>].in
    BY DEF BillInv, WithWork, RowsOf, Work
  <1>2. BilledOn[o] = {line[row].in : row \in {x \in RowsOf(o) : line[x].in # NoSettlement}}
    BY DEF BilledOn, LinesOf
  <1> QED BY <1>1, <1>2, OnWork DEF Work
LEMMA OnAfter == BillInv' => OnItsWork'
  <1> SUFFICES ASSUME BillInv', NEW o \in Order PROVE BilledOn'[o] = {line'[<<o, Service>>].in} \ {NoSettlement}
    BY DEF OnItsWork, Work
  <1>1. \A row \in RowsOf(o) : line'[row].in # NoSettlement => line'[row].in = line'[<<o, Service>>].in
    BY DEF BillInv, WithWork, RowsOf, Work
  <1>2. BilledOn'[o] = {line'[row].in : row \in {x \in RowsOf(o) : line'[x].in # NoSettlement}}
    BY DEF BilledOn, LinesOf
  <1> QED BY <1>1, <1>2, OnWork

(* Orders keep their settlement where their work does.                       *)
LEMMA OnKept ==
  ASSUME OnItsWork, OnItsWork', \A o \in Order : line'[<<o, Service>>].in = Work(o)
  PROVE  BilledOn' = BilledOn
  <1>1. \A o \in Order : BilledOn'[o] = BilledOn[o]
    BY DEF OnItsWork, Work
  <1> QED BY <1>1 DEF BilledOn

LEMMA BillsStart == Init => Bills!Init
  <1> SUFFICES ASSUME Init PROVE Bills!Init
    OBVIOUS
  <1>1. \A o \in Order : LinesOf(o) = {}
    BY DEF Init, LinesOf, RowsOf, NoLine
  <1>2. BilledOn = [o \in Order |-> {}]
    BY <1>1 DEF BilledOn
  <1>3. Papers = [s \in Settlement |-> Bills!Blank]
    BY DEF Init, NoHead, Papers, Bills!Blank
  <1> QED BY <1>2, <1>3 DEF Bills!Init

(* A write to one draft that leaves the work where it is amends it.          *)
LEMMA Amends ==
  ASSUME BillInv, BillInv', NEW s \in Settlement, head[s].status = "draft", head'[s].status = "draft",
         \A x \in Settlement : x # s => head'[x] = head[x],
         \A o \in Order : line'[<<o, Service>>].in = Work(o)
  PROVE  Bills!Next
  <1>1. BilledOn' = BilledOn
    BY OnBefore, OnAfter, OnKept
  <1>2. Papers[s].status = "draft" /\ Papers' = [Papers EXCEPT ![s].total = Papers'[s].total]
    BY DEF Papers
  <1> QED BY <1>1, <1>2 DEF Bills!Next, Bills!Amend

BillsStep == [Bills!Next]_<<BilledOn, Papers>>
LEMMA BillsRest == ASSUME UNCHANGED <<head, line>> PROVE BillsStep
  <1>1. \A o \in Order : LinesOf(o)' = LinesOf(o)
    BY DEF LinesOf
  <1>2. BilledOn' = BilledOn
    BY <1>1 DEF BilledOn
  <1>3. Papers' = Papers
    BY DEF Papers
  <1> QED BY <1>2, <1>3 DEF BillsStep

LEMMA BillsStock == ASSUME BillInv, BillInv', NEW r \in Request, CommitStock(r) PROVE BillsStep
  <1> DEFINE t == tx[r]
             s == t.header
  <1>1. CASE ~StillDraft(s)
    <2>1. UNCHANGED <<head, line>>
      BY <1>1 DEF CommitStock
    <2> QED BY <2>1, BillsRest
  <1>2. CASE StillDraft(s)
    <2>1. s \in Settlement /\ head[s].status = "draft"
      BY <1>2 DEF StillDraft, Careful, BillInv, CommitStock
    <2>2. line' = Projected(line, s, {t.order}, Used(t), TRUE)
      BY <1>2 DEF CommitStock
    <2>3. head' = Recalculated(head, line', s)
      BY <1>2 DEF CommitStock
    <2> HIDE DEF t, s
    <2>4. ProjectsOnto(line', line, s, {t.order})
      <3>1. \A row \in Row : IsLine(line[row])
        BY DEF BillInv, Tables
      <3> QED BY <2>2, <3>1, ProjectedIs
    <2>5. head = [x \in Settlement |-> head[x]] /\ \A x \in Settlement : IsHead(head[x])
      BY DEF BillInv, Tables
    <2>6. \A x \in Settlement : x # s => head'[x] = head[x]
      BY <2>1, <2>3, <2>5, RecalculatedIs
    <2>7. head'[s].status = "draft"
      BY <2>1, <2>3, <2>5, RecalculatedIs
    <2>8. \A o \in Order : line'[<<o, Service>>].in = Work(o)
      BY <2>4, RowFacts DEF ProjectsOnto, Work
    <2> QED BY <2>1, <2>6, <2>7, <2>8, Amends DEF BillsStep
  <1> QED BY <1>1, <1>2

LEMMA BillsEdit ==
  ASSUME BillInv, BillInv', NEW s \in Settlement, NEW row \in Row,
         ReleaseLine(s, row) \/ \E a \in ManualAmounts : EditLine(s, row, a)
  PROVE  BillsStep
  <1>1. head' = Recalculated(head, line', s) /\ head[s].status = "draft"
    BY DEF ReleaseLine, EditLine
  <1>2. head = [x \in Settlement |-> head[x]] /\ \A x \in Settlement : IsHead(head[x])
    BY DEF BillInv, Tables
  <1>3. \A x \in Settlement : x # s => head'[x] = head[x]
    BY <1>1, <1>2, RecalculatedIs
  <1>4. head'[s].status = "draft"
    BY <1>1, <1>2, RecalculatedIs
  <1>5. /\ line' = [x \in Row |-> line'[x]]
        /\ \A x \in Row : IsLine(line'[x]) /\ line'[x].in = line[x].in
    BY EditedLines
  <1>6. \A o \in Order : line'[<<o, Service>>].in = Work(o)
    BY <1>5, RowFacts DEF Work
  <1> QED BY <1>1, <1>3, <1>4, <1>6, Amends DEF BillsStep

(* The orders of a settlement that goes are on none.                         *)
LEMMA BillsFreed ==
  ASSUME BillInv, BillInv', NEW s \in Settlement, line' = Without(line, LinesIn(line, s))
  PROVE  BilledOn' = Bills!Released(s)
  <1>1. \A o \in Order : line'[<<o, Service>>].in = IF Work(o) = s THEN NoSettlement ELSE Work(o)
    BY RowFacts DEF Without, LinesIn, NoLine, Work
  <1>2. ASSUME NEW o \in Order PROVE BilledOn'[o] = BilledOn[o] \ {s}
    <2>1. BilledOn[o] = {Work(o)} \ {NoSettlement}
      BY OnBefore DEF OnItsWork
    <2>2. BilledOn'[o] = {line'[<<o, Service>>].in} \ {NoSettlement}
      BY OnAfter DEF OnItsWork, Work
    <2>3. s # NoSettlement
      BY SettlementAssumption DEF SettlementAssumption
    <2> QED BY <1>1, <2>1, <2>2, <2>3
  <1> QED BY <1>2 DEF BilledOn, Bills!Released

LEMMA BillsLeave ==
  ASSUME BillInv, BillInv', NEW s \in Settlement, DeleteDraft(s) \/ ConfirmSettlement(s) \/ VoidSettlement(s)
  PROVE  BillsStep
  <1>1. head = [x \in Settlement |-> head[x]] /\ \A x \in Settlement : IsHead(head[x])
    BY DEF BillInv, Tables
  <1>2. CASE DeleteDraft(s)
    <2>1. BilledOn' = Bills!Released(s)
      BY <1>2, BillsFreed DEF DeleteDraft
    <2>2. Papers[s].status = "draft" /\ Papers' = [Papers EXCEPT ![s] = [Bills!Blank EXCEPT !.status = "deleted"]]
      BY <1>1, <1>2 DEF DeleteDraft, Papers, NoHead, Bills!Blank
    <2> QED BY <2>1, <2>2 DEF BillsStep, Bills!Next, Bills!Delete
  <1>3. CASE VoidSettlement(s)
    <2>1. BilledOn' = Bills!Released(s)
      BY <1>3, BillsFreed DEF VoidSettlement
    <2>2. Papers[s].status = "confirmed" /\ Papers' = [Papers EXCEPT ![s].status = "voided"]
      BY <1>1, <1>3 DEF VoidSettlement, Papers, IsHead
    <2> QED BY <2>1, <2>2 DEF BillsStep, Bills!Next, Bills!Void
  <1>4. CASE ConfirmSettlement(s)
    <2>1. BilledOn' = BilledOn
      BY <1>4 DEF ConfirmSettlement, BilledOn, LinesOf
    <2>2. Papers[s].status = "draft" /\ Papers' = [Papers EXCEPT ![s].status = "confirmed"]
      BY <1>1, <1>4 DEF ConfirmSettlement, Papers, IsHead
    <2>3. PICK row \in Row : line[row].in = s
      BY <1>4 DEF ConfirmSettlement, LinesIn
    <2>4. row[1] \in Order /\ Work(row[1]) = s /\ s # NoSettlement
      BY <2>3, RowFacts, SettlementAssumption DEF BillInv, WithWork, SettlementAssumption
    <2>5. BilledOn[row[1]] = {s}
      BY <2>4, OnBefore DEF OnItsWork
    <2> QED BY <2>1, <2>2, <2>4, <2>5 DEF BillsStep, Bills!Next, Bills!Confirm
  <1> QED BY <1>2, <1>3, <1>4

LEMMA BillsCreate == ASSUME BillInv, BillInv', NEW r \in Request, CommitCreate(r) PROVE BillsStep
  <1> DEFINE s == tx[r].header
             os == tx[r].locks
  <1>1. Takes(s, os)
    BY Creates
  <1> HIDE DEF s, os
  <1>2. s \in Settlement /\ os \subseteq Order /\ os # {} /\ s # NoSettlement
    BY <1>1, SettlementAssumption DEF Takes, SettlementAssumption
  <1>3. ASSUME NEW o \in Order
        PROVE  /\ o \in os => BilledOn[o] = {} /\ BilledOn'[o] = {s}
               /\ o \notin os => BilledOn'[o] = BilledOn[o]
    <2>1. line'[<<o, Service>>].in = IF o \in os THEN s ELSE Work(o)
      BY <1>1, RowFacts DEF Takes, Work
    <2>2. o \in os => Work(o) = NoSettlement
      BY <1>1 DEF Takes
    <2>3. BilledOn[o] = {Work(o)} \ {NoSettlement}
      BY OnBefore DEF OnItsWork
    <2>4. BilledOn'[o] = {line'[<<o, Service>>].in} \ {NoSettlement}
      BY OnAfter DEF OnItsWork, Work
    <2> QED BY <1>2, <2>1, <2>2, <2>3, <2>4
  <1>4. BilledOn' = [o \in Order |-> IF o \in os THEN {s} ELSE BilledOn[o]]
    BY <1>3 DEF BilledOn
  <1>5. /\ Papers[s].status = "none"
        /\ Papers' = [Papers EXCEPT ![s].status = "draft", ![s].total = Papers'[s].total]
    BY <1>1 DEF Takes, Papers
  <1>6. Bills!Draft(s, os)
    BY <1>2, <1>3, <1>4, <1>5 DEF Bills!Draft
  <1> QED BY <1>2, <1>6 DEF BillsStep, Bills!Next

LEMMA BillsNext == ASSUME "reject" \notin Kinds, BillInv, BillInv', [Next]_vars PROVE BillsStep
  <1>1. ASSUME UNCHANGED <<head, line>> PROVE BillsStep
    BY <1>1, BillsRest
  <1>2. CASE StockStep
    BY <1>1, <1>2, BillsStock
    DEF StockStep, StockIn, LooseOut, BeginOut, BeginReturn, BeginConsume, Take, FindDraft
  <1>3. CASE SettlementStep
    BY <1>1, <1>3, BillsCreate, BillsEdit, BillsLeave DEF SettlementStep, BeginAutoSettle, BeginCreate
  <1>4. CASE RejectStep
    <2>1. ASSUME NEW r \in Request, NEW o \in Order, BeginReject(r, o) PROVE FALSE
      BY <2>1 DEF BeginReject, Begin
    <2>2. \A r \in Request : tx[r].step \notin {"cut", "empty", "summed"}
      BY DEF BillInv, Careful
    <2> QED BY <1>4, <2>1, <2>2 DEF RejectStep, SeeEmpty, DropDraft, SumLines, CommitReject
  <1> QED BY <1>1, <1>2, <1>3, <1>4 DEF Next, vars, MoveOrder, Abort

(* The tables implement Billing, for any orders, materials, settlements and  *)
(* requests, as long as none of them rejects an acceptance.                  *)
THEOREM SettlementsAreBills == ASSUME "reject" \notin Kinds PROVE Spec => ImplementsBilling
  <1>1. BillInv /\ [Next]_vars => BillInv'
    BY BillNext
  <1>2. BillInv /\ BillInv' /\ [Next]_vars => [Bills!Next]_<<BilledOn, Papers>>
    BY BillsNext DEF BillsStep
  <1> QED BY <1>1, <1>2, BillStart, BillsStart, PTL DEF Spec, ImplementsBilling, Bills!Spec
----------------------------------------------------------------------------
(* Drafts and rejections, where every request that takes material locks the  *)
(* order it takes it for.                                                    *)

(* The steps of a rejection under way.                                       *)
Rejecting == {"cut", "empty", "summed"}
(* A line that is on no settlement is blank; a line on a draft that nobody   *)
(* has edited bills what is due.                                             *)
Blank == \A row \in Row : line[row].in = NoSettlement => line[row] = NoLine
Drafted(o) == Work(o) \in Settlement /\ head[Work(o)].status = "draft"
Due(row) == IF net[row[1]][row[2]] > 0 THEN net[row[1]][row[2]] ELSE 0
Follows ==
  \A row \in Row : row[2] # Service /\ Drafted(row[1]) /\ line[row].edit = "no" => line[row].amount = Due(row)

(* What a request knows of the orders it locks is still so: the draft they   *)
(* are on, or that they are on none; what they have used; the lines that a   *)
(* rejection is to delete.                                                   *)
Exact(t) ==
  /\ t.step \in {"idle", "taking", "logged", "inserted"} \cup Rejecting
  /\ t.step = "idle" => t.locks = {}
  /\ t.step \in {"taking", "logged"} \cup Rejecting => t.order \in Order /\ t.locks = {t.order}
  /\ t.step = "logged" =>
       /\ t.header # NoSettlement => t.header \in Settlement /\ head[t.header].status # "none"
       /\ \A s \in Settlement : head[s].status = "draft" => (t.header = s <=> Work(t.order) = s)
  /\ t.step = "inserted" =>
       /\ t.kind = "create" /\ t.header \in Settlement /\ head[t.header].status = "none"
       /\ t.locks \subseteq Order /\ \A o \in t.locks : Work(o) = NoSettlement /\ t.seen[o] = net[o]
  /\ t.step \in Rejecting =>
       /\ t.header = NoSettlement => t.cut = {}
       /\ t.header # NoSettlement =>
            t.header \in Settlement /\ t.cut = LinesOf(t.order) /\ t.cut \subseteq LinesIn(line, t.header)
Sundered(t, u) ==
  /\ t.locks \cap u.locks = {}
  /\ t.step = "inserted" /\ u.step = "inserted" => t.header # u.header
DeskTables == Tables /\ WithWork /\ Blank /\ Follows /\ net = [o \in Order |-> net[o]]
DeskInv ==
  /\ DeskTables
  /\ \A r \in Request : Exact(tx[r])
  /\ \A q, r \in Request : q # r => Sundered(tx[q], tx[r])

LEMMA NoTxExact == Exact(NoTx) /\ NoTx.locks = {} /\ NoTx.step = "idle"
  BY DEF Exact, NoTx, Rejecting

LEMMA DeskStart == Init => DeskInv
  <1> SUFFICES ASSUME Init PROVE DeskInv OBVIOUS
  <1>1. \A r \in Request : tx[r] = NoTx
    BY DEF Init
  <1>2. Tables
    BY <1>1, NoTxTaking DEF Init, Tables, NoHead, NoLine, IsHead, IsLine
  <1>3. WithWork /\ Blank /\ net = [o \in Order |-> net[o]]
    BY DEF Init, WithWork, Blank, NoLine, Nothing
  <1>4. Follows
    BY RowFacts, SettlementAssumption DEF Follows, Init, Drafted, Work, NoLine, SettlementAssumption
  <1> QED BY <1>1, <1>2, <1>3, <1>4, NoTxExact DEF DeskInv, DeskTables, Sundered

(* A request moves on, and the tables stay as they are.                      *)
LEMMA DeskMoves ==
  ASSUME DeskInv, NEW r \in Request, NEW t, tx' = [tx EXCEPT ![r] = t], UNCHANGED <<head, line, net>>,
         IsTx(t), Exact(t), \A q \in Request : q # r => Sundered(t, tx[q])
  PROVE  DeskInv'
  <1>1. tx' = [q \in Request |-> tx'[q]] /\ tx'[r] = t /\ \A q \in Request : q # r => tx'[q] = tx[q]
    BY DEF DeskInv, DeskTables, Tables
  <1>2. Tables'
    BY <1>1 DEF DeskInv, DeskTables, Tables, IsHead, IsLine, IsTx
  <1>3. (WithWork /\ Blank /\ Follows /\ net = [o \in Order |-> net[o]])'
    BY DEF DeskInv, DeskTables, WithWork, Blank, Follows, Work, Live, Drafted, Due
  <1>4. \A q \in Request : Exact(tx'[q])
    BY <1>1 DEF DeskInv
  <1>5. \A q \in Request : Exact(tx[q])'
    BY <1>4 DEF Exact, Work, LinesOf, LinesIn
  <1>6. \A p, q \in Request : p # q => Sundered(tx'[p], tx'[q])
    BY <1>1 DEF DeskInv, Sundered
  <1> QED BY <1>2, <1>3, <1>5, <1>6 DEF DeskInv, DeskTables, Sundered

(* The tables change in a way that a request need not know of.               *)
Spares(t) ==
  /\ \A s \in Settlement : /\ head[s].status # "none" => head'[s].status # "none"
                           /\ head'[s].status = "draft" => head[s].status \in {"draft", "none"}
  /\ t.step = "inserted" => head'[t.header].status = "none" /\ \A o \in t.locks : net'[o] = net[o]
  /\ \A o \in t.locks : \/ line'[<<o, Service>>].in = Work(o)
                        \/ line'[<<o, Service>>].in = NoSettlement /\ head'[Work(o)].status # "draft"
  /\ t.step \in Rejecting /\ t.header # NoSettlement =>
       \A row \in RowsOf(t.order) : line'[row].in = line[row].in

LEMMA SparesExact == ASSUME Tables, WithWork, NEW t, Exact(t), Spares(t) PROVE Exact(t)'
  <1>1. t.step = "logged" => /\ t.header # NoSettlement => head'[t.header].status # "none"
                             /\ \A s \in Settlement : head'[s].status = "draft" =>
                                  (t.header = s <=> line'[<<t.order, Service>>].in = s)
    <2> SUFFICES ASSUME t.step = "logged", NEW s \in Settlement, head'[s].status = "draft"
                 PROVE  t.header = s <=> line'[<<t.order, Service>>].in = s
      BY DEF Exact, Spares
    <2>1. t.order \in Order /\ t.locks = {t.order} /\ head[s].status \in {"draft", "none"}
      BY DEF Exact, Spares
    <2>2. Work(t.order) = s => head[s].status = "draft"
      BY <2>1, RowFacts, SettlementAssumption DEF WithWork, Work, Live, SettlementAssumption
    <2>3. t.header = s => head[s].status = "draft"
      BY <2>1, SettlementAssumption DEF Exact, SettlementAssumption
    <2>4. t.header = s <=> Work(t.order) = s
      BY <2>1, <2>2, <2>3 DEF Exact
    <2> QED BY <2>1, <2>4, SettlementAssumption DEF Spares, SettlementAssumption
  <1>2. t.step = "inserted" =>
          /\ head'[t.header].status = "none"
          /\ \A o \in t.locks : line'[<<o, Service>>].in = NoSettlement /\ t.seen[o] = net'[o]
    BY DEF Exact, Spares
  <1>3. t.step \in Rejecting /\ t.header # NoSettlement =>
          /\ t.cut = {row \in RowsOf(t.order) : line'[row].in # NoSettlement}
          /\ t.cut \subseteq {row \in Row : line'[row].in = t.header}
    BY DEF Exact, Spares, LinesOf, LinesIn, RowsOf
  <1> QED BY <1>1, <1>2, <1>3 DEF Exact, Work, LinesOf, LinesIn

(* A write of the tables, by the desk or at the end of a request, that       *)
(* spares the requests that go on.                                           *)
LEMMA DeskWrites ==
  ASSUME DeskInv, DeskTables', \A q \in Request : tx'[q] = NoTx \/ (tx'[q] = tx[q] /\ Spares(tx[q]))
  PROVE  DeskInv'
  <1>1. Exact(NoTx)'
    BY NoTxExact DEF Exact, Rejecting
  <1>2. \A q \in Request : Exact(tx[q])'
    BY <1>1, SparesExact DEF DeskInv, DeskTables
  <1>3. \A p, q \in Request : p # q => Sundered(tx'[p], tx'[q])
    BY NoTxExact DEF DeskInv, Sundered
  <1> QED BY <1>2, <1>3 DEF DeskInv, Sundered

LEMMA DeskEnd ==
  ASSUME DeskInv, NEW r \in Request, tx' = [tx EXCEPT ![r] = NoTx], UNCHANGED <<head, line, net>>
  PROVE  DeskInv'
  BY NoTxExact, NoTxTaking, DeskMoves DEF Sundered

(* Consumption begins on an order it locks.                                  *)
LEMMA DeskConsume == ASSUME DeskInv, NEW r \in Request, NEW o \in Order, NEW want, BeginConsume(r, o, want) PROVE DeskInv'
  <1> DEFINE t == [NoTx EXCEPT !.kind = "consume", !.step = "taking", !.order = o, !.locks = {o}, !.want = want]
  <1>1. IsTx(t) /\ t.step = "taking" /\ t.order = o /\ t.locks = {o}
    BY DEF IsTx, NoTx
  <1>2. tx' = [tx EXCEPT ![r] = t] /\ UNCHANGED <<head, line, net>> /\ OrdersUnlocked({o})
    BY DEF BeginConsume, Begin, NoTx
  <1> HIDE DEF t
  <1>3. Exact(t) /\ \A q \in Request : Sundered(t, tx[q])
    BY <1>1, <1>2 DEF Exact, Sundered, OrdersUnlocked, Rejecting
  <1> QED BY <1>1, <1>2, <1>3, DeskMoves

LEMMA DeskTake == ASSUME DeskInv, NEW r \in Request, NEW m, Take(r, m) PROVE DeskInv'
  <1> DEFINE t == [tx[r] EXCEPT !.held = @ \cup {m}, !.stock[m] = stock[m] - tx[r].want[m]]
  <1>1. IsTx(tx[r]) /\ tx[r].step = "taking" /\ Exact(tx[r])
    BY DEF DeskInv, DeskTables, Tables, Take
  <1>2. IsTx(t) /\ t.step = "taking" /\ t.order = tx[r].order /\ t.locks = tx[r].locks
    BY <1>1 DEF IsTx
  <1>3. tx' = [tx EXCEPT ![r] = t]
    BY <1>1 DEF Take, IsTx, DeskInv, DeskTables, Tables
  <1> HIDE DEF t
  <1>4. Exact(t) /\ \A q \in Request : q # r => Sundered(t, tx[q])
    BY <1>1, <1>2 DEF Exact, Sundered, DeskInv, Rejecting
  <1> QED BY <1>2, <1>3, <1>4, DeskMoves DEF Take

(* The orders whose lines are on a draft, by the line of their work.         *)
LEMMA DraftOf ==
  ASSUME Tables, WithWork, NEW o \in Order
  PROVE  /\ HeadsOf(o, "draft") = {s \in Settlement : head[s].status = "draft" /\ Work(o) = s}
         /\ DraftLines(o) # {} => DraftLines(o) = LinesOf(o) /\ \A row \in LinesOf(o) : line[row].in = Work(o)
         /\ HeadsOf(o, "draft") # {} => Drafted(o)
  <1>1. \A row \in LinesOf(o) : row \in Row /\ row[1] = o /\ line[row].in = Work(o) /\ Work(o) \in Settlement
    BY DEF LinesOf, RowsOf, WithWork, Tables
  <1>2. Work(o) \in Settlement => <<o, Service>> \in LinesOf(o)
    BY RowFacts, SettlementAssumption DEF LinesOf, RowsOf, Work, SettlementAssumption
  <1>3. HeadsOf(o, "draft") = {s \in Settlement : head[s].status = "draft" /\ Work(o) = s}
    BY <1>1, <1>2 DEF HeadsOf, Work
  <1>4. DraftLines(o) # {} => DraftLines(o) = LinesOf(o) /\ \A row \in LinesOf(o) : line[row].in = Work(o)
    BY <1>1 DEF DraftLines
  <1> QED BY <1>3, <1>4 DEF Drafted

LEMMA DeskFind == ASSUME DeskInv, NEW r \in Request, FindDraft(r) PROVE DeskInv'
  <1> DEFINE o == tx[r].order
  <1>1. PICK s \in (IF HeadsOf(o, "draft") = {} THEN {NoSettlement} ELSE HeadsOf(o, "draft")) :
          tx' = [tx EXCEPT ![r].step = "logged", ![r].header = s]
    BY DEF FindDraft
  <1> DEFINE t == [tx[r] EXCEPT !.step = "logged", !.header = s]
  <1>2. IsTx(tx[r]) /\ o \in Order /\ tx[r].locks = {o}
    BY DEF DeskInv, DeskTables, Tables, FindDraft, Exact
  <1>3. IsTx(t) /\ t.step = "logged" /\ t.order = o /\ t.header = s /\ t.locks = {o}
    BY <1>2 DEF IsTx
  <1>4. tx' = [tx EXCEPT ![r] = t]
    BY <1>1, <1>2 DEF IsTx, DeskInv, DeskTables, Tables
  <1>5. /\ s # NoSettlement => s \in Settlement /\ head[s].status # "none"
        /\ \A x \in Settlement : head[x].status = "draft" => (s = x <=> Work(o) = x)
    <2>1. HeadsOf(o, "draft") = {x \in Settlement : head[x].status = "draft" /\ Work(o) = x}
      BY <1>2, DraftOf DEF DeskInv, DeskTables
    <2> HIDE DEF o
    <2> QED BY <1>1, <2>1, SettlementAssumption DEF SettlementAssumption
  <1>6. \A q \in Request : q # r => Sundered(t, tx[q])
    BY <1>2, <1>3 DEF Sundered, DeskInv
  <1> HIDE DEF t, o
  <1>7. Exact(t)
    BY <1>2, <1>3, <1>5 DEF Exact, Rejecting
  <1> QED BY <1>3, <1>4, <1>6, <1>7, DeskMoves DEF FindDraft

LEMMA DeskCreate ==
  ASSUME DeskInv, NEW r \in Request, NEW os \in SUBSET Order, NEW s \in Settlement, NEW to, BeginCreate(r, os, s, to)
  PROVE  DeskInv'
  <1> DEFINE seen == [o \in Order |-> IF o \in os THEN net[o] ELSE NoTx.seen[o]]
             t == [NoTx EXCEPT !.kind = "create", !.step = "inserted", !.locks = os, !.to = to, !.header = s, !.seen = seen]
  <1>1. tx' = [tx EXCEPT ![r] = t] /\ UNCHANGED <<head, line, net>>
    BY DEF BeginCreate, Begin, NoTx
  <1>2. \A o \in os : seen[o] = net[o]
    OBVIOUS
  <1> HIDE DEF seen
  <1>3. IsTx(t) /\ t.step = "inserted" /\ t.locks = os /\ t.header = s /\ t.kind = "create" /\ t.seen = seen
    BY DEF IsTx, NoTx
  <1> HIDE DEF t
  <1>4. \A o \in os : Work(o) = NoSettlement
    BY RowFacts DEF BeginCreate, Unsettled, LinesOf, RowsOf, Work
  <1>5. Exact(t)
    BY <1>2, <1>3, <1>4 DEF Exact, BeginCreate, Unused, Rejecting
  <1>6. \A q \in Request : Sundered(t, tx[q])
    <2>1. \A q \in Request : tx[q].step = "inserted" => tx[q].kind = "create"
      BY DEF DeskInv, Exact
    <2> QED BY <1>3, <2>1 DEF BeginCreate, Unused, OrdersUnlocked, Sundered
  <1> QED BY <1>1, <1>3, <1>5, <1>6, DeskMoves

(* A rejection finds all lines of its order on one draft, or none there.     *)
LEMMA DeskReject == ASSUME DeskInv, NEW r \in Request, NEW o \in Order, BeginReject(r, o) PROVE DeskInv'
  <1>1. PICK s \in (IF DraftLines(o) = {} THEN {NoSettlement} ELSE {line[row].in : row \in DraftLines(o)}) :
          Begin(r, "reject", [NoTx EXCEPT !.step = "cut", !.order = o, !.locks = {o}, !.to = Reworked,
                                          !.cut = DraftLines(o), !.header = s])
    BY DEF BeginReject
  <1> DEFINE cut == DraftLines(o)
             t == [NoTx EXCEPT !.kind = "reject", !.step = "cut", !.order = o, !.locks = {o}, !.to = Reworked,
                               !.cut = cut, !.header = s]
  <1>2. tx' = [tx EXCEPT ![r] = t] /\ UNCHANGED <<head, line, net>> /\ OrdersUnlocked({o})
    BY <1>1 DEF BeginReject, Begin, NoTx
  <1>3. IsTx(t) /\ t.step = "cut" /\ t.order = o /\ t.locks = {o} /\ t.cut = cut /\ t.header = s
    BY DEF IsTx, NoTx
  <1>4. /\ cut # {} => cut = LinesOf(o) /\ \A row \in LinesOf(o) : line[row].in = Work(o)
        /\ cut = {} => s = NoSettlement
        /\ cut # {} => \E row \in cut : s = line[row].in
    BY <1>1, DraftOf DEF DeskInv, DeskTables
  <1> HIDE DEF t, cut
  <1>5. s = NoSettlement => cut = {}
    BY <1>4 DEF LinesOf
  <1>6. s # NoSettlement => s \in Settlement /\ cut = LinesOf(o) /\ cut \subseteq LinesIn(line, s)
    <2>1. \A row \in LinesOf(o) : row \in Row /\ line[row].in \in Settlement
      BY DEF LinesOf, RowsOf, DeskInv, DeskTables, Tables
    <2> QED BY <1>4, <2>1 DEF LinesIn
  <1>7. Exact(t) /\ \A q \in Request : Sundered(t, tx[q])
    BY <1>2, <1>3, <1>5, <1>6 DEF Exact, Sundered, OrdersUnlocked, Rejecting
  <1> QED BY <1>2, <1>3, <1>7, DeskMoves

LEMMA DeskSees == ASSUME DeskInv, NEW r \in Request, SeeEmpty(r) \/ SumLines(r) PROVE DeskInv'
  <1> DEFINE sum == Recalculated(head, Without(line, tx[r].cut), tx[r].header)[tx[r].header]
             t == [tx[r] EXCEPT !.step = "summed", !.sum = sum]
             u == [tx[r] EXCEPT !.step = "empty"]
  <1>1. IsTx(tx[r]) /\ Exact(tx[r]) /\ tx[r].step \in Rejecting /\ UNCHANGED <<head, line, net>>
    BY DEF SeeEmpty, SumLines, Rejecting, DeskInv, DeskTables, Tables
  <1>2. /\ SeeEmpty(r) => tx' = [tx EXCEPT ![r] = u]
        /\ SumLines(r) => tx' = [tx EXCEPT ![r].step = "summed", ![r].sum = sum]
    BY <1>1 DEF SeeEmpty, SumLines, IsTx, DeskInv, DeskTables, Tables
  <1> HIDE DEF sum
  <1>3. SumLines(r) => tx' = [tx EXCEPT ![r] = t]
    BY <1>1, <1>2 DEF IsTx, DeskInv, DeskTables, Tables
  <1>4. ASSUME NEW v \in {t, u}
        PROVE  /\ IsTx(v) /\ v.step \in {"empty", "summed"} /\ v.order = tx[r].order /\ v.locks = tx[r].locks
               /\ v.cut = tx[r].cut /\ v.header = tx[r].header
    BY <1>1 DEF IsTx
  <1> HIDE DEF t, u
  <1>5. ASSUME NEW v \in {t, u} PROVE Exact(v) /\ \A q \in Request : q # r => Sundered(v, tx[q])
    BY <1>1, <1>4 DEF Exact, Sundered, DeskInv, Rejecting
  <1> QED BY <1>1, <1>2, <1>3, <1>4, <1>5, DeskMoves

(* Lines of the orders os move onto s, the settlement their work is on, or   *)
(* off it: material stays with the work, and a line off it is blank.         *)
LEMMA StaysWithWork ==
  ASSUME Tables, WithWork, Blank, NEW os, NEW s \in Settlement,
         line' = [row \in Row |-> line'[row]], head'[s].status = "draft",
         \A x \in Settlement : x # s => head'[x].status = head[x].status,
         \A o \in Order : line'[<<o, Service>>].in = IF o \in os THEN s ELSE Work(o),
         \A o \in Order : o \notin os /\ Work(o) = s => head[s].status = "draft",
         \A row \in Row : row[1] \notin os => line'[row] = line[row],
         \A row \in Row : row[1] \in os => line'[row] = NoLine \/ line'[row].in = s
  PROVE  (WithWork /\ Blank)'
  <1>1. Blank'
    BY SettlementAssumption DEF Blank, NoLine, SettlementAssumption
  <1>2. ASSUME NEW row \in Row, line'[row].in # NoSettlement
        PROVE  line'[row].in = line'[<<row[1], Service>>].in /\ head'[line'[row].in].status \in {"draft", "confirmed"}
    <2>1. CASE row[1] \in os
      BY <1>2, <2>1, RowFacts DEF NoLine
    <2>2. CASE row[1] \notin os
      <3>1. line[row].in \in Settlement /\ line'[row].in = Work(row[1]) /\ Live(Work(row[1]))
        BY <1>2, <2>2 DEF WithWork, Tables
      <3> QED BY <1>2, <2>2, <3>1, RowFacts DEF Live
    <2> QED BY <2>1, <2>2
  <1> QED BY <1>1, <1>2 DEF WithWork, Work, Live

(* Consumption that ends: the draft of its order, if it is on one, bills     *)
(* what it has used by then.                                                 *)
LEMMA DeskCommitStock == ASSUME DeskInv, NEW r \in Request, CommitStock(r) PROVE DeskInv'
  <1> DEFINE t == tx[r]
             s == t.header
             o == t.order
             used == Used(t)
  <1>1. /\ t.step = "logged" /\ tx' = [tx EXCEPT ![r] = NoTx] /\ net' = used
        /\ Exact(t) /\ o \in Order /\ t.locks = {o}
    BY DEF CommitStock, Commit, DeskInv, Exact
  <1>2. /\ net' = [x \in Order |-> net'[x]] /\ \A x \in Order : x # o => net'[x] = net[x]
    BY <1>1 DEF Used, DeskInv, DeskTables
  <1>3. \A q \in Request : tx'[q] = IF q = r THEN NoTx ELSE tx[q]
    BY <1>1 DEF DeskInv, DeskTables, Tables
  <1>4. \A q \in Request : q # r => o \notin tx[q].locks
    BY <1>1 DEF DeskInv, Sundered
  <1>5. tx' = [q \in Request |-> tx'[q]] /\ \A q \in Request : IsTx(tx'[q])
    BY <1>1, <1>3, NoTxTaking DEF DeskInv, DeskTables, Tables
  <1>6. Tables /\ WithWork /\ Blank /\ Follows
    BY DEF DeskInv, DeskTables
  <1>7. \A q \in Request : Exact(tx[q])
    BY DEF DeskInv
  <1>8. CASE ~StillDraft(s)
    <2>1. UNCHANGED <<head, line>>
      BY <1>8 DEF CommitStock
    <2>2. ~Drafted(o)
      BY <1>1, <1>8, SettlementAssumption DEF StillDraft, Drafted, Exact, SettlementAssumption
    <2> HIDE DEF t, s, o, used
    <2>3. (WithWork /\ Blank)'
      BY <1>6, <2>1 DEF WithWork, Blank, Work, Live
    <2>4. Tables'
      BY <1>5, <1>6, <2>1 DEF Tables, IsHead, IsLine, IsTx
    <2>5. Follows'
      BY <1>2, <1>6, <2>1, <2>2, RowFacts DEF Follows, Drafted, Due, Work
    <2>6. \A q \in Request : q # r => Spares(tx[q])
      <3> SUFFICES ASSUME NEW q \in Request, q # r PROVE Spares(tx[q])
        OBVIOUS
      <3>1. tx[q].step = "inserted" => head[tx[q].header].status = "none" /\ \A x \in tx[q].locks : net'[x] = net[x]
        BY <1>2, <1>4, <1>7 DEF Exact
      <3> QED BY <2>1, <3>1 DEF Spares, Work
    <2> QED BY <1>2, <1>3, <2>3, <2>4, <2>5, <2>6, DeskWrites DEF DeskTables
  <1>9. CASE StillDraft(s)
    <2>1. s \in Settlement /\ head[s].status = "draft" /\ Work(o) = s
      BY <1>1, <1>9 DEF StillDraft, Exact
    <2>2. line' = Projected(line, s, {o}, used, TRUE)
      BY <1>9 DEF CommitStock
    <2>3. head' = Recalculated(head, line', s)
      BY <1>9 DEF CommitStock
    <2> HIDE DEF t, s, o, used
    <2>4. ProjectsOnto(line', line, s, {o})
      <3>1. \A row \in Row : IsLine(line[row])
        BY <1>6 DEF Tables
      <3> QED BY <2>2, <3>1, ProjectedIs
    <2>5. /\ head' = [x \in Settlement |-> head'[x]]
          /\ \A x \in Settlement : IsHead(head'[x]) /\ head'[x].status = head[x].status
      <3>1. head = [x \in Settlement |-> head[x]] /\ \A x \in Settlement : IsHead(head[x])
        BY <1>6 DEF Tables
      <3> QED BY <2>1, <2>3, <3>1, RecalculatedIs
    <2> DEFINE due(row) == used[row[1]][row[2]]
    <2>a. ASSUME NEW row \in Row, row[1] = o, row[2] # Service
          PROVE  \/ line[row].edit = "manual" /\ line'[row] = line[row]
                 \/ due(row) > 0 /\ line'[row].in = s /\ line'[row].amount = due(row)
                 \/ ~(due(row) > 0) /\ line'[row] = NoLine
      <3>1. IsLine(line[row]) /\ row[1] \in {o}
        BY <1>6, <2>a DEF Tables
      <3>2. line[row].in # s => line[row] = NoLine
        BY <1>6, <2>1, <2>a DEF WithWork, Blank
      <3>3. \/ line[row].edit = "manual" /\ line'[row] = line[row]
            \/ due(row) > 0 /\ line'[row].in = s /\ line'[row].amount = due(row)
            \/ ~(due(row) > 0) /\ (line'[row] = NoLine \/ (line'[row] = line[row] /\ line[row].in # s))
        BY <2>2, <2>a, <3>1 DEF Projected, IsLine
      <3> QED BY <3>2, <3>3
    <2>6. \A row \in Row : row[1] = o => line'[row] = NoLine \/ line'[row].in = s
      <3> SUFFICES ASSUME NEW row \in Row, row[1] = o PROVE line'[row] = NoLine \/ line'[row].in = s
        OBVIOUS
      <3>1. line[row] = NoLine \/ line[row].in = s
        BY <1>6, <2>1 DEF WithWork, Blank
      <3>2. row[2] = Service => line'[row] = line[row]
        BY <2>4 DEF ProjectsOnto
      <3> HIDE DEF due
      <3> QED BY <2>a, <3>1, <3>2
    <2>7. \A x \in Order : line'[<<x, Service>>] = line[<<x, Service>>]
      BY <2>4, RowFacts DEF ProjectsOnto
    <2>8. (WithWork /\ Blank)'
      <3>1. \A row \in Row : row[1] \notin {o} => line'[row] = line[row]
        BY <2>4 DEF ProjectsOnto
      <3>2. line' = [row \in Row |-> line'[row]]
        BY <2>4 DEF ProjectsOnto
      <3>3. \A x \in Order : line'[<<x, Service>>].in = IF x \in {o} THEN s ELSE Work(x)
        BY <2>1, <2>7 DEF Work
      <3>4. \A row \in Row : row[1] \in {o} => line'[row] = NoLine \/ line'[row].in = s
        BY <2>6
      <3> QED BY <1>6, <2>1, <2>5, <3>1, <3>2, <3>3, <3>4, StaysWithWork
    <2>9. Tables'
      <3>1. \A row \in Row : line'[row].in \in Settlement \cup {NoSettlement}
        BY <1>6, <2>1, <2>4 DEF Tables, ProjectsOnto
      <3>2. line' = [row \in Row |-> line'[row]] /\ \A row \in Row : IsLine(line'[row])
        BY <2>4 DEF ProjectsOnto
      <3> QED BY <1>5, <2>5, <3>1, <3>2 DEF Tables, IsHead, IsLine, IsTx
    <2>10. Follows'
      <3> SUFFICES ASSUME NEW row \in Row, row[2] # Service, Drafted(row[1])', line'[row].edit = "no"
                   PROVE  line'[row].amount = Due(row)'
        BY DEF Follows
      <3>1. CASE row[1] # o
        <4>1. line'[row] = line[row] /\ net'[row[1]] = net[row[1]] /\ row[1] \in Order
          BY <1>2, <2>4, <3>1, RowFacts DEF ProjectsOnto
        <4>2. Drafted(row[1])
          BY <2>5, <2>7, <4>1 DEF Drafted, Work
        <4> QED BY <1>6, <4>1, <4>2 DEF Follows, Due
      <3>2. CASE row[1] = o
        <4> QED BY <1>1, <2>a, <3>2 DEF Due, NoLine
      <3> QED BY <3>1, <3>2
    <2>11. \A q \in Request : q # r => Spares(tx[q])
      <3> SUFFICES ASSUME NEW q \in Request, q # r PROVE Spares(tx[q])
        OBVIOUS
      <3>1. tx[q].step = "inserted" => tx[q].header \in Settlement /\ tx[q].locks \subseteq Order /\ head[tx[q].header].status = "none"
        BY <1>7 DEF Exact
      <3>2. tx[q].step \in Rejecting => tx[q].order # o /\ tx[q].order \in Order
        BY <1>4, <1>7 DEF Exact
      <3>3. tx[q].locks \subseteq Order
        BY <1>7 DEF Exact
      <3>4. \A row \in RowsOf(tx[q].order) : tx[q].step \in Rejecting => line'[row] = line[row]
        BY <2>4, <3>2 DEF ProjectsOnto, RowsOf
      <3> QED BY <1>2, <1>4, <2>5, <2>7, <3>1, <3>3, <3>4 DEF Spares, Work
    <2> QED BY <1>2, <1>3, <2>8, <2>9, <2>10, <2>11, DeskWrites DEF DeskTables
  <1> QED BY <1>8, <1>9

(* A draft that is created bills what its orders have used: they have been   *)
(* locked since that was read.                                               *)
LEMMA DeskCommitCreate == ASSUME DeskInv, NEW r \in Request, CommitCreate(r) PROVE DeskInv'
  <1> DEFINE t == tx[r]
             s == t.header
             os == t.locks
             serviced == [row \in Row |->
                            IF row[1] \in t.locks /\ row[2] = Service
                            THEN [in |-> t.header, amount |-> ServicePrice, edit |-> "no"] ELSE line[row]]
             drafted == [head EXCEPT ![t.header].status = "draft"]
  <1>1. t.step = "inserted" /\ Exact(t) /\ tx' = [tx EXCEPT ![r] = NoTx] /\ net' = net
    BY DEF CommitCreate, Commit, DeskInv
  <1>2. /\ s \in Settlement /\ head[s].status = "none" /\ os \subseteq Order
        /\ \A o \in os : Work(o) = NoSettlement /\ t.seen[o] = net[o]
    BY <1>1 DEF Exact
  <1>3. line' = Projected(serviced, s, os, t.seen, FALSE) /\ head' = Recalculated(drafted, line', s)
    BY DEF CommitCreate
  <1>4. Tables /\ WithWork /\ Blank /\ Follows /\ net = [o \in Order |-> net[o]]
    BY DEF DeskInv, DeskTables
  <1>5. \A row \in Row :
          serviced[row] = IF row[1] \in os /\ row[2] = Service
                          THEN [in |-> s, amount |-> ServicePrice, edit |-> "no"] ELSE line[row]
    OBVIOUS
  <1>6. /\ drafted = [x \in Settlement |-> drafted[x]]
        /\ \A x \in Settlement : /\ IsHead(drafted[x])
                                 /\ drafted[x].status = IF x = s THEN "draft" ELSE head[x].status
    BY <1>2, <1>4 DEF IsHead, Tables
  <1>7. \A q \in Request : tx'[q] = IF q = r THEN NoTx ELSE tx[q]
    BY <1>1 DEF DeskInv, DeskTables, Tables
  <1>8. tx' = [q \in Request |-> tx'[q]] /\ \A q \in Request : IsTx(tx'[q])
    BY <1>1, <1>4, <1>7, NoTxTaking DEF Tables
  <1>9. \A q \in Request : q # r => /\ os \cap tx[q].locks = {} /\ Exact(tx[q])
                                    /\ tx[q].step = "inserted" => tx[q].header # s
    BY <1>1 DEF DeskInv, Sundered
  <1> DEFINE due(row) == t.seen[row[1]][row[2]]
  <1>10. \A row \in Row : row[1] \in os => line[row] = NoLine
    BY <1>2, <1>4, RowFacts DEF WithWork, Blank
  <1>11. \A row \in Row : IsLine(serviced[row])
    BY <1>4, <1>5 DEF Tables, IsLine
  <1>12. ASSUME NEW row \in Row, row[1] \in os, row[2] # Service
         PROVE  \/ due(row) > 0 /\ line'[row].in = s /\ line'[row].amount = due(row)
                \/ ~(due(row) > 0) /\ line'[row] = NoLine
    <2>1. serviced[row] = NoLine /\ IsLine(NoLine) /\ NoLine.edit # "manual"
      BY <1>5, <1>10, <1>12 DEF NoLine, IsLine
    <2> HIDE DEF serviced, t, s, os
    <2> QED BY <1>3, <1>12, <2>1 DEF Projected, IsLine
  <1> HIDE DEF serviced, drafted
  <1>13. ProjectsOnto(line', serviced, s, os)
    BY <1>3, <1>11, ProjectedIs
  <1>14. /\ head' = [x \in Settlement |-> head'[x]]
         /\ \A x \in Settlement : /\ IsHead(head'[x])
                                  /\ head'[x].status = IF x = s THEN "draft" ELSE head[x].status
    <2>1. head' = Recalculated(drafted, line', s)
      BY <1>3
    <2> HIDE DEF s, t
    <2> QED BY <1>2, <1>6, <2>1, RecalculatedIs
  <1> HIDE DEF s, os, t
  <1>15. /\ line' = [row \in Row |-> line'[row]]
         /\ \A row \in Row : /\ IsLine(line'[row])
                             /\ row[1] \notin os => line'[row] = line[row]
                             /\ row[1] \in os /\ row[2] = Service => line'[row].in = s
    BY <1>5, <1>13 DEF ProjectsOnto
  <1>16. \A o \in Order : line'[<<o, Service>>].in = IF o \in os THEN s ELSE Work(o)
    BY <1>15, RowFacts DEF Work
  <1>17. \A row \in Row : row[1] \in os => line'[row] = NoLine \/ line'[row].in = s
    BY <1>12, <1>15
  <1>18. (WithWork /\ Blank)'
    <2>1. \A o \in Order : o \notin os /\ Work(o) = s => head[s].status = "draft"
      BY <1>2, <1>4, RowFacts, SettlementAssumption DEF WithWork, Work, Live, SettlementAssumption
    <2> QED BY <1>2, <1>4, <1>14, <1>15, <1>16, <1>17, <2>1, StaysWithWork
  <1>19. Tables'
    <2>1. \A row \in Row : line'[row].in \in Settlement \cup {NoSettlement}
      BY <1>2, <1>4, <1>15, <1>17 DEF Tables, NoLine
    <2> QED BY <1>8, <1>14, <1>15, <2>1 DEF Tables, IsHead, IsLine, IsTx
  <1>20. Follows'
    <2> SUFFICES ASSUME NEW row \in Row, row[2] # Service, Drafted(row[1])', line'[row].edit = "no"
                 PROVE  line'[row].amount = Due(row)'
      BY DEF Follows
    <2>1. CASE row[1] \notin os
      <3>1. line'[row] = line[row] /\ row[1] \in Order /\ Work(row[1]) \in Settlement
        BY <1>15, <1>16, <2>1, RowFacts DEF Drafted, Work
      <3>2. Work(row[1]) # s
        BY <1>2, <1>4, <3>1, RowFacts, SettlementAssumption DEF WithWork, Work, Live, SettlementAssumption
      <3>3. Drafted(row[1])
        BY <1>14, <1>16, <2>1, <3>1, <3>2 DEF Drafted, Work
      <3> QED BY <1>1, <1>4, <3>1, <3>3 DEF Follows, Due
    <2>2. CASE row[1] \in os
      <3>1. due(row) = net'[row[1]][row[2]]
        BY <1>1, <1>2, <2>2
      <3> HIDE DEF due
      <3> QED BY <1>12, <2>2, <3>1 DEF Due, NoLine
    <2> QED BY <2>1, <2>2
  <1>21. \A q \in Request : q # r => Spares(tx[q])
    <2> SUFFICES ASSUME NEW q \in Request, q # r PROVE Spares(tx[q])
      OBVIOUS
    <2>1. tx[q].locks \subseteq Order /\ os \cap tx[q].locks = {}
      BY <1>9 DEF Exact, Rejecting
    <2>2. tx[q].step = "inserted" => tx[q].header \in Settlement /\ head[tx[q].header].status = "none" /\ tx[q].header # s
      BY <1>9 DEF Exact
    <2>3. \A o \in tx[q].locks : line'[<<o, Service>>].in = Work(o)
      BY <1>16, <2>1
    <2>4. tx[q].step \in Rejecting => \A row \in RowsOf(tx[q].order) : line'[row].in = line[row].in
      <3>1. tx[q].step \in Rejecting => tx[q].order \notin os
        BY <1>9, <2>1 DEF Exact
      <3> QED BY <1>15, <3>1 DEF RowsOf
    <2>5. \A x \in Settlement : /\ head[x].status # "none" => head'[x].status # "none"
                                /\ head'[x].status = "draft" => head[x].status \in {"draft", "none"}
      BY <1>2, <1>14
    <2> QED BY <1>1, <1>14, <2>2, <2>3, <2>4, <2>5 DEF Spares
  <1> QED BY <1>1, <1>4, <1>7, <1>18, <1>19, <1>20, <1>21, DeskWrites DEF DeskTables

(* A line of a draft is edited: it stays on its settlement.                  *)
LEMMA DeskEdit ==
  ASSUME DeskInv, NEW s \in Settlement, NEW row \in Row,
         ReleaseLine(s, row) \/ \E a \in ManualAmounts : EditLine(s, row, a)
  PROVE  DeskInv'
  <1>1. Tables /\ WithWork /\ Blank /\ Follows
    BY DEF DeskInv, DeskTables
  <1>2. head' = Recalculated(head, line', s) /\ line[row].in = s /\ UNCHANGED <<net, tx>>
    BY DEF ReleaseLine, EditLine
  <1>3. /\ line' = [x \in Row |-> line'[x]]
        /\ \A x \in Row : /\ IsLine(line'[x]) /\ line'[x].in = line[x].in
                          /\ line'[x] = line[x] \/ (x = row /\ line'[x].edit # "no")
    <2>1. line = [x \in Row |-> line[x]] /\ \A x \in Row : IsLine(line[x])
      BY <1>1 DEF Tables
    <2>2. CASE ReleaseLine(s, row)
      BY <2>1, <2>2 DEF ReleaseLine, IsLine
    <2>3. ASSUME NEW a \in ManualAmounts, EditLine(s, row, a)
          PROVE  /\ line' = [x \in Row |-> line'[x]]
                 /\ \A x \in Row : /\ IsLine(line'[x]) /\ line'[x].in = line[x].in
                                   /\ line'[x] = line[x] \/ (x = row /\ line'[x].edit # "no")
      BY <2>1, <2>3 DEF EditLine, IsLine
    <2> QED BY <2>2, <2>3
  <1>4. /\ head' = [x \in Settlement |-> head'[x]]
        /\ \A x \in Settlement : IsHead(head'[x]) /\ head'[x].status = head[x].status
    BY <1>1, <1>2, RecalculatedIs DEF Tables
  <1>5. Tables'
    BY <1>1, <1>2, <1>3, <1>4 DEF Tables, IsHead, IsLine, IsTx
  <1>6. WithWork' /\ Blank'
    <2>1. Blank'
      BY <1>1, <1>2, <1>3, SettlementAssumption DEF Blank, SettlementAssumption
    <2>2. WithWork'
      BY <1>1, <1>3, <1>4, RowFacts DEF WithWork, Work, Live, Tables
    <2> QED BY <2>1, <2>2
  <1>7. Follows'
    <2> SUFFICES ASSUME NEW x \in Row, x[2] # Service, Drafted(x[1])', line'[x].edit = "no"
                 PROVE  line'[x].amount = Due(x)'
      BY DEF Follows
    <2>1. Drafted(x[1])
      BY <1>3, <1>4, RowFacts DEF Drafted, Work
    <2>2. line'[x] = line[x] /\ net' = net
      BY <1>2, <1>3
    <2> QED BY <1>1, <2>1, <2>2 DEF Follows, Due
  <1>8. \A q \in Request : Spares(tx[q])
    <2> SUFFICES ASSUME NEW q \in Request PROVE Spares(tx[q])
      OBVIOUS
    <2>1. tx[q].locks \subseteq Order /\ (tx[q].step = "inserted" => tx[q].header \in Settlement /\ head[tx[q].header].status = "none")
      BY DEF DeskInv, Exact, Rejecting
    <2> QED BY <1>2, <1>3, <1>4, <2>1, RowFacts DEF Spares, Work, RowsOf
  <1> QED BY <1>2, <1>5, <1>6, <1>7, <1>8, DeskWrites DEF DeskTables, DeskInv

(* Lines leave their settlement, all the lines of an order together, and a   *)
(* settlement that ceases to be a draft may do so with or without them.      *)
LEMMA DeskOff ==
  ASSUME DeskInv, NEW rows, line' = Without(line, rows), net' = net,
         head' = [s \in Settlement |-> head'[s]], \A s \in Settlement : IsHead(head'[s]),
         \A s \in Settlement : /\ head'[s].status = "none" <=> head[s].status = "none"
                               /\ head'[s].status = "draft" => head[s].status = "draft",
         \A row \in rows : row \in Row /\ line[row].in # NoSettlement,
         \A row \in Row : line[row].in # NoSettlement =>
            /\ row \in rows <=> <<row[1], Service>> \in rows
            /\ row \notin rows => head'[line[row].in].status \in {"draft", "confirmed"},
         tx' = [q \in Request |-> tx'[q]],
         \A q \in Request : \/ tx'[q] = NoTx
                            \/ /\ tx'[q] = tx[q]
                               /\ tx[q].step \in Rejecting => rows \cap tx[q].cut = {}
                               /\ \A o \in tx[q].locks : <<o, Service>> \in rows => head'[Work(o)].status # "draft"
  PROVE  DeskInv'
  <1>1. Tables /\ WithWork /\ Blank /\ Follows /\ net = [o \in Order |-> net[o]]
    BY DEF DeskInv, DeskTables
  <1>2. /\ line' = [row \in Row |-> line'[row]]
        /\ \A row \in Row : line'[row] = IF row \in rows THEN NoLine ELSE line[row]
    BY DEF Without
  <1>3. Tables'
    <2>1. \A row \in Row : IsLine(line'[row]) /\ line'[row].in \in Settlement \cup {NoSettlement}
      BY <1>1, <1>2 DEF Tables, NoLine, IsLine
    <2>2. \A q \in Request : IsTx(tx'[q])
      BY <1>1, NoTxTaking DEF Tables
    <2> QED BY <1>2, <2>1, <2>2 DEF Tables, IsHead, IsLine, IsTx
  <1>4. WithWork'
    <2> SUFFICES ASSUME NEW row \in Row, line'[row].in # NoSettlement
                 PROVE  /\ line'[row].in = line'[<<row[1], Service>>].in
                        /\ head'[line'[row].in].status \in {"draft", "confirmed"}
      BY DEF WithWork, Work, Live
    <2>1. row \notin rows /\ line'[row] = line[row]
      BY <1>2 DEF NoLine
    <2>2. line[row].in = Work(row[1]) /\ <<row[1], Service>> \in Row
      BY <1>1, <2>1, RowFacts DEF WithWork
    <2>3. <<row[1], Service>> \notin rows
      BY <2>1
    <2>4. line'[<<row[1], Service>>] = line[<<row[1], Service>>]
      BY <1>2, <2>2, <2>3
    <2> QED BY <2>1, <2>2, <2>4 DEF Work
  <1>5. Blank'
    BY <1>1, <1>2 DEF Blank
  <1>6. Follows'
    <2> SUFFICES ASSUME NEW row \in Row, row[2] # Service, Drafted(row[1])', line'[row].edit = "no"
                 PROVE  line'[row].amount = Due(row)'
      BY DEF Follows
    <2>1. row[1] \in Order /\ <<row[1], Service>> \in Row
      BY RowFacts
    <2>2. <<row[1], Service>> \notin rows
      BY <1>2, <2>1, SettlementAssumption DEF Drafted, Work, NoLine, SettlementAssumption
    <2>3. row \notin rows
      BY <2>2
    <2>4. Drafted(row[1]) /\ line'[row] = line[row]
      BY <1>2, <2>1, <2>2, <2>3 DEF Drafted, Work
    <2> QED BY <1>1, <2>4 DEF Follows, Due
  <1>7. ASSUME NEW q \in Request, tx'[q] = tx[q], tx[q].step \in Rejecting => rows \cap tx[q].cut = {},
               \A o \in tx[q].locks : <<o, Service>> \in rows => head'[Work(o)].status # "draft"
        PROVE  Spares(tx[q])
    <2>1. Exact(tx[q]) /\ tx[q].locks \subseteq Order
      BY DEF DeskInv, Exact, Rejecting
    <2>2. tx[q].step \in Rejecting /\ tx[q].header # NoSettlement =>
            \A row \in RowsOf(tx[q].order) : line'[row].in = line[row].in
      BY <1>2, <1>7, <2>1 DEF Exact, RowsOf, LinesOf
    <2>3. \A o \in tx[q].locks : \/ line'[<<o, Service>>].in = Work(o)
                                 \/ line'[<<o, Service>>].in = NoSettlement /\ head'[Work(o)].status # "draft"
      BY <1>2, <1>7, <2>1, RowFacts DEF Work, NoLine
    <2>4. tx[q].step = "inserted" => head'[tx[q].header].status = "none" /\ \A o \in tx[q].locks : net'[o] = net[o]
      BY <2>1 DEF Exact
    <2> QED BY <2>2, <2>3, <2>4 DEF Spares
  <1> QED BY <1>1, <1>3, <1>4, <1>5, <1>6, <1>7, DeskWrites DEF DeskTables

(* All the lines of a settlement leave it as it ends.                        *)
LEMMA DeskEmptied ==
  ASSUME DeskInv, NEW s \in Settlement, head[s].status \in {"draft", "confirmed"},
         line' = Without(line, LinesIn(line, s)), net' = net, head' = [head EXCEPT ![s] = head'[s]],
         IsHead(head'[s]), head'[s].status \notin {"none", "draft"},
         tx' = [q \in Request |-> tx'[q]],
         \A q \in Request : \/ tx'[q] = NoTx
                            \/ tx'[q] = tx[q] /\ LinesIn(line, s) \cap tx[q].cut = {}
  PROVE  DeskInv'
  <1> DEFINE rows == LinesIn(line, s)
  <1>1. Tables /\ WithWork
    BY DEF DeskInv, DeskTables
  <1>2. \A row \in Row : row \in rows <=> line[row].in = s
    BY DEF LinesIn
  <1>3. rows \subseteq Row
    BY DEF LinesIn
  <1> HIDE DEF rows
  <1>4. head' = [x \in Settlement |-> head'[x]]
    BY <1>1 DEF Tables
  <1>5. \A x \in Settlement : x # s => head'[x] = head[x]
    BY <1>1 DEF Tables
  <1>6. \A x \in Settlement : IsHead(head'[x])
    BY <1>1, <1>5 DEF Tables, IsHead
  <1>7. \A x \in Settlement : /\ head'[x].status = "none" <=> head[x].status = "none"
                              /\ head'[x].status = "draft" => head[x].status = "draft"
    BY <1>5
  <1>8. \A row \in rows : row \in Row /\ line[row].in # NoSettlement
    BY <1>2, <1>3, SettlementAssumption DEF SettlementAssumption
  <1>9. \A row \in Row : line[row].in # NoSettlement =>
          /\ row \in rows <=> <<row[1], Service>> \in rows
          /\ row \notin rows => head'[line[row].in].status \in {"draft", "confirmed"}
    <2> SUFFICES ASSUME NEW row \in Row, line[row].in # NoSettlement
                 PROVE  /\ row \in rows <=> <<row[1], Service>> \in rows
                        /\ row \notin rows => head'[line[row].in].status \in {"draft", "confirmed"}
      OBVIOUS
    <2>1. /\ line[row].in \in Settlement /\ line[row].in = line[<<row[1], Service>>].in
          /\ head[line[row].in].status \in {"draft", "confirmed"} /\ <<row[1], Service>> \in Row
      BY <1>1, RowFacts DEF Tables, WithWork, Work, Live
    <2> QED BY <1>2, <1>5, <2>1
  <1>10. \A q \in Request : \A o \in tx[q].locks : <<o, Service>> \in rows => Work(o) = s
    BY <1>2, <1>3 DEF Work
  <1>11. line' = Without(line, rows)
    BY DEF rows
  <1>12. \A q \in Request : \/ tx'[q] = NoTx
                            \/ tx'[q] = tx[q] /\ rows \cap tx[q].cut = {}
    BY DEF rows
  <1> QED BY <1>4, <1>6, <1>7, <1>8, <1>9, <1>10, <1>11, <1>12, DeskOff

(* A settlement is deleted, voided or confirmed.                             *)
LEMMA DeskLeave ==
  ASSUME DeskInv, NEW s \in Settlement, DeleteDraft(s) \/ VoidSettlement(s) \/ ConfirmSettlement(s)
  PROVE  DeskInv'
  <1>1. Tables /\ WithWork /\ DOMAIN head[s] = {"status", "total", "count"}
    BY DEF DeskInv, DeskTables, Tables, IsHead
  <1>2. UNCHANGED <<net, tx>>
    BY DEF DeleteDraft, VoidSettlement, ConfirmSettlement
  <1>3. CASE DeleteDraft(s) \/ VoidSettlement(s)
    <2>1. /\ head' = [head EXCEPT ![s] = head'[s]] /\ IsHead(head'[s]) /\ head'[s].status \in {"deleted", "voided"}
          /\ line' = Without(line, LinesIn(line, s)) /\ head[s].status \in {"draft", "confirmed"}
      <3>1. CASE DeleteDraft(s)
        BY <1>1, <3>1 DEF DeleteDraft, IsHead, NoHead, Tables
      <3>2. CASE VoidSettlement(s)
        BY <1>1, <3>2 DEF VoidSettlement, IsHead, Tables
      <3> QED BY <1>3, <3>1, <3>2
    <2>2. \A q \in Request : LinesIn(line, s) \cap tx[q].cut = {}
      BY <1>3 DEF DeleteDraft, VoidSettlement, RowsUnlocked
    <2> QED BY <1>1, <1>2, <2>1, <2>2, DeskEmptied DEF Tables
  <1>4. CASE ConfirmSettlement(s)
    <2>1. /\ head' = [x \in Settlement |-> head'[x]]
          /\ \A x \in Settlement : /\ IsHead(head'[x])
                                   /\ head'[x].status = IF x = s THEN "confirmed" ELSE head[x].status
      BY <1>1, <1>4 DEF ConfirmSettlement, IsHead, Tables
    <2>2. line' = Without(line, {})
      BY <1>1, <1>4 DEF ConfirmSettlement, Without, Tables
    <2>3. \A row \in Row : line[row].in # NoSettlement => head'[line[row].in].status \in {"draft", "confirmed"}
      BY <1>1, <2>1, RowFacts DEF WithWork, Live, Tables
    <2> DEFINE rows == {}
    <2>4. line' = Without(line, rows) /\ \A row : row \notin rows
      BY <2>2
    <2> HIDE DEF rows
    <2>5. head[s].status = "draft"
      BY <1>4 DEF ConfirmSettlement
    <2> QED BY <1>1, <1>2, <2>1, <2>3, <2>4, <2>5, DeskOff DEF Tables
  <1> QED BY <1>3, <1>4

(* A rejection ends: its draft is deleted, or keeps what other orders have   *)
(* on it.                                                                    *)
LEMMA DeskDrop == ASSUME DeskInv, NEW r \in Request, DropDraft(r) PROVE DeskInv'
  <1> DEFINE s == tx[r].header
  <1>1. /\ Tables /\ Exact(tx[r]) /\ tx[r].step = "empty" /\ s # NoSettlement /\ head[s].status = "draft"
        /\ tx' = [tx EXCEPT ![r] = NoTx] /\ net' = net
        /\ head' = [head EXCEPT ![s] = [NoHead EXCEPT !.status = "deleted"]]
        /\ line' = Without(line, LinesIn(line, s) \cup tx[r].cut) /\ RowsUnlocked(LinesIn(line, s), {r})
    BY DEF DeskInv, DeskTables, DropDraft, StillDraft, Commit
  <1>2. s \in Settlement /\ LinesIn(line, s) \cup tx[r].cut = LinesIn(line, s)
    BY <1>1 DEF Exact, Rejecting
  <1>3. IsHead([NoHead EXCEPT !.status = "deleted"]) /\ [NoHead EXCEPT !.status = "deleted"].status = "deleted"
    BY DEF IsHead, NoHead
  <1>4. head' = [head EXCEPT ![s] = head'[s]] /\ IsHead(head'[s]) /\ head'[s].status = "deleted"
    BY <1>1, <1>2, <1>3 DEF Tables
  <1>5. \A q \in Request : tx'[q] = IF q = r THEN NoTx ELSE tx[q]
    BY <1>1 DEF Tables
  <1>6. tx' = [q \in Request |-> tx'[q]]
    BY <1>1 DEF Tables
  <1> HIDE DEF s
  <1>7. \A q \in Request : q # r => LinesIn(line, s) \cap tx[q].cut = {}
    BY <1>1 DEF RowsUnlocked
  <1> QED BY <1>1, <1>2, <1>4, <1>5, <1>6, <1>7, DeskEmptied

LEMMA DeskCommitReject == ASSUME DeskInv, NEW r \in Request, CommitReject(r) PROVE DeskInv'
  <1> DEFINE t == tx[r]
             rows == t.cut
  <1>1. /\ Tables /\ WithWork /\ Exact(t) /\ t.step \in Rejecting
        /\ tx' = [tx EXCEPT ![r] = NoTx] /\ net' = net /\ line' = Without(line, rows)
    BY DEF DeskInv, DeskTables, CommitReject, Commit, Rejecting
  <1>2. /\ head' = [x \in Settlement |-> head'[x]]
        /\ \A x \in Settlement : IsHead(head'[x]) /\ head'[x].status = head[x].status
    <2>1. CASE head' = head
      BY <1>1, <2>1 DEF Tables
    <2>2. CASE head' = [head EXCEPT ![t.header].total = t.sum.total, ![t.header].count = t.sum.count]
      <3> HIDE DEF t
      <3> QED BY <1>1, <2>2 DEF Tables, IsHead
    <2> QED BY <2>1, <2>2 DEF CommitReject
  <1>3. \A q \in Request : tx'[q] = IF q = r THEN NoTx ELSE tx[q]
    BY <1>1 DEF Tables
  <1>4. tx' = [q \in Request |-> tx'[q]]
    BY <1>1 DEF Tables
  <1>5. t.order \in Order /\ t.locks = {t.order} /\ (rows = {} \/ rows = LinesOf(t.order))
    BY <1>1 DEF Exact
  <1>6. \A row \in rows : row \in Row /\ row[1] = t.order /\ line[row].in # NoSettlement
    BY <1>5 DEF LinesOf, RowsOf
  <1>7. \A row \in Row : line[row].in # NoSettlement =>
          /\ row \in rows <=> <<row[1], Service>> \in rows
          /\ row \notin rows => head'[line[row].in].status \in {"draft", "confirmed"}
    <2> SUFFICES ASSUME NEW row \in Row, line[row].in # NoSettlement
                 PROVE  /\ row \in rows <=> <<row[1], Service>> \in rows
                        /\ row \notin rows => head'[line[row].in].status \in {"draft", "confirmed"}
      OBVIOUS
    <2>1. line[row].in \in Settlement /\ line[row].in = line[<<row[1], Service>>].in
          /\ head[line[row].in].status \in {"draft", "confirmed"}
      BY <1>1 DEF Tables, WithWork, Work, Live
    <2>2. row[1] \in Order /\ <<row[1], Service>> \in Row /\ <<row[1], Service>>[1] = row[1]
      BY RowFacts
    <2>3. row \in rows <=> <<row[1], Service>> \in rows
      BY <1>5, <2>1, <2>2 DEF LinesOf, RowsOf
    <2> QED BY <1>2, <2>1, <2>3
  <1>8. \A q \in Request : q # r =>
          /\ tx[q].step \in Rejecting => rows \cap tx[q].cut = {}
          /\ \A o \in tx[q].locks : <<o, Service>> \notin rows
    <2> SUFFICES ASSUME NEW q \in Request, q # r
                 PROVE  /\ tx[q].step \in Rejecting => rows \cap tx[q].cut = {}
                        /\ \A o \in tx[q].locks : <<o, Service>> \notin rows
      OBVIOUS
    <2>1. Exact(tx[q]) /\ t.order \notin tx[q].locks
      BY <1>5 DEF DeskInv, Sundered
    <2>2. tx[q].step \in Rejecting => \A row \in tx[q].cut : row[1] # t.order
      BY <2>1 DEF Exact, LinesOf, RowsOf
    <2> QED BY <1>6, <2>1, <2>2
  <1> HIDE DEF t, rows
  <1>9. \A q \in Request : \/ tx'[q] = NoTx
                           \/ /\ tx'[q] = tx[q]
                              /\ tx[q].step \in Rejecting => rows \cap tx[q].cut = {}
                              /\ \A o \in tx[q].locks : <<o, Service>> \in rows => head'[Work(o)].status # "draft"
    BY <1>3, <1>8
  <1>10. \A x \in Settlement : /\ head'[x].status = "none" <=> head[x].status = "none"
                               /\ head'[x].status = "draft" => head[x].status = "draft"
    BY <1>2
  <1>11. \A x \in Settlement : IsHead(head'[x])
    BY <1>2
  <1>12. \A row \in rows : row \in Row /\ line[row].in # NoSettlement
    BY <1>6
  <1>13. line' = Without(line, rows) /\ net' = net
    BY <1>1 DEF rows
  <1>14. head' = [x \in Settlement |-> head'[x]]
    BY <1>2
  <1> QED BY <1>4, <1>7, <1>9, <1>10, <1>11, <1>12, <1>13, <1>14, DeskOff

LEMMA DeskStutters == ASSUME DeskInv, UNCHANGED <<head, line, net, tx>> PROVE DeskInv'
  <1>1. Tables'
    BY DEF DeskInv, DeskTables, Tables, IsHead, IsLine, IsTx
  <1>2. (WithWork /\ Blank /\ Follows /\ net = [o \in Order |-> net[o]])'
    BY DEF DeskInv, DeskTables, WithWork, Blank, Follows, Work, Live, Drafted, Due
  <1>3. \A q \in Request : Exact(tx[q])'
    BY DEF DeskInv, Exact, Work, LinesOf, LinesIn
  <1> QED BY <1>1, <1>2, <1>3 DEF DeskInv, DeskTables, Sundered

LEMMA DeskNext == ASSUME {"out", "return"} \cap Kinds = {}, DeskInv, [Next]_vars PROVE DeskInv'
  <1>1. CASE UNCHANGED vars
    BY <1>1, DeskStutters DEF vars
  <1>2. ASSUME NEW o \in Order, NEW to, MoveOrder(o, to) PROVE DeskInv'
    BY <1>2, DeskStutters DEF MoveOrder
  <1>3. CASE StockStep
    <2>1. ASSUME NEW m \in Material, NEW q \in 1..MaxQty, StockIn(m, q) \/ LooseOut(m, q) PROVE DeskInv'
      BY <2>1, DeskStutters DEF StockIn, LooseOut
    <2>2. ASSUME NEW r \in Request, NEW o \in Order, NEW m \in Material, NEW q \in 1..MaxQty,
                 BeginOut(r, o, m, q) \/ BeginReturn(r, o, m, q)
          PROVE  FALSE
      BY <2>2 DEF BeginOut, BeginReturn, Begin
    <2>3. ASSUME NEW r \in Request, NEW o \in Order, NEW want, BeginConsume(r, o, want) PROVE DeskInv'
      BY <2>3, DeskConsume
    <2>4. ASSUME NEW r \in Request, NEW m, Take(r, m) PROVE DeskInv'
      BY <2>4, DeskTake
    <2>5. ASSUME NEW r \in Request, FindDraft(r) \/ CommitStock(r) PROVE DeskInv'
      BY <2>5, DeskFind, DeskCommitStock
    <2> QED BY <1>3, <2>1, <2>2, <2>3, <2>4, <2>5 DEF StockStep
  <1>4. CASE SettlementStep
    <2>1. ASSUME NEW r \in Request, NEW os \in SUBSET Order, NEW s \in Settlement, BeginCreate(r, os, s, "same")
          PROVE  DeskInv'
      BY <2>1, DeskCreate
    <2>2. ASSUME NEW r \in Request, NEW o \in Order, NEW s \in Settlement, NEW to, BeginAutoSettle(r, o, s, to)
          PROVE  DeskInv'
      <3>1. {o} \in SUBSET Order
        OBVIOUS
      <3> QED BY <2>2, <3>1, DeskCreate DEF BeginAutoSettle
    <2>3. ASSUME NEW r \in Request, CommitCreate(r) PROVE DeskInv'
      BY <2>3, DeskCommitCreate
    <2>4. ASSUME NEW s \in Settlement, NEW row \in Row,
                 ReleaseLine(s, row) \/ \E a \in ManualAmounts : EditLine(s, row, a)
          PROVE  DeskInv'
      BY <2>4, DeskEdit
    <2>5. ASSUME NEW s \in Settlement, DeleteDraft(s) \/ ConfirmSettlement(s) \/ VoidSettlement(s) PROVE DeskInv'
      BY <2>5, DeskLeave
    <2> QED BY <1>4, <2>1, <2>2, <2>3, <2>4, <2>5 DEF SettlementStep
  <1>5. CASE RejectStep
    <2>1. ASSUME NEW r \in Request, NEW o \in Order, BeginReject(r, o) PROVE DeskInv'
      BY <2>1, DeskReject
    <2>2. ASSUME NEW r \in Request, SeeEmpty(r) \/ DropDraft(r) \/ SumLines(r) \/ CommitReject(r) PROVE DeskInv'
      BY <2>2, DeskSees, DeskDrop, DeskCommitReject
    <2> QED BY <1>5, <2>1, <2>2 DEF RejectStep
  <1>6. ASSUME NEW r \in Request, Abort(r) PROVE DeskInv'
    BY <1>6, DeskEnd DEF Abort
  <1> QED BY <1>1, <1>2, <1>3, <1>4, <1>5, <1>6 DEF Next

(* DraftFollowsConsumption: where material leaves the stock only by requests *)
(* that lock the order (consumption, not the older outgoing movements and    *)
(* returns), a draft bills what its orders have used; with rejections,       *)
(* edits, deletions and drafts created meanwhile.                            *)
THEOREM DraftsFollow == ASSUME {"out", "return"} \cap Kinds = {} PROVE Spec => []DraftFollowsConsumption
  <1>1. DeskInv => DraftFollowsConsumption
    <2> SUFFICES ASSUME DeskInv, NEW o \in Order, HeadsOf(o, "draft") # {}, NEW row \in Billable(o), line[row].edit = "no"
                 PROVE  line[row].amount = IF net[o][row[2]] > 0 THEN net[o][row[2]] ELSE 0
      BY DEF DraftFollowsConsumption
    <2>1. Drafted(o)
      BY DraftOf DEF DeskInv, DeskTables
    <2>2. row \in Row /\ row[1] = o /\ row[2] # Service
      BY DEF Billable, RowsOf
    <2> QED BY <2>1, <2>2 DEF DeskInv, DeskTables, Follows, Due
  <1> QED BY <1>1, DeskStart, DeskNext, PTL DEF Spec

(* OneSettlement under rejections: as long as consumption locks its order,   *)
(* an order is settled once, whatever is rejected meanwhile.                 *)
THEOREM SettledOnceDespiteRejection == ASSUME {"out", "return"} \cap Kinds = {} PROVE Spec => []OneSettlement
  <1>1. DeskInv => OneSettlement
    BY DEF DeskInv, DeskTables, WithWork, OneSettlement, LinesOf, RowsOf
  <1> QED BY <1>1, DeskStart, DeskNext, PTL DEF Spec
=============================================================================
