-------------------------------- MODULE Reports --------------------------------
(***************************************************************************)
(* Repair reports without a login (routes/publicReport.ts,                 *)
(* services/publicReportCreate.ts) and everything that is written into the *)
(* ext of the order afterwards: photos and voice messages, the tenant's    *)
(* own fields, the count of re-dispatches (routes/workOrder.ts) and the    *)
(* reporter's corrections.                                                 *)
(*                                                                         *)
(* The people at work read ext under the lock of the row and write all of  *)
(* it back; a correction reads it without.                                 *)
(***************************************************************************)
EXTENDS Naturals, FiniteSets

CONSTANTS
  Report,          \* orders, each with the view_token that is drawn along with it
  Reporting,       \* submissions
  Slip, NoSlip,    \* idempotency keys; a submission without one
  DailyLimit,      \* quota.repair_daily
  Editor,          \* requests that write ext
  NoReport,
  MaxRedone,       \* bound: re-dispatches of an order
  Beside           \* bound: whether a correction runs beside other requests

ASSUME ReportsAssumption == DailyLimit \in Nat /\ NoReport \notin Report /\ NoSlip \notin Slip /\ Beside \in BOOLEAN

VARIABLES
  report,    \* work_orders: ext, and the re-dispatches that have been made
  slip,      \* idempotency_key
  reporting, \* submissions under way
  told,      \* history: view tokens that were answered, and for which order
  edit       \* requests that write ext: what they have read

rpvars == <<report, slip, reporting, told, edit>>

EmptyExt == [token |-> NoReport, marks |-> {}, count |-> 0]
Unfiled  == [ext |-> EmptyExt, redone |-> 0]
NoSubmission == [pc |-> "none", slip |-> NoSlip, id |-> NoReport]
NoEdit   == [pc |-> "none", kind |-> "none", id |-> NoReport, ext |-> EmptyExt]
Filed    == {o \in Report : report[o] # Unfiled}

ReportsInit ==
  /\ report = [o \in Report |-> Unfiled]
  /\ slip = [k \in Slip |-> NoReport]
  /\ reporting = [r \in Reporting |-> NoSubmission]
  /\ told = {}
  /\ edit = [e \in Editor |-> NoEdit]
----------------------------------------------------------------------------
(* POST /public/repair-report: the day's reports are counted before the      *)
(* transaction, a token and an id are drawn.                                 *)
BeginReport(r, k, o) ==
  /\ reporting[r] = NoSubmission
  /\ Cardinality(Filed) < DailyLimit
  /\ o \notin Filed /\ \A q \in Reporting : reporting[q].id # o
  /\ reporting' = [reporting EXCEPT ![r] = [pc |-> "fetching", slip |-> k, id |-> o]]
  /\ UNCHANGED <<report, slip, told, edit>>
(* Recordings are fetched and the model is asked with no transaction open;   *)
(* what cannot be had is left out.                                           *)
Gather(r) ==
  /\ reporting[r].pc = "fetching"
  /\ reporting' = [reporting EXCEPT ![r].pc = "asking"]
  /\ UNCHANGED <<report, slip, told, edit>>

(* createWithIdem: a key that another transaction has inserted is waited for.*)
TakeSlip(r) ==
  LET k == reporting[r].slip IN
  /\ reporting[r].pc = "asking"
  /\ k # NoSlip => slip[k] = NoReport /\ \A q \in Reporting : ~(reporting[q].pc = "holding" /\ reporting[q].slip = k)
  /\ reporting' = [reporting EXCEPT ![r].pc = "holding"]
  /\ UNCHANGED <<report, slip, told, edit>>
(* The order is inserted and dispatched, or sent to the hall, and committed. *)
FileReport(r) ==
  LET k == reporting[r].slip  o == reporting[r].id IN
  /\ reporting[r].pc = "holding"
  /\ report' = [report EXCEPT ![o].ext.token = o]
  /\ slip' = IF k = NoSlip THEN slip ELSE [slip EXCEPT ![k] = o]
  /\ told' = told \cup {<<o, o>>}
  /\ reporting' = [reporting EXCEPT ![r] = NoSubmission]
  /\ UNCHANGED edit
(* A transaction that fails takes the key back with it.                      *)
RefuseReport(r) ==
  /\ reporting[r].pc = "holding"
  /\ reporting' = [reporting EXCEPT ![r] = NoSubmission]
  /\ UNCHANGED <<report, slip, told, edit>>

(* A fault: the token that was drawn for this request.                       *)
DrawnToken(r) == reporting[r].id
(* storedToken: the one in the ext of the order that was found.              *)
StoredToken(r) == report[slip[reporting[r].slip]].ext.token
(* A repeated submission is answered with the first one's order.             *)
RepeatReport(r) ==
  /\ reporting[r].pc = "asking" /\ reporting[r].slip # NoSlip /\ slip[reporting[r].slip] # NoReport
  /\ told' = told \cup {<<StoredToken(r), slip[reporting[r].slip]>>}
  /\ reporting' = [reporting EXCEPT ![r] = NoSubmission]
  /\ UNCHANGED <<report, slip, edit>>
----------------------------------------------------------------------------
Locking == {"photo", "voice", "fields"}
Locked(o) == \E e \in Editor : edit[e].pc = "read" /\ edit[e].kind \in Locking /\ edit[e].id = o
BeingEdited(o, kinds) == \E e \in Editor : edit[e].pc = "read" /\ edit[e].kind \in kinds /\ edit[e].id = o

(* Faults and guards of the reads: findOneForUpdate; nothing.                *)
AsItComes(kind, o) == TRUE
MayRead(kind, o) ==
  /\ kind \in Locking => ~Locked(o)
  /\ ~Beside => ~BeingEdited(o, IF kind = "correct" THEN Locking \cup {"correct"} ELSE {"correct"})
(* POST /photos, POST /voice, PATCH /ext, PATCH /public/report-correct       *)
ReadExt(e, kind, o) ==
  /\ edit[e] = NoEdit /\ o \in Filed /\ MayRead(kind, o)
  /\ edit' = [edit EXCEPT ![e] = [pc |-> "read", kind |-> kind, id |-> o, ext |-> report[o].ext]]
  /\ UNCHANGED <<report, slip, reporting, told>>
(* ... SET ext = what was read and what is new; a correction waits for the   *)
(* row, and no longer looks at what is in it.                                *)
WriteExt(e) ==
  LET o == edit[e].id IN
  /\ edit[e].pc = "read"
  /\ edit[e].kind = "correct" => ~Locked(o)
  /\ report' = [report EXCEPT ![o].ext = [edit[e].ext EXCEPT !.marks = @ \cup {e}]]
  /\ edit' = [edit EXCEPT ![e] = [@ EXCEPT !.pc = "ended", !.ext = EmptyExt]]
  /\ UNCHANGED <<slip, reporting, told>>
(* performRedispatch of a returned order, under the lock of the row: one key *)
(* is merged into ext.                                                       *)
CountRedispatch(o) ==
  /\ o \in Filed /\ ~Locked(o) /\ (~Beside => ~BeingEdited(o, {"correct"}))
  /\ report[o].redone < MaxRedone
  /\ report' = [report EXCEPT ![o].redone = @ + 1, ![o].ext.count = @ + 1]
  /\ UNCHANGED <<slip, reporting, told, edit>>

ReportsNext ==
  \/ \E r \in Reporting :
       \/ \E k \in Slip \cup {NoSlip}, o \in Report : BeginReport(r, k, o)
       \/ Gather(r) \/ TakeSlip(r) \/ FileReport(r) \/ RefuseReport(r) \/ RepeatReport(r)
  \/ \E e \in Editor : WriteExt(e) \/ \E kind \in Locking \cup {"correct"}, o \in Report : ReadExt(e, kind, o)
  \/ \E o \in Report : CountRedispatch(o)
----------------------------------------------------------------------------
(* Every view token a reporter was ever given finds the order it was given   *)
(* for, also when a submission is repeated, and whatever was written into    *)
(* the order since (storedToken, "幂等重复提交时回原 view_token").             *)
TokenFindsReport == \A answer \in told : report[answer[2]].ext.token = answer[1]

(* What has been written into an order stays there: photos, recordings,      *)
(* fields, corrections, the count of re-dispatches ("不删历史").               *)
EvidenceKept ==
  /\ \A e \in Editor : edit[e].pc = "ended" => e \in report[edit[e].id].ext.marks
  /\ \A o \in Report : report[o].ext.count = report[o].redone
=============================================================================
