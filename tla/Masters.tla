-------------------------------- MODULE Masters --------------------------------
(* How the tables of basic data are edited.  A PUT carries some columns of a *)
(* row.  Some handlers update the columns that were given, others read the   *)
(* row, without locking it, and write every column back; both are one        *)
(* transaction, and two editors may be in it at once.                        *)
EXTENDS Naturals, FiniteSets

CONSTANT MReq \* requests in flight

VARIABLES
  table,   \* the table this instance is about
  row,     \* its row: column -> value, Absent before POST and after DELETE
  asked,   \* history: the value that was last asked for, per column
  contested, \* history: the columns it was asked for while others had the row open
  medit    \* the requests: what is given, and the row as it was read

mvars == <<table, row, asked, contested, medit>>

Column == {"name", "note"}
Null == "null"
Value == {Null, "old"} \cup MReq
Absent == [c \in {} |-> Null]
Unread == [given |-> {}, seen |-> Absent]

WrittenAsGiven == {"patrol_point", "material", "fault_category", "worker", "role_def"}
WrittenWhole == {"emergency_plan", "inspection_point", "inspection_item", "dispatch_rule", "term"}
Table == WrittenAsGiven \cup WrittenWhole

MastersInit ==
  /\ table \in Table /\ row = Absent /\ asked = Absent /\ contested = {} /\ medit = [r \in MReq |-> Unread]

(* What is contested once r has asked for cols.                              *)
ContestedBy(r, cols) == (contested \ cols) \cup {c \in cols : \E q \in MReq \ {r} : medit[q] # Unread}

(* POST: columns that are not given are null.                                *)
InsertRow(cols) ==
  /\ row = Absent /\ \A r \in MReq : medit[r] = Unread
  /\ row' = [c \in Column |-> IF c \in cols THEN "old" ELSE Null] /\ asked' = row'
  /\ contested' = {} /\ UNCHANGED <<table, medit>>
(* POST /config/terms of a term that exists sets the label and the switch,   *)
(* also those that are not given, in one statement.                          *)
PostAgain(r, cols) ==
  /\ table = "term" /\ row # Absent /\ medit[r] = Unread
  /\ \E v \in {IF "note" \in cols THEN r ELSE Null} :
       row' = [row EXCEPT !["note"] = v] /\ asked' = [asked EXCEPT !["note"] = v]
  /\ contested' = ContestedBy(r, {"note"}) /\ UNCHANGED <<table, medit>>
(* DELETE; who reads the row afterwards answers 404.                         *)
DropRow ==
  /\ row # Absent /\ row' = Absent /\ asked' = Absent /\ contested' = {} /\ UNCHANGED <<table, medit>>

(* The value of r stands for what r gives.                                   *)
ReadRow(r, cols) ==
  /\ row # Absent /\ cols # {} /\ medit[r] = Unread
  /\ medit' = [medit EXCEPT ![r] = [given |-> cols, seen |-> row]]
  /\ UNCHANGED <<table, row, asked, contested>>

(* UPDATE ... SET c = $n for every column; of a plan COALESCE($n, c), so that *)
(* a column that was null when it was read stays as it is.                   *)
WroteAll(r) ==
  [c \in Column |->
     IF c \in medit[r].given THEN r
     ELSE IF table = "emergency_plan" /\ medit[r].seen[c] = Null THEN row[c] ELSE medit[r].seen[c]]
WroteGiven(r) == [c \in Column |-> IF c \in medit[r].given THEN r ELSE row[c]]
AsRead(r) == WroteAll(r) \* a fault: every table is written back as it was read
Written(r) == IF table \in WrittenAsGiven THEN WroteGiven(r) ELSE WroteAll(r)

(* The UPDATE of a row that is gone changes nothing.                         *)
WriteRow(r) ==
  /\ medit[r] # Unread
  /\ row' = IF row = Absent THEN row ELSE Written(r)
  /\ asked' = IF row = Absent THEN asked
              ELSE [c \in Column |-> IF c \in medit[r].given THEN r ELSE asked[c]]
  /\ contested' = IF row = Absent THEN contested ELSE ContestedBy(r, medit[r].given)
  /\ medit' = [medit EXCEPT ![r] = Unread] /\ UNCHANGED table

MastersNext ==
  \/ \E cols \in SUBSET Column : InsertRow(cols) \/ \E r \in MReq : PostAgain(r, cols) \/ ReadRow(r, cols)
  \/ DropRow
  \/ \E r \in MReq : WriteRow(r)

(* Every column of a row holds what the last editor who named that column    *)
(* asked for: an edit of one column takes back no other, also when several   *)
(* have the same row open (faultCategory.ts, patrol.ts, material.ts,         *)
(* worker.ts).  Of a table that is written back whole, what may be lost is   *)
(* what was asked for while another editor had the row open (config.ts,      *)
(* inspection.ts, emergency.ts), and it may be lost until it is asked again. *)
EditsKept ==
  row = Absent \/ \A c \in Column : row[c] = asked[c] \/ (table \in WrittenWhole /\ c \in contested)
=============================================================================
