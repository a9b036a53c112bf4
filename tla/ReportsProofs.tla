----------------------------- MODULE ReportsProofs -----------------------------
(* TokenFindsReport and EvidenceKept for any orders, submissions, keys and   *)
(* editors: the first whatever overlaps, the second as long as corrections   *)
(* wait for the other writers of ext.                                        *)
EXTENDS Reports, TLAPS

ReportsSpec == ReportsInit /\ [][ReportsNext]_rpvars

Kinds == Locking \cup {"correct"}
Exts  == [token : Report \cup {NoReport}, marks : SUBSET Editor, count : Nat]
RType ==
  /\ report \in [Report -> [ext : Exts, redone : Nat]]
  /\ slip \in [Slip -> Report \cup {NoReport}]
  /\ reporting \in [Reporting -> [pc : {"fetching", "asking", "holding"}, slip : Slip \cup {NoSlip}, id : Report]
                                 \cup {NoSubmission}]
  /\ told \subseteq Report \X Report
  /\ edit \in [Editor -> [pc : {"read", "ended"}, kind : Kinds, id : Report, ext : Exts] \cup {NoEdit}]

(* A report that is filed has the token drawn with it, also in what somebody *)
(* has read of it and will write back.                                       *)
TokenStays ==
  /\ \A o \in Report : report[o] # Unfiled => report[o].ext.token = o
  /\ \A k \in Slip : slip[k] # NoReport => report[slip[k]] # Unfiled
  /\ \A e \in Editor : edit[e].pc = "read" => report[edit[e].id] # Unfiled /\ edit[e].ext.token = edit[e].id
Answered == \A answer \in told : answer[1] = answer[2] /\ report[answer[2]] # Unfiled
TInv == RType /\ TokenStays /\ Answered

(* The id of a submission is its own and not in the table yet.               *)
OwnReport ==
  \A r \in Reporting : reporting[r].pc # "none" =>
    /\ report[reporting[r].id] = Unfiled
    /\ \A q \in Reporting : reporting[q].pc # "none" /\ reporting[q].id = reporting[r].id => q = r
(* Who writes ext has read what is there, alone.                             *)
OwnExt ==
  \A e \in Editor : edit[e].pc = "read" =>
    /\ edit[e].ext = report[edit[e].id].ext
    /\ \A f \in Editor : edit[f].pc = "read" /\ edit[f].id = edit[e].id => f = e
EInv == TInv /\ OwnReport /\ OwnExt /\ EvidenceKept

(* Single fields of the records that are stored.                             *)
LEMMA SetMarks ==
  ASSUME NEW x \in Exts, NEW m \in SUBSET Editor
  PROVE  [x EXCEPT !.marks = m] = [token |-> x.token, marks |-> m, count |-> x.count]
  BY DEF Exts
LEMMA SetToken ==
  ASSUME NEW x \in Exts, NEW m
  PROVE  [x EXCEPT !.token = m] = [token |-> m, marks |-> x.marks, count |-> x.count]
  BY DEF Exts
LEMMA SetEnded ==
  ASSUME NEW x \in [pc : {"read", "ended"}, kind : Kinds, id : Report, ext : Exts], NEW m \in Exts
  PROVE  [x EXCEPT !.pc = "ended", !.ext = m] = [pc |-> "ended", kind |-> x.kind, id |-> x.id, ext |-> m]
<1> DEFINE y == [pc |-> "ended", kind |-> x.kind, id |-> x.id, ext |-> x.ext]
<1>1. [x EXCEPT !.pc = "ended"] = y
  OBVIOUS
<1>2. y \in [pc : {"read", "ended"}, kind : Kinds, id : Report, ext : Exts]
  OBVIOUS
<1> HIDE DEF y
<1>3. [y EXCEPT !.ext = m] = [pc |-> y.pc, kind |-> y.kind, id |-> y.id, ext |-> m]
  BY <1>2
<1> QED BY <1>1, <1>3, Zenon DEF y

LEMMA EmptyTyped == EmptyExt \in Exts /\ Unfiled \in [ext : Exts, redone : Nat]
  BY DEF EmptyExt, Exts, Unfiled

LEMMA NotUnfiled ==
  ASSUME NEW row \in [ext : Exts, redone : Nat], row.ext.token # NoReport PROVE row # Unfiled
  BY DEF Unfiled, EmptyExt

LEMMA TStart == ReportsInit => TInv
  BY EmptyTyped DEF ReportsInit, TInv, RType, TokenStays, Answered, NoEdit

(* The submissions, except for the one that files, change no report.         *)
LEMMA TSubmission ==
  ASSUME TInv, UNCHANGED <<report, slip, told, edit>>,
         NEW r \in Reporting,
         NEW new \in [pc : {"fetching", "asking", "holding"}, slip : Slip \cup {NoSlip}, id : Report] \cup {NoSubmission},
         reporting' = [reporting EXCEPT ![r] = new]
  PROVE  TInv'
  BY DEF TInv, RType, TokenStays, Answered

LEMMA SubmissionTyped ==
  ASSUME RType, NEW r \in Reporting, reporting[r].pc # "none"
  PROVE  reporting[r].id \in Report /\ reporting[r].slip \in Slip \cup {NoSlip}
  BY DEF RType, NoSubmission

LEMMA SubmissionMoves ==
  ASSUME RType, NEW r \in Reporting, reporting[r].pc # "none", NEW pc \in {"asking", "holding"},
         reporting' = [reporting EXCEPT ![r].pc = pc]
  PROVE  \E new \in [pc : {"fetching", "asking", "holding"}, slip : Slip \cup {NoSlip}, id : Report] :
           reporting' = [reporting EXCEPT ![r] = new] /\ new.id = reporting[r].id /\ new.pc # "none"
<1> DEFINE new == [pc |-> pc, slip |-> reporting[r].slip, id |-> reporting[r].id]
<1>1. reporting[r] \in [pc : {"fetching", "asking", "holding"}, slip : Slip \cup {NoSlip}, id : Report]
  BY DEF RType, NoSubmission
<1>2. reporting' = [reporting EXCEPT ![r] = new]
  <2>1. [reporting EXCEPT ![r].pc = pc] = [reporting EXCEPT ![r] = new]
    <3>1. [reporting[r] EXCEPT !.pc = pc] = new
      BY <1>1
    <3> QED BY <3>1, Zenon
  <2> QED BY <2>1, Zenon
<1> QED BY <1>1, <1>2

(* A report whose row is written with its own token in it.                   *)
LEMMA Put ==
  ASSUME TInv, NEW o \in Report, NEW new \in Exts, NEW n \in Nat, new.token = o,
         report' = [report EXCEPT ![o] = [ext |-> new, redone |-> n]]
  PROVE  /\ report' \in [Report -> [ext : Exts, redone : Nat]]
         /\ report'[o] = [ext |-> new, redone |-> n]
         /\ \A p \in Report \ {o} : report'[p] = report[p]
         /\ \A p \in Report : report'[p] # Unfiled => report'[p].ext.token = p
         /\ report'[o] # Unfiled
         /\ \A p \in Report : report[p] # Unfiled => report'[p] # Unfiled
<1> DEFINE row == [ext |-> new, redone |-> n]
<1>1. row \in [ext : Exts, redone : Nat] /\ row.ext.token = o /\ o # NoReport
  BY ReportsAssumption DEF ReportsAssumption
<1>2. row # Unfiled
  BY <1>1, NotUnfiled
<1>3. report' = [report EXCEPT ![o] = row] /\ report \in [Report -> [ext : Exts, redone : Nat]]
  BY DEF TInv, RType
<1>5. \A p \in Report : report[p] # Unfiled => report[p].ext.token = p
  BY DEF TInv, TokenStays
<1> HIDE DEF row
<1>4. report'[o] = row
  BY <1>3
<1>6. \A p \in Report \ {o} : report'[p] = report[p]
  BY <1>3
<1>7. report' \in [Report -> [ext : Exts, redone : Nat]]
  BY <1>1, <1>3
<1> QED BY <1>1, <1>2, <1>4, <1>5, <1>6, <1>7 DEF row

LEMMA FileIs ==
  ASSUME TInv, NEW r \in Reporting, FileReport(r)
  PROVE  \E new \in Exts :
           /\ new.token = reporting[r].id
           /\ new.marks = report[reporting[r].id].ext.marks /\ new.count = report[reporting[r].id].ext.count
           /\ report' = [report EXCEPT ![reporting[r].id] = [ext |-> new, redone |-> report[reporting[r].id].redone]]
<1> DEFINE o == reporting[r].id
           new == [token |-> o, marks |-> report[o].ext.marks, count |-> report[o].ext.count]
<1>1. o \in Report
  BY SubmissionTyped DEF TInv, FileReport
<1>2. report[o] \in [ext : Exts, redone : Nat]
  BY <1>1 DEF TInv, RType
<1>3. new \in Exts /\ new.token = o
  BY <1>1, <1>2 DEF Exts
<1>4. report' = [report EXCEPT ![o] = [ext |-> new, redone |-> report[o].redone]]
  <2>1. report' = [report EXCEPT ![o].ext = [report[o].ext EXCEPT !.token = o]]
    BY Zenon DEF FileReport
  <2>2. [report[o].ext EXCEPT !.token = o] = new
    BY <1>2, SetToken
  <2>3. report \in [Report -> [ext : Exts, redone : Nat]]
    BY DEF TInv, RType
  <2>4. report' = [report EXCEPT ![o].ext = new]
    BY <2>1, <2>2, Zenon
  <2> HIDE DEF new, o
  <2>6. [report EXCEPT ![o].ext = new] = [report EXCEPT ![o] = [ext |-> new, redone |-> report[o].redone]]
    <3>1. report[o] \in [ext : Exts, redone : Nat]
      BY <1>1, <1>3, <2>3
    <3>2. [report[o] EXCEPT !.ext = new] = [ext |-> new, redone |-> report[o].redone]
      BY <1>1, <1>3, <3>1
    <3> QED BY <3>2, Zenon
  <2> QED BY <2>4, <2>6, Zenon
<1> QED BY <1>3, <1>4

LEMMA TFile == ASSUME TInv, NEW r \in Reporting, FileReport(r) PROVE TInv'
<1> DEFINE o == reporting[r].id
<1>1. o \in Report /\ reporting[r].slip \in Slip \cup {NoSlip}
  BY SubmissionTyped DEF TInv, FileReport
<1>2. PICK new \in Exts : /\ new.token = o
                         /\ report' = [report EXCEPT ![o] = [ext |-> new, redone |-> report[o].redone]]
  BY FileIs
<1>3. report[o].redone \in Nat
  BY <1>1 DEF TInv, RType
<1>4. /\ report' \in [Report -> [ext : Exts, redone : Nat]]
      /\ \A p \in Report : report'[p] # Unfiled => report'[p].ext.token = p
      /\ report'[o] # Unfiled
      /\ \A p \in Report : report[p] # Unfiled => report'[p] # Unfiled
  BY <1>1, <1>2, <1>3, Put
<1>5. /\ slip' = IF reporting[r].slip = NoSlip THEN slip ELSE [slip EXCEPT ![reporting[r].slip] = o]
      /\ told' = told \cup {<<o, o>>} /\ reporting' = [reporting EXCEPT ![r] = NoSubmission]
      /\ edit' = edit
  BY DEF FileReport
<1> HIDE DEF o
<1>6. RType'
  BY <1>1, <1>4, <1>5 DEF TInv, RType
<1>7. TokenStays'
  <2>1. \A k \in Slip : slip'[k] # NoReport => report'[slip'[k]] # Unfiled
    BY <1>1, <1>4, <1>5 DEF TInv, RType, TokenStays
  <2>2. \A e \in Editor : edit[e].pc = "read" => edit[e].id \in Report
    BY DEF TInv, RType, NoEdit
  <2> QED BY <1>4, <1>5, <2>1, <2>2 DEF TInv, TokenStays
<1>8. Answered'
  BY <1>1, <1>4, <1>5 DEF TInv, RType, Answered
<1> QED BY <1>6, <1>7, <1>8 DEF TInv

LEMMA TRepeat == ASSUME TInv, NEW r \in Reporting, RepeatReport(r) PROVE TInv'
<1> DEFINE o == slip[reporting[r].slip]
<1>1. o \in Report /\ report[o] # Unfiled
  <2>1. reporting[r].slip \in Slip
    BY SubmissionTyped DEF RepeatReport, TInv
  <2> QED BY <2>1 DEF RepeatReport, TInv, RType, TokenStays
<1>2. StoredToken(r) = o
  BY <1>1 DEF StoredToken, TInv, TokenStays
<1>3. /\ told' = told \cup {<<o, o>>} /\ reporting' = [reporting EXCEPT ![r] = NoSubmission]
      /\ report' = report /\ slip' = slip /\ edit' = edit
  BY <1>2 DEF RepeatReport
<1> HIDE DEF o
<1>4. RType' /\ Answered'
  BY <1>1, <1>3 DEF TInv, RType, Answered
<1> QED BY <1>3, <1>4 DEF TInv, TokenStays

LEMMA TRead == ASSUME TInv, NEW e \in Editor, NEW kind \in Kinds, NEW o \in Report, ReadExt(e, kind, o) PROVE TInv'
<1>1. report[o] # Unfiled /\ report[o].ext \in Exts /\ report[o].ext.token = o
  BY DEF ReadExt, Filed, TInv, RType, TokenStays
<1>2. edit' = [edit EXCEPT ![e] = [pc |-> "read", kind |-> kind, id |-> o, ext |-> report[o].ext]]
  BY DEF ReadExt
<1> QED BY <1>1, <1>2 DEF ReadExt, TInv, RType, TokenStays, Answered

(* What an editor writes back: what it has read, and its mark.               *)
LEMMA WriteIs ==
  ASSUME TInv, NEW e \in Editor, WriteExt(e)
  PROVE  /\ edit[e].pc = "read" /\ edit[e].id \in Report
         /\ \E new \in Exts :
              /\ new.token = edit[e].id
              /\ new.marks = edit[e].ext.marks \cup {e} /\ new.count = edit[e].ext.count
              /\ report' = [report EXCEPT ![edit[e].id] = [ext |-> new, redone |-> report[edit[e].id].redone]]
         /\ edit' = [edit EXCEPT ![e] = [pc |-> "ended", kind |-> edit[e].kind, id |-> edit[e].id, ext |-> EmptyExt]]
         /\ edit' \in [Editor -> [pc : {"read", "ended"}, kind : Kinds, id : Report, ext : Exts] \cup {NoEdit}]
<1> DEFINE o == edit[e].id
           new == [token |-> edit[e].ext.token, marks |-> edit[e].ext.marks \cup {e}, count |-> edit[e].ext.count]
           done == [pc |-> "ended", kind |-> edit[e].kind, id |-> o, ext |-> EmptyExt]
<1>1. edit[e].pc = "read" /\ edit[e] \in [pc : {"read", "ended"}, kind : Kinds, id : Report, ext : Exts]
  BY DEF WriteExt, TInv, RType, NoEdit
<1>2. edit[e].ext \in Exts /\ o \in Report /\ edit[e].ext.token = o
  BY <1>1 DEF TInv, TokenStays
<1>3. new \in Exts /\ new.token = o
  BY <1>2 DEF Exts
<1>4. report' = [report EXCEPT ![o] = [ext |-> new, redone |-> report[o].redone]]
  <2>1. report \in [Report -> [ext : Exts, redone : Nat]]
    BY DEF TInv, RType
  <2>2. edit[e].ext.marks \cup {e} \in SUBSET Editor
    BY <1>2 DEF Exts
  <2>3. [edit[e].ext EXCEPT !.marks = edit[e].ext.marks \cup {e}] = new
    BY <1>2, <2>2, SetMarks
  <2>4. report' = [report EXCEPT ![o].ext = [edit[e].ext EXCEPT !.marks = edit[e].ext.marks \cup {e}]]
    BY Zenon DEF WriteExt
  <2>5. report' = [report EXCEPT ![o].ext = new]
    BY <2>3, <2>4, Zenon
  <2> HIDE DEF new, o
  <2>6. [report EXCEPT ![o].ext = new] = [report EXCEPT ![o] = [ext |-> new, redone |-> report[o].redone]]
    <3>1. report[o] \in [ext : Exts, redone : Nat]
      BY <1>2, <1>3, <2>1
    <3>2. [report[o] EXCEPT !.ext = new] = [ext |-> new, redone |-> report[o].redone]
      BY <1>2, <1>3, <3>1
    <3> QED BY <3>2, Zenon
  <2> QED BY <2>5, <2>6, Zenon
<1>5. edit' = [edit EXCEPT ![e] = done]
  <2>1. [edit[e] EXCEPT !.pc = "ended", !.ext = EmptyExt] = done
    BY <1>1, EmptyTyped, SetEnded
  <2>2. edit' = [edit EXCEPT ![e] = [edit[e] EXCEPT !.pc = "ended", !.ext = EmptyExt]]
    BY Zenon DEF WriteExt
  <2> QED BY <2>1, <2>2, Zenon
<1>6. done \in [pc : {"read", "ended"}, kind : Kinds, id : Report, ext : Exts]
  BY <1>1, EmptyTyped
<1> HIDE DEF done
<1>7. edit' \in [Editor -> [pc : {"read", "ended"}, kind : Kinds, id : Report, ext : Exts] \cup {NoEdit}]
  BY <1>5, <1>6 DEF TInv, RType
<1> QED BY <1>1, <1>2, <1>3, <1>4, <1>5, <1>7 DEF done

(* A report is rewritten, and its editors keep to what they have read of it. *)
LEMMA Rewritten ==
  ASSUME TInv, NEW o \in Report, NEW new \in Exts, NEW n \in Nat, new.token = o,
         report' = [report EXCEPT ![o] = [ext |-> new, redone |-> n]],
         slip' = slip, reporting' = reporting, told' = told,
         edit' \in [Editor -> [pc : {"read", "ended"}, kind : Kinds, id : Report, ext : Exts] \cup {NoEdit}],
         \A e \in Editor : edit'[e] = edit[e] \/ edit'[e].pc = "ended"
  PROVE  TInv'
<1>1. /\ report' \in [Report -> [ext : Exts, redone : Nat]]
      /\ \A p \in Report : report'[p] # Unfiled => report'[p].ext.token = p
      /\ \A p \in Report : report[p] # Unfiled => report'[p] # Unfiled
  BY Put
<1>2. \A e \in Editor : edit[e].pc = "read" => edit[e].id \in Report
  BY DEF TInv, RType, NoEdit
<1>3. RType' /\ Answered'
  BY <1>1 DEF TInv, RType, Answered
<1>4. TokenStays'
  BY <1>1, <1>2 DEF TInv, RType, TokenStays
<1> QED BY <1>3, <1>4 DEF TInv

LEMMA TWrite == ASSUME TInv, NEW e \in Editor, WriteExt(e) PROVE TInv'
<1> DEFINE o == edit[e].id
           done == [pc |-> "ended", kind |-> edit[e].kind, id |-> o, ext |-> EmptyExt]
<1>1. o \in Report /\ report[o].redone \in Nat
  BY WriteIs DEF TInv, RType
<1>2. PICK new \in Exts : /\ new.token = o
                         /\ report' = [report EXCEPT ![o] = [ext |-> new, redone |-> report[o].redone]]
  BY WriteIs
<1>3. \A f \in Editor : edit'[f] = edit[f] \/ edit'[f].pc = "ended"
  <2>1. edit' = [edit EXCEPT ![e] = done] /\ done.pc = "ended" /\ DOMAIN edit = Editor
    BY WriteIs DEF TInv, RType
  <2> QED BY <2>1
<1>4. /\ edit' \in [Editor -> [pc : {"read", "ended"}, kind : Kinds, id : Report, ext : Exts] \cup {NoEdit}]
      /\ slip' = slip /\ reporting' = reporting /\ told' = told
  BY WriteIs DEF WriteExt
<1> HIDE DEF o
<1> QED BY <1>1, <1>2, <1>3, <1>4, Rewritten

LEMMA CountIs ==
  ASSUME TInv, NEW o \in Report, CountRedispatch(o)
  PROVE  \E new \in Exts :
           /\ report' = [report EXCEPT ![o] = [ext |-> new, redone |-> report[o].redone + 1]]
           /\ new.token = o /\ new.marks = report[o].ext.marks /\ new.count = report[o].ext.count + 1
<1> DEFINE new == [token |-> report[o].ext.token, marks |-> report[o].ext.marks, count |-> report[o].ext.count + 1]
<1>1. report[o] \in [ext : Exts, redone : Nat]
  BY DEF TInv, RType
<1>2. new \in Exts /\ new.token = o
  BY <1>1 DEF Exts, CountRedispatch, Filed, TInv, TokenStays
<1>3. report' = [report EXCEPT ![o] = [ext |-> new, redone |-> report[o].redone + 1]]
  BY <1>1 DEF CountRedispatch, TInv, RType, Exts
<1> QED BY <1>2, <1>3

LEMMA TCount == ASSUME TInv, NEW o \in Report, CountRedispatch(o) PROVE TInv'
<1>1. PICK new \in Exts :
        /\ report' = [report EXCEPT ![o] = [ext |-> new, redone |-> report[o].redone + 1]]
        /\ new.token = o
  BY CountIs
<1>2. report[o].redone + 1 \in Nat /\ edit' = edit /\ slip' = slip /\ reporting' = reporting /\ told' = told
  BY DEF CountRedispatch, TInv, RType
<1>3. edit' \in [Editor -> [pc : {"read", "ended"}, kind : Kinds, id : Report, ext : Exts] \cup {NoEdit}]
  BY <1>2 DEF TInv, RType
<1> QED BY <1>1, <1>2, <1>3, Rewritten

LEMMA TStep == TInv /\ [ReportsNext]_rpvars => TInv'
<1> SUFFICES ASSUME TInv, [ReportsNext]_rpvars PROVE TInv'
  OBVIOUS
<1>1. CASE UNCHANGED rpvars
  BY <1>1 DEF rpvars, TInv, RType, TokenStays, Answered
<1>2. ASSUME NEW r \in Reporting, NEW k \in Slip \cup {NoSlip}, NEW o \in Report, BeginReport(r, k, o) PROVE TInv'
  BY <1>2, TSubmission DEF BeginReport
<1>3. ASSUME NEW r \in Reporting, Gather(r) \/ TakeSlip(r) \/ RefuseReport(r) PROVE TInv'
  <2>1. reporting[r].pc # "none" /\ UNCHANGED <<report, slip, told, edit>>
    BY <1>3 DEF Gather, TakeSlip, RefuseReport
  <2>2. CASE RefuseReport(r)
    BY <2>1, <2>2, TSubmission DEF RefuseReport
  <2>3. CASE Gather(r) \/ TakeSlip(r)
    <3>1. PICK pc \in {"asking", "holding"} : reporting' = [reporting EXCEPT ![r].pc = pc]
      BY <2>3 DEF Gather, TakeSlip
    <3> QED BY <2>1, <3>1, SubmissionMoves, TSubmission DEF TInv
  <2> QED BY <1>3, <2>2, <2>3
<1> QED BY <1>1, <1>2, <1>3, TFile, TRepeat, TRead, TWrite, TCount DEF ReportsNext, Kinds

(* The view token a reporter was given finds the order it was given for,     *)
(* whatever has been written into the order since (publicReportCreate.ts,    *)
(* storedToken).                                                             *)
THEOREM TokensSound == ReportsSpec => []TokenFindsReport
<1>1. TInv => TokenFindsReport
  BY DEF TInv, RType, TokenStays, Answered, TokenFindsReport
<1> QED BY <1>1, TStart, TStep, PTL DEF ReportsSpec
----------------------------------------------------------------------------
(* Nobody has read ext of a report that nobody may read now.                 *)
LEMMA Alone ==
  ASSUME TInv, NEW o \in Report, ~Locked(o), ~BeingEdited(o, {"correct"})
  PROVE  \A e \in Editor : edit[e].pc = "read" => edit[e].id # o
  BY DEF Locked, BeingEdited, TInv, RType, Kinds, NoEdit

(* Marks are added to a report that is rewritten, and its count goes along.  *)
LEMMA KeepsEvidence ==
  ASSUME EInv, NEW o \in Report, NEW new \in Exts, NEW n \in Nat,
         report' = [report EXCEPT ![o] = [ext |-> new, redone |-> n]],
         report[o].ext.marks \subseteq new.marks, new.count = n,
         \A e \in Editor : edit'[e].pc = "ended" =>
           \/ edit[e].pc = "ended" /\ edit'[e].id = edit[e].id
           \/ edit'[e].id = o /\ e \in new.marks
  PROVE  EvidenceKept'
<1>1. report'[o] = [ext |-> new, redone |-> n] /\ \A p \in Report \ {o} : report'[p] = report[p]
  BY DEF EInv, TInv, RType
<1>2. \A e \in Editor : edit[e].pc = "ended" => edit[e].id \in Report
  BY DEF EInv, TInv, RType, NoEdit
<1> QED BY <1>1, <1>2 DEF EInv, EvidenceKept

LEMMA EFile == ASSUME EInv, NEW r \in Reporting, FileReport(r) PROVE OwnReport' /\ OwnExt' /\ EvidenceKept'
<1> DEFINE o == reporting[r].id
<1>1. o \in Report /\ reporting[r].pc # "none"
  BY SubmissionTyped DEF EInv, TInv, FileReport
<1>2. report[o] = Unfiled
  BY <1>1 DEF EInv, OwnReport
<1>3. PICK new \in Exts :
        /\ new.token = o /\ new.marks = report[o].ext.marks /\ new.count = report[o].ext.count
        /\ report' = [report EXCEPT ![o] = [ext |-> new, redone |-> report[o].redone]]
  BY FileIs DEF EInv
<1>4. reporting' = [reporting EXCEPT ![r] = NoSubmission] /\ edit' = edit
  BY DEF FileReport
<1>5. \A p \in Report \ {o} : report'[p] = report[p]
  BY <1>3 DEF EInv, TInv, RType
<1>6. report[o].redone \in Nat /\ new.count = report[o].redone
  BY <1>1, <1>3 DEF EInv, TInv, RType, EvidenceKept
<1> HIDE DEF o
<1>7. OwnReport'
  <2> SUFFICES ASSUME NEW q \in Reporting, reporting'[q].pc # "none"
               PROVE  /\ report'[reporting'[q].id] = Unfiled
                      /\ \A u \in Reporting :
                            reporting'[u].pc # "none" /\ reporting'[u].id = reporting'[q].id => u = q
    BY DEF OwnReport
  <2>1. \A u \in Reporting : reporting'[u].pc # "none" => u # r /\ reporting'[u] = reporting[u]
    BY <1>4 DEF EInv, TInv, RType, NoSubmission
  <2>2. reporting[q].id \in Report \ {o}
    BY <1>1, <2>1, SubmissionTyped DEF EInv, TInv, OwnReport, o
  <2> QED BY <1>5, <2>1, <2>2 DEF EInv, OwnReport
<1>8. OwnExt'
  <2>1. \A e \in Editor : edit[e].pc = "read" => edit[e].id \in Report \ {o}
    BY <1>2 DEF EInv, TInv, RType, NoEdit, TokenStays
  <2> QED BY <1>4, <1>5, <2>1 DEF EInv, OwnExt
<1>9. EvidenceKept'
  BY <1>1, <1>3, <1>4, <1>6, KeepsEvidence
<1> QED BY <1>7, <1>8, <1>9

LEMMA ERead ==
  ASSUME EInv, Beside = FALSE, NEW e \in Editor, NEW kind \in Kinds, NEW o \in Report, ReadExt(e, kind, o)
  PROVE  OwnReport' /\ OwnExt' /\ EvidenceKept'
<1>1. ~Locked(o) /\ ~BeingEdited(o, {"correct"})
  BY DEF ReadExt, MayRead, Locked, BeingEdited, Kinds, Locking
<1>2. \A f \in Editor : edit[f].pc = "read" => edit[f].id # o
  BY <1>1, Alone DEF EInv
<1> DEFINE new == [pc |-> "read", kind |-> kind, id |-> o, ext |-> report[o].ext]
<1>3. edit' = [edit EXCEPT ![e] = new] /\ DOMAIN edit = Editor
  BY DEF ReadExt, EInv, TInv, RType
<1>4. new.pc = "read" /\ new.id = o /\ new.ext = report[o].ext
  OBVIOUS
<1> HIDE DEF new
<1>5. report' = report /\ reporting' = reporting
  BY DEF ReadExt
<1> QED BY <1>2, <1>3, <1>4, <1>5 DEF EInv, OwnReport, OwnExt, EvidenceKept

LEMMA EWrite == ASSUME EInv, NEW e \in Editor, WriteExt(e) PROVE OwnReport' /\ OwnExt' /\ EvidenceKept'
<1> DEFINE o == edit[e].id
           done == [pc |-> "ended", kind |-> edit[e].kind, id |-> o, ext |-> EmptyExt]
<1>1. o \in Report /\ edit[e].pc = "read" /\ edit[e].ext = report[o].ext /\ report[o].redone \in Nat
  BY WriteIs DEF EInv, TInv, RType, OwnExt
<1>2. PICK new \in Exts :
        /\ new.marks = edit[e].ext.marks \cup {e} /\ new.count = edit[e].ext.count
        /\ report' = [report EXCEPT ![o] = [ext |-> new, redone |-> report[o].redone]]
  BY WriteIs DEF EInv
<1>3. edit' = [edit EXCEPT ![e] = done] /\ done.pc = "ended" /\ done.id = o /\ DOMAIN edit = Editor
  BY WriteIs DEF EInv, TInv, RType
<1>4. reporting' = reporting
  BY DEF WriteExt
<1>5. \A p \in Report \ {o} : report'[p] = report[p]
  BY <1>2 DEF EInv, TInv, RType
<1>6. report[o] # Unfiled
  BY <1>1 DEF EInv, TInv, TokenStays
<1> HIDE DEF o, done
<1>7. OwnReport'
  <2>1. \A q \in Reporting : reporting[q].pc # "none" => reporting[q].id \in Report \ {o}
    BY <1>6, SubmissionTyped DEF EInv, TInv, OwnReport
  <2> QED BY <1>4, <1>5, <2>1 DEF EInv, OwnReport
<1>8. OwnExt'
  <2>1. \A f \in Editor : edit'[f].pc = "read" => f # e /\ edit'[f] = edit[f]
    BY <1>3
  <2>2. \A f \in Editor \ {e} : edit[f].pc = "read" => edit[f].id \in Report \ {o}
    BY <1>1 DEF EInv, TInv, RType, NoEdit, OwnExt, o
  <2> QED BY <1>5, <2>1, <2>2 DEF EInv, OwnExt
<1>9. EvidenceKept'
  <2>1. report[o].ext.marks \subseteq new.marks /\ new.count = report[o].redone
    BY <1>1, <1>2 DEF EInv, EvidenceKept
  <2>2. \A f \in Editor : edit'[f].pc = "ended" =>
          \/ edit[f].pc = "ended" /\ edit'[f].id = edit[f].id
          \/ edit'[f].id = o /\ f \in new.marks
    BY <1>2, <1>3
  <2> QED BY <1>1, <1>2, <2>1, <2>2, KeepsEvidence
<1> QED BY <1>7, <1>8, <1>9

LEMMA ECount ==
  ASSUME EInv, Beside = FALSE, NEW o \in Report, CountRedispatch(o)
  PROVE  OwnReport' /\ OwnExt' /\ EvidenceKept'
<1>1. PICK new \in Exts :
        /\ report' = [report EXCEPT ![o] = [ext |-> new, redone |-> report[o].redone + 1]]
        /\ new.marks = report[o].ext.marks /\ new.count = report[o].ext.count + 1
  BY CountIs DEF EInv
<1>2. \A e \in Editor : edit[e].pc = "read" => edit[e].id # o
  BY Alone DEF CountRedispatch, EInv
<1>3. \A p \in Report \ {o} : report'[p] = report[p]
  BY <1>1 DEF EInv, TInv, RType
<1>4. edit' = edit /\ reporting' = reporting /\ report[o] # Unfiled
  BY DEF CountRedispatch, Filed
<1>5. OwnReport'
  <2>1. \A q \in Reporting : reporting[q].pc # "none" => reporting[q].id \in Report \ {o}
    BY <1>4, SubmissionTyped DEF EInv, TInv, OwnReport
  <2> QED BY <1>3, <1>4, <2>1 DEF EInv, OwnReport
<1>6. OwnExt'
  <2>1. \A e \in Editor : edit[e].pc = "read" => edit[e].id \in Report
    BY DEF EInv, TInv, RType, NoEdit
  <2> QED BY <1>2, <1>3, <1>4, <2>1 DEF EInv, OwnExt
<1>7. EvidenceKept'
  <2>1. report[o].redone + 1 \in Nat /\ new.count = report[o].redone + 1
    BY <1>1 DEF EInv, TInv, RType, EvidenceKept
  <2>2. \A e \in Editor : edit'[e].pc = "ended" => edit[e].pc = "ended" /\ edit'[e].id = edit[e].id
    BY <1>4
  <2>3. report[o].ext.marks \subseteq new.marks
    BY <1>1
  <2> DEFINE n == report[o].redone + 1
  <2> HIDE DEF n
  <2> QED BY <1>1, <2>1, <2>2, <2>3, KeepsEvidence DEF n
<1> QED BY <1>5, <1>6, <1>7

(* A submission begins, moves or ends, and files nothing.                    *)
LEMMA ESubmission ==
  ASSUME EInv, UNCHANGED <<report, edit>>, NEW r \in Reporting, NEW new,
         reporting' = [reporting EXCEPT ![r] = new],
         new.pc # "none" =>
           /\ report[new.id] = Unfiled
           /\ \A q \in Reporting \ {r} : reporting[q].pc # "none" => reporting[q].id # new.id
  PROVE  OwnReport' /\ OwnExt' /\ EvidenceKept'
<1>1. reporting'[r] = new /\ \A q \in Reporting \ {r} : reporting'[q] = reporting[q]
  BY DEF EInv, TInv, RType
<1>2. OwnReport'
  <2> SUFFICES ASSUME NEW q \in Reporting, reporting'[q].pc # "none"
               PROVE  /\ report[reporting'[q].id] = Unfiled
                      /\ \A u \in Reporting :
                            reporting'[u].pc # "none" /\ reporting'[u].id = reporting'[q].id => u = q
    BY DEF OwnReport
  <2>1. CASE q = r
    BY <1>1, <2>1
  <2>2. CASE q # r
    BY <1>1, <2>2 DEF EInv, OwnReport
  <2> QED BY <2>1, <2>2
<1> QED BY <1>2 DEF EInv, OwnExt, EvidenceKept

LEMMA EStep == ASSUME Beside = FALSE, EInv, [ReportsNext]_rpvars PROVE EInv'
<1>1. TInv'
  BY TStep DEF EInv
<1>2. CASE UNCHANGED rpvars
  BY <1>2 DEF rpvars, EInv, TInv, RType, TokenStays, Answered, OwnReport, OwnExt, EvidenceKept
<1>3. ASSUME NEW r \in Reporting, NEW k \in Slip \cup {NoSlip}, NEW o \in Report, BeginReport(r, k, o)
      PROVE  OwnReport' /\ OwnExt' /\ EvidenceKept'
  <2> DEFINE new == [pc |-> "fetching", slip |-> k, id |-> o]
  <2>1. reporting' = [reporting EXCEPT ![r] = new] /\ UNCHANGED <<report, edit>>
    BY <1>3 DEF BeginReport
  <2>2. report[o] = Unfiled /\ \A q \in Reporting : reporting[q].id # o
    BY <1>3 DEF BeginReport, Filed
  <2> QED BY <2>1, <2>2, ESubmission
<1>4. ASSUME NEW r \in Reporting, Gather(r) \/ TakeSlip(r)
      PROVE  OwnReport' /\ OwnExt' /\ EvidenceKept'
  <2>1. reporting[r].pc # "none" /\ UNCHANGED <<report, edit>>
    BY <1>4 DEF Gather, TakeSlip
  <2>2. PICK pc \in {"asking", "holding"} : reporting' = [reporting EXCEPT ![r].pc = pc]
    BY <1>4 DEF Gather, TakeSlip
  <2>3. PICK new \in [pc : {"fetching", "asking", "holding"}, slip : Slip \cup {NoSlip}, id : Report] :
          reporting' = [reporting EXCEPT ![r] = new] /\ new.id = reporting[r].id
    BY <2>1, <2>2, SubmissionMoves DEF EInv, TInv
  <2>4. /\ report[new.id] = Unfiled
        /\ \A q \in Reporting \ {r} : reporting[q].pc # "none" => reporting[q].id # new.id
    BY <2>1, <2>3 DEF EInv, OwnReport
  <2> QED BY <2>1, <2>3, <2>4, ESubmission
<1>5. ASSUME NEW r \in Reporting, RefuseReport(r) \/ RepeatReport(r)
      PROVE  OwnReport' /\ OwnExt' /\ EvidenceKept'
  <2>1. reporting' = [reporting EXCEPT ![r] = NoSubmission] /\ UNCHANGED <<report, edit>>
    BY <1>5 DEF RefuseReport, RepeatReport
  <2> QED BY <2>1, ESubmission DEF NoSubmission
<1>6. ReportsNext => OwnReport' /\ OwnExt' /\ EvidenceKept'
  BY <1>3, <1>4, <1>5, EFile, ERead, EWrite, ECount DEF ReportsNext, Kinds
<1> QED BY <1>1, <1>2, <1>6 DEF EInv

(* What has been written into an order stays there, as long as corrections   *)
(* wait for the other writers of ext, which PATCH /public/report-correct     *)
(* does not make them do: its read takes no lock (publicReport.ts).          *)
THEOREM EvidenceSound == ASSUME Beside = FALSE PROVE ReportsSpec => []EvidenceKept
<1>1. ReportsInit => EInv
  BY TStart, EmptyTyped
  DEF ReportsInit, EInv, OwnReport, OwnExt, EvidenceKept, NoSubmission, NoEdit, Unfiled, EmptyExt
<1>2. EInv /\ [ReportsNext]_rpvars => EInv'
  BY EStep
<1>3. EInv => EvidenceKept
  BY DEF EInv
<1> QED BY <1>1, <1>2, <1>3, PTL DEF ReportsSpec
=============================================================================
