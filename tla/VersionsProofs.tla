---------------------------- MODULE VersionsProofs ----------------------------
(* NothingLost and the append-only log of versions, for any definitions and  *)
(* users: as long as no other writer of the live definition is under way     *)
(* beside a rollback.                                                        *)
EXTENDS WorkflowVersions, TLAPS

Request == [kind : Kinds \cup {"none"}, step : {"idle", "tuned", "gated"}, def : Def \cup {NoDef},
            expect : Nat \cup {Unanchored}, cur : Nat, curdef : Def \cup {NoDef}, id : Nat, retried : BOOLEAN]
Change  == [id : Nat, status : {"none", "draft", "submitted"}, def : Def \cup {NoDef}, base : Nat, rev : Nat,
            by : User \cup {"nobody"}]
VType ==
  /\ live \in [version : 0..MaxVersion, def : Def \cup {NoDef}]
  /\ hist \in [1..MaxVersion -> Def \cup {NoDef}]
  /\ change \in Change
  /\ tx \in [User -> Request]

(* The history is of the versions before the live one, no more and no less.  *)
Recorded ==
  /\ live.version = 0 <=> live.def = NoDef
  /\ \A v \in 1..MaxVersion : hist[v] # NoDef <=> v < live.version
(* A draft was made of the live version or of an earlier one.                *)
Drafts == change.status # "none" => change.def \in Def /\ change.base <= live.version
(* A writer past the gates has read the live row as it is or as it was, and  *)
(* as it was only when it expects so.                                        *)
Sound(t) ==
  /\ t.step # "idle" => t.def \in Def
  /\ t.step = "tuned" => t.kind = "tune" /\ live.version > 0
  /\ t.step = "gated" =>
       /\ t.cur <= live.version
       /\ t.cur = live.version /\ t.cur > 0 => t.curdef = live.def
       /\ t.kind # "rollback" => t.expect \in 0..t.cur
       /\ t.kind = "rollback" => t.cur = live.version /\ t.cur > 0
       /\ t.kind = "tune" => t.expect = t.cur /\ live.version > 0
Writers == \A u \in User : Sound(tx[u])
VInv == VType /\ Recorded /\ Drafts /\ Writers
----------------------------------------------------------------------------
LEMMA IdleTyped == Idle \in Request /\ Idle.step = "idle" /\ Idle.kind = "none"
  BY VersionAssumption DEF Idle, Request, VersionAssumption

(* What becomes of a request as it passes the gates.                         *)
PassedWith(t, c, d) == [t EXCEPT !.step = "gated", !.cur = c, !.curdef = d]
LEMMA Passed ==
  ASSUME NEW t \in Request, NEW c \in Nat, NEW d \in Def \cup {NoDef}
  PROVE  /\ PassedWith(t, c, d) \in Request /\ PassedWith(t, c, d).step = "gated"
         /\ PassedWith(t, c, d).cur = c /\ PassedWith(t, c, d).curdef = d
         /\ PassedWith(t, c, d).kind = t.kind /\ PassedWith(t, c, d).def = t.def
         /\ PassedWith(t, c, d).expect = t.expect
<1> DEFINE n == PassedWith(t, c, d)
<1>1. n = [t EXCEPT !.step = "gated", !.cur = c, !.curdef = d]
  BY DEF PassedWith
<1> HIDE DEF n
<1>2. n \in Request
  BY <1>1 DEF Request
<1>3. /\ n.step = "gated" /\ n.cur = c /\ n.curdef = d /\ n.kind = t.kind /\ n.def = t.def
      /\ n.expect = t.expect
  BY <1>1 DEF Request
<1> QED BY <1>2, <1>3 DEF n

LEMMA GatedKeeps ==
  ASSUME VInv, NEW u \in User, NEW t \in Request, tx' = [tx EXCEPT ![u] = PassedWith(t, live.version, live.def)],
         UNCHANGED <<live, hist, change>>,
         t.def \in Def, t.kind # "rollback" => t.expect \in 0..live.version,
         t.kind = "rollback" => live.version > 0,
         t.kind = "tune" => t.expect = live.version /\ live.version > 0
  PROVE  VInv'
<1> DEFINE n == PassedWith(t, live.version, live.def)
<1>1. tx' = [tx EXCEPT ![u] = n]
  OBVIOUS
<1>2. live.version \in Nat /\ live.def \in Def \cup {NoDef}
  BY DEF VInv, VType
<1>3. /\ n \in Request /\ n.step = "gated" /\ n.cur = live.version /\ n.curdef = live.def
      /\ n.kind = t.kind /\ n.def = t.def /\ n.expect = t.expect
  BY <1>2, Passed
<1> HIDE DEF n
<1>4. Sound(n)
  BY <1>2, <1>3 DEF Sound
<1> QED BY <1>1, <1>3, <1>4 DEF VInv, VType, Recorded, Drafts, Writers, Sound

LEMMA VStart == Init => VInv
<1> SUFFICES ASSUME Init PROVE VInv
  OBVIOUS
<1>1. VType
  BY IdleTyped, VersionAssumption DEF Init, VType, VersionAssumption, NoChange, Change
<1>2. Recorded
  BY VersionAssumption DEF Init, Recorded, VersionAssumption
<1>3. Drafts /\ Writers
  BY IdleTyped DEF Init, Drafts, Writers, Sound, NoChange
<1> QED BY <1>1, <1>2, <1>3 DEF VInv

(* The shipped definition becomes the first version, if there is none.       *)
LEMMA EnsureIs ==
  ASSUME VInv, Ensure
  PROVE  /\ live' \in [version : 0..MaxVersion, def : Def \cup {NoDef}]
         /\ live'.version > 0 /\ live'.def \in Def
         /\ live = live' \/ (live.version = 0 /\ live' = [version |-> 1, def |-> Default])
  BY VersionAssumption DEF VInv, VType, Recorded, Ensure, Ensured, VersionAssumption

LEMMA EnsureKeeps ==
  ASSUME VInv, Ensure, hist' = hist
  PROVE  Recorded' /\ \A t \in Request : Sound(t) => Sound(t)'
<1>1. Recorded'
  BY EnsureIs, VersionAssumption DEF VInv, VType, Recorded, VersionAssumption
<1>2. ASSUME NEW t \in Request, Sound(t) PROVE Sound(t)'
  BY <1>2, EnsureIs DEF Sound, VInv, VType, Request
<1> QED BY <1>1, <1>2

(* A draft that is saved, submitted or sent back is of a version there is.   *)
LEMMA DraftedIs ==
  ASSUME VInv, NEW u \in User, NEW d \in Def, NEW base, NEW version \in Nat, Drafted(u, d, base, version)
  PROVE  change' \in Change /\ change'.def \in Def /\ change'.base = version
  BY DEF Drafted, VInv, VType, Change

LEMMA DraftKeeps ==
  ASSUME VInv, UNCHANGED <<live, hist, tx>>, change' \in Change,
         change'.status # "none" => change'.def \in Def /\ change'.base <= live.version
  PROVE  VInv'
  BY DEF VInv, VType, Recorded, Drafts, Writers, Sound

LEMMA VDraft == ASSUME VInv, DraftStep PROVE VInv'
<1>1. live.version \in Nat
  BY DEF VInv, VType
<1>2. ASSUME NEW u \in User, Submitted(u) PROVE VInv'
  <2>1. change.def \in Def
    BY <1>2 DEF Submitted, VInv, Drafts
  <2>2. /\ [change EXCEPT !.status = "submitted", !.by = u, !.base = live.version] \in Change
        /\ [change EXCEPT !.status = "submitted", !.by = u, !.base = live.version].def = change.def
        /\ [change EXCEPT !.status = "submitted", !.by = u, !.base = live.version].base = live.version
    BY <1>1 DEF VInv, VType, Change
  <2> QED BY <1>1, <1>2, <2>1, <2>2, DraftKeeps DEF Submitted
<1>3. ASSUME Rejected PROVE VInv'
  <2>1. change.def \in Def /\ change.base <= live.version
    BY <1>3 DEF Rejected, VInv, Drafts
  <2>2. /\ [change EXCEPT !.status = "draft"] \in Change
        /\ [change EXCEPT !.status = "draft"].def = change.def
        /\ [change EXCEPT !.status = "draft"].base = change.base
    BY DEF VInv, VType, Change
  <2> QED BY <1>3, <2>1, <2>2, DraftKeeps DEF Rejected
<1>4. ASSUME NEW u \in User, NEW d \in Def, NEW base, Drafted(u, d, base, live.version),
             UNCHANGED <<live, hist, tx>>
      PROVE  VInv'
  BY <1>1, <1>4, DraftedIs, DraftKeeps
<1>5. ASSUME NEW u \in User, NEW d \in Def, EnableAcceptance(u, d) PROVE VInv'
  <2>1. Ensure /\ UNCHANGED <<hist, tx>> /\ Ensured = live'
    BY <1>5 DEF EnableAcceptance, Ensure
  <2>2. change' = change \/ Drafted(u, d, Unanchored, live'.version)
    BY <1>5, <2>1 DEF EnableAcceptance
  <2>3. live'.version \in Nat /\ live.version <= live'.version
    BY <1>1, <2>1, EnsureIs DEF VInv, VType
  <2>4. change' \in Change /\ Drafts'
    <3>1. CASE change' = change
      BY <1>1, <2>3, <3>1 DEF VInv, VType, Drafts, Change
    <3>2. CASE Drafted(u, d, Unanchored, live'.version)
      BY <2>3, <3>2, DraftedIs DEF Drafts
    <3> QED BY <2>2, <3>1, <3>2
  <2>5. VType'
    BY <2>1, <2>4, EnsureIs DEF VInv, VType
  <2>6. Recorded' /\ Writers'
    BY <2>1, EnsureKeeps DEF VInv, VType, Writers
  <2> QED BY <2>4, <2>5, <2>6 DEF VInv
<1> QED BY <1>2, <1>3, <1>4, <1>5, VersionAssumption
    DEF DraftStep, Submit, SubmitForTenant, Reject, RejectForTenant, GenerateFromTheme, Import,
        SaveDraft, SaveForTenant, VersionAssumption
----------------------------------------------------------------------------
(* Requests that end, or that the gates let through.                         *)
LEMMA IdleKeeps ==
  ASSUME VInv, UNCHANGED <<live, hist, change>>, NEW u \in User, tx' = [tx EXCEPT ![u] = Idle]
  PROVE  VInv'
  BY IdleTyped DEF VInv, VType, Recorded, Drafts, Writers, Sound

LEMMA VApprove == ASSUME VInv, NEW u \in User, NEW confirm, Approving(u, confirm) PROVE VInv'
<1> DEFINE t == [Idle EXCEPT !.kind = "approve", !.def = change.def, !.expect = change.base, !.id = change.id]
<1>1. tx' = [tx EXCEPT ![u] = PassedWith(t, live.version, live.def)] /\ UNCHANGED <<live, hist, change>> /\ "approve" \in Kinds
  BY DEF Approving, Start, Gated, PassedWith
<1>2. change.def \in Def /\ change.base \in 0..live.version /\ change.id \in Nat /\ live.version \in Nat
  BY DEF Approving, VInv, VType, Drafts, Change
<1>3. t \in Request /\ t.def = change.def /\ t.expect = change.base /\ t.kind = "approve"
  <2>1. change.base \in Nat /\ change.def \in Def \cup {NoDef}
    BY <1>2
  <2> QED BY <1>1, <1>2, <2>1 DEF Idle, Request
<1> HIDE DEF t
<1> QED BY <1>1, <1>2, <1>3, GatedKeeps

LEMMA VTemplate == ASSUME VInv, NEW u \in User, NEW d \in Def, BeginTemplate(u, d) PROVE VInv'
<1> DEFINE t == [Idle EXCEPT !.kind = "template", !.def = d, !.expect = live.version]
<1>1. tx' = [tx EXCEPT ![u] = PassedWith(t, live.version, live.def)] /\ UNCHANGED <<live, hist, change>> /\ "template" \in Kinds
  BY DEF BeginTemplate, Start, Gated, PassedWith
<1>0. live.version \in Nat
  BY DEF VInv, VType
<1>2. t \in Request /\ t.def = d /\ t.expect = live.version /\ t.kind = "template"
  BY <1>0, <1>1 DEF Idle, Request
<1> HIDE DEF t
<1>3. t.expect \in 0..live.version /\ t.kind # "rollback" /\ t.kind # "tune"
  BY <1>0, <1>2
<1> QED BY <1>0, <1>1, <1>2, <1>3, GatedKeeps

LEMMA VRollback ==
  ASSUME VInv, NEW u \in User, NEW v \in DOMAIN hist, NEW confirm, BeginRollback(u, v, confirm)
  PROVE  VInv'
<1> DEFINE t == [Idle EXCEPT !.kind = "rollback", !.def = hist[v]]
<1>1. tx' = [tx EXCEPT ![u] = PassedWith(t, live.version, live.def)] /\ UNCHANGED <<live, hist, change>> /\ "rollback" \in Kinds
  BY DEF BeginRollback, Start, Gated, PassedWith
<1>2. hist[v] \in Def /\ live.version > 0 /\ live.version \in Nat
  BY DEF BeginRollback, VInv, VType, Recorded
<1>3. t \in Request /\ t.def = hist[v] /\ t.kind = "rollback"
  BY <1>1, <1>2, VersionAssumption DEF Idle, Request, VersionAssumption
<1> HIDE DEF t
<1> QED BY <1>1, <1>2, <1>3, GatedKeeps

LEMMA VBeginTune == ASSUME VInv, NEW u \in User, BeginTune(u) PROVE VInv'
<1> DEFINE t == [Idle EXCEPT !.kind = "tune", !.step = "tuned", !.def = Tune[Ensured.def]]
<1>1. Ensure /\ Ensured = live' /\ tx' = [tx EXCEPT ![u] = t] /\ UNCHANGED <<hist, change>> /\ "tune" \in Kinds
  BY DEF BeginTune, Ensure, Start
<1>2. Tune[live'.def] \in Def /\ live'.version > 0 /\ live'.version \in Nat /\ live.version <= live'.version
  BY <1>1, EnsureIs, VersionAssumption DEF VersionAssumption, VInv, VType
<1>3. t \in Request /\ t.def = Tune[live'.def] /\ t.step = "tuned" /\ t.kind = "tune"
  BY <1>1, <1>2, VersionAssumption DEF Idle, Request, VersionAssumption
<1> HIDE DEF t
<1>10. PICK n \in Request : tx' = [tx EXCEPT ![u] = n] /\ n.def = Tune[live'.def] /\ n.step = "tuned" /\ n.kind = "tune"
  BY <1>1, <1>3
<1>4. VType'
  BY <1>1, <1>10, EnsureIs DEF VInv, VType
<1>5. Recorded' /\ \A r \in Request : Sound(r) => Sound(r)'
  BY <1>1, EnsureKeeps
<1>6. Sound(n)'
  BY <1>2, <1>10 DEF Sound
<1>7. Writers'
  BY <1>5, <1>6, <1>10 DEF VInv, VType, Writers
<1>8. Drafts'
  BY <1>1, <1>2 DEF VInv, VType, Drafts, Change
<1> QED BY <1>4, <1>5, <1>7, <1>8 DEF VInv

LEMMA VContinueTune == ASSUME VInv, NEW u \in User, ContinueTune(u) PROVE VInv'
<1> DEFINE t == [tx[u] EXCEPT !.expect = live.version]
<1>1. tx' = [tx EXCEPT ![u] = PassedWith(t, live.version, live.def)] /\ UNCHANGED <<live, hist, change>>
  BY DEF ContinueTune, Gated, PassedWith
<1>2. tx[u] \in Request /\ tx[u].kind = "tune" /\ tx[u].def \in Def /\ live.version > 0 /\ live.version \in Nat
  BY DEF ContinueTune, VInv, VType, Writers, Sound
<1>3. t \in Request /\ t.def = tx[u].def /\ t.kind = "tune" /\ t.expect = live.version
  BY <1>2 DEF Request
<1> HIDE DEF t
<1>4. t.expect \in 0..live.version /\ t.kind # "rollback" /\ t.def \in Def
  BY <1>2, <1>3
<1> QED BY <1>1, <1>2, <1>3, <1>4, GatedKeeps

(* A second try finds the version it read recorded already.                  *)
LEMMA VRetry == ASSUME VInv, NEW u \in User, Retry(u) PROVE VInv' /\ UNCHANGED <<live, hist>>
<1> DEFINE r == [Idle EXCEPT !.kind = "tune", !.step = "tuned", !.def = Tune[live.def], !.retried = TRUE]
           t == tx[u]
<1>1. t \in Request /\ Sound(t) /\ t.step = "gated" /\ t.kind = "tune" /\ ~Current(t)
  BY DEF Retry, VInv, VType, Writers
<1>2. live.version \in 1..MaxVersion /\ Tune[live.def] \in Def
  BY <1>1, VersionAssumption DEF Sound, VInv, VType, Recorded, VersionAssumption
<1>3. Kept(t) = hist
  <2>1. t.cur = 0 \/ t.cur < live.version
    BY <1>1, <1>2 DEF Sound, Current, Request
  <2>2. t.cur # 0 => t.cur \in 1..MaxVersion
    BY <1>1, <1>2, <2>1, VersionAssumption DEF Request, VersionAssumption
  <2> QED BY <2>1, <2>2 DEF Kept, VInv, Recorded
<1>4. tx' = [tx EXCEPT ![u] = r] /\ UNCHANGED <<live, hist, change>>
  BY <1>3 DEF Retry
<1>5. r \in Request /\ Sound(r)
  BY <1>1, <1>2, VersionAssumption DEF Idle, Request, Sound, VersionAssumption
<1> HIDE DEF r, t
<1> QED BY <1>4, <1>5 DEF VInv, VType, Recorded, Drafts, Writers, Sound
----------------------------------------------------------------------------
(* Who publishes has read the live row as it is, and records it.             *)
LEMMA PublishIs ==
  ASSUME VInv, NEW u \in User, Publish(u)
  PROVE  /\ live.version \in 1..MaxVersion /\ live.version + 1 \in 1..MaxVersion /\ live.def \in Def
         /\ tx[u].def \in Def /\ live' = [version |-> live.version + 1, def |-> tx[u].def]
         /\ hist' = [hist EXCEPT ![live.version] = live.def]
         /\ tx[u] # Idle /\ tx' = [tx EXCEPT ![u] = Idle]
<1> DEFINE t == tx[u]
<1>1. t \in Request /\ Sound(t) /\ t.step = "gated" /\ Current(t) /\ live.version < MaxVersion
  BY DEF Publish, VInv, VType, Writers
<1>2. live.version \in Nat /\ MaxVersion \in Nat
  BY VersionAssumption DEF VInv, VType, VersionAssumption
<1>3. t.cur = live.version /\ live.version > 0 /\ t.curdef = live.def /\ t.def \in Def
  <2>1. CASE t.kind = "rollback"
    BY <1>1, <1>2, <2>1 DEF Sound, Request
  <2>2. CASE t.kind # "rollback"
    <3>1. t.expect \in 0..t.cur /\ t.cur \in Nat /\ t.cur <= live.version
      BY <1>1, <2>2 DEF Sound, Request
    <3>2. t.expect # Unanchored
      BY <3>1, VersionAssumption DEF VersionAssumption
    <3>3. t.cur # 0 /\ t.expect = live.version
      BY <1>1, <3>2 DEF Current
    <3> QED BY <1>1, <1>2, <3>1, <3>3 DEF Sound
  <2> QED BY <2>1, <2>2
<1>4. live.version \in 1..MaxVersion /\ live.version + 1 \in 1..MaxVersion
  BY <1>1, <1>2, <1>3
<1>5. hist[live.version] = NoDef /\ live.def \in Def
  BY <1>2, <1>4 DEF VInv, VType, Recorded
<1>6. hist' = [hist EXCEPT ![live.version] = live.def]
  BY <1>3, <1>5, <1>4 DEF Publish, Kept
<1> QED BY <1>1, <1>3, <1>4, <1>5, <1>6, IdleTyped DEF Publish

LEMMA VPublish == ASSUME VInv, RollbackAlone, NEW u \in User, Publish(u) PROVE VInv'
<1>1. VType'
  <2>1. change' \in Change
    BY DEF Publish, VInv, VType, NoChange, Change
  <2>2. hist' \in [1..MaxVersion -> Def \cup {NoDef}] /\ live' \in [version : 0..MaxVersion, def : Def \cup {NoDef}]
    BY PublishIs DEF VInv, VType
  <2>3. tx' \in [User -> Request]
    BY PublishIs, IdleTyped DEF VInv, VType
  <2> QED BY <2>1, <2>2, <2>3 DEF VType
<1>2. Recorded'
  <2>1. live'.version = live.version + 1 /\ live'.def = tx[u].def /\ live.version \in Nat /\ live'.def # NoDef
    BY PublishIs, VersionAssumption DEF VInv, VType, VersionAssumption
  <2>2. \A v \in 1..MaxVersion : hist'[v] # NoDef <=> v < live.version + 1
    <3> SUFFICES ASSUME NEW v \in 1..MaxVersion PROVE hist'[v] # NoDef <=> v < live.version + 1
      OBVIOUS
    <3>1. hist' = [hist EXCEPT ![live.version] = live.def] /\ live.def # NoDef
      BY PublishIs, VersionAssumption DEF VersionAssumption
    <3>2. hist[v] # NoDef <=> v < live.version
      BY DEF VInv, Recorded
    <3>3. DOMAIN hist = 1..MaxVersion
      BY DEF VInv, VType
    <3>4. CASE v = live.version
      BY <2>1, <3>1, <3>3, <3>4
    <3>5. CASE v # live.version
      BY <2>1, <3>1, <3>2, <3>3, <3>5
    <3> QED BY <3>4, <3>5
  <2> QED BY <2>1, <2>2 DEF Recorded
<1>3. Drafts'
  <2>1. live'.version = live.version + 1 /\ live.version \in Nat
    BY PublishIs
  <2>2. change' = change \/ change'.status = "none"
    BY DEF Publish, NoChange
  <2> QED BY <2>1, <2>2 DEF VInv, VType, Drafts, Change
<1>4. Writers'
  <2>1. tx'[u] = Idle /\ \A v \in User \ {u} : tx'[v] = tx[v] /\ tx[v].kind # "rollback"
    BY PublishIs DEF VInv, VType, RollbackAlone
  <2>2. live'.version = live.version + 1 /\ live.version \in Nat
    BY PublishIs
  <2>3. ASSUME NEW t \in Request, Sound(t), t.kind # "rollback" PROVE Sound(t)'
    BY <2>2, <2>3 DEF Sound, Request
  <2>4. Sound(Idle)'
    BY IdleTyped DEF Sound
  <2> QED BY <2>1, <2>3, <2>4 DEF VInv, VType, Writers
<1> QED BY <1>1, <1>2, <1>3, <1>4 DEF VInv

LEMMA VStep == ASSUME VInv, RollbackAlone, [Next]_vars PROVE VInv'
<1>1. CASE UNCHANGED vars
  BY <1>1 DEF vars, VInv, VType, Recorded, Drafts, Writers, Sound
<1>2. ASSUME UNCHANGED <<live, hist, change, tx>> PROVE VInv'
  BY <1>2 DEF VInv, VType, Recorded, Drafts, Writers, Sound
<1>3. ASSUME WriteStep PROVE VInv'
  <2>1. ASSUME NEW u \in User, Abort(u) PROVE VInv'
    BY <2>1, IdleKeeps DEF Abort
  <2> QED BY <1>3, <2>1, VApprove, VRollback, VTemplate, VBeginTune, VContinueTune, VPublish, VRetry
      DEF WriteStep, BeginApprove, ApproveForTenant
<1> QED BY <1>1, <1>2, <1>3, VDraft DEF Next, SetOwner, CreateOrder, MoveOrder

(* No definition that was live is lost (saveWorkflowDef), as long as no      *)
(* other writer is under way beside a rollback.                              *)
THEOREM HistorySound == Spec /\ []RollbackAlone => []NothingLost
<1>1. VInv /\ RollbackAlone /\ [Next]_vars => VInv'
  BY VStep
<1>2. VInv => NothingLost
  BY DEF VInv, Recorded, NothingLost
<1> QED BY <1>1, <1>2, VStart, PTL DEF Spec
----------------------------------------------------------------------------
Readable ==
  /\ Versions \in [1..live.version -> Def]
  /\ \A v \in 1..live.version : Versions[v] = IF v = live.version THEN live.def ELSE hist[v]
LEMMA VersionsAre == VInv => Readable
<1> SUFFICES ASSUME VInv, NEW v \in 1..live.version
             PROVE  Lookup(v) \in Def /\ Lookup(v) = IF v = live.version THEN live.def ELSE hist[v]
  BY DEF Readable, Versions
<1>1. live.version \in 0..MaxVersion /\ live.def \in Def \cup {NoDef} /\ MaxVersion \in Nat /\ NoDef \notin Def
  BY VersionAssumption DEF VInv, VType, VersionAssumption
<1>2. live.def \in Def /\ LiveDef = live.def
  BY <1>1 DEF LiveDef, VInv, Recorded
<1>3. v < live.version => v \in DOMAIN hist /\ hist[v] \in Def
  BY <1>1 DEF VInv, VType, Recorded
<1> QED BY <1>1, <1>2, <1>3 DEF Lookup

LEMMA VersionsNext == VInv' => Readable'
  BY VersionsAre, PTL

LEMMA LogStart == ASSUME Init PROVE Log!Init
<1>1. VInv
  BY VStart
<1>2. CASE live.version = 0
  <2>1. Versions = <<>>
    BY <1>2 DEF Versions
  <2> QED BY <2>1 DEF Log!Init
<1>3. CASE live.version = 1
  <2>1. Versions \in [1..1 -> Def]
    BY <1>1, <1>3, VersionsAre DEF Readable
  <2>2. Versions = <<Versions[1]>> /\ Versions[1] \in Def
    BY <2>1
  <2> QED BY <2>2 DEF Log!Init
<1> QED BY <1>2, <1>3 DEF Init

LEMMA LogSame == ASSUME UNCHANGED <<live, hist>> PROVE Versions' = Versions
  BY DEF Versions, Lookup, LiveDef

(* A version is added, and every earlier one reads as before.                *)
LEMMA LogGrows ==
  ASSUME VInv, VInv', live'.version = live.version + 1,
         \A v \in 1..live.version : hist'[v] = IF v = live.version THEN live.def ELSE hist[v]
  PROVE  Log!Next
<1> DEFINE n == live.version
<1>1. n \in Nat
  BY DEF VInv, VType
<1>2. Versions \in [1..n -> Def]
      /\ \A v \in 1..n : Versions[v] = IF v = n THEN live.def ELSE hist[v]
  BY VersionsAre DEF Readable
<1>3. Versions' \in [1..(n + 1) -> Def]
      /\ \A v \in 1..(n + 1) : Versions'[v] = IF v = n + 1 THEN live'.def ELSE hist'[v]
  BY VersionsNext DEF Readable
<1> DEFINE d == Versions'[n + 1]
<1>4. \A v \in 1..n : Versions'[v] = Versions[v]
  BY <1>1, <1>2, <1>3
<1>5. Versions' = Append(Versions, d) /\ d \in Def
  <2> HIDE DEF n
  <2>1. Versions \in Seq(Def) /\ Len(Versions) = n
    BY <1>1, <1>2
  <2>2. Append(Versions, d) = [v \in 1..(n + 1) |-> IF v = n + 1 THEN d ELSE Versions[v]]
    BY <1>1, <2>1
  <2> QED BY <1>1, <1>3, <1>4, <2>2
<1> QED BY <1>5 DEF Log!Next, Log!Publish

LEMMA LogStep == ASSUME VInv, RollbackAlone, [Next]_vars PROVE [Log!Next]_Versions
<1>1. VInv'
  BY VStep
<1>2. ASSUME UNCHANGED <<live, hist>> PROVE [Log!Next]_Versions
  BY <1>2, LogSame
<1>3. ASSUME Ensure, hist' = hist PROVE [Log!Next]_Versions
  <2>1. CASE live' = live
    BY <1>3, <2>1, LogSame
  <2>2. CASE live' # live
    <3>1. live.version = 0 /\ live'.version = 1
      BY <1>3, <2>2, EnsureIs
    <3> QED BY <1>1, <3>1, LogGrows
  <2> QED BY <2>1, <2>2
<1>4. ASSUME NEW u \in User, Publish(u) PROVE [Log!Next]_Versions
  <2>1. /\ live'.version = live.version + 1 /\ live.version \in 1..MaxVersion
        /\ hist' = [hist EXCEPT ![live.version] = live.def] /\ DOMAIN hist = 1..MaxVersion
    BY <1>4, PublishIs DEF VInv, VType
  <2>2. \A v \in 1..live.version : hist'[v] = IF v = live.version THEN live.def ELSE hist[v]
    BY <2>1, VersionAssumption DEF VersionAssumption
  <2> QED BY <1>1, <2>1, <2>2, LogGrows
<1>5. ASSUME DraftStep PROVE [Log!Next]_Versions
  BY <1>2, <1>3, <1>5
  DEF DraftStep, Submit, SubmitForTenant, Submitted, Reject, RejectForTenant, Rejected,
      GenerateFromTheme, Import, SaveDraft, SaveForTenant, EnableAcceptance
<1>6. ASSUME WriteStep PROVE [Log!Next]_Versions
  <2>1. ASSUME NEW u \in User, NEW confirm, BeginApprove(u, confirm) \/ ApproveForTenant(u, confirm)
        PROVE  UNCHANGED <<live, hist>>
    BY <2>1 DEF BeginApprove, ApproveForTenant, Approving
  <2>2. ASSUME NEW u \in User, NEW confirm, NEW v, BeginRollback(u, v, confirm) PROVE UNCHANGED <<live, hist>>
    BY <2>2 DEF BeginRollback
  <2>3. ASSUME NEW u \in User, NEW d, BeginTemplate(u, d) PROVE UNCHANGED <<live, hist>>
    BY <2>3 DEF BeginTemplate
  <2>4. ASSUME NEW u \in User, BeginTune(u) PROVE Ensure /\ hist' = hist
    BY <2>4 DEF BeginTune
  <2>5. ASSUME NEW u \in User, ContinueTune(u) \/ Abort(u) PROVE UNCHANGED <<live, hist>>
    BY <2>5 DEF ContinueTune, Abort
  <2> QED BY <1>2, <1>3, <1>4, <1>6, <2>1, <2>2, <2>3, <2>4, <2>5, VRetry DEF WriteStep
<1> QED BY <1>2, <1>5, <1>6 DEF Next, vars, SetOwner, CreateOrder, MoveOrder

(* The live row with its history (workflow_def, workflow_def_history) is a   *)
(* log that only grows, in which every version reads as it was published.    *)
THEOREM ImplementsVersionLog == Spec /\ []RollbackAlone => ImplementsLog
<1>1. Init => VInv /\ Log!Init
  BY VStart, LogStart
<1>2. VInv /\ RollbackAlone /\ [Next]_vars => VInv' /\ [Log!Next]_Versions
  BY VStep, LogStep
<1> QED BY <1>1, <1>2, PTL DEF Spec, ImplementsLog, Log!Spec
=============================================================================
