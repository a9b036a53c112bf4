--------------------------- MODULE WorkflowVersions ---------------------------
(***************************************************************************)
(* The versions of one flow of one tenant: the live definition and its     *)
(* history (engine/workflowDef.ts), the change that is drafted, submitted, *)
(* approved or rejected (engine/workflowDefChange.ts, routes/workflowDef,  *)
(* routes/platformWorkflow), and the other writers of the live definition: *)
(* rollback, templates (routes/templateMarket) and the optimizer.          *)
(*                                                                         *)
(* Requests are READ COMMITTED transactions: tx[u] is what user u's        *)
(* request has read, and passed the gates with, and not yet acted upon.    *)
(* Saving, submitting and rejecting a draft are single statements.         *)
(***************************************************************************)
EXTENDS Naturals, Sequences, FiniteSets

CONSTANTS
  Def, NoDef, Default,   \* definitions, and the one the engine ships
  State, NoState,
  Initial, StatesOf,     \* of a definition
  EdgesOf, Demands,      \* its edges, and what each asks for (fields, roles it shuts out)
  Tune,                  \* the definition the optimizer makes of another one
  User, Operator,        \* who acts; those of them that operate the platform
  SoleAdmin,             \* whether the tenant has a single administrator
  Unanchored,            \* no expected version or revision
  Kinds,                 \* bound: the kinds of writer that act
  MaxVersion, MaxRev     \* bounds

ASSUME VersionAssumption ==
  /\ Default \in Def /\ NoDef \notin Def /\ NoState \notin State
  /\ \A d \in Def : Initial[d] \in StatesOf[d] /\ StatesOf[d] \subseteq State /\ Tune[d] \in Def
  /\ \A d \in Def : \A e \in EdgesOf[d] : e[1] \in StatesOf[d] /\ e[2] \in StatesOf[d]
  /\ Operator \subseteq User
  /\ Unanchored \notin Nat /\ MaxVersion \in Nat \ {0} /\ MaxRev \in Nat

VARIABLES
  owner,     \* platform_config.workflow_config_owner
  live,      \* workflow_def: version (0: no row) and definition
  hist,      \* workflow_def_history by version
  change,    \* workflow_def_change: the one row there can be, its id never reused
  order,     \* an order in flight: state and def_version
  tx,        \* requests that are going to write the live definition
  published  \* history: the definition each version was published with

vars == <<owner, live, hist, change, order, tx, published>>

NoChange == [id |-> 0, status |-> "none", def |-> NoDef, base |-> 0, rev |-> 0, by |-> "nobody"]
Idle     == [kind |-> "none", step |-> "idle", def |-> NoDef, expect |-> Unanchored,
             cur |-> 0, curdef |-> NoDef, id |-> 0, retried |-> FALSE]

(* getWorkflowDefOrDefault; getWorkflowDefAtVersion, which falls back to the *)
(* live definition when the version is not recorded.                         *)
LiveDef == IF live.version = 0 THEN Default ELSE live.def
Lookup(v) ==
  IF v = 0 \/ v = live.version \/ v \notin DOMAIN hist \/ hist[v] = NoDef THEN LiveDef ELSE hist[v]

(* assertNoInflightTransitionLoss: edges that are gone, edges that ask for   *)
(* more, by the state they leave.                                            *)
LostEdges(old, new)  == {e \in EdgesOf[old] \ EdgesOf[new] : e[1] \in StatesOf[new]}
Tightened(old, new)  == {e \in EdgesOf[old] \cap EdgesOf[new] : ~(Demands[new][e] \subseteq Demands[old][e])}
Removed(old, new)    == StatesOf[old] \ StatesOf[new]
Affected(old, new)   == Removed(old, new) \cup {e[1] : e \in LostEdges(old, new) \cup Tightened(old, new)}
Inflight(states) == order.at \in states

(* assertWorkflowConfigEditableByTenant; who operates the platform edits for *)
(* the tenant, whoever owns the configuration.                               *)
Editable == owner = "tenant"
Tenant(u) == u \in User \ Operator /\ Editable
----------------------------------------------------------------------------
Init ==
  /\ owner = "tenant"
  /\ \/ live = [version |-> 0, def |-> NoDef]
     \/ live = [version |-> 1, def |-> Default]
  /\ hist = [v \in 1..MaxVersion |-> NoDef]
  /\ change = NoChange
  /\ order \in [at : {NoState, Initial[Default]}, dv : {0}]
  /\ tx = [u \in User |-> Idle]
  /\ published = [v \in 1..MaxVersion |-> IF v = live.version THEN Default ELSE NoDef]

(* An operator of the platform hands the flow to the tenant or takes it back. *)
SetOwner(o) ==
  /\ o # owner /\ owner' = o
  /\ UNCHANGED <<live, hist, change, order, tx, published>>

(* ensureWorkflowDef: the shipped definition becomes the first version of a  *)
(* flow that has no row.                                                     *)
Ensured == IF live.version = 0 THEN [version |-> 1, def |-> Default] ELSE live
Ensure ==
  /\ live' = Ensured
  /\ published' = IF live.version = 0 THEN [published EXCEPT ![1] = Default] ELSE published

(* upsertWorkflowDefDraft withdraws a submitted change.  base is the         *)
(* revision the author has on screen, whichever that is, or Unanchored.      *)
Drafted(u, d, base, version) ==
  /\ change.status = "none" \/ base = Unanchored \/ base = change.rev
  /\ change.rev < MaxRev
  /\ change' = [id |-> IF change.status = "none" THEN change.id + 1 ELSE change.id, status |-> "draft",
                def |-> d, base |-> version, by |-> u,
                rev |-> IF change.status = "none" THEN 1 ELSE change.rev + 1]
SaveDraft(u, d, base) ==
  Tenant(u) /\ Drafted(u, d, base, live.version) /\ UNCHANGED <<owner, live, hist, order, tx, published>>
SaveForTenant(u, d, base) ==
  u \in Operator /\ Drafted(u, d, base, live.version) /\ UNCHANGED <<owner, live, hist, order, tx, published>>
(* From a theme, from a file: whatever draft there is is overwritten.        *)
GenerateFromTheme(u) == SaveDraft(u, Default, Unanchored)
Import(u, d) == SaveDraft(u, d, Unanchored)
(* The live definition with the edges of an acceptance, if any is missing.   *)
EnableAcceptance(u, d) ==
  /\ Tenant(u) /\ Ensure
  /\ IF d = Ensured.def THEN UNCHANGED change ELSE Drafted(u, d, Unanchored, Ensured.version)
  /\ UNCHANGED <<owner, hist, order, tx>>

(* submitWorkflowDefChange and rejectWorkflowDefChange                       *)
Submitted(u) ==
  /\ change.status = "draft"
  /\ change' = [change EXCEPT !.status = "submitted", !.by = u, !.base = live.version]
  /\ UNCHANGED <<owner, live, hist, order, tx, published>>
Rejected ==
  /\ change.status = "submitted" /\ change' = [change EXCEPT !.status = "draft"]
  /\ UNCHANGED <<owner, live, hist, order, tx, published>>
Submit(u) == Tenant(u) /\ Submitted(u)
SubmitForTenant(u) == u \in Operator /\ Submitted(u)
Reject(u) == Tenant(u) /\ Rejected
RejectForTenant(u) == u \in Operator /\ Rejected

(* saveWorkflowDef up to its gates: the live row is read, and no order is in *)
(* flight on a state that goes or whose edges become narrower, unless the    *)
(* loss is confirmed.                                                        *)
Gated(u, t, confirm) ==
  /\ live.version > 0 /\ ~confirm => ~Inflight(Affected(live.def, t.def))
  /\ tx' = [tx EXCEPT ![u] = [t EXCEPT !.step = "gated", !.cur = live.version, !.curdef = live.def]]
Start(u, kind) == tx[u] = Idle /\ kind \in Kinds

(* The submitted change.  A tenant's account does not approve its own.       *)
Approving(u, confirm) ==
  /\ Start(u, "approve") /\ change.status = "submitted"
  /\ Gated(u, [Idle EXCEPT !.kind = "approve", !.def = change.def, !.expect = change.base,
                           !.id = change.id], confirm)
  /\ UNCHANGED <<owner, live, hist, change, order, published>>
BeginApprove(u, confirm) == Tenant(u) /\ (change.by # u \/ SoleAdmin) /\ Approving(u, confirm)
ApproveForTenant(u, confirm) == u \in Operator /\ Approving(u, confirm)

BeginTemplate(u, d) ==
  /\ Start(u, "template") /\ u \in Operator
  /\ Gated(u, [Idle EXCEPT !.kind = "template", !.def = d, !.expect = live.version], FALSE)
  /\ UNCHANGED <<owner, live, hist, change, order, published>>

(* The snapshot and the check of its fields are transactions of their own,   *)
(* but history is never changed.                                             *)
BeginRollback(u, v, confirm) ==
  /\ Start(u, "rollback") /\ Tenant(u) /\ hist[v] # NoDef
  /\ Gated(u, [Idle EXCEPT !.kind = "rollback", !.def = hist[v]], confirm)
  /\ UNCHANGED <<owner, live, hist, change, order, published>>

(* applyWorkflowOptimizations, on whoever's connection: the definition       *)
(* first, its version afterwards.                                            *)
BeginTune(u) ==
  /\ Start(u, "tune") /\ Ensure
  /\ tx' = [tx EXCEPT ![u] = [Idle EXCEPT !.kind = "tune", !.step = "tuned", !.def = Tune[Ensured.def]]]
  /\ UNCHANGED <<owner, hist, change, order>>
ContinueTune(u) ==
  /\ tx[u].step = "tuned"
  /\ Gated(u, [tx[u] EXCEPT !.expect = live.version], FALSE)
  /\ UNCHANGED <<owner, live, hist, change, order, published>>

(* Faults: the version is compared before and not by the update itself; the  *)
(* overwritten version is not kept.                                          *)
AnyVersion(t) == TRUE
NotKept(t) == hist
(* The conditional update; a version that is expected of a flow without a    *)
(* row is stale.                                                             *)
Current(t) == t.expect = Unanchored \/ (t.cur # 0 /\ t.expect = live.version)
Kept(t) ==
  IF t.cur = 0 \/ hist[t.cur] # NoDef THEN hist ELSE [hist EXCEPT ![t.cur] = t.curdef]

Publish(u) ==
  LET t == tx[u] IN
  /\ t.step = "gated" /\ Current(t) /\ live.version < MaxVersion
  /\ hist' = Kept(t)
  /\ live' = [version |-> live.version + 1, def |-> t.def]
  /\ published' = [published EXCEPT ![live.version + 1] = t.def]
  /\ change' = IF t.kind = "approve" /\ change.id = t.id /\ change.status # "none"
               THEN [NoChange EXCEPT !.id = change.id] ELSE change
  /\ tx' = [tx EXCEPT ![u] = Idle]
  /\ UNCHANGED <<owner, order>>

(* The optimizer tries again once, in the same transaction.                  *)
Retry(u) ==
  LET t == tx[u] IN
  /\ t.step = "gated" /\ t.kind = "tune" /\ ~t.retried /\ ~Current(t)
  /\ hist' = Kept(t)
  /\ tx' = [tx EXCEPT ![u] = [Idle EXCEPT !.kind = "tune", !.step = "tuned", !.def = Tune[live.def],
                                          !.retried = TRUE]]
  /\ UNCHANGED <<owner, live, change, order, published>>

(* Refused by a gate or as stale, or lost with its connection.               *)
Abort(u) ==
  /\ tx[u] # Idle /\ tx' = [tx EXCEPT ![u] = Idle]
  /\ UNCHANGED <<owner, live, hist, change, order, published>>

(* Orders are stamped with the live version and follow their own afterwards. *)
CreateOrder ==
  /\ order.at = NoState
  /\ order' = [at |-> Initial[LiveDef], dv |-> live.version]
  /\ UNCHANGED <<owner, live, hist, change, tx, published>>
MoveOrder(to) ==
  /\ <<order.at, to>> \in EdgesOf[Lookup(order.dv)]
  /\ order' = [order EXCEPT !.at = to]
  /\ UNCHANGED <<owner, live, hist, change, tx, published>>

DraftStep ==
  \E u \in User :
    \/ Submit(u) \/ SubmitForTenant(u) \/ Reject(u) \/ RejectForTenant(u)
    \/ GenerateFromTheme(u)
    \/ \E d \in Def :
         \/ Import(u, d) \/ EnableAcceptance(u, d)
         \/ \E base \in {Unanchored} \cup 0..MaxRev : SaveDraft(u, d, base) \/ SaveForTenant(u, d, base)
WriteStep ==
  \E u \in User :
    \/ \E confirm \in BOOLEAN :
         \/ BeginApprove(u, confirm) \/ ApproveForTenant(u, confirm)
         \/ \E v \in DOMAIN hist : BeginRollback(u, v, confirm)
    \/ \E d \in Def : BeginTemplate(u, d)
    \/ BeginTune(u) \/ ContinueTune(u) \/ Publish(u) \/ Retry(u) \/ Abort(u)

Next ==
  \/ DraftStep \/ WriteStep
  \/ \E o \in {"platform", "tenant"} : SetOwner(o)
  \/ CreateOrder \/ \E to \in State : MoveOrder(to)

Spec == Init /\ [][Next]_vars

(* A bound: a rollback, which names no version, has no other writer beside it. *)
RollbackAlone == \A u, v \in User : tx[u].kind = "rollback" /\ u # v => tx[v] = Idle
----------------------------------------------------------------------------
TypeOK ==
  /\ owner \in {"platform", "tenant"}
  /\ live \in [version : 0..MaxVersion, def : Def \cup {NoDef}] /\ (live.version = 0 <=> live.def = NoDef)
  /\ hist \in [1..MaxVersion -> Def \cup {NoDef}]
  /\ change.def \in Def \cup {NoDef} /\ change.base <= live.version
  /\ order \in [at : State \cup {NoState}, dv : 0..MaxVersion]
  /\ \A u \in User : tx[u].cur <= live.version

(* Every version that was live once is kept in the history                   *)
(* (saveWorkflowDef writes the version it overwrites).                       *)
NothingLost == \A v \in 1..MaxVersion : v < live.version => hist[v] # NoDef

(* What a version number stands for never changes, and versions are only     *)
(* added: everything stamped with one can rely on it                         *)
(* (getWorkflowDefAtVersion, the history as an append-only table).           *)
Versions == [v \in 1..live.version |-> Lookup(v)]
Log == INSTANCE VersionLog WITH log <- Versions
ImplementsLog == Log!Spec

=============================================================================
