# Verification of the work-order platform

The repository is the backend of a multi-tenant platform for facility services:
an Express server over PostgreSQL in which a tenant's staff report, dispatch,
carry out, review, accept and settle work orders.  The flow an order goes
through is data: every tenant publishes versions of its own state graph, and the
code derives from the graph who is on duty, what may be claimed, where the
dispatcher sends an order and when the system learns from it.  This directory
holds TLA+ models of the parts whose correctness depends on the order in which
things happen, the TLC configurations that check them, and machine-checked
proofs of the central invariants.

All source paths below are relative to `src/src/`.  `PROJECT.json` names, for
every definition that models code, the lines it stands for, and lists the
hazards of the code with the properties that are about them.

## The system

Every request runs in **one READ COMMITTED transaction** (`db/pool.ts`,
`withTenantClient`).  What one request may see of another is therefore decided
by row locks (`SELECT ... FOR UPDATE`), by conditional updates and by unique
keys, and the hard behaviours are those where the code has none of the three.
State outside the tables is rare: a queue of messages and a cache of tenants in
memory, session locks of the database, and the token in the caller's hand.

| component | state | operations | what makes it correct |
|---|---|---|---|
| workflow graph (`engine/stateMachine.ts`, `claimHallEdges.ts`, `acceptanceEdges.ts`) | none: functions of a definition | state classes, edge lookup, gates, dispatch target, injected edges | the derived classes agree with each other |
| work orders (`repo/ticket.ts`, `routes/workOrder.ts`, `services/claimWorkOrder.ts`, `acceptance.ts`, `autoRedispatch.ts`) | order rows, `worker.load`, learning log, re-dispatch count in `ext` | create with dispatch, transition, claim, accept, automatic review, re-dispatch, lists | loads count orders; an order stays in its own version and on somebody's list; learned from; re-dispatched a bounded number of times |
| automatic review (`engine/autoRules.ts`, `repo/autoRule.ts`) | rules of a tenant | save, delete, the extra hop | what the flow leaves to people stays with them |
| dispatch (`engine/dispatch.ts`, `engine/dispatch/needResolver.ts`) | rules, categories, workers | who gets an order | the highest rule that applies decides |
| definition versions (`engine/workflowDef.ts`, `workflowDefChange.ts`, `routes/workflowDef.ts`, `platformWorkflow.ts`) | live definition, history, the one draft | draft, submit, approve, reject, rollback, templates, optimizer | no version is lost; a version number always means the same definition; flows name usable roles |
| settlement (`repo/settlement.ts`, `routes/settlement.ts`) | header, lines, totals, numbers | draft, automatic draft, edit, confirm, void, delete | one settlement per order; totals follow lines; what is confirmed does not change |
| material (`routes/material.ts`, `services/inventory.ts`) | stock, its log, consumption, returns | in, out, consume, return | stock is never negative and equals its log; drafts bill what was used |
| transport (`routes/transport.ts`, its flow adapter) | transport orders, the same `worker.load` | create, dispatch, claim, transition | the load of staff |
| business flows (`routes/businessFlow.ts`) | tasks stamped with a version | create, event | tasks move along their own version |
| inspection, patrol, linked orders, emergency | tasks, items, findings, points, alerts, repair orders | create, claim, move, record, convert | one owner; done means all points; one order per source |
| plans (`scheduler/lock.ts`, `inspectionScheduler.ts`) | plans, generated tasks, session lock | tick, round, by hand | no occurrence twice, none left out, plans catch up |
| SLA (`scheduler/slaScheduler.ts`, `engine/sla.ts`) | due times, escalation marks | scan, scan by hand, time-out of the claim hall | every overdue order is escalated, once |
| notifications, webhooks (`services/notify.ts`, `webhook/`) | rows, a queue in memory, posts under way | say, flush, post, log | a committed request is heard of |
| volunteers, energy collection | activities and sign-ups; tasks sent by a platform | sign up, check in; dispatch and submission, each at least once | slots are kept; a submission is not taken back |
| accounts, roles, invitations, tenants | accounts, roles, permission points, codes, tenant register and its cache | administrate, log in, redeem, review, suspend | an administrator remains; roles in use are defined; codes are good once; a suspension takes effect |
| public reports (`routes/publicReport.ts`, `services/publicReportCreate.ts`) | orders, view tokens, idempotency keys, `ext` | submit, repeat, photos, corrections | a token finds its report; nothing written is lost |
| basic data (`routes/config.ts`, `faultCategory.ts`, `patrol.ts`, ...) | master tables | add, edit, delete | edits do not take each other back |
| everything else (AI assistants, statistics, templates' market, uploads, assets, labels ...) | administrative rows | create, read, update, delete | no interleaving worth a model; `PROJECT.json` gives the reason for each |

The components meet in few places: the transition of an order settles the load
of workers (shared with transport), writes the learning log, and on evaluation
drafts a settlement; acceptance and consumption look at the settlement of an
order; inspections and alerts create linked orders; publishing a definition
changes what all of these read; dispatch reads the tables of basic data.

## Modules

| module | models | composed with |
|---|---|---|
| `WorkflowGraph` | the pure operators of the engine: a definition is a record, each exported function that derives something from it is an operator; `FirstTo` and `FirstOn` are the two ways `transition()` looks an edge up; the claim hall and acceptance are added one edge at a time (`AddEdge`), as the code does | extended by `WorkflowDefs`, `WorkOrders` |
| `WorkflowDefs` | the two shipped definitions, edge by edge | `MCWorkOrders` |
| `WorkOrders` | orders, loads, and the requests that move them | instantiates `DutyLedger`; `Boards` |
| `DutyLedger` | the abstract specification of `worker.load`: an order changes hands, and its share of the load with it | |
| `Boards` | the claim hall, a worker's summary and the list with its filter, over orders of several versions | `MCWorkOrders` |
| `AutoRules` | rules judged by the live flow when saved and by the order's flow when applied | `MCAccess` |
| `Dispatching` | needs, rules, the choice of a worker, and the tables behind them | `MCAccess` |
| `WorkflowVersions` | drafts, approval, rejection, rollback, templates, optimizer, gates for orders in flight | instantiates `VersionLog`; `MCWorkflowVersions` |
| `VersionLog` | the abstract specification: a log of definitions that only grows | |
| `FlowRoles` | roles and permission points that edges name, as roles come and go | extends `Accounts`; `MCAccess` |
| `Settlement` | settlements, lines, consumption, stock, and what a rejected acceptance does to them | instantiates `Billing`; `MCSettlement` |
| `Billing` | the abstract specification of settlements: papers that bill orders, one paper to an order, and change as drafts only | |
| `SettlementNumber` | the retry loop that numbers the settlements of a day | `MCServices` |
| `Transport` | transport orders, both their entrances, and the staff's counter | `MCServices` |
| `BusinessFlow` | generic tasks under the version they were stamped with | `MCServices` |
| `Inspection`, `Patrol`, `Alerts`, `LinkedOrders` | inspection tasks and their snapshots; patrols; alerts; repair orders made from the former | `Inspection` and `Patrol` raise `Alerts`; `MCServices` converts them |
| `Recurrence` | recurring plans, server processes, pooled sessions and their advisory lock | instantiates `Calendar`; `MCRecurrence` |
| `Calendar` | the abstract specification of plans: their tasks stand in a row, and each writer goes on from where the row has been reached | |
| `Escalation` | both lines of the SLA scan, the scan by hand, the hall's time-out | `MCBackground` |
| `Outgoing` | messages and webhooks about jobs that commit or fail | `MCBackground` |
| `Volunteer`, `EnergyCollection` | sign-ups against slots; a platform's deliveries | `MCServices` |
| `Accounts` | accounts, tokens, roles, permission points | extended by `Invites`, `FlowRoles` |
| `Invites` | invitation codes, WeChat bindings | `MCAccess` |
| `Tenants` | the register, the status cache, trial applications | `MCAccess` |
| `Masters` | the two patterns of UPDATE on the tables of basic data | `MCAccess` |
| `Reports` | public reports and everything written into `ext` | `MCAccess` |

`MC...` modules give the constants values for TLC.  `MCServices`, `MCBackground`
and `MCAccess` hold several small systems that share no state; their variable
`part` says which one a behaviour is about, so that state spaces add up rather
than multiply.  `...Proofs` modules hold the theorems.

A few operators are marked `a fault` in a comment: they are wrong on purpose,
stand before the definition they deform, and nothing uses them except the
mutation runs listed in `PROJECT.json`, which show that each property can fail.

### How the models correspond to the code

**Requests.**  Where a handler reads, and other requests may act before it
writes, its model is two or more actions with a record of what was read in
between (`tx`, `tmove`, `ireq`, `edit`, ...).  Where a handler holds a row lock
from its first read to its commit and touches nothing else, it is one action.  A
lock that others wait for is a guard (`WorkersFree`, `StockUnlocked`,
`Unlocked`, `MayRead`).  An error, a deadlock's victim and a crash all roll back
and are one action (`Abort`).

**`WorkOrders`.**  `order` and `load` are the committed tables; `tx[o]` is the
one request that holds the row of order `o`, with its own uncommitted copy of
the row and of the loads it has updated (`held`, `load`).

| action | code |
|---|---|
| `CreateRow` | the insert of `createWithIdem`, stamped with the live version |
| `AutoDispatch`, `EnterHall` | `autoDispatchAfterCreate`: a worker was found, nobody was found |
| `Transition`, `Claim`, `Accept` | the three endpoints, up to and including their `transition()` |
| `AutoAdvance` | `tryAutoAdvance`, the nested hop of an automatic rule |
| `Redispatch` | `performRedispatch` after a return |
| `Commit` | the end of the handler: acceptance guard of the generic endpoint, learning step, commit |
| `SetActive`, `PublishDef` | an administrator switches a worker, publishes the next version |
| `CorrectRead`, `CorrectWrite` | the public correction: an unlocked read of `ext`, the write of all of it |

`Hop` is `transition()` itself, from the state checks to the settlement of the
loads.  Which worker the dispatch engine picks is left open here (`Dispatching`
says which), as is whether an automatic rule's condition holds (`AutoRules`).
`redone` is the only history variable.

**`Settlement`.**  `head`, `line`, `stock`, `balance` and `net` are the tables
`settlement`, `settlement_item` (by its unique key: an order and either the work
itself, `Service`, or a material), `inventory` and two sums over
`inventory_log`.  `tx[r]` is a request in progress.

| action | code |
|---|---|
| `StockIn`, `LooseOut` | `POST /inventory/in`, and `/out` without an order |
| `BeginOut`, `BeginReturn`, `BeginConsume` | the guards of `/out`, `/return`, `/consume`, read before any row of stock is locked; only `/consume` locks the order |
| `Take` | `SELECT ... FOR UPDATE` on one stock row and the remainder computed from it |
| `FindDraft`, `CommitStock` | the draft the order is on, found in one snapshot, then locked and looked at again; `syncMaterialCostRows`, `recalcHeader`, commit |
| `BeginCreate`, `BeginAutoSettle`, `CommitCreate` | `createSettlementDraft` by hand or on the transition to an evaluated state; `seen` is the consumption its projection reads |
| `EditLine`, `ReleaseLine` | `updateSettlementItem` |
| `DeleteDraft`, `ConfirmSettlement`, `VoidSettlement` | the functions of these names in `repo/settlement.ts` |
| `BeginReject`, `SeeEmpty`, `DropDraft`, `SumLines`, `CommitReject` | the steps of `applyAcceptance` that delete lines of drafts, delete a draft left empty, or else sum and rewrite its header |
| `MoveOrder` | every transition of the order that does not touch settlements |

A transaction that locks the header of its settlement before it reads or writes
anything else, and waits for nothing afterwards, is one step.  `cut` holds the
rows that a rejection has deleted and not committed, which block other writers
of the same rows but not its readers.  Prices are one, so an amount is a
quantity; there is one warehouse; a manual edit sets an amount from
`ManualAmounts`.

**`WorkflowVersions`.**  `live` is the row of `workflow_def`, `hist`
`workflow_def_history`, `change` the one row of `workflow_def_change` there can
be, `order` an order in flight, `tx[u]` what user `u`'s request has read and
passed the gates with.

| action | code |
|---|---|
| `Ensure`, `SaveDraft`, `SaveForTenant`, `GenerateFromTheme`, `Import`, `EnableAcceptance` | everything that saves a draft, from both consoles |
| `Submit`, `Reject` and their `...ForTenant` | single statements on the change row |
| `BeginApprove`, `ApproveForTenant`, `BeginTemplate`, `BeginRollback`, `BeginTune`, `ContinueTune` | the reads of the writers of the live definition, with the gate for orders in flight (`Gated`) and its confirmation |
| `Publish`, `Retry` | `saveWorkflowDef`: the snapshot into the history, the upsert anchored or not; its one retry after a conflict |
| `SetOwner`, `CreateOrder`, `MoveOrder` | who owns the configuration; the order in flight |

**The others.**

| module | actions and code |
|---|---|
| `Transport` | `Employ`, `SetDuty`, `Dismiss`: `routes/worker.ts`; `CreateCarried`, `CreateDispatched`, `CreateWaiting`: creation with a carrier, with the idlest, with nobody; `ClaimOrder` under the row lock; `BeginTransition`, `BeginFlowTransition` and `Finish`: the unlocked read and the write of both entrances, with the counter |
| `BusinessFlow` | `BeginTask`, `CreateTask`; `BeginEvent` (the read that checks the required fields), `TransitionEntity` or `RefuseEvent` (the engine's primitive, which locks the row); `PublishFlow` |
| `Inspection` | `AddItem`, `DropItem`; `CreateInspection`, `GenerateTasks`; `BeginMove`, `BeginAnyEvent`, `Move`: the unlocked transition; `ClaimTask` under the lock; `BeginFindings`, `Findings`: the rows, then the snapshot; `GiveUp` |
| `Patrol` | `AddPoint`, `DeletePoint`, `CreatePatrol`; `BeginCheckin`, `Checkin`; `BeginMiss`, `Miss` with the alert for points missed twice |
| `Alerts` | `RaiseByHand`, `HandleAlert`, `LinkPlan`, `AddPlan`, `DeletePlan`; `Raise` is `createAlert`, called by `Inspection` and `Patrol` |
| `LinkedOrders` | `BeginConvert`, `TakeKey` (the idempotency key, which who comes second waits for), `AlreadyConverted`, `Converted`, `NotConverted` (rollback) |
| `Recurrence` | `CreatePlan`, `SetPaused`, `BeginByHand`, `GenerateByHand`; `StartTick`, `Granted`, `Refused`, `LetThrough` (the lock cannot be asked for), `ReadPlan`, `WritePlan`, `SkipPlan`, `EndTick`, `Unlock` (on whatever session the pool hands out); `ComeUp`, `GoDown` |
| `Escalation` | `Read(s, hits)` and `Commit(s)`: a scan of one line in one transaction, by the scheduler or by any of the scans by hand (`Desk`), at once or not; `HallScan`; `Elapse`, `ElapseInHall`, `Move`, `Rework`: the world |
| `Outgoing` | `Subscribe`, `Unsubscribe`; `Begin`, `CommitJob`, `FailJob`, `Respond` (with the flush of the queue in the response hook), `Sent`, `GiveUpMessage` (no row can be written); `ReadSubscriptions`, `Post`, `LogPosts`; `BreakOff` (the one transaction of an event fails), `CutOff` (a response that never ends); `RestartServer` |
| `Volunteer` | `Announce`, `SetStatus`, `Pass`; `BeginSignup`, `Signup` under the activity's lock; `CheckinVolunteer` up to the grace, `Checkout`, `Approve` |
| `EnergyCollection` | `LookForDup`, `CreateRow`; `FindRow`, `Submit` or `RefuseSubmit`; `PersonMoves` |
| `Accounts` | `Login`, `Expire`; `BeginCreate`, `Create`; `BeginUpdate`, `Update`; `BeginDelete`, `Delete`; `CreateRole`, `EnableRole`, `BeginDropRole`, `DropRole`; `BeginPerms`, `Perms` |
| `Invites` | `Invite`, `Revoke`, `Lapse`; `Present`, `Redeem`; `BindLook`, `Bind`; `SetSuspended` |
| `Tenants` | `SetStatus`, `CreateTenant`; `Submit`, `LookAt`, `Reject`, `Approve`; `FromCache`, `Ask`, `FromTable`, `Leave`: a request behind the cache; `Tick` |
| `FlowRoles` | `BeginSave`, `EndSave`, with the actions of `Accounts` around |
| `Masters` | `InsertRow`, `PostAgain`, `DropRow`; `ReadRow`, `WriteRow` |
| `Dispatching` | `File`, `Finish`; `CreateRule`, `ChangeRule`, `DropRule`, `ChangeCategory`, `ChangeWorker` |
| `AutoRules` | `SaveRule`, `DeleteRule`, `Publish`; `FileOrder`, `MoveOrder` with the hop that follows |
| `Reports` | `BeginReport`, `Gather`, `TakeSlip`, `FileReport`, `RefuseReport`, `RepeatReport`; `ReadExt`, `WriteExt`, `CountRedispatch` |

**The abstract specifications** say what a component promises without saying how.
The refinement mappings read the tables:

| abstract | of | mapping | left out |
|---|---|---|---|
| `VersionLog` | `WorkflowVersions` | the live row and the history under it are the log | drafts, gates, requests |
| `Billing` | `Settlement` | an order is on the settlements its lines are in (`BilledOn`); a paper is the status and total of a header (`Papers`) | requests, locks, lines, stock |
| `Calendar` | `Recurrence` | the next date of each plan (`NextDates`), the tasks of each date (`TasksOn`), whether nothing went wrong yet (`Answering`) | processes, sessions, the lock, ticks |
| `DutyLedger` | `WorkOrders` | who each committed row counts for (`DutyOf`); `load` itself | requests, hops, row locks, flows, versions |

A step of `Billing` takes all orders of a new paper at once, of `DutyLedger`
moves one order's share between exactly the two workers concerned, of `Calendar`
writes the tasks and the next date together.  That is what the locks and the
single commit are for, and what the many steps of the detailed models have to
come to.

## Runs

| run | instance | what it shows |
|---|---|---|
| `orders` | the shipped 14-state flow live, a second version with other states published at any moment; 1 order, 2 workers, limit 2, corrections on | the order moves along the version it was stamped with, is learned from once it is in a learning state, and appears on the hall's, a worker's or the overdue list |
| `shared_load` | a tenant's own flow with hold state, pool and review; 2 orders, 2 workers, both automatic rules, limit 1 | loads are exact under interleaving; the re-dispatch limit is kept; the loads implement `DutyLedger` |
| `settle_stock` | 1 order, 2 settlements, 2 requests; everything except rejections | stock agrees with its log, totals follow lines, confirmed settlements are frozen; the settlements implement `Billing`: an order is on one of them at a time |
| `settle_desk` | 2 orders, 1 settlement, 2 requests, quantities up to 2; everything that locks the order, with edits, deletions, voids | drafts bill exactly what was used |
| `versions` | 2 definitions, an editor of the tenant and one of the platform, 3 versions, drafts revised up to twice, one order in flight | the live row with the history implements `VersionLog`: versions follow one another, and what was live once stays in the log |
| `services` | eight small systems, each with two requests | `NeverOvercounted` (transport), `AlongEdges` (business flows), `OwnerKept` (inspection), `DoneMeansAll` (patrol), `OneOrder` (conversions), `SlotsKept` (volunteers), `NeverTakenBack` (energy), `RefusedForAReason` (numbers) |
| `background` | two orders on two versions, two scanners at once, a failing statement; two jobs, two subscribers, a restart, and a transaction that fails or a response that never ends | escalated once by each scanner at most (`NotEscalatedAgain`) and eventually (`NoneOverlooked`, `HallNoticed`); the message of a committed request is tried, and one subscriber keeps an event from no other (`MessageAccountedFor`, `EverySubscriberLogged`) |
| `plans` | two processes, two overlapping ticks in the first, three sessions, a plan over four days, one fault | no occurrence twice, a plan does not stay overdue; plans and tasks implement `Calendar`: a writer goes on from where the plan has got to, so that none is left out |
| `access` | ten parts of the administration, each with two requests | `AdminRemains`, `RolesDefined`, `OnlyGoodCodes`, `ServedLately`, `OneTenantEach`, `RetiredStayOut`, `EditsKept`, `HighestRuleDecides`, `AutoNeverEnds`, `TokenFindsReport`, `EvidenceKept` |

An implemented specification says more than the invariants it implies, so these
are not repeated as properties of the passing runs: `OneSettlement` follows from
`Billing`, `NoneMissed` from `Calendar`, `NothingLost` from `VersionLog`.  They
are theorems of their own (see Proofs), the first also where orders are rejected.

Three runs show a statement of the code's own comments that the code does not
keep; the counterexample is the point of the run.  Each lifts the bound that
keeps the overlap out of the passing run, or checks a promise that no bound
saves.

| run | what happens | what the code says |
|---|---|---|
| `confirm_vs_reject` | a settlement confirmed while a rejection deletes its lines is confirmed and empty, its totals rewritten | "confirmed 单不受影响", `services/acceptance.ts:201` |
| `returns_race` | two returns of one consumption both find enough consumed; more comes back than was taken | "净消耗 … 必须 ≥ 本次退回量", `routes/material.ts:298` |
| `versions_rollback` | a rollback names no expected version; it files the snapshot of the row it read and overwrites what another writer has published since | "保存前把「当前旧版」快照写入 workflow_def_history", `engine/workflowDef.ts:230` |

### Bounds, and why they are enough

Counters are capped by `MaxVersion`, `MaxRev`, `MaxLoad`, `MaxStock`, `MaxQty`,
`MaxSlots`, `MaxNo`, `MaxDeleted`, `MaxTokens`, `MaxRules`, `MaxRedone`,
`MaxRestarts`, `MaxFailures`, `MaxFaults`, `Faults`, `MaxStale`, `RetryLimit` and `Horizon`; each is as
large as the property needs to see a second occurrence.  Guards compare these
counters with each other and with zero, so larger values repeat the same cases.
Two requests give every pair of handlers its interleavings; the rows they meet
at are the only thing they share.  Two workers let one hop touch two loads, two
orders make two transactions meet on one load; where a property is about the
history of a single row, one order suffices.  `RedispatchLimit` is 1 or 2 and
`CatchUp` 1 instead of 3 and 60.  `Ttl` and `Slow` of the tenant cache are in
ticks: the cache lives for two ticks and a query may take one.

Some bounds leave out overlaps in which the code does *not* keep the property;
what happens with them is under Deviations.

| bound | value | leaves out |
|---|---|---|
| `Kinds` (`Settlement`) | by run | the kinds of request that do not lock what the others rely on |
| `Kinds` (`WorkflowVersions`), `RollbackAlone`, `FirstDrafts` | all kinds | another writer beside a rollback; a second revision of a draft on later versions (a matter of size) |
| `OneDispatch` (`EnergyCollection`) | `TRUE` | the same dispatch delivered twice at once |
| `Beside` (`Recurrence`) | `FALSE` | generation by hand beside a round |
| `Beside` (`Reports`) | `FALSE` | a correction beside another writer of `ext` |
| `Alone` (`Accounts`) | promotions | a request that makes an administrator, or switches one on, beside another |
| `Corrections` (`WorkOrders`) | `FALSE` in `shared_load` | corrections that write an older count back |

Four more overlaps break what one would like to promise, and none of them is
left out: two transitions of a transport order, two escalation scans, the
deletion of a role beside a request that gives it, two editors of a row that is
written back whole.  There the property says how far the damage goes, by a
history variable that a reader can check against the code: `staleMoves` counts
the transitions that wrote over a row that had changed since they read it
(`MaxStale = 1`: one of them), `events` the escalations of an order, `crossed`
has the roles that were given and deleted at the same time, `contested` the
columns that were asked for while another editor had the row open.  Where
nothing overlapped, these are zero, one or empty, and the property is the plain
promise.

The other bounds of `MCServices` and `MCAccess` (`Simply`, `AboutOne`,
`FixedRoles`, `Crossing`, `FewPoints`, `OneByOne`, `OneToken`, `OneWriter`,
`FewVersions`, `Invited`, `Asked`) keep state spaces small and are stated where
they are used.  `AboutOne` lets transitions overlap while there is one transport
order; `Crossing` lets the deletion of a role overlap one other request.

`CHECK_DEADLOCK FALSE` stands where ids, days, versions or faults are used up
after a while; the two passing `WorkOrders` runs check for deadlock.

Symmetry is used over interchangeable orders, workers, requests and codes, and
only in runs whose properties are invariants or action properties.

### Fairness

`background` and `plans` check liveness.  What is assumed is weak fairness of

- the scheduler's reads and commits of each line and its scan of the hall
  (`EscalationFairness`): `setInterval` goes on ticking, each tick runs all
  lines with their errors caught, a transaction that has begun ends;
- the response of a request; the end of an attempt to tell WeChat, whose calls
  have a deadline of their own, and which ends with a row or with a line on the
  console; a step of the webhook loop (`OutgoingFairness`).  A post ends when the
  subscriber answers, refuses, or lets the time limit pass.  It does not when a
  response is cut off in its body (`dispatch.ts:60`): that is `CutOff`, a step
  of its own that leads out of what fairness is about;
- the start of a tick and every step of a round (`RecurrenceFairness`), and the
  answer to a generation by hand that has begun.

Nothing is assumed of users, of the desk's scan, of subscriptions, nor that a
process that is down comes up: `CaughtUp` holds "or no process is up", the two
properties of `Outgoing` hold "or the server went down", the second also "or the
one transaction of the event was lost as a whole": a row that could not be
written rolls back those before it, a response that never ends keeps them.

## Proofs

TLAPS proves these for every value of the constants that the named assumptions
of the modules allow; TLC evaluates those assumptions on every run.  A module of
proofs extends the models it is about:

| module | models |
|---|---|
| `WorkOrdersProofs` | `WorkOrders`, `Boards`, `DutyLedger` |
| `SettlementProofs` | `Settlement`, `Billing` |
| `VersionsProofs` | `WorkflowVersions`, `VersionLog` |
| `ServicesProofs` | `Transport`, `Volunteer`, `Patrol`, `BusinessFlow`, `Inspection`, `EnergyCollection`, `SettlementNumber`, `LinkedOrders` |
| `AccessProofs` | `Tenants`, `Accounts`, `Invites`, `FlowRoles`, `Masters`, `AutoRules` |
| `SchedulersProofs` | `Escalation`, `Recurrence`, `Calendar` |
| `ReportsProofs` | `Reports` |
| `WorkflowGraphProofs` | `WorkflowGraph` |

A theorem is about the specification of one model, or of the models that share
state: `AccessSpec` is accounts with invitations, `NamesSpec` accounts with the
flows that name roles, `PatrolSpec` and `InspectionSpec` have the alerts beside
them.  Where a model has no specification of its own because the runs put
several side by side, the module of proofs states it.

**Work orders**

| theorem | statement | argument |
|---|---|---|
| `TypeCorrect` | `WorkOrders` is well typed | each action separately; a hop keeps a transaction well typed (`HopType`) |
| `LoadSound` | `LoadMatches`, when `FirstVersion # 0` | `LedgerInv`: for every worker, the load as an open transaction counts it plus the row it read equals the load in the table plus the row it will write; no two hold the same worker; rows are stamped, so who a row counts for depends on the row alone |
| `RedispatchLimited` | `RedispatchBounded`, without corrections | `CountInv`: the count in `ext` bounds the re-dispatches committed, and only the row a re-dispatch is about to write counts more than the table, by one |
| `KeptToItsFlow` | `FlowPinned`, when `FirstVersion # 0` | `PathInv`: what an open transaction has made of its row is reached from the committed row by the hops its steps allow, each along the definition of the row's own stamp, four at most: asked for, automatic, re-dispatch, automatic |
| `CompletionsLearned` | `EveryCompletionLearned`, when `FirstVersion # 0` and every version enters its learning states on request only (`EnteredOnRequest`) | `LearnInv`: a committed row in a learning state has been learned from, and the row of an open transaction has been, or the commit is about to: its target is a trigger of its version and where it came from is one of none |
| `NoneOutOfSight` | `NoOrderOutOfSight`, for any definitions | the lists are unions over the versions in use, the stamp of every row among them, and subtract what its own version calls done |
| `LoadIsALedger` | `ImplementsLedger`, when `FirstVersion # 0` | from `LedgerInv`: what a commit makes of its row and of the loads it held is one handover with its share, or nothing, whatever hops came in between; a worker the order is taken from carried at least this order |

**Settlement and material**

| theorem | statement | argument |
|---|---|---|
| `StockSound` | `StockMatchesLog`, for every kind of request | `StockInv`: a remainder a request holds is the row minus what it wants and not negative; a row is held by one request at a time |
| `SettledOnce` | `OneSettlement`, without rejections | `BillInv`: every line is on the settlement that bills its order's work (`WithWork`); the draft a request has found does so as long as it is a draft, and one being created takes orders that are on none (`Careful`); two being created lock different orders (`Apart`) |
| `ConfirmedStays` | `ConfirmedFrozen`, without rejections | a step that touches a line has just locked and found its header a draft; the same invariant gives what the header's lines are |
| `TotalsSound` | `TotalsMatch`, without rejections | `TotalsInv` is `BillInv` with the totals of live headers; a step changes lines only of settlements whose header it recalculates (`WrittenNext`).  The sum is the operator of the library and never looked into: the same lines with the same amounts give the same sum |
| `DraftsFollow` | `DraftFollowsConsumption`, without loose movements and returns | `DeskInv`: what the tables say of drafts (`Follows`), and, for each request, what it has read is still so (`Exact`), because two requests lock different orders and insert different headers (`Sundered`) |
| `SettledOnceDespiteRejection` | `OneSettlement`, rejections allowed, without loose movements and returns | the same invariant: what a rejection has cut is all the lines of the order it holds |
| `SettlementsAreBills` | `ImplementsBilling`, without rejections | from `BillInv`: an order's lines are on one settlement, so that creating, voiding or deleting one puts on or takes off whole orders; a projection or an edit finds the order on that draft already and changes its total at most |

**Versions and reports**

| theorem | statement | argument |
|---|---|---|
| `HistorySound` | `NothingLost`, as long as no other writer is beside a rollback | `VInv`: the snapshot a writer will file is the row it will overwrite, because the anchored update refuses otherwise; what was published is recorded under its version |
| `ImplementsVersionLog` | `ImplementsLog`, under the same condition | the refinement: every step appends one definition to the log or leaves it as it is; a version's look-up never changes |
| `TokensSound` | `TokenFindsReport` | who holds a key is the one report under it; a token that was drawn stays in `ext` through every write |
| `EvidenceSound` | `EvidenceKept`, with `Beside = FALSE` | what a lock holder has read of `ext` is what is in the row until it writes |

**Services**

| theorem | statement | argument |
|---|---|---|
| `LoadNotOvercounted` | `NeverOvercounted`, no condition | `TransportInv`: a transition under way has the row as it is or as it was (`Stale`); a counter is at most the number of active orders of its worker and the stale writes there have been, and zero for whoever is not on the staff, so that who is hired again starts at zero.  The settlement of the counter is compared with the change of that set, one order at a time (`HasRead`); on a stale row it is off by one at most, which `staleMoves` counts (`StaleSettlementCounts`) |
| `SlotsSound` | `SlotsKept` | `VolunteerInv`: who has looked for a slot holds the lock of the activity and is alone with it, and what it counted is still so |
| `DoneIsComplete` | `DoneMeansAll` | `PatrolInv`: the points of a patrol never change, and what a check-in will write as done has all of them, whatever it overwrites |
| `MovesAlongEdges` | `AlongEdges` | `FlowInv`: a task being created does not exist yet and has one creator; the step that moves a task that exists reads its state under the lock, whatever the route had read |
| `OwnersStay` | `OwnerKept` | every write of an owner is conditional on there being none, in the row that is written (`OwnerStep`) |
| `CallbacksOnlyAdvance` | `NeverTakenBack` | each write is along an edge from the state of the row it writes (`EnergyStep`) |
| `RefusalsExplained` | `RefusedForAReason`, for any `RetryLimit` | `NumberInv`: no number in use exceeds the settlements there are plus the drafts deleted, and the number a request tries is at least their count plus its tries so far, less what others have created since (`Accounted`); a number stepped over was in use, so that the two bounds meet at the limit |
| `OneOrderEach` | `OneOrder` | a source whose key a request holds has no order yet, and no second request holds it (`OwnKey`); the constants for "none" must not be sources or orders |

**Administration**

| theorem | statement | argument |
|---|---|---|
| `ShutInTime` | `ServedLately`, for any life of the cache and any slowness of a query | `StatusInv`: an entry of the cache, and an answer under way, was true within the time it has been kept or awaited; a tenant that is up was last up now |
| `TenantsOpenedOnce` | `OneTenantEach` | `ReviewInv`: a pending application has opened none, and the review that decides is conditional on it still being pending |
| `NeverWithoutAdmin` | `AdminRemains`, with `"promote" \in Alone` | `AdminInv`: a target that is an active administrator was one when it was read, since whoever makes one is alone; the count is taken under the lock, so that two who take the role away see each other |
| `RolesStayDefined` | `RolesDefined`, no condition | `RolesInv`: the role a request is about to give exists or is crossed, and a role that is in use although its deletion has looked is crossed; the look finds it unused, so it was given since, which the request that gave it has noted (`EndKeepsRoles`), and who gives it later is noted by the deletion (`DropKeepsRoles`) |
| `CodesMakeOne` | `OnlyGoodCodes` | `CodesInv`: who has not used a code has no account from it; redemption looks at the row again under its lock |
| `RetiredNamesStayOut` | `RetiredStayOut` | `NamesInv`: what a save will write has been looked at, and a retired name is neither built in nor a role of a tenant's own (`FlowRolesAssumption`), so that it does not become usable in between |
| `EditsSound` | `EditsKept`, no condition | `Agreed`: a column that is not contested has what was last asked for, in the row and in what every editor who has it open has read; where only given columns are written, the row is what was asked for |
| `NeverEndsByRule` | `AutoNeverEnds` | a hop is judged by the flow of its own order |

**Schedulers**

| theorem | statement | argument |
|---|---|---|
| `EscalatesOnce` | `NotEscalatedAgain`, no condition | `EscInv`: an order that has been escalated is marked, and its escalations and the scans that have found it and not ended (`Finders`) are together at most the scanners: a scan that starts later does not find it, and one that ends is a finder no more, whether it escalates or fails |
| `NothingMissed` | `NoneMissed`, no condition | `ChainInv`: the tasks of a plan are the first so many occurrences from its start; every date that the plan or a round has in hand is one of them or the one after |
| `GeneratedOnce` | `NoneTwice`, with `Beside = FALSE` | `OnceInv`: while the database answers, whoever scans or is about to unlock holds the lock (`LockInv`), so one round at a time; what it has read is the plan's next date, and everything done lies before that (`Fresh`) |
| `PlansAreACalendar` | `ImplementsCalendar`, no condition | `CalendarInv`: `ChainInv`, with the dates in hand being dates that have come (`Dated`), and `OnceInv` where generation by hand does not overlap.  A writer goes on from a date of the chain or the one after; while nothing was disturbed, from the plan's next date |

**Flows**

These are about the operators, for every flow over any set of names that has
those the engine writes (`Flows`, `EngineNames`).  A flow is injected when it is
provisioned, saved and read; lists, loads and learning are counted by the classes
that are derived from it.

| theorem | statement | argument |
|---|---|---|
| `HallServes` | after the injection an order can wait in the hall, be claimed, dispatched and cancelled there, and get there from the initial state; the flow stays well formed | edge by edge (`EdgeAdded`): each is there afterwards, behind those that were |
| `HallIsIdempotent`, `AcceptanceIsIdempotent` | a second injection changes nothing | an edge that is there is not added (`EdgeThere`) |
| `HallKeepsFound` | a lookup that finds an edge of the tenant's finds the same one afterwards | the first edge that matches stays the first when edges are added behind it (`FirstKept`) |
| `HallLeavesClasses` | a tenant's state stays terminal, done, on hold or active, or none of these | new edges start in the hall, the initial state or the pool, and pause nothing (`NewEdges`); a state that had a way out is not affected, one that had none only if an edge is given to it |
| `HallMayStrand` | in a flow without `assigned`, and without an edge to claim in the hall, what is claimed there is in a final state, which counts as done if the flow lists no done states | the injected edges add the state they lead to and no way on from it.  This is a promise the injection does *not* make |
| `ClaimHidesDispatch` | in a flow that gets its hall from the engine, the move to `assigned` is found to be the one for claiming, open to workers and administrators only | the edge for claiming is added first; with `FirstKept`, what comes behind is not found |

**The conditions** that remain are needed.  Each excludes an overlap that a table under
Deviations describes, or that a violation run shows: "without rejections" is
`"reject" \notin Kinds`, "without loose movements and returns" is
`{"out", "return"} \cap Kinds = {}`, the others are the bounds of the same name.
`FirstVersion # 0` is what provisioning establishes; it inserts version 1 with
the tenant.  `EnteredOnRequest` says of a flow what the two deviations of
learning break: no creation, claim, dispatch or automatic rule leads into a
learning state, and no other version learns in the state before.  `MCWorkOrders`
assumes it (`FlowsAssumption`), so that TLC evaluates it for the flows of both
passing runs, the shipped one among them.

**Only model-checked.**  Liveness (`NoneOverlooked`, `HallNoticed`,
`MessageAccountedFor`, `EverySubscriberLogged`, `CaughtUp`) is out of the
prover's reach.  So is `HighestRuleDecides`: the rules are put in order by a
sequence that is chosen and then walked with a fold, and what the fold finds
needs induction over that sequence.  Every other property of a passing run is
proved.  What the violation runs check is refuted as the code stands;
`ConfirmedFrozen` and `NothingLost` are proved under the conditions above.

## Deviations

What the models show the code does not have.  Where a property is named it is
stated in the module without being part of a passing run, or it fails once the
bound in the third column is lifted; a run named there has the instance that
breaks the property when it is added, and a violation run shows it as it is.

**Work orders and flows**

| property | what happens | to see it |
|---|---|---|
| `RedispatchBounded` | a correction writes an older `ext` back and takes the re-dispatch count with it (`publicReport.ts:464`) | `Corrections = TRUE` in `shared_load` |
| `EveryCompletionLearned` | an order completed by the nested automatic hop is never learned from: the endpoint passes the state it was asked for with the from-state of the hop (`workOrder.ts:591`; comment at `stateMachine.ts:345`); and the union of the triggers of all versions suppresses learning at the trigger of an order's own | a rule that approves into a final state; a next version with another trigger |
| `LoadMatches` | rows stamped 0 change definition when the tenant publishes its first, loads stay behind (`workflowDef.ts:728`) | `FirstVersion = 0` |
| `DispatcherCanDispatch` | where an edge by claim and one by dispatch join the same states, the generic endpoint finds the first and its gates: nobody who may only dispatch moves an order from the hall to `assigned`, against "派单能力零损失" (`claimHallEdges.ts:32`) | `orders`; theorem `ClaimHidesDispatch` |
| `NewOrderKnown` | new orders are inserted as `draft` in flows that begin elsewhere (`ticket.ts:117`), so that neither dispatch nor the hall takes them and every creation is rolled back | a flow with names of its own |
| `NeverStranded` | injected edges lead to `assigned` in flows that have no such state (`claimHallEdges.ts:87`) | theorem `HallMayStrand` |
| `ReturnerExcluded` | a return that names an assignee excludes the worker it names instead of the one who returned it (`autoRedispatch.ts:300`), against "排除刚退回的那个工人" (`workOrder.ts:554`) | `shared_load` |
| | the error path of `autoRedispatchAfterReturn` notifies nobody, although its comment says "失败一律降级为'落池 + 喊人'" | read |
| | the hall lists inspection and transport tasks by the live pool only, unlike work orders | read |
| `AutoNeverEnds` | holds; but a rule saved under the live flow may lead an order of an older version to another state than the editor was shown | read |
| `SkillsOfCategory` | skills derived from a fault category never apply to public reports, which carry the id and not the code of the category (`needResolver.ts`, "② 目录派生") | `access` |
| | a rule's own `skill_tags` replace the need's; a rule's weight multiplies all candidates alike, so that tuning it never changes who is picked | read |
| `NothingLost` | see `versions_rollback`.  Also: the revision starts at 1 again after an approval, so that an anchor may match another draft; the optimizer reads the definition before the version; approval reads the change unlocked; the gate for orders in flight looks before the write; migration 099 drops the unique key that the upsert names; the first approval of a flow with no live row is always refused as stale, and its roles are not looked at | `RollbackAlone` lifted; the rest read |
| `NamedRolesExist` | the deletion of a role ignores flows that name it | `access` |

**Settlement and material**

| property | what happens | to see it |
|---|---|---|
| `ConfirmedConsumption` | the check for a confirmed settlement is made without a lock; an outgoing movement and a confirmation overlap | `settle_stock` |
| `DraftFollowsConsumption` | an outgoing movement beside a draft being created is not billed (`material.ts:242`, `085_settlement_material_row_grain.sql:106`) | `Kinds <- OutCreate` |
| `NetNotNegative` | two returns of the same consumption both pass the guard (`material.ts:300`) | run `returns_race` |
| `TotalsMatch` | two rejections on one draft each sum it without what the other deletes | rejections in `settle_stock` |
| `OneSettlement` | an outgoing movement may project material onto a draft that a rejection has taken its order from | rejections with outgoing movements |
| `CanSettleAgain` | after the first drafts of a day are deleted, all numbers tried may be taken, for the rest of the day | `MaxNo = 6` |

**Services**

| property | what happens | to see it |
|---|---|---|
| `NeverOvercounted`, `NeverUndercounted` | a transition reads its order without a lock, so two may settle the same load (`transport.ts:87`); a carrier named at creation is not counted although it is subtracted at the end; native dispatch without a carrier leaves an order nobody can claim; the deletion of a worker looks at work orders only | the first holds up to `staleMoves`, without it it fails; `services` |
| `ExceptionAlerted` | an exception reached by the generic transition raises no alert | `services` |
| `SnapshotMatches` | two requests with findings overwrite each other's snapshot; findings may be rewritten after the task is done; a deleted item breaks the foreign key | `services` |
| | concurrent check-ins are lost; a miss may overwrite a done patrol; two misses at once raise no alert; any two misses count as consecutive | read |
| | an alert's status may go back; a linked plan may be gone | read |
| | check-out and approval of volunteers are not locked | read |
| `OneTaskPerRef` | the same dispatch delivered twice at once makes two tasks | `OneDispatch = FALSE` |
| `ItemsCarried` | tasks that a plan generates carry none of its items | `plans` |
| `NoneTwice` | generation by hand beside a round duplicates; a lock that cannot be asked for lets rounds run together | `Beside = TRUE`; faults |
| `NotEscalatedAgain` | two scans at once both escalate ("已升级过，不重复", `sla.ts`), as many times as there are scans; rework never clears the mark, so that a reopened order is not escalated again; the hall warns once in an order's life | holds up to `Cardinality(Scanner)`, fails for 1 |
| `EverySubscriberLogged` | a row of `webhook_delivery` that cannot be written (a byte the text type refuses, `dispatch.ts:271`) rolls back the rows of the subscribers before it and leaves those behind it without their post; a response cut off in its body (`dispatch.ts:60`) settles no promise, so that the loop waits for good and keeps its transaction and one connection of the pool.  Its comment speaks of "投递失败（…）只落 webhook_delivery.error" (`dispatch.ts:5`) | holds up to `Whole`; `background` |
| `MessageAccountedFor` | a message that finds no connection, or whose row cannot be written, leaves a line on the console only ("失败仅记日志", `notify.ts:435`) | `unrecorded`; `background` |
| `ToldAfterCommit` | WeChat is told by the SLA scan and by webhooks before the transaction commits (`slaScheduler.ts:274`, `server.ts:136`); a restart loses the queue | `background` |

**Administration**

| property | what happens | to see it |
|---|---|---|
| `AdminRemains` | whether the target is an active administrator is decided on a row read before the lock (`accounts.ts:465`); who has become one in between is demoted unasked, and none may be left | `"promote"` out of `Alone` |
| `RolesDefined` | a role deleted beside a creation leaves an account with a role that is gone; permission saves at once leave the union; an empty list of points restores the defaults | the first holds up to `crossed`, without it it fails; `access` |
| | a token keeps the role it was issued with until it expires; the status of a tenant may be stale for the cache's life and a query; a tenant without a row in the register is let through | `Accounts`, `Tenants` as modelled |
| `EvidenceKept` | a correction loses what is written beside it, although it "追加 corrections 记录（不删历史）" (`publicReport.ts:447`); the daily quota is counted outside the transaction and may be overrun | `Beside = TRUE` |
| `EditsKept` | emergency plans, inspection points and items, dispatch rules and terms are read unlocked and written back whole; so that an edit takes back another that was made since; an edit of a row deleted meanwhile answers with success and no item | holds up to `contested`, without it it fails; `access` |

## Not modelled, and why

- **Data and wording.**  Prices, notes, scores, labels, texts and exports; a
  model says which of the values tell behaviours apart.
- **Manual edits of `worker.load`** (`PUT /workers/:id`) overwrite the counter on
  purpose; `LoadMatches` is about the paths that maintain it.
- **The learner** (`services/modelTrainer.ts`, `optimizer.ts`, `k2Shadow.ts`):
  numbers; when it is called and how its result is published is modelled, a
  learning step that fails half-way is listed as a hazard.
- **The wait of two requests for each other** is only its outcome, `Abort`.
- **How due times follow from policies** (`engine/slaPolicy.ts`) and the pause of
  the clock: a due time is past or not.
- **A key first used by an order that is not public** and then by a report: the
  answer falls back to the token just drawn (`|| viewToken`, `publicReport.ts:140`),
  which `StoredToken` does not have.  Orders of `Reports` are public.
- **The first save of a flow** with no live row, whose roles nobody looks at
  (`workflowDef.ts:512-516`): `FlowRoles` begins with a live row.
- **Passwords, signatures, log-in limits** and whatever else is a check within
  one request.
- **The wire**: WeChat, the language models, uploads, QR codes, HTTP itself.
- **Read-only parts**: statistics, process mining, monitoring, data quality.
- **Administrative records** that nothing else depends on: assets, equipment,
  labels, catalogues, themes, service desks, the template market.

`PROJECT.json` lists every component with its status and reason.

## What could come next

The pause of the SLA clock beside transitions; several warehouses; a model of
the learner with a step that fails half-way; a locked `Transport` that would
implement `DutyLedger` together with `WorkOrders`; an abstract specification of
the advisory lock alone; `ConfirmedFrozen` with rejections that lock the header,
which is how `confirm_vs_reject` could be repaired.
