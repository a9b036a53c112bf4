------------------------------ MODULE Recurrence ------------------------------
(***************************************************************************)
(* Recurring inspection plans (routes/inspection.ts) and the scheduler     *)
(* that generates what has come due (scheduler/inspectionScheduler.ts), in *)
(* several server processes that exclude each other by an advisory lock of *)
(* a database session (scheduler/lock.ts).                                 *)
(*                                                                         *)
(* A tick that has passed the guard against re-entry runs on a session of  *)
(* its own.  The server forgets the lock of a session that is gone.  A     *)
(* round reads a due plan and writes its tasks and its next date in one    *)
(* transaction that holds no lock on the plan.                             *)
(***************************************************************************)
EXTENDS Naturals, FiniteSets

CONSTANTS
  Process, Session, NoOne,
  Home,           \* the process a session belongs to
  Plan,
  CatchUp,        \* most occurrences of a plan in one round (60)
  Interval,       \* days between occurrences of a plan
  Ahead,          \* numbers of occurrences a plan may be created with
  Horizon,        \* bound: last day
  Starts,         \* bound: days a plan may start from
  MaxFaults,      \* bound: processes that go down, locks and transactions that fail
  Beside          \* bound: whether an occurrence is generated by hand beside a round

ASSUME RecurrenceAssumption ==
  /\ Home \in [Session -> Process] /\ NoOne \notin Session \cup Plan
  /\ Interval \in [Plan -> Nat \ {0}] /\ CatchUp \in Nat \ {0} /\ Ahead \subseteq Nat \ {0}
  /\ Beside \in BOOLEAN /\ Starts \subseteq Nat /\ Horizon \in Nat

VARIABLES
  today,
  plan,      \* plans: whether there, whether paused, next_run_at
  made,      \* tasks of an occurrence, and how many of them carry its items
  holder,    \* session that holds the advisory lock
  held,      \* heldClients: the session a process will unlock
  up,        \* processes whose scheduler has been started
  running,   \* running of a process
  tick,      \* rounds of the scheduler
  byHand,    \* occurrence that is being generated by hand, of a plan
  crashes, failures

planVars  == <<today, plan, made, byHand>>
tickVars  == <<holder, held, up, running, tick>>
faultVars == <<crashes, failures>>
rvars     == <<planVars, tickVars, faultVars>>

Day     == 0..Horizon
NoDay   == Horizon + 1000
NoPlan  == [there |-> FALSE, paused |-> FALSE, next |-> NoDay]
Resting == [pc |-> "resting", left |-> {}, plan |-> NoOne, next |-> NoDay]
Nothing == [n |-> 0, carrying |-> 0]

Exists(p) == plan[p].there
Due(p)    == Exists(p) /\ ~plan[p].paused /\ plan[p].next <= today

(* addPlanInterval, n times *)
After(p, d, n) == d + n * Interval[p]
(* createPlanOccurrence for the n occurrences of p from d on; the items are  *)
(* there when the plan was handed over with them.                            *)
With(p, d, n, carried) ==
  [made EXCEPT ![p] = [x \in Day |->
     IF \E k \in 0..(n - 1) : x = After(p, d, k)
     THEN [n |-> @[x].n + 1, carrying |-> @[x].carrying + IF carried THEN 1 ELSE 0]
     ELSE @[x]]]
----------------------------------------------------------------------------
RecurrenceInit ==
  /\ today = 0
  /\ plan = [p \in Plan |-> NoPlan]
  /\ made = [p \in Plan |-> [d \in Day |-> Nothing]]
  /\ holder = NoOne
  /\ held = [i \in Process |-> NoOne]
  /\ up = {} /\ running = [i \in Process |-> FALSE]
  /\ tick = [s \in Session |-> Resting]
  /\ byHand = [p \in Plan |-> NoDay]
  /\ crashes = 0 /\ failures = 0

NextDay == today < Horizon /\ today' = today + 1 /\ UNCHANGED <<plan, made, byHand, tickVars, faultVars>>

(* POST /plans: the first occurrences at once.  They are created from the    *)
(* fields of the plan that do not include its items.                         *)
CreatePlan(p, start, n) ==
  /\ ~Exists(p)
  /\ made' = With(p, start, n, FALSE)
  /\ plan' = [plan EXCEPT ![p] = [there |-> TRUE, paused |-> FALSE, next |-> After(p, start, n)]]
  /\ UNCHANGED <<today, byHand, tickVars, faultVars>>

(* PUT /plans/:id: pause and resume.                                         *)
SetPaused(p, b) ==
  /\ Exists(p) /\ plan[p].paused # b
  /\ plan' = [plan EXCEPT ![p].paused = b]
  /\ UNCHANGED <<today, made, byHand, tickVars, faultVars>>

(* POST /plans/:id/generate: the plan is read, then its next occurrence is   *)
(* written.                                                                  *)
BeginByHand(p) ==
  /\ Exists(p) /\ ~plan[p].paused /\ byHand[p] = NoDay /\ plan[p].next \in Day
  /\ Beside \/ \A s \in Session : tick[s].plan # p
  /\ byHand' = [byHand EXCEPT ![p] = plan[p].next]
  /\ UNCHANGED <<today, plan, made, tickVars, faultVars>>
GenerateByHand(p) ==
  /\ byHand[p] # NoDay
  /\ made' = With(p, byHand[p], 1, TRUE)
  /\ plan' = [plan EXCEPT ![p].next = After(p, byHand[p], 1)]
  /\ byHand' = [byHand EXCEPT ![p] = NoDay]
  /\ UNCHANGED <<today, tickVars, faultVars>>

(* runInspectionSchedulerOnce up to the lock: running is only set once the   *)
(* lock is there, so two ticks of a process may both get this far.           *)
StartTick(s) ==
  /\ tick[s] = Resting /\ Home[s] \in up /\ ~running[Home[s]]
  /\ tick' = [tick EXCEPT ![s].pc = "asking"]
  /\ UNCHANGED <<planVars, holder, held, up, running, faultVars>>

(* The round starts with an enumeration of what is due                      *)
(* (inspection_due_plan_tenants).                                            *)
Started(s) ==
  /\ running' = [running EXCEPT ![Home[s]] = TRUE]
  /\ tick' = [tick EXCEPT ![s].pc = "scanning", ![s].left = {p \in Plan : Due(p)}]
(* A fault: the answer of the database is not looked at.                     *)
AnyFree(s) == TRUE
Free(s) == holder = NoOne
(* tryAcquireSchedulerLock: granted, refused, or let through because the     *)
(* database did not answer.                                                  *)
Granted(s) ==
  /\ tick[s].pc = "asking" /\ Free(s)
  /\ holder' = s /\ held' = [held EXCEPT ![Home[s]] = s]
  /\ Started(s)
  /\ UNCHANGED <<planVars, up, faultVars>>
Refused(s) ==
  /\ tick[s].pc = "asking" /\ ~Free(s)
  /\ tick' = [tick EXCEPT ![s] = Resting]
  /\ UNCHANGED <<planVars, holder, held, up, running, faultVars>>
LetThrough(s) ==
  /\ tick[s].pc = "asking" /\ crashes + failures < MaxFaults
  /\ failures' = failures + 1
  /\ Started(s)
  /\ UNCHANGED <<planVars, holder, held, up, crashes>>

(* runDuePlansForTenant: the plan is read, with its items left out; what     *)
(* another round has dealt with in between is no longer due.                 *)
ReadPlan(s, p) ==
  /\ tick[s].pc = "scanning" /\ p \in tick[s].left /\ tick[s].plan = NoOne
  /\ Due(p) => Beside \/ byHand[p] = NoDay
  /\ tick' = [tick EXCEPT ![s].left = @ \ {p}, ![s].plan = IF Due(p) THEN p ELSE NoOne,
                          ![s].next = IF Due(p) THEN plan[p].next ELSE NoDay]
  /\ UNCHANGED <<planVars, holder, held, up, running, faultVars>>

Least(m, n) == IF m <= n THEN m ELSE n
(* Occurrences that have come due, at most CatchUp.                          *)
Missed(p, d) == Cardinality({k \in 0..Horizon : After(p, d, k) <= today})
(* A fault: the next date is counted from today.                             *)
SkippedAhead(p, d) == today + Interval[p]
Onwards(p, d) == After(p, d, Least(Missed(p, d), CatchUp))
WritePlan(s) ==
  LET p == tick[s].plan
      d == tick[s].next
  IN /\ p # NoOne
     /\ made' = With(p, d, Least(Missed(p, d), CatchUp), FALSE)
     /\ plan' = [plan EXCEPT ![p].next = Onwards(p, d)]
     /\ tick' = [tick EXCEPT ![s].plan = NoOne, ![s].next = NoDay]
     /\ UNCHANGED <<today, byHand, holder, held, up, running, faultVars>>
(* The transaction of a tenant fails; the round goes on with the others.     *)
SkipPlan(s) ==
  /\ tick[s].plan # NoOne /\ crashes + failures < MaxFaults
  /\ failures' = failures + 1
  /\ tick' = [tick EXCEPT ![s].plan = NoOne, ![s].next = NoDay]
  /\ UNCHANGED <<planVars, holder, held, up, running, crashes>>

(* The end of a round: running is reset, then the session of heldClients     *)
(* gives up the lock.                                                        *)
EndTick(s) ==
  /\ tick[s].pc = "scanning" /\ tick[s].left = {} /\ tick[s].plan = NoOne
  /\ running' = [running EXCEPT ![Home[s]] = FALSE]
  /\ tick' = [tick EXCEPT ![s].pc = "unlocking"]
  /\ UNCHANGED <<planVars, holder, held, up, faultVars>>
(* A fault: the lock is given up on another session than the one it was      *)
(* taken on.                                                                 *)
Elsewhere(s) == holder
Released(s) == IF held[Home[s]] = holder THEN NoOne ELSE holder
(* releaseSchedulerLock *)
Unlock(s) ==
  /\ tick[s].pc = "unlocking"
  /\ holder' = Released(s)
  /\ held' = [held EXCEPT ![Home[s]] = NoOne]
  /\ tick' = [tick EXCEPT ![s] = Resting]
  /\ UNCHANGED <<planVars, up, running, faultVars>>

(* A process comes up (startInspectionScheduler) and goes down, whatever it  *)
(* is about; its sessions end.                                               *)
ComeUp(i) ==
  /\ i \notin up /\ up' = up \cup {i}
  /\ UNCHANGED <<planVars, holder, held, running, tick, faultVars>>
GoDown(i) ==
  /\ i \in up /\ up' = up \ {i}
  /\ crashes + failures < MaxFaults /\ crashes' = crashes + 1
  /\ tick' = [s \in Session |-> IF Home[s] = i THEN Resting ELSE tick[s]]
  /\ holder' = IF holder # NoOne /\ Home[holder] = i THEN NoOne ELSE holder
  /\ held' = [held EXCEPT ![i] = NoOne]
  /\ running' = [running EXCEPT ![i] = FALSE]
  /\ UNCHANGED <<planVars, failures>>

Round(s) ==
  \/ Granted(s) \/ Refused(s) \/ WritePlan(s) \/ EndTick(s) \/ Unlock(s)
  \/ \E p \in Plan : ReadPlan(s, p)
RecurrenceNext ==
  \/ NextDay
  \/ \E p \in Plan :
       \/ \E start \in Starts, n \in Ahead : CreatePlan(p, start, n)
       \/ \E b \in BOOLEAN : SetPaused(p, b)
       \/ BeginByHand(p) \/ GenerateByHand(p)
  \/ \E s \in Session : StartTick(s) \/ Round(s) \/ LetThrough(s) \/ SkipPlan(s)
  \/ \E i \in Process : ComeUp(i) \/ GoDown(i)

(* setInterval goes on ticking, a round that has begun goes on, a request    *)
(* that has read a plan is answered.                                         *)
RecurrenceFairness ==
  /\ \A s \in Session : WF_rvars(StartTick(s)) /\ WF_rvars(Round(s))
  /\ \A p \in Plan : WF_rvars(GenerateByHand(p))
RecurrenceSpec == RecurrenceInit /\ [][RecurrenceNext]_rvars /\ RecurrenceFairness
----------------------------------------------------------------------------
(* However many processes tick, overlap and go down, an occurrence of a plan *)
(* is generated once (the advisory lock of scheduler/lock.ts), as long as    *)
(* the database answers.                                                     *)
NoneTwice == failures = 0 => \A p \in Plan, d \in Day : made[p][d].n <= 1

(* And none is left out: between the first task of a plan and its next date  *)
(* lies one for every interval, whatever rounds were cut off, skipped,       *)
(* caught up or done by hand.                                                *)
NoneMissed ==
  \A p \in Plan : \A d \in Day :
    made[p][d].n > 0 /\ After(p, d, 1) < plan[p].next /\ After(p, d, 1) \in Day => made[p][After(p, d, 1)].n > 0

(* A plan does not stay overdue while some process is up: neither a process  *)
(* that went down with the lock nor a lock that cannot be had stops the      *)
(* generation.                                                               *)
CaughtUp == \A p \in Plan : Due(p) ~> ~Due(p) \/ up = {}

(* A task that a plan generates carries the items of the plan (the comment   *)
(* on item_ids of planSchema).                                               *)
ItemsCarried == \A p \in Plan, d \in Day : made[p][d].carrying = made[p][d].n

(* What is read out of the tables as a calendar: the next dates of the plans  *)
(* there are, the tasks of each date, and whether the database has answered   *)
(* every time and nobody generates by hand beside a round.                    *)
NextDates == [p \in {q \in Plan : Exists(q)} |-> plan[p].next]
TasksOn   == [p \in Plan |-> [d \in Day |-> made[p][d].n]]
Answering == failures = 0 /\ ~Beside
Dates     == INSTANCE Calendar WITH next <- NextDates, tasks <- TasksOn, calm <- Answering

(* Plans and rounds implement Calendar: a round, a request or the creation of *)
(* a plan writes the occurrences from a date the plan has reached, and the    *)
(* date after the last of them; everything else leaves the calendar alone.    *)
ImplementsCalendar == Dates!Spec
=============================================================================
