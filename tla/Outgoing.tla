------------------------------- MODULE Outgoing -------------------------------
(***************************************************************************)
(* What leaves the process about an event: notifications                   *)
(* (services/notify.ts) and webhooks (webhook/dispatch.ts, routes.ts).     *)
(*                                                                         *)
(* A job is a request or a round of the SLA scan.  It works in a           *)
(* transaction, says one thing to one recipient and reports one event.     *)
(* Rows written in the transaction go with it; the queue of WeChat         *)
(* messages and the posts to subscribers do not.  Each message, and each   *)
(* event with all its posts, is then a transaction of its own, which may   *)
(* fail and is not tried again.                                            *)
(***************************************************************************)
EXTENDS Naturals, FiniteSets

CONSTANTS
  Job, Request,     \* jobs, and those of them that are HTTP requests
  Sub,              \* webhook subscriptions
  MaxRestarts,      \* bound
  MaxFailures       \* bound: transactions that fail, responses that never end

ASSUME OutgoingAssumption == Request \subseteq Job /\ MaxRestarts \in Nat /\ MaxFailures \in Nat

VARIABLES
  job,        \* where a job is: idle, open, committed, failed, ended
  inApp,      \* notification rows of channel in_app, of jobs that committed
  queue,      \* wechatPendingQueue
  sending,    \* messages handed to WeChat, no answer yet
  wechat,     \* notification rows of channel wechat, delivered or not
  unrecorded, \* messages of which a line on the console is all there is
  active,     \* active subscriptions
  posting,    \* dispatchEvent of a job: subscriptions left, posts made
  log,        \* webhook_delivery, whatever the outcome
  restarts, failures

ovars == <<job, inApp, queue, sending, wechat, unrecorded, active, posting, log, restarts, failures>>
hookVars    == <<active, posting, log>>
messageVars == <<inApp, queue, sending, wechat, unrecorded>>
faultVars   == <<restarts, failures>>

NotCalled == [pc |-> "none", left |-> {}, done |-> {}]
Fails == failures < MaxFailures /\ failures' = failures + 1
----------------------------------------------------------------------------
OutgoingInit ==
  /\ job = [j \in Job |-> "idle"]
  /\ inApp = {} /\ queue = {} /\ sending = {} /\ wechat = {} /\ unrecorded = {}
  /\ active = {} /\ posting = [j \in Job |-> NotCalled] /\ log = {}
  /\ restarts = 0 /\ failures = 0

(* POST and DELETE /webhooks/subscriptions; a row is deactivated, not        *)
(* removed, and an address in a private network is refused.                  *)
Subscribe(s) ==
  /\ s \notin active /\ \A j \in Job : posting[j] = NotCalled
  /\ active' = active \cup {s}
  /\ UNCHANGED <<job, messageVars, posting, log, faultVars>>
Unsubscribe(s) ==
  /\ s \in active /\ active' = active \ {s}
  /\ UNCHANGED <<job, messageVars, posting, log, faultVars>>

(* dispatchEvent, fire and forget.                                           *)
Called(j) == [posting EXCEPT ![j].pc = "called"]
(* insertNotification: the row of channel in_app is part of the transaction, *)
(* the message for WeChat waits in memory.  A scan calls dispatchEvent for   *)
(* an order it escalates while its transaction is open.                      *)
Begin(j) ==
  /\ job[j] = "idle" /\ job' = [job EXCEPT ![j] = "open"]
  /\ queue' = queue \cup {j}
  /\ posting' = IF j \in Request THEN posting ELSE Called(j)
  /\ UNCHANGED <<inApp, sending, wechat, unrecorded, active, log, faultVars>>
Committed(j) == inApp \cup {j}
CommitJob(j) ==
  /\ job[j] = "open" /\ job' = [job EXCEPT ![j] = "committed"]
  /\ inApp' = Committed(j)
  /\ posting' = IF j \in Request THEN Called(j) ELSE posting
  /\ UNCHANGED <<queue, sending, wechat, unrecorded, active, log, faultVars>>
FailJob(j) ==
  /\ job[j] = "open" /\ job' = [job EXCEPT ![j] = "failed"]
  /\ UNCHANGED <<messageVars, hookVars, faultVars>>

(* flushWechatDeliveries: splice(0, length), each message on a transaction   *)
(* of its own.                                                               *)
OneFlushed ==   \* a fault: the queue is emptied, but one message is taken
  sending \cup (IF queue = {} THEN {} ELSE {CHOOSE j \in queue : TRUE})
Flushed == sending \cup queue
(* res.on('finish') of server.ts: after any response, an error's too.        *)
Respond(j) ==
  /\ j \in Request /\ job[j] \in {"committed", "failed"}
  /\ job' = [job EXCEPT ![j] = "ended"]
  /\ sending' = Flushed /\ queue' = {}
  /\ UNCHANGED <<inApp, wechat, unrecorded, hookVars, faultVars>>
(* WechatChannel.send: whatever WeChat does (not configured, no openid,      *)
(* refused, no answer before the deadline of httpsPostJson), a row says it.  *)
Sent(j) ==
  /\ j \in sending /\ sending' = sending \ {j}
  /\ wechat' = wechat \cup {j}
  /\ UNCHANGED <<job, inApp, queue, unrecorded, hookVars, faultVars>>
(* No connection, or the row cannot be written or committed: the message is  *)
(* given up without a row.                                                   *)
GiveUpMessage(j) ==
  /\ j \in sending /\ Fails /\ sending' = sending \ {j}
  /\ unrecorded' = unrecorded \cup {j}
  /\ UNCHANGED <<job, inApp, queue, wechat, hookVars, restarts>>

(* selectSubscriptions of the subscriptions that are active.                 *)
ReadSubscriptions(j) ==
  /\ posting[j].pc = "called"
  /\ posting' = [posting EXCEPT ![j] = [@ EXCEPT !.pc = "posting", !.left = active]]
  /\ UNCHANGED <<job, messageVars, active, log, faultVars>>
(* A fault: a post that fails leaves the loop.                               *)
OthersOnlyAfter(left, s, ok) == IF ok THEN left \ {s} ELSE {}
Others(left, s, ok) == left \ {s}
(* One subscriber: resolveSafeOutboundUrl, POST, and the row of              *)
(* webhook_delivery with the status or the error: an address that is         *)
(* refused, no connection, no answer in time.                                *)
Post(j, s, ok) ==
  /\ posting[j].pc = "posting" /\ s \in posting[j].left
  /\ posting' = [posting EXCEPT ![j] = [@ EXCEPT !.left = Others(@, s, ok), !.done = @ \cup {<<j, s>>}]]
  /\ UNCHANGED <<job, messageVars, active, log, faultVars>>
(* The rows are committed once every subscriber has had its post.            *)
LogPosts(j) ==
  /\ posting[j].pc = "posting" /\ posting[j].left = {}
  /\ log' = log \cup posting[j].done
  /\ posting' = [posting EXCEPT ![j].pc = "logged"]
  /\ UNCHANGED <<job, messageVars, active, faultVars>>
(* No connection, or a row that cannot be written, or the commit: the loop   *)
(* is left and the rows of the posts that were made are rolled back.         *)
BreakOff(j) ==
  /\ posting[j].pc \in {"called", "posting"} /\ Fails
  /\ posting' = [posting EXCEPT ![j] = [pc |-> "broken", left |-> {}, done |-> {}]]
  /\ UNCHANGED <<job, messageVars, active, log, restarts>>
(* A response that ends before its body does: neither end nor error comes of *)
(* it, and the request that the timer would abort is already destroyed.      *)
CutOff(j) ==
  /\ posting[j].pc = "posting" /\ posting[j].left # {} /\ Fails
  /\ posting' = [posting EXCEPT ![j].pc = "stuck"]
  /\ UNCHANGED <<job, messageVars, active, log, restarts>>

(* Everything in memory is gone; nothing takes it up again.                  *)
RestartServer ==
  /\ restarts < MaxRestarts /\ restarts' = restarts + 1
  /\ job' = [j \in Job |-> IF job[j] \in {"open", "committed", "failed"} THEN "ended" ELSE job[j]]
  /\ queue' = {} /\ sending' = {}
  /\ posting' = [j \in Job |-> IF posting[j].pc \in {"called", "posting", "stuck"}
                               THEN [pc |-> "lost", left |-> {}, done |-> {}] ELSE posting[j]]
  /\ UNCHANGED <<inApp, wechat, unrecorded, active, log, failures>>

Attempted(j) == Sent(j) \/ GiveUpMessage(j)
HookStep(j) ==
  ReadSubscriptions(j) \/ LogPosts(j) \/ BreakOff(j) \/ \E s \in Sub, ok \in BOOLEAN : Post(j, s, ok)
OutgoingNext ==
  \/ \E s \in Sub : Subscribe(s) \/ Unsubscribe(s)
  \/ \E j \in Job :
       Begin(j) \/ CommitJob(j) \/ FailJob(j) \/ Respond(j) \/ Attempted(j) \/ HookStep(j) \/ CutOff(j)
  \/ RestartServer

(* A request is answered; an attempt to tell WeChat ends, its calls have a   *)
(* deadline; a dispatch goes on unless a response never ends.                *)
OutgoingFairness ==
  \A j \in Job :
    /\ WF_ovars(Respond(j)) /\ WF_ovars(HookStep(j)) /\ WF_ovars(Attempted(j))
OutgoingSpec == OutgoingInit /\ [][OutgoingNext]_ovars /\ OutgoingFairness
----------------------------------------------------------------------------
(* The message of a request that has committed is tried, whoever flushed the *)
(* queue: a row says how it went, or else a line on the console says that    *)
(* there is none (flushWechatDeliveries), unless the server went down.       *)
MessageAccountedFor ==
  \A j \in Request : job[j] = "committed" ~> j \in wechat \cup unrecorded \/ restarts > 0

(* A post that fails keeps its event from no other subscriber               *)
(* (webhook/dispatch.ts, "投递失败…只落 webhook_delivery.error"): everyone who *)
(* was active when the event was handed over gets its post and its row, if   *)
(* the one transaction of that event is not lost as a whole, by a statement  *)
(* that fails, a response that never ends, or a restart.                     *)
Whole(j) == posting[j].pc \notin {"broken", "stuck", "lost"}
EverySubscriberLogged ==
  \A j \in Job, s \in Sub :
    posting[j].pc = "posting" /\ s \in posting[j].left ~> <<j, s>> \in log \/ ~Whole(j)

(* WeChat is told what has been committed (R31-Q1 of server.ts).             *)
ToldAfterCommit == \A j \in Job : j \in sending => j \in inApp
=============================================================================
