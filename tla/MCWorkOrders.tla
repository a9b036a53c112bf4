---------------------------- MODULE MCWorkOrders ----------------------------
(* Instances of WorkOrders for TLC: the definitions a tenant publishes and   *)
(* the permission points of the built-in roles (middleware/role.ts).         *)
EXTENDS Boards, TLC
LOCAL INSTANCE WorkflowDefs

MCRolePerms ==
  [r \in {"admin", "operator", "worker"} |->
     CASE r = "admin"    -> {"ticket.manage", "dispatch.override", "workflow.approve"}
       [] r = "operator" -> {"ticket.manage", "dispatch.override"}
       [] r = "worker"   -> {}]

Builtin == EnsureClaimHall(DefaultDef)
(* The shipped 14-state flow with acceptance enabled.                        *)
Rich    == EnsureClaimHall(EnsureAcceptance(RichDef))

(* A tenant's own flow: a hold state of its own, a pool that returned orders *)
(* go back to, a review.                                                     *)
Lean ==
  EnsureClaimHall(
    [initial     |-> "draft",
     states      |-> {"draft", "assigned", "pool", "waiting", "review", "completed", "cancelled"},
     transitions |->
       << Edge("draft", "assigned", "assign"),
          Requires(Edge("assigned", "pool", "return"), {"return_reason"}),
          Override("pool", "dispatch"),
          Gated(Edge("pool", "assigned", "claim"), {"worker", "admin"}, {}),
          Override("assigned", "forward"),
          Edge("assigned", "waiting", "wait"),
          Edge("waiting", "assigned", "resume"),
          Field("assigned", "review", "submit_review"),
          Gated(Edge("review", "completed", "approve"), {"admin"}, {"workflow.approve"}),
          Gated(Edge("review", "assigned", "reject"), {"admin"}, {"workflow.approve"}),
          Cancel("assigned") >>,
     done        |-> {"completed"},
     hold        |-> {"waiting"},
     learn       |-> {},
     route       |-> NoRoute])
LeanDefs == <<Lean>> @@ (0 :> Builtin)

(* Its next version: triage comes before dispatch, waiting is gone, a        *)
(* cancelled order may be reopened.                                          *)
Lean2 ==
  EnsureClaimHall(
    [initial     |-> "draft",
     states      |-> {"draft", "triage", "assigned", "review", "completed", "cancelled"},
     transitions |->
       << Edge("draft", "triage", "assign"),
          Edge("triage", "assigned", "accept"),
          Requires(Edge("assigned", "triage", "return"), {"return_reason"}),
          Field("assigned", "review", "submit_review"),
          Gated(Edge("review", "completed", "approve"), {"admin"}, {"workflow.approve"}),
          Gated(Edge("review", "assigned", "reject"), {"admin"}, {"workflow.approve"}),
          Edge("cancelled", "assigned", "reopen"),
          Cancel("assigned") >>,
     done        |-> {"completed"},
     hold        |-> {},
     learn       |-> {},
     route       |-> NoRoute])

(* A tenant that moves from the rich flow to Lean2: orders of both are under *)
(* way.                                                                      *)
MixedVersions == <<Rich, Lean2>> @@ (0 :> Builtin)

Reviewing == {<<"review", "approve">>, <<"review", "reject">>}

(* The flows of both runs are such as CompletionsLearned is about.           *)
ASSUME FlowsAssumption == \A v \in Version : EnteredOnRequest(v)

Symmetric == Permutations(Worker)
SymmetricOrders == Permutations(Worker) \cup Permutations(Order)
============================================================================
