---------------------------- MODULE WorkflowDefs ----------------------------
(***************************************************************************)
(* The two work-order definitions that ship with the code                  *)
(* (engine/stateMachine.ts), edge by edge and in the order of the source:  *)
(* where two edges join the same two states the first one is the one the   *)
(* generic transition endpoint finds.                                      *)
(***************************************************************************)
EXTENDS WorkflowGraph

NoRoute == [s \in {} |-> s]

(* The four-state definition a tenant without a row of its own falls back to. *)
DefaultDef ==
  [initial     |-> "draft",
   states      |-> {"draft", "assigned", "processing", "completed"},
   transitions |-> << Edge("draft", "assigned", "assign"),
                      Edge("assigned", "processing", "start"),
                      Edge("processing", "completed", "complete") >>,
   done        |-> {"completed"}, hold |-> {}, learn |-> {}, route |-> NoRoute]

Field(from, to, event)  == Gated(Edge(from, to, event), {"admin", "worker"}, {})
Override(from, event)   == Requires(Gated(Edge(from, "assigned", event), {"admin"}, {"dispatch.override"}), {"assignee"})
Approval(to, event)     == Gated(Edge("pending_review", to, event), {"admin", "reviewer"}, {"workflow.approve"})
Cancel(from)            == Requires(Gated(Edge(from, "cancelled", "cancel"), {"admin"}, {"ticket.manage"}), {"cancel_reason"})

RichDef ==
  [initial     |-> "draft",
   states      |-> {"draft", "pending_dispatch", "claim_hall", "assigned", "arrived", "processing", "paused",
                    "suspended", "pending_review", "review_passed", "completed", "closed", "cancelled", "evaluated"},
   transitions |->
     << Edge("draft", "assigned", "assign"),
        Edge("assigned", "processing", "start"),
        Edge("processing", "completed", "complete"),
        Override("pending_dispatch", "dispatch"),
        PendingClaimEdge,
        Field("assigned", "arrived", "arrive"),
        Field("arrived", "processing", "start"),
        Field("assigned", "processing", "receive"),
        Requires(Edge("assigned", "pending_dispatch", "return"), {"return_reason"}),
        Override("assigned", "forward"),
        WithEffect(Edge("processing", "paused", "pause"), "pause_sla"),
        WithEffect(Edge("paused", "processing", "resume"), "resume_sla"),
        WithEffect(Requires(Edge("processing", "suspended", "suspend"), {"suspend_reason"}), "pause_sla"),
        WithEffect(Edge("suspended", "processing", "resume"), "resume_sla"),
        Field("processing", "pending_review", "submit_review"),
        Approval("review_passed", "approve"),
        Approval("processing", "reject"),
        Edge("review_passed", "completed", "complete"),
        Requires(Edge("completed", "closed", "close"), {"close_reason"}),
        Requires(Edge("closed", "evaluated", "satisfy"), {"satisfaction_score"}),
        Edge("draft", "claim_hall", "enter_hall"),
        Gated(Edge("claim_hall", "assigned", "claim"), {"worker", "admin"}, {}),
        Override("claim_hall", "dispatch"),
        Cancel("draft"), Cancel("claim_hall"), Cancel("pending_dispatch"), Cancel("assigned"), Cancel("arrived"),
        Cancel("processing"), Cancel("paused"), Cancel("suspended"), Cancel("pending_review") >>,
   done        |-> {"completed", "closed", "evaluated"},
   hold        |-> {},
   learn       |-> {"completed", "review_passed"},
   route       |-> [s \in {"draft"} |-> "assigned"]]
============================================================================
