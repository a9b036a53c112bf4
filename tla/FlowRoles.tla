------------------------------- MODULE FlowRoles -------------------------------
(* The roles and permission points that a flow's edges name, and the roles a *)
(* tenant has (engine/workflowDef.ts: validateWorkflowDef,                   *)
(* assertWorkflowDefRolesUsable, saveWorkflowDef).  A save reads the live    *)
(* definition and the roles in one step and writes in the next; roles come   *)
(* and go in between.  Orders in flight are WorkflowVersions' concern.       *)
EXTENDS Accounts

CONSTANTS
  Flow,    \* the definitions that drafts, templates and the history hold:
           \* [initial, states, edges, done, routes], an edge being
           \* [from, to, roles, perms] and a route <<state, state>>
  FlowReq  \* saves in flight

VARIABLES
  liveFlow, \* workflow_def: the definition and its version
  save      \* the saves

flowvars == <<liveFlow, save>>

NoSave == [flow |-> "none"]
(* Roles that once were built in and may not be given any more.              *)
Retired == {"dispatcher", "service_desk"}
(* No tenant defines a role of these names (CHECK role_def_code_reserved).   *)
ASSUME FlowRolesAssumption == OwnRole \cap Retired = {}
RolesOf(def) == UNION {e.roles : e \in def.edges}
Final(def) == def.done \cup (def.states \ {e.from : e \in def.edges})

Valid(def) ==
  /\ def.initial \in def.states
  /\ \A e \in def.edges : {e.from, e.to} \subseteq def.states /\ e.perms \subseteq Perm
  /\ \A route \in def.routes : route[2] \in def.states \ Final(def)

(* A fault: a role that ever was built in needs no further look. *)
KnownNames(def, old) == RolesOf(def) \subseteq RolesOf(old) \cup Builtin \cup Retired \cup DOMAIN roleDef
(* Only names that the live definition does not have are looked at: a role   *)
(* must be built in and not retired, or defined; enabled or not.             *)
RolesUsable(def, old) == RolesOf(def) \subseteq RolesOf(old) \cup Builtin \cup DOMAIN roleDef

FlowRolesInit ==
  /\ \E def \in Flow : Valid(def) /\ RolesOf(def) \subseteq Builtin /\ liveFlow = [def |-> def, version |-> 1]
  /\ save = [r \in FlowReq |-> NoSave]

(* An approval expects the version its draft was based on; a rollback and a  *)
(* template expect none.                                                     *)
BeginSave(r, def, expect) ==
  /\ save[r] = NoSave /\ expect \in {0, liveFlow.version}
  /\ Valid(def) /\ RolesUsable(def, liveFlow.def)
  /\ save' = [save EXCEPT ![r] = [flow |-> def, expect |-> expect]]
  /\ UNCHANGED liveFlow
EndSave(r) ==
  /\ save[r] # NoSave
  /\ liveFlow' = IF save[r].expect \in {0, liveFlow.version}
                 THEN [def |-> save[r].flow, version |-> liveFlow.version + 1] ELSE liveFlow
  /\ save' = [save EXCEPT ![r] = NoSave]

FlowRolesNext ==
  \/ \E r \in FlowReq, def \in Flow : BeginSave(r, def, 0) \/ BeginSave(r, def, liveFlow.version)
  \/ \E r \in FlowReq : EndSave(r)

(* A retired role never comes back into a tenant's flow, whichever draft,    *)
(* template or old version is made live and however saves overlap            *)
(* (workflowDef.ts: a draft from before the roles were retired).             *)
RetiredStayOut == RolesOf(liveFlow.def) \cap Retired = {}

(* Not so: the roles that a flow names exist.  Deleting a role looks at the  *)
(* accounts that have it, not at the flows that name it.                     *)
NamedRolesExist == RolesOf(liveFlow.def) \subseteq Builtin \cup DOMAIN roleDef
=============================================================================
