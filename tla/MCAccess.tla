-------------------------------- MODULE MCAccess --------------------------------
(* What a tenant sets up and who may: accounts, invitations and the register *)
(* of tenants; roles in flows, automatic reviews, dispatch rules, the tables *)
(* of basic data; and the reports of people without an account.  For TLC.    *)
(* part says which of them an instance is about, so that their states add    *)
(* up; what a part does not move stays as it was.                            *)
EXTENDS Invites, Tenants, FlowRoles, Masters, Dispatching, AutoRules, Reports, TLC

CONSTANTS Parts, u1, u2, c1, c2, q1, q2, v1, v2, t1, t2, p1, p2, e1, e2
VARIABLE part

(* The flow as shipped, one that names a role of the tenant's own, a draft   *)
(* from before a role was retired, and two that are no flows: an edge asks   *)
(* for a permission there is none of, a route leads to an end.               *)
FlowEdge(f, t, roles, perms) == [from |-> f, to |-> t, roles |-> roles, perms |-> perms]
FlowWith(roles, perms, routes) ==
  [initial |-> "open", states |-> {"open", "done"}, done |-> {"done"}, routes |-> routes,
   edges |-> {FlowEdge("open", "done", roles, perms)}]
MCFlow ==
  {FlowWith({"admin"}, {"ticket.manage"}, {}), FlowWith({"admin", "lead"}, {}, {}),
   FlowWith({"dispatcher"}, {}, {}), FlowWith({"admin"}, {"none"}, {}),
   FlowWith({"admin"}, {}, {<<"open", "done">>})}

(* The second version ends where the first goes on from a rejection, and     *)
(* asks for a field there.                                                   *)
REdge(f, e, t, needs) == [from |-> f, event |-> e, to |-> t, needs |-> needs]
MCRFlows ==
  << [initial |-> "open",
      edges |-> {REdge("open", "submit", "review", FALSE), REdge("review", "approve", "passed", FALSE),
                 REdge("review", "reject", "open", FALSE), REdge("passed", "close", "closed", FALSE)}],
     [initial |-> "open",
      edges |-> {REdge("open", "submit", "review", FALSE), REdge("review", "approve", "passed", FALSE),
                 REdge("review", "reject", "open", TRUE), REdge("open", "drop", "cancelled", FALSE)}] >>
MCHolds(cond, trait) == cond = "any" \/ trait = "calm"

MCSkills == (p1 :> {"air"}) @@ (p2 :> {"air", "lift"})
MCScore == (p1 :> 1) @@ (p2 :> 2)
Rule(prio, bt, tags, own, known) ==
  [on |-> TRUE, prio |-> prio, bt |-> bt, urgent |-> FALSE, tags |-> tags, own |-> own, known |-> known]
MCRules ==
  {Rule(1, Whatever, {}, Unsaid, TRUE), Rule(2, Whatever, {"lift"}, Unsaid, TRUE),
   Rule(2, "air", {}, Says({"air"}), FALSE), [Rule(2, Whatever, {}, Says({}), TRUE) EXCEPT !.on = FALSE],
   [Rule(3, Whatever, {}, Unsaid, TRUE) EXCEPT !.urgent = TRUE]}
MCNeeds == {[bt |-> "air", urgent |-> FALSE], [bt |-> "repair", urgent |-> TRUE]}

(* Bounds.  While accounts change, roles and permissions stay as they are;   *)
(* while those change, there is one token, what overlaps is the deletion of  *)
(* a role with another request, and what is given is one point or none.      *)
FixedRoles == roleDef' = roleDef /\ \A r \in AReq : areq'[r].kind # "perms"
Crossing ==
  \A q, r \in AReq : areq'[q] # NoRequest /\ areq'[r] # NoRequest => q = r \/ "dropRole" \in {areq'[q].kind, areq'[r].kind}
FewPoints == \A r \in AReq : areq'[r].kind = "perms" => areq'[r].set \in {{}, {"role.manage"}}
OneToken == Cardinality(session') <= 1
OneByOne == \A q, r \in AReq : areq'[q] # NoRequest /\ areq'[r] # NoRequest => q = r
OneWriter == Cardinality({w[2] : w \in UNION {rolePerm'[role] : role \in Role}}) <= 1
(* With the invitations, accounts are made by hand and tokens issued, and a  *)
(* role may be defined and disabled; with the flows, roles come and go.      *)
Around ==
  \/ \E u \in User : Login(u)
  \/ \E s \in session, c \in OwnRole : CreateRole(s, c) \/ EnableRole(s, c, FALSE)
  \/ \E r \in AReq : Create(r) \/ \E s \in session, u \in User : BeginCreate(r, s, u, "operator")
Beneath ==
  \/ \E u \in User : Login(u)
  \/ \E s \in session, c \in OwnRole : CreateRole(s, c) \/ \E r \in AReq : BeginDropRole(r, s, c)
  \/ \E r \in AReq : DropRole(r)
FewVersions == liveFlow'.version <= 3
Invited == \A c \in DOMAIN invite' : invite'[c].role # "admin"
(* One tenant is asked about. *)
Asked(t) == \A c \in Caller : call'[c] # Free => call'[c].tenant = t
OnlyOf(t) == \A s \in Tenant \ {t} : status'[s] = status[s]

others == <<acvars, invars, tnvars, part>>
setup == <<flowvars, mvars, dvars, rvars, rpvars>>

Init ==
  /\ AccountsInit /\ InvitesInit /\ TenantsInit /\ part \in Parts
  /\ FlowRolesInit /\ MastersInit /\ DispatchingInit /\ AutoRulesInit /\ ReportsInit
  /\ part \notin {"status", "review"} => \A t \in Tenant : status[t] = "active"
  /\ part # "flows" => liveFlow.def = FlowWith({"admin"}, {"ticket.manage"}, {})
  /\ part # "masters" => table = "term"
Next ==
  \/ part = "accounts" /\ AccountsNext /\ FixedRoles /\ UNCHANGED <<invars, tnvars, part, setup>>
  \/ part = "roles" /\ AccountsNext /\ Crossing /\ OneWriter /\ OneToken /\ FewPoints
     /\ UNCHANGED <<invars, tnvars, part, setup>>
  \/ part = "invites" /\ InvitesNext /\ Invited /\ UNCHANGED <<tnvars, part, setup>>
  \/ part = "invites" /\ Around /\ OneByOne /\ UNCHANGED <<invars, tnvars, part, setup>>
  \/ part = "status" /\ StatusNext /\ Asked(t1) /\ OnlyOf(t1) /\ UNCHANGED <<acvars, invars, part, setup>>
  \/ part = "review" /\ ReviewNext /\ UNCHANGED <<acvars, invars, part, setup>>
  \/ part = "flows" /\ FlowRolesNext /\ FewVersions /\ UNCHANGED <<others, mvars, dvars, rvars, rpvars>>
  \/ part = "flows" /\ Beneath /\ OneByOne /\ UNCHANGED <<invars, tnvars, part, setup>>
  \/ part = "masters" /\ MastersNext /\ UNCHANGED <<others, flowvars, dvars, rvars, rpvars>>
  \/ part = "dispatch" /\ DispatchingNext /\ UNCHANGED <<others, flowvars, mvars, rvars, rpvars>>
  \/ part = "reviews" /\ AutoRulesNext /\ UNCHANGED <<others, flowvars, mvars, dvars, rpvars>>
  \/ part = "reports" /\ ReportsNext /\ UNCHANGED <<others, flowvars, mvars, dvars, rvars>>
Spec == Init /\ [][Next]_<<others, setup>>

Sym == Permutations({u1, u2}) \cup Permutations({c1, c2}) \cup Permutations({q1, q2})
         \cup Permutations({v1, v2}) \cup Permutations({e1, e2})
=============================================================================
