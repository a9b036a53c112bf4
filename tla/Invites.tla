-------------------------------- MODULE Invites --------------------------------
(* Invitations of one tenant (routes/invite.ts, createUser of account.ts) and *)
(* the binding of a WeChat identity (routes/auth.ts wx-bind), with the        *)
(* accounts and roles they act on and the tenant's status they depend on.     *)
(* Redeeming reads the code, then runs one transaction.                       *)
EXTENDS Accounts

CONSTANTS
  Code,      \* invitation codes, fresh each time
  IReq,      \* requests
  OpenId,    \* WeChat identities
  NoId

VARIABLES
  invite,    \* invite_codes: code -> username, role, used_at, revoked_at, expired
  madeBy,    \* which codes made an account, how often
  openid,    \* account_user.wx_openid
  suspended, \* tenant_registry.status is suspended or pending
  ireq       \* the requests

invars == <<invite, madeBy, openid, suspended, ireq>>

Resting == [st |-> "rest"]
Live(c) == c \in DOMAIN invite /\ ~invite[c].used /\ ~invite[c].revoked /\ ~invite[c].expired

(* POST /invites: voids the codes of the same username, adds one; refused    *)
(* while the username exists.  Two at once: the second hits the partial      *)
(* unique index, so that of the two one is as if it ran alone.               *)
Invite(s, c, u, role) ==
  /\ s \in session /\ HasPerm(s.role, "role.manage") /\ Usable(role)
  /\ u \notin DOMAIN acct /\ c \notin DOMAIN invite
  /\ invite' = [d \in DOMAIN invite \cup {c} |->
       IF d = c THEN [user |-> u, role |-> role, used |-> FALSE, revoked |-> FALSE, expired |-> FALSE]
       ELSE IF invite[d].user = u /\ ~invite[d].used THEN [invite[d] EXCEPT !.revoked = TRUE] ELSE invite[d]]
  /\ UNCHANGED <<acvars, madeBy, openid, suspended, ireq>>

(* DELETE /invites/:id *)
Revoke(s, c) ==
  /\ s \in session /\ HasPerm(s.role, "role.manage")
  /\ c \in DOMAIN invite /\ ~invite[c].used /\ ~invite[c].revoked
  /\ invite' = [invite EXCEPT ![c].revoked = TRUE]
  /\ UNCHANGED <<acvars, madeBy, openid, suspended, ireq>>
(* 72 hours pass. *)
Lapse(c) ==
  /\ c \in DOMAIN invite /\ ~invite[c].expired /\ invite' = [invite EXCEPT ![c].expired = TRUE]
  /\ UNCHANGED <<acvars, madeBy, openid, suspended, ireq>>

(* POST /invites/redeem: the code is found and looks good; the identity, if  *)
(* one is given, is fetched from WeChat meanwhile.                           *)
Present(r, c, id) ==
  /\ ireq[r] = Resting /\ Live(c)
  /\ ireq' = [ireq EXCEPT ![r] = [st |-> "redeem", code |-> c, id |-> id]]
  /\ UNCHANGED <<acvars, invite, madeBy, openid, suspended>>
Bound(id) == id # NoId /\ \E u \in DOMAIN acct : openid[u] = id
LooksGood(c) == TRUE             \* a fault: the code looked good when it was found
(* UPDATE ... WHERE used_at IS NULL AND revoked_at IS NULL AND expires_at > now() *)
StillGood(c) == Live(c)
Redeem(r) ==
  LET c == ireq[r].code
      u == invite[c].user IN
  /\ ireq[r].st = "redeem"
  /\ IF ~suspended /\ ~Bound(ireq[r].id) /\ u \notin DOMAIN acct /\ StillGood(c)
     THEN /\ invite' = [invite EXCEPT ![c].used = TRUE]
          /\ NewAccount(u, IF Usable(invite[c].role) THEN invite[c].role ELSE "operator")
          /\ openid' = [openid EXCEPT ![u] = ireq[r].id]
          /\ madeBy' = [madeBy EXCEPT ![c] = @ + 1]
     ELSE UNCHANGED <<invite, acct, openid, madeBy, crossed>>
  /\ ireq' = [ireq EXCEPT ![r] = Resting]
  /\ UNCHANGED <<session, roleDef, rolePerm, areq, suspended>>

(* POST /auth/wx-bind: looks for the identity in one transaction and writes  *)
(* it in another; the unique index on wx_openid has the last word.           *)
BindLook(r, s, id) ==
  /\ ireq[r] = Resting /\ s \in session /\ s.user \in DOMAIN acct
  /\ \A v \in DOMAIN acct \ {s.user} : openid[v] # id
  /\ ireq' = [ireq EXCEPT ![r] = [st |-> "bind", user |-> s.user, id |-> id]]
  /\ UNCHANGED <<acvars, invite, madeBy, openid, suspended>>
Unique(u, id) == \A v \in DOMAIN acct \ {u} : openid[v] # id
Bind(r) ==
  LET u == ireq[r].user IN
  /\ ireq[r].st = "bind"
  /\ openid' = IF u \in DOMAIN acct /\ Unique(u, ireq[r].id) THEN [openid EXCEPT ![u] = ireq[r].id] ELSE openid
  /\ ireq' = [ireq EXCEPT ![r] = Resting]
  /\ UNCHANGED <<acvars, invite, madeBy, suspended>>

SetSuspended ==
  /\ suspended' = ~suspended /\ UNCHANGED <<acvars, invite, madeBy, openid, ireq>>

InvitesInit ==
  /\ invite = [c \in {} |-> NoId] /\ madeBy = [c \in Code |-> 0]
  /\ openid = [u \in User |-> NoId] /\ suspended = FALSE /\ ireq = [r \in IReq |-> Resting]

InvitesNext ==
  \/ \E s \in session, c \in Code : Revoke(s, c) \/ \E u \in User, role \in Role : Invite(s, c, u, role)
  \/ \E c \in Code : Lapse(c)
  \/ \E r \in IReq, c \in Code, id \in OpenId \cup {NoId} : Present(r, c, id)
  \/ \E r \in IReq, s \in session, id \in OpenId : BindLook(r, s, id)
  \/ \E r \in IReq : Redeem(r) \/ Bind(r)
  \/ SetSuspended

(* A code makes one account at most, and only while it is unused, not        *)
(* revoked and not expired, whoever presents it at the same time             *)
(* (invite.ts POST /invites/redeem).                                         *)
OnlyGoodCodes ==
  [][\A c \in Code : madeBy'[c] # madeBy[c] => madeBy[c] = 0 /\ Live(c) /\ ~suspended]_<<acvars, invars>>
=============================================================================
