------------------------------- MODULE Accounts -------------------------------
(* Accounts, roles and permission points of one tenant (routes/accounts.ts,  *)
(* routes/auth.ts, middleware/role.ts, repo/roleDef.ts).  A request reads in *)
(* one step and writes in the next; its caller is a token, which keeps the   *)
(* role it was issued with until it expires.                                 *)
EXTENDS Naturals, FiniteSets

CONSTANTS
  User,      \* usernames
  NoUser,    \* the owner of a token whose account is gone
  OwnRole,   \* the roles a tenant may define (role_def.code)
  AReq,      \* requests in flight
  Alone,     \* a bound: the kinds of request that run by themselves
  MaxTokens  \* a bound: tokens in circulation

VARIABLES
  acct,      \* account_user: username -> role, active and wx_openid bound or not
  session,   \* unexpired tokens: account and role
  roleDef,   \* role_def: code -> enabled
  rolePerm,  \* role_permission: role -> {<<perm, request that wrote it>>}
  areq,      \* the requests
  crossed    \* history: roles that requests gave while others deleted them

acvars == <<acct, session, roleDef, rolePerm, areq, crossed>>

Builtin == {"admin", "operator"}
Role == Builtin \cup OwnRole
Perm == {"role.manage", "ticket.manage"}
Default(role) == IF role = "admin" THEN Perm ELSE IF role = "operator" THEN {"ticket.manage"} ELSE {}
Rank(role) == CASE role = "admin" -> 4 [] role = "operator" -> 3 [] OTHER -> 1
NoRequest == [kind |-> "none"]

Usable(role) == role \in Builtin \/ (role \in DOMAIN roleDef /\ roleDef[role])
(* The rows of a role replace the defaults; no row at all means the defaults. *)
Rows(role) == {row[1] : row \in rolePerm[role]}
HasPerm(role, perm) ==
  \/ role = "admin"
  \/ perm \in (IF Rows(role) = {} THEN Default(role) ELSE Rows(role))
CanAssign(caller, role) == caller = "admin" \/ (role # "admin" /\ Rank(role) <= Rank(caller))

Together(kind) ==
  /\ kind \in Alone => \A r \in AReq : areq[r] = NoRequest
  /\ \A r \in AReq : areq[r].kind \notin Alone

(* What a request gives when it writes; a role is given to accounts and      *)
(* permissions to a role.                                                    *)
Gives(q, role) ==
  \/ q.kind = "create" /\ q.role = role
  \/ q.kind \in {"update", "promote"} /\ q.patch.role = role
  \/ q.kind = "perms" /\ q.target = role
Dropping(role) == \E r \in AReq : areq[r].kind = "dropRole" /\ areq[r].target = role
GivenBeside(role) == crossed \cup {c \in {role} : Dropping(c)}

Begin(r, s, request) ==
  /\ areq[r] = NoRequest /\ s \in session /\ HasPerm(s.role, "role.manage")
  /\ Together(request.kind)
  /\ areq' = [areq EXCEPT ![r] = request]

(* POST /auth/login and POST /auth/wx-login *)
Login(u) ==
  /\ u \in DOMAIN acct /\ acct[u].active /\ Cardinality(session) < MaxTokens
  /\ session' = session \cup {[user |-> u, role |-> acct[u].role]}
  /\ UNCHANGED <<acct, roleDef, rolePerm, areq, crossed>>
Expire(s) == s \in session /\ session' = session \ {s} /\ UNCHANGED <<acct, roleDef, rolePerm, areq, crossed>>

(* POST /accounts, POST /auth/users, and createUser of an invitation *)
NewAccount(u, role) ==
  IF u \in DOMAIN acct THEN UNCHANGED <<acct, crossed>>
  ELSE /\ acct' = [v \in DOMAIN acct \cup {u} |-> IF v = u THEN [role |-> role, active |-> TRUE] ELSE acct[v]]
       /\ crossed' = GivenBeside(role)
BeginCreate(r, s, u, role) ==
  /\ u \notin DOMAIN acct /\ Usable(role) /\ CanAssign(s.role, role)
  /\ Begin(r, s, [kind |-> "create", target |-> u, role |-> role])
  /\ UNCHANGED <<acct, session, roleDef, rolePerm, crossed>>
Create(r) ==
  /\ areq[r].kind = "create" /\ NewAccount(areq[r].target, areq[r].role)
  /\ areq' = [areq EXCEPT ![r] = NoRequest] /\ UNCHANGED <<session, roleDef, rolePerm>>

(* PUT /accounts/:id: the target is read without a lock.  A patch gives a    *)
(* role or sets active.                                                      *)
Same == "same"
RoleChange(patch, row) == patch.role \notin {Same, row.role}
BeginUpdate(r, s, u, patch) ==
  /\ u \in DOMAIN acct
  /\ patch.role # Same => Usable(patch.role)
  /\ RoleChange(patch, acct[u]) => CanAssign(s.role, patch.role)
  /\ s.user = u => ~RoleChange(patch, acct[u]) /\ patch.active # "off"
  /\ Begin(r, s, [kind |-> IF patch.role = "admin" \/ patch.active = "on" THEN "promote" ELSE "update",
                  target |-> u, patch |-> patch, seen |-> acct[u]])
  /\ UNCHANGED <<acct, session, roleDef, rolePerm, crossed>>
(* DELETE /accounts/:id *)
BeginDelete(r, s, u) ==
  /\ u \in DOMAIN acct /\ s.user # u
  /\ Begin(r, s, [kind |-> "delete", target |-> u, seen |-> acct[u]])
  /\ UNCHANGED <<acct, session, roleDef, rolePerm, crossed>>

AdminRows == {u \in DOMAIN acct : acct[u].role = "admin"} \* a fault: switched off or not
(* SELECT ... role = 'admin' AND active FOR UPDATE *)
Admins == {u \in DOMAIN acct : acct[u].role = "admin" /\ acct[u].active}
LosesAdmin(q) ==
  /\ q.seen.role = "admin" /\ q.seen.active
  /\ q.kind = "delete" \/ q.patch.active = "off" \/ RoleChange(q.patch, q.seen)
EnoughAdmins(q) == LosesAdmin(q) => Cardinality(Admins) > 1
Patched(row, patch) ==
  [row EXCEPT !.role = IF patch.role = Same THEN @ ELSE patch.role,
              !.active = IF patch.active = Same THEN @ ELSE patch.active = "on"]
Update(r) ==
  /\ areq[r].kind \in {"update", "promote"}
  /\ IF areq[r].target # NoUser /\ EnoughAdmins(areq[r])
     THEN /\ acct' = [acct EXCEPT ![areq[r].target] = Patched(@, areq[r].patch)]
          /\ crossed' = GivenBeside(areq[r].patch.role)
     ELSE UNCHANGED <<acct, crossed>>
  /\ areq' = [areq EXCEPT ![r] = NoRequest] /\ UNCHANGED <<session, roleDef, rolePerm>>
(* The account goes; its tokens stay good, and a request that had read it    *)
(* finds no row.                                                             *)
Delete(r) ==
  LET u == areq[r].target
      goes == u # NoUser /\ EnoughAdmins(areq[r]) IN
  /\ areq[r].kind = "delete"
  /\ acct' = IF goes THEN [v \in DOMAIN acct \ {u} |-> acct[v]] ELSE acct
  /\ session' = IF goes THEN {[s EXCEPT !.user = IF @ = u THEN NoUser ELSE @] : s \in session} ELSE session
  /\ areq' = [q \in AReq |->
       IF q = r THEN NoRequest
       ELSE IF goes /\ areq[q].kind \in {"update", "promote", "delete"} /\ areq[q].target = u
         THEN [areq[q] EXCEPT !.target = NoUser] ELSE areq[q]]
  /\ UNCHANGED <<roleDef, rolePerm, crossed>>

(* POST and PATCH /accounts/roles *)
CreateRole(s, c) ==
  /\ s \in session /\ HasPerm(s.role, "role.manage") /\ Together("role") /\ c \in OwnRole \ DOMAIN roleDef
  /\ roleDef' = [d \in DOMAIN roleDef \cup {c} |-> d = c \/ roleDef[d]]
  /\ UNCHANGED <<acct, session, rolePerm, areq, crossed>>
EnableRole(s, c, on) ==
  /\ s \in session /\ HasPerm(s.role, "role.manage") /\ Together("role") /\ c \in DOMAIN roleDef
  /\ roleDef' = [roleDef EXCEPT ![c] = on]
  /\ UNCHANGED <<acct, session, rolePerm, areq, crossed>>

InUseNow(c) == \E u \in DOMAIN acct : acct[u].role = c /\ acct[u].active \* a fault: only active accounts
InUse(c) == \E u \in DOMAIN acct : acct[u].role = c
(* DELETE /accounts/roles/:role: refused while in use, with its permissions *)
BeginDropRole(r, s, c) ==
  /\ c \in DOMAIN roleDef /\ ~InUse(c)
  /\ Begin(r, s, [kind |-> "dropRole", target |-> c])
  /\ UNCHANGED <<acct, session, roleDef, rolePerm, crossed>>
DropRole(r) ==
  LET c == areq[r].target IN
  /\ areq[r].kind = "dropRole"
  /\ rolePerm' = [rolePerm EXCEPT ![c] = {}]
  /\ roleDef' = [d \in DOMAIN roleDef \ {c} |-> roleDef[d]]
  /\ crossed' = crossed \cup {d \in {c} : \E q \in AReq : Gives(areq[q], d)}
  /\ areq' = [areq EXCEPT ![r] = NoRequest] /\ UNCHANGED <<acct, session>>

(* PUT /accounts/roles/:role/permissions: deletes the rows it sees, inserts  *)
(* the given set unless it is the default.                                   *)
BeginPerms(r, s, role, set) ==
  /\ role # "admin" /\ Usable(role)
  /\ Begin(r, s, [kind |-> "perms", target |-> role, set |-> set, rows |-> rolePerm[role]])
  /\ UNCHANGED <<acct, session, roleDef, rolePerm, crossed>>
Perms(r) ==
  LET q == areq[r] IN
  /\ q.kind = "perms"
  /\ rolePerm' = [rolePerm EXCEPT ![q.target] =
       (@ \ q.rows) \cup (IF q.set = Default(q.target) THEN {} ELSE q.set \X {r})]
  /\ areq' = [areq EXCEPT ![r] = NoRequest] /\ UNCHANGED <<acct, session, roleDef, crossed>>

Patch == [role : Role, active : {Same}] \cup [role : {Same}, active : {"on", "off"}]

AccountsInit ==
  /\ \E first \in User : acct = [u \in {first} |-> [role |-> "admin", active |-> TRUE]]
  /\ session = {} /\ roleDef = [c \in {} |-> TRUE]
  /\ rolePerm = [role \in Role |-> {}] /\ areq = [r \in AReq |-> NoRequest] /\ crossed = {}

AccountsNext ==
  \/ \E u \in User : Login(u)
  \/ \E s \in session : Expire(s)
  \/ \E r \in AReq : Create(r) \/ Update(r) \/ Delete(r) \/ DropRole(r) \/ Perms(r)
  \/ \E r \in AReq, s \in session, u \in User :
       \/ \E role \in Role : BeginCreate(r, s, u, role)
       \/ \E patch \in Patch : BeginUpdate(r, s, u, patch)
       \/ BeginDelete(r, s, u)
  \/ \E s \in session, c \in OwnRole : CreateRole(s, c) \/ \E on \in BOOLEAN : EnableRole(s, c, on)
  \/ \E r \in AReq, s \in session, c \in OwnRole : BeginDropRole(r, s, c)
  \/ \E r \in AReq, s \in session, role \in Role, set \in SUBSET Perm : BeginPerms(r, s, role, set)

(* A tenant always keeps an active administrator, also when two of them      *)
(* demote, switch off or delete each other at once (accounts.ts LAST_ADMIN). *)
AdminRemains == Admins # {}

(* No account has a role nobody defined, and no permission outlives its role *)
(* (accounts.ts, DELETE /accounts/roles), unless the deletion of that role   *)
(* and a request that gives it were between look and write at the same time: *)
(* neither locks what it looks at.                                           *)
Defined == Builtin \cup DOMAIN roleDef \cup crossed
RolesDefined ==
  /\ \A u \in DOMAIN acct : acct[u].role \in Defined
  /\ \A role \in Role : rolePerm[role] # {} => role \in Defined
=============================================================================
