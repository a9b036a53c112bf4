------------------------------ MODULE AccessProofs ------------------------------
(***************************************************************************)
(* Theorems about what a tenant sets up and who may: the register of       *)
(* tenants, accounts, roles, invitations, roles in flows, the tables of    *)
(* basic data and the automatic reviews.  Each is about the module it      *)
(* names, for any values of its constants; invitations and flow roles are  *)
(* taken together with the accounts they act on.                           *)
(***************************************************************************)
EXTENDS Invites, Tenants, FlowRoles, Masters, AutoRules, FiniteSetTheorems, TLAPS
----------------------------------------------------------------------------
(* The register of tenants.                                                  *)
TenantsSpec == TenantsInit /\ [][StatusNext \/ ReviewNext]_tnvars

(* What is known of a tenant that is not shut was so at a time since which   *)
(* it has been up: now of the row itself, the time of the query of an answer *)
(* on its way, and at most a query's time earlier than its own of an entry.  *)
UpToDate ==
  /\ now \in Nat /\ lastUp \in [Tenant -> Nat] /\ \A t \in Tenant : lastUp[t] <= now
  /\ status = [t \in Tenant |-> status[t]]
  /\ \A t \in Tenant : status[t] \notin Shut => lastUp[t] = now
AsksInTime(x) ==
  /\ x.st \in {"asking", "served", "refused"} => x.tenant \in Tenant
  /\ x.st = "asking" => /\ x.at \in Nat /\ x.at <= now /\ now - x.at <= Slow
                        /\ x.got \notin Shut => x.at <= lastUp[x.tenant]
  /\ x.st = "served" => now - lastUp[x.tenant] < Ttl + Slow
KeepsInTime(t) ==
  /\ cache[t] = [status |-> cache[t].status, at |-> cache[t].at] /\ cache[t].at \in Nat
  /\ cache[t].status \notin Shut \cup {"none"} => cache[t].at <= lastUp[t] + Slow
StatusInv ==
  /\ UpToDate
  /\ call = [c \in Caller |-> call[c]] /\ \A c \in Caller : AsksInTime(call[c])
  /\ cache = [t \in Tenant |-> cache[t]] /\ \A t \in Tenant : KeepsInTime(t)

(* The clock stands still: what was known stays known.                       *)
LEMMA NothingAges ==
  ASSUME StatusInv, now' = now, lastUp' \in [Tenant -> Nat], \A t \in Tenant : lastUp[t] <= lastUp'[t] /\ lastUp'[t] <= now,
         status' = [t \in Tenant |-> status'[t]], \A t \in Tenant : status'[t] \notin Shut => lastUp'[t] = now,
         call' = call, cache' = cache
  PROVE  StatusInv'
  <1>1. UpToDate'
    BY DEF StatusInv, UpToDate
  <1>2. ASSUME NEW c \in Caller PROVE AsksInTime(call[c])'
    <2>1. AsksInTime(call[c])
      BY DEF StatusInv
    <2>2. \A t \in Tenant : lastUp[t] \in Nat /\ lastUp'[t] \in Nat /\ lastUp[t] <= lastUp'[t]
      BY DEF StatusInv, UpToDate
    <2>3. now \in Nat /\ Ttl \in Nat /\ Slow \in Nat
      BY TenantsAssumption DEF StatusInv, UpToDate
    <2> QED BY <2>1, <2>2, <2>3 DEF AsksInTime
  <1>3. ASSUME NEW t \in Tenant PROVE KeepsInTime(t)'
    <2>1. KeepsInTime(t)
      BY DEF StatusInv
    <2>2. lastUp[t] \in Nat /\ lastUp'[t] \in Nat /\ lastUp[t] <= lastUp'[t] /\ Slow \in Nat
      BY TenantsAssumption DEF StatusInv, UpToDate
    <2> QED BY <2>1, <2>2 DEF KeepsInTime
  <1>4. call' = [c \in Caller |-> call'[c]] /\ cache' = [t \in Tenant |-> cache'[t]]
    BY DEF StatusInv
  <1> QED BY <1>1, <1>2, <1>3, <1>4 DEF StatusInv

LEMMA RegisterSound ==
  ASSUME StatusInv, NEW t \in Tenant, NEW s, SetStatus(t, s) \/ CreateTenant(t, s) PROVE StatusInv'
  <1>1. CASE SetStatus(t, s)
    BY <1>1, NothingAges DEF SetStatus, StatusInv, UpToDate
  <1>2. CASE CreateTenant(t, s)
    <2>1. "none" \notin Shut
      BY DEF Shut
    <2> QED BY <1>2, <2>1, NothingAges DEF CreateTenant, Open, StatusInv, UpToDate
  <1> QED BY <1>1, <1>2

LEMMA ReviewSound ==
  ASSUME StatusInv, NEW r \in Reviewer, Reject(r) \/ Approve(r) PROVE StatusInv'
  <1>1. CASE Reject(r)
    BY <1>1, NothingAges DEF Reject, StatusInv, UpToDate
  <1>2. CASE Approve(r)
    <2>1. "none" \notin Shut
      BY DEF Shut
    <2>0. PICK x : x = review[r].tenant
      OBVIOUS
    <2>2. /\ UNCHANGED <<lastUp, cache, call, now>>
          /\ (status' = status \/ (status[x] = "none" /\ status' = [status EXCEPT ![x] = "pending"]))
      BY <1>2, <2>0 DEF Approve, Open
    <2>3. status' = [t \in Tenant |-> status'[t]] /\ \A t \in Tenant : status'[t] \notin Shut => lastUp'[t] = now
      BY <2>1, <2>2 DEF StatusInv, UpToDate, Shut
    <2> QED BY <2>2, <2>3, NothingAges DEF StatusInv, UpToDate
  <1> QED BY <1>1, <1>2

(* One request is answered, asks or leaves.                                  *)
LEMMA CallSound ==
  ASSUME StatusInv, UNCHANGED <<status, lastUp, now>>, NEW c \in Caller, NEW x, call' = [call EXCEPT ![c] = x],
         AsksInTime(x), cache' = [t \in Tenant |-> cache'[t]], \A t \in Tenant : KeepsInTime(t)'
  PROVE  StatusInv'
  <1>1. UpToDate'
    BY DEF StatusInv, UpToDate
  <1>2. \A d \in Caller : call'[d] = IF d = c THEN x ELSE call[d]
    BY DEF StatusInv
  <1>3. \A d \in Caller : AsksInTime(call'[d])
    BY <1>2 DEF StatusInv
  <1>4. \A d \in Caller : AsksInTime(call[d])'
    BY <1>3 DEF AsksInTime
  <1>5. call' = [d \in Caller |-> call'[d]]
    BY DEF StatusInv
  <1> QED BY <1>1, <1>4, <1>5 DEF StatusInv

LEMMA CacheAnswers == ASSUME StatusInv, NEW c \in Caller, NEW t \in Tenant, FromCache(c, t) PROVE StatusInv'
  <1> DEFINE x == [st |-> IF cache[t].status \in Shut THEN "refused" ELSE "served", tenant |-> t]
  <1>1. call' = [call EXCEPT ![c] = x] /\ UNCHANGED <<status, lastUp, now, cache>> /\ Known(t)
    BY DEF FromCache, Answer, AsItIs
  <1>2. now \in Nat /\ lastUp[t] \in Nat /\ Ttl \in Nat /\ Slow \in Nat /\ KeepsInTime(t)
    BY TenantsAssumption DEF StatusInv, UpToDate
  <1>3. cache[t].status \notin Shut => now - lastUp[t] < Ttl + Slow
    BY <1>1, <1>2 DEF KeepsInTime, Known
  <1>4. AsksInTime(x)
    BY <1>3 DEF AsksInTime
  <1>5. cache' = [y \in Tenant |-> cache'[y]] /\ \A y \in Tenant : KeepsInTime(y)'
    BY <1>1 DEF StatusInv, KeepsInTime
  <1> HIDE DEF x
  <1> QED BY <1>1, <1>4, <1>5, CallSound

LEMMA AskSound == ASSUME StatusInv, NEW c \in Caller, NEW t \in Tenant, Ask(c, t) PROVE StatusInv'
  <1> DEFINE x == [st |-> "asking", tenant |-> t, got |-> status[t], at |-> now]
  <1>1. call' = [call EXCEPT ![c] = x] /\ UNCHANGED <<status, lastUp, now, cache>>
    BY DEF Ask
  <1>2. AsksInTime(x)
    BY TenantsAssumption DEF AsksInTime, StatusInv, UpToDate
  <1>3. cache' = [y \in Tenant |-> cache'[y]] /\ \A y \in Tenant : KeepsInTime(y)'
    BY <1>1 DEF StatusInv, KeepsInTime
  <1> HIDE DEF x
  <1> QED BY <1>1, <1>2, <1>3, CallSound

LEMMA TableAnswers == ASSUME StatusInv, NEW c \in Caller, FromTable(c) PROVE StatusInv'
  <1>0. PICK q : q = call[c]
    OBVIOUS
  <1> DEFINE x == [st |-> IF q.got \in Shut THEN "refused" ELSE "served", tenant |-> q.tenant]
             entry == [status |-> q.got, at |-> now]
  <1>1. /\ call' = [call EXCEPT ![c] = x] /\ UNCHANGED <<status, lastUp, now>>
        /\ cache' = IF q.got = "none" THEN cache ELSE [cache EXCEPT ![q.tenant] = entry]
        /\ q.st = "asking" /\ AsksInTime(q)
    BY <1>0 DEF FromTable, Answer, StatusInv
  <1>2. /\ q.tenant \in Tenant /\ q.at \in Nat /\ q.at <= now /\ now - q.at <= Slow
        /\ q.got \notin Shut => q.at <= lastUp[q.tenant]
    BY <1>1 DEF AsksInTime
  <1>3. now \in Nat /\ lastUp[q.tenant] \in Nat /\ Ttl \in Nat \ {0} /\ Slow \in Nat
    BY <1>2, TenantsAssumption DEF StatusInv, UpToDate
  <1>4. q.got \notin Shut => now - lastUp[q.tenant] < Ttl + Slow /\ now <= lastUp[q.tenant] + Slow
    BY <1>2, <1>3
  <1>5. AsksInTime(x)
    BY <1>2, <1>4 DEF AsksInTime
  <1>6. cache' = [y \in Tenant |-> cache'[y]]
    BY <1>1 DEF StatusInv
  <1>7. ASSUME NEW y \in Tenant PROVE KeepsInTime(y)'
    <2>1. cache'[y] = cache[y] \/ (y = q.tenant /\ cache'[y] = entry)
      BY <1>1 DEF StatusInv
    <2> QED BY <1>1, <1>3, <1>4, <2>1 DEF StatusInv, KeepsInTime
  <1> HIDE DEF x
  <1> QED BY <1>1, <1>5, <1>6, <1>7, CallSound

(* The clock moves on only while nobody is being served and no query has     *)
(* taken its time.                                                           *)
LEMMA TickSound == ASSUME StatusInv, Tick PROVE StatusInv'
  <1>1. now \in Nat /\ lastUp \in [Tenant -> Nat] /\ (\A t \in Tenant : lastUp[t] <= now) /\ Slow \in Nat
    BY TenantsAssumption DEF StatusInv, UpToDate
  <1>2. /\ now' = now + 1 /\ UNCHANGED <<status, cache, call>>
        /\ lastUp' = [t \in Tenant |-> IF status[t] \in Shut THEN lastUp[t] ELSE now + 1]
        /\ \A c \in Caller : call[c].st = "asking" => now - call[c].at < Slow
        /\ \A c \in Caller : call[c].st \notin {"served", "refused"}
    BY DEF Tick
  <1>3. \A t \in Tenant : lastUp'[t] \in Nat /\ lastUp[t] <= lastUp'[t] /\ lastUp'[t] <= now'
    BY <1>1, <1>2
  <1>4. UpToDate'
    BY <1>1, <1>2, <1>3 DEF StatusInv, UpToDate
  <1>5. ASSUME NEW c \in Caller PROVE AsksInTime(call[c])'
    <2>1. AsksInTime(call[c])
      BY DEF StatusInv
    <2> QED BY <1>1, <1>2, <1>3, <2>1 DEF AsksInTime
  <1>6. ASSUME NEW t \in Tenant PROVE KeepsInTime(t)'
    <2>1. KeepsInTime(t)
      BY DEF StatusInv
    <2> QED BY <1>1, <1>2, <1>3, <2>1 DEF KeepsInTime
  <1>7. call' = [c \in Caller |-> call'[c]] /\ cache' = [t \in Tenant |-> cache'[t]]
    BY <1>2 DEF StatusInv
  <1> QED BY <1>4, <1>5, <1>6, <1>7 DEF StatusInv

(* ServedLately: for any tenants, requests and lengths of the two spans      *)
(* (TENANT_STATUS_TTL_MS of middleware/auth.ts, and what a query takes).     *)
THEOREM ShutInTime == TenantsSpec => []ServedLately
  <1>1. TenantsInit => StatusInv
    BY TenantsAssumption DEF TenantsInit, StatusInv, UpToDate, AsksInTime, KeepsInTime, Free
  <1>2. StatusInv /\ [StatusNext \/ ReviewNext]_tnvars => StatusInv'
    <2> SUFFICES ASSUME StatusInv, [StatusNext \/ ReviewNext]_tnvars PROVE StatusInv'
      OBVIOUS
    <2>1. CASE UNCHANGED <<status, lastUp, now, cache, call>>
      BY <2>1 DEF StatusInv, UpToDate, AsksInTime, KeepsInTime
    <2>2. ASSUME NEW c \in Caller, Leave(c) PROVE StatusInv'
      <3>1. AsksInTime(Free)
        BY DEF AsksInTime, Free
      <3>2. cache' = [y \in Tenant |-> cache'[y]] /\ \A y \in Tenant : KeepsInTime(y)'
        BY <2>2 DEF Leave, StatusInv, KeepsInTime
      <3>3. call' = [call EXCEPT ![c] = Free] /\ UNCHANGED <<status, lastUp, now>>
        BY <2>2 DEF Leave
      <3> QED BY <3>1, <3>2, <3>3, CallSound
    <2>3. CASE StatusNext
      BY <2>2, <2>3, RegisterSound, CacheAnswers, AskSound, TableAnswers, TickSound DEF StatusNext
    <2>4. CASE ReviewNext
      BY <2>1, <2>4, RegisterSound, ReviewSound DEF ReviewNext, LookAt, Submit
    <2> QED BY <2>1, <2>3, <2>4 DEF tnvars
  <1>3. StatusInv => ServedLately
    BY DEF StatusInv, AsksInTime, ServedLately
  <1> QED BY <1>1, <1>2, <1>3, PTL DEF TenantsSpec

ReviewInv ==
  /\ applic = [a \in Applic |-> applic[a]] /\ opened = [a \in Applic |-> opened[a]]
  /\ OneTenantEach

(* OneTenantEach: for any applications, reviewers and tenants: the look      *)
(* under the lock finds what another review has decided (POST                *)
(* /platform/trial-applications/:id/review).                                 *)
THEOREM TenantsOpenedOnce == TenantsSpec => []OneTenantEach
  <1>1. TenantsInit => ReviewInv
    BY DEF TenantsInit, ReviewInv, OneTenantEach
  <1>2. ReviewInv /\ [StatusNext \/ ReviewNext]_tnvars => ReviewInv'
    <2> SUFFICES ASSUME ReviewInv, [StatusNext \/ ReviewNext]_tnvars PROVE ReviewInv'
      OBVIOUS
    <2>1. CASE UNCHANGED <<applic, opened>>
      BY <2>1 DEF ReviewInv, OneTenantEach
    <2>2. ASSUME NEW a \in Applic, Submit(a) PROVE ReviewInv'
      BY <2>2 DEF Submit, ReviewInv, OneTenantEach
    <2>3. ASSUME NEW r \in Reviewer, Reject(r) PROVE ReviewInv'
      BY <2>3 DEF Reject, Reviewed, ReviewInv, OneTenantEach
    <2>4. ASSUME NEW r \in Reviewer, Approve(r) PROVE ReviewInv'
      <3>0. PICK a, t : a = review[r].app /\ t = review[r].tenant
        OBVIOUS
      <3>1. CASE UNCHANGED <<applic, opened>>
        BY <2>1, <3>1
      <3>2. CASE /\ applic[a] = "pending"
                 /\ applic' = [applic EXCEPT ![a] = "approved"]
                 /\ opened' = [opened EXCEPT ![a] = @ \cup {t}]
        <4>1. a \in Applic => opened[a] = {}
          BY <3>2 DEF ReviewInv, OneTenantEach
        <4>2. Cardinality({t}) = 1
          BY FS_Singleton
        <4> QED BY <3>2, <4>1, <4>2 DEF ReviewInv, OneTenantEach
      <3> QED BY <2>4, <3>0, <3>1, <3>2 DEF Approve, Reviewed
    <2> QED BY <2>1, <2>2, <2>3, <2>4 DEF StatusNext, ReviewNext, tnvars, SetStatus, CreateTenant, FromTable, Leave,
                                          FromCache, Ask, Tick, LookAt
  <1> QED BY <1>1, <1>2, PTL DEF TenantsSpec, ReviewInv
----------------------------------------------------------------------------
(* Accounts, with the invitations beside them.                               *)
AccountsSpec == AccountsInit /\ [][AccountsNext]_acvars
AccessInit == AccountsInit /\ InvitesInit
AccessNext == (AccountsNext /\ UNCHANGED invars) \/ InvitesNext
AccessSpec == AccessInit /\ [][AccessNext]_<<acvars, invars>>

ActiveAdmin(held) == held.role = "admin" /\ held.active
IsRow(held) == held = [role |-> held.role, active |-> held.active] /\ held.active \in BOOLEAN
AcctTyped ==
  /\ acct = [u \in DOMAIN acct |-> acct[u]] /\ IsFiniteSet(DOMAIN acct)
  /\ \A u \in DOMAIN acct : IsRow(acct[u])
  /\ areq = [r \in AReq |-> areq[r]]
(* A request that has read an account: nobody has become an active           *)
(* administrator behind its back, since whoever makes one is alone.          *)
Reading == {"update", "promote", "delete"}
ReadWell(q) ==
  q.kind \in Reading =>
    /\ IsRow(q.seen)
    /\ q.kind # "delete" => q.patch \in Patch
    /\ q.kind = "update" => q.patch.role # "admin" /\ q.patch.active # "on"
    /\ q.target # NoUser => q.target \in DOMAIN acct /\ (ActiveAdmin(acct[q.target]) => ActiveAdmin(q.seen))
AdminInv ==
  /\ AcctTyped
  /\ \A r \in AReq : ReadWell(areq[r])
  /\ \A r, q \in AReq : areq[r].kind = "promote" /\ areq[q] # NoRequest => q = r
  /\ AdminRemains

(* An account is added, or nothing changes but tokens.                       *)
LEMMA NewAccountKeeps ==
  ASSUME AdminInv, NEW u, NEW role, NewAccount(u, role), areq' = [p \in AReq |-> areq'[p]],
         \A p \in AReq : areq'[p] = areq[p] \/ areq'[p] = NoRequest
  PROVE  AdminInv'
  <1>0. \A p, t \in AReq : areq'[p].kind = "promote" /\ areq'[t] # NoRequest => t = p
    BY DEF AdminInv, NoRequest
  <1>1. CASE acct' = acct
    <2>1. AcctTyped' /\ AdminRemains'
      BY <1>1 DEF AdminInv, AcctTyped, AdminRemains, Admins
    <2>2. \A p \in AReq : ReadWell(areq[p])'
      BY <1>1 DEF AdminInv, ReadWell, Reading, NoRequest
    <2> QED BY <1>0, <2>1, <2>2 DEF AdminInv
  <1>2. CASE u \notin DOMAIN acct /\ acct' = [v \in DOMAIN acct \cup {u} |-> IF v = u THEN [role |-> role, active |-> TRUE] ELSE acct[v]]
    <2>1. /\ DOMAIN acct' = DOMAIN acct \cup {u} /\ acct' = [v \in DOMAIN acct' |-> acct'[v]]
          /\ \A v \in DOMAIN acct : acct'[v] = acct[v]
          /\ acct'[u] = [role |-> role, active |-> TRUE]
      BY <1>2
    <2>2. IsFiniteSet(DOMAIN acct')
      BY <2>1, FS_AddElement DEF AdminInv, AcctTyped
    <2>3. AcctTyped'
      <3> DEFINE new == [role |-> role, active |-> TRUE]
      <3>1. IsRow(new)
        BY DEF IsRow
      <3> HIDE DEF new
      <3>2. \A v \in DOMAIN acct' : IsRow(acct'[v])
        BY <2>1, <3>1 DEF AdminInv, AcctTyped, new
      <3> QED BY <2>1, <2>2, <3>2 DEF AcctTyped, IsRow
    <2>4. AdminRemains'
      BY <2>1 DEF AdminInv, AdminRemains, Admins
    <2>5. \A r \in AReq : ReadWell(areq[r])'
      BY <2>1, <1>2 DEF AdminInv, ReadWell, Reading, NoRequest
    <2> QED BY <1>0, <2>3, <2>4, <2>5 DEF AdminInv
  <1> QED BY <1>1, <1>2 DEF NewAccount

(* A request comes or goes.                                                  *)
LEMMA RequestKeeps ==
  ASSUME AdminInv, acct' = acct, NEW r \in AReq, NEW q, areq' = [areq EXCEPT ![r] = q], ReadWell(q),
         q # NoRequest => \A p \in AReq : areq[p].kind # "promote",
         q.kind = "promote" => \A p \in AReq : areq[p] = NoRequest
  PROVE  AdminInv'
  <1>1. \A p \in AReq : areq'[p] = IF p = r THEN q ELSE areq[p]
    BY DEF AdminInv, AcctTyped
  <1>2. \A p \in AReq : ReadWell(areq'[p])
    BY <1>1 DEF AdminInv
  <1>3. \A p \in AReq : ReadWell(areq[p])'
    BY <1>2 DEF ReadWell
  <1>4. \A p, t \in AReq : areq'[p].kind = "promote" /\ areq'[t] # NoRequest => t = p
    BY <1>1 DEF AdminInv, NoRequest
  <1>5. AcctTyped' /\ AdminRemains'
    BY DEF AdminInv, AcctTyped, AdminRemains, Admins
  <1> QED BY <1>3, <1>4, <1>5 DEF AdminInv

LEMMA BeginKeeps ==
  ASSUME AdminInv, "promote" \in Alone, NEW r \in AReq, NEW s, NEW q, Begin(r, s, q), ReadWell(q), acct' = acct
  PROVE  AdminInv'
  <1>1. areq' = [areq EXCEPT ![r] = q] /\ Together(q.kind)
    BY DEF Begin
  <1>2. /\ \A p \in AReq : areq[p].kind # "promote"
        /\ q.kind = "promote" => \A p \in AReq : areq[p] = NoRequest
    BY <1>1 DEF Together
  <1> QED BY <1>1, <1>2, RequestKeeps

LEMMA BeginUpdateKeeps ==
  ASSUME AdminInv, "promote" \in Alone, NEW r \in AReq, NEW s, NEW u, NEW patch \in Patch, BeginUpdate(r, s, u, patch)
  PROVE  AdminInv'
  <1> DEFINE q == [kind |-> IF patch.role = "admin" \/ patch.active = "on" THEN "promote" ELSE "update",
                   target |-> u, patch |-> patch, seen |-> acct[u]]
  <1>1. Begin(r, s, q) /\ acct' = acct /\ u \in DOMAIN acct
    BY DEF BeginUpdate
  <1>2. IsRow(acct[u])
    BY <1>1 DEF AdminInv, AcctTyped
  <1>3. ReadWell(q)
    BY <1>1, <1>2 DEF ReadWell
  <1> HIDE DEF q
  <1> QED BY <1>1, <1>3, BeginKeeps

LEMMA BeginDeleteKeeps ==
  ASSUME AdminInv, "promote" \in Alone, NEW r \in AReq, NEW s, NEW u, BeginDelete(r, s, u) PROVE AdminInv'
  <1> DEFINE q == [kind |-> "delete", target |-> u, seen |-> acct[u]]
  <1>1. Begin(r, s, q) /\ acct' = acct /\ u \in DOMAIN acct
    BY DEF BeginDelete
  <1>2. IsRow(acct[u])
    BY <1>1 DEF AdminInv, AcctTyped
  <1>3. ReadWell(q)
    BY <1>1, <1>2 DEF ReadWell
  <1> HIDE DEF q
  <1> QED BY <1>1, <1>3, BeginKeeps

(* With more than one administrator, whoever goes leaves another.            *)
LEMMA AnotherAdmin ==
  ASSUME AdminInv, NEW u, Cardinality(Admins) > 1 PROVE \E v \in Admins : v # u
  <1> SUFFICES ASSUME \A v \in Admins : v = u PROVE FALSE
    OBVIOUS
  <1>1. Admins \in SUBSET {u}
    OBVIOUS
  <1>2. Admins = {} \/ Admins = {u}
    BY <1>1
  <1>3. Cardinality({}) = 0 /\ Cardinality({u}) = 1
    BY FS_EmptySet, FS_Singleton
  <1> QED BY <1>2, <1>3

LEMMA PatchedRow ==
  ASSUME NEW held, held = [role |-> held.role, active |-> held.active], NEW patch
  PROVE  Patched(held, patch) = [role |-> IF patch.role = Same THEN held.role ELSE patch.role,
                                active |-> IF patch.active = Same THEN held.active ELSE patch.active = "on"]
  <1> DEFINE role == IF patch.role = Same THEN held.role ELSE patch.role
             active == IF patch.active = Same THEN held.active ELSE patch.active = "on"
             mid == [held EXCEPT !.role = role]
  <1>1. mid = [role |-> role, active |-> held.active]
    OBVIOUS
  <1>2. Patched(held, patch) = [mid EXCEPT !.active = active]
    BY DEF Patched
  <1> HIDE DEF mid, role, active
  <1>3. [mid EXCEPT !.active = active] = [role |-> role, active |-> active]
    BY <1>1
  <1> QED BY <1>2, <1>3 DEF role, active

LEMMA UpdateKeeps == ASSUME AdminInv, NEW r \in AReq, Update(r) PROVE AdminInv'
  <1>0. PICK q, u : q = areq[r] /\ u = q.target
    OBVIOUS
  <1>1. /\ q.kind \in {"update", "promote"} /\ areq' = [areq EXCEPT ![r] = NoRequest] /\ ReadWell(q)
        /\ acct' = IF u # NoUser /\ EnoughAdmins(q) THEN [acct EXCEPT ![u] = Patched(@, q.patch)] ELSE acct
    BY <1>0 DEF Update, AdminInv
  <1>2. CASE acct' = acct
    <2>1. ReadWell(NoRequest) /\ NoRequest.kind # "promote"
      BY DEF ReadWell, Reading, NoRequest
    <2> QED BY <1>1, <1>2, <2>1, RequestKeeps
  <1>3. CASE u # NoUser /\ EnoughAdmins(q) /\ acct' = [acct EXCEPT ![u] = Patched(@, q.patch)]
    <2> DEFINE new == Patched(acct[u], q.patch)
    <2>1. /\ u \in DOMAIN acct /\ q.patch \in Patch /\ IsRow(q.seen) /\ IsRow(acct[u])
          /\ ActiveAdmin(acct[u]) => ActiveAdmin(q.seen)
          /\ q.kind = "update" => q.patch.role # "admin" /\ q.patch.active # "on"
      BY <1>0, <1>1, <1>3 DEF ReadWell, Reading, AdminInv, AcctTyped
    <2>2. new = [role |-> IF q.patch.role = Same THEN acct[u].role ELSE q.patch.role,
                 active |-> IF q.patch.active = Same THEN acct[u].active ELSE q.patch.active = "on"]
      BY <2>1, PatchedRow DEF IsRow
    <2>3. IsRow(new)
      <3>1. new = [role |-> new.role, active |-> new.active]
        BY <2>2
      <3>2. new.active = (IF q.patch.active = Same THEN acct[u].active ELSE q.patch.active = "on")
        BY <2>2
      <3>3. acct[u].active \in BOOLEAN
        BY <2>1 DEF IsRow
      <3> HIDE DEF new
      <3>4. new.active \in BOOLEAN
        BY <3>2, <3>3, Zenon
      <3> QED BY <3>1, <3>4 DEF IsRow
    <2>4. \/ q.patch.role \in Role /\ q.patch.active = Same
          \/ q.patch.role = Same /\ q.patch.active \in {"on", "off"}
      BY <2>1 DEF Patch
    <2>5. AcctTyped'
      <3> HIDE DEF new
      <3>1. acct' = [v \in DOMAIN acct |-> IF v = u THEN new ELSE acct[v]]
        BY <1>3, <2>1 DEF AdminInv, AcctTyped, new
      <3>2. areq' = [p \in AReq |-> areq'[p]]
        BY <1>1 DEF AdminInv, AcctTyped
      <3> QED BY <2>3, <3>1, <3>2 DEF AdminInv, AcctTyped, IsRow
    <2> HIDE DEF new
    <2>6. DOMAIN acct' = DOMAIN acct /\ \A v \in DOMAIN acct : acct'[v] = IF v = u THEN new ELSE acct[v]
      BY <1>3, <2>1 DEF new
    <2>7. q.kind = "update" /\ ActiveAdmin(new) => ActiveAdmin(acct[u])
      BY <2>1, <2>2, <2>4 DEF ActiveAdmin, Same
    <2>8. AdminRemains'
      <3>1. CASE LosesAdmin(q)
        <4>1. PICK v \in Admins : v # u
          BY <1>3, <3>1, AnotherAdmin DEF EnoughAdmins
        <4> QED BY <2>6, <4>1 DEF Admins, AdminRemains
      <3>2. CASE ~LosesAdmin(q)
        <4>1. PICK v \in Admins : TRUE
          BY DEF AdminInv, AdminRemains
        <4>2. CASE v # u
          BY <2>6, <4>1, <4>2 DEF Admins, AdminRemains
        <4>3. CASE v = u
          <5>1. ActiveAdmin(acct[u]) /\ ActiveAdmin(q.seen)
            BY <2>1, <4>1, <4>3 DEF Admins, ActiveAdmin
          <5>2. q.patch.active # "off" /\ q.patch.role \in {Same, "admin"}
            BY <3>2, <5>1 DEF LosesAdmin, ActiveAdmin, RoleChange
          <5>3. new.role = "admin" /\ new.active = TRUE
            BY <2>1, <2>2, <2>4, <5>1, <5>2 DEF ActiveAdmin, Same, IsRow
          <5> QED BY <2>1, <2>6, <5>3 DEF Admins, AdminRemains
        <4> QED BY <4>2, <4>3
      <3> QED BY <3>1, <3>2
    <2>9. \A p \in AReq : areq'[p] = IF p = r THEN NoRequest ELSE areq[p]
      BY <1>1 DEF AdminInv, AcctTyped
    <2>10. ASSUME NEW p \in AReq, p # r PROVE ReadWell(areq[p])'
      <3>1. CASE q.kind = "promote"
        <4>1. areq'[p] = NoRequest
          BY <1>0, <2>9, <2>10, <3>1 DEF AdminInv
        <4> QED BY <4>1 DEF ReadWell, Reading, NoRequest
      <3>2. CASE q.kind = "update"
        <4>1. areq'[p] = areq[p] /\ ReadWell(areq[p])
          BY <2>9, <2>10 DEF AdminInv
        <4> QED BY <2>6, <2>7, <3>2, <4>1 DEF ReadWell
      <3> QED BY <1>1, <3>1, <3>2
    <2>11. ReadWell(areq[r])'
      BY <2>9 DEF ReadWell, Reading, NoRequest
    <2>12. \A p, t \in AReq : areq'[p].kind = "promote" /\ areq'[t] # NoRequest => t = p
      BY <2>9 DEF AdminInv, NoRequest
    <2> QED BY <2>5, <2>8, <2>10, <2>11, <2>12 DEF AdminInv
  <1> QED BY <1>1, <1>2, <1>3

LEMMA DeleteKeeps == ASSUME AdminInv, NEW r \in AReq, Delete(r) PROVE AdminInv'
  <1>0. PICK q, u : q = areq[r] /\ u = q.target
    OBVIOUS
  <1> DEFINE goes == u # NoUser /\ EnoughAdmins(q)
  <1>1. /\ q.kind = "delete" /\ ReadWell(q)
        /\ acct' = IF goes THEN [v \in DOMAIN acct \ {u} |-> acct[v]] ELSE acct
        /\ areq' = [p \in AReq |->
              IF p = r THEN NoRequest
              ELSE IF goes /\ areq[p].kind \in Reading /\ areq[p].target = u
                THEN [areq[p] EXCEPT !.target = NoUser] ELSE areq[p]]
    BY <1>0 DEF Delete, AdminInv, Reading
  <1>2. ReadWell(NoRequest) /\ NoRequest.kind # "promote"
    BY DEF ReadWell, Reading, NoRequest
  <1>3. CASE ~goes
    <2>1. acct' = acct /\ areq' = [areq EXCEPT ![r] = NoRequest]
      BY <1>1, <1>3 DEF AdminInv, AcctTyped
    <2> QED BY <1>2, <2>1, RequestKeeps
  <1>4. CASE goes
    <2>1. u \in DOMAIN acct /\ (ActiveAdmin(acct[u]) => ActiveAdmin(q.seen)) /\ u # NoUser
      BY <1>0, <1>1, <1>4 DEF ReadWell, Reading
    <2>2. /\ DOMAIN acct' = DOMAIN acct \ {u} /\ acct' = [v \in DOMAIN acct' |-> acct'[v]]
          /\ \A v \in DOMAIN acct \ {u} : acct'[v] = acct[v]
      BY <1>1, <1>4
    <2>3. IsFiniteSet(DOMAIN acct')
      BY <2>2, FS_Subset DEF AdminInv, AcctTyped
    <2>4. AcctTyped'
      BY <1>1, <2>2, <2>3 DEF AdminInv, AcctTyped, IsRow
    <2>5. AdminRemains'
      <3>1. \E v \in Admins : v # u
        <4>1. CASE LosesAdmin(q)
          BY <1>4, <4>1, AnotherAdmin DEF EnoughAdmins
        <4>2. CASE ~LosesAdmin(q)
          BY <1>1, <2>1, <4>2 DEF LosesAdmin, ActiveAdmin, AdminInv, AdminRemains, Admins
        <4> QED BY <4>1, <4>2
      <3> QED BY <2>2, <3>1 DEF AdminRemains, Admins
    <2>6. ASSUME NEW p \in AReq
          PROVE  ReadWell(areq[p])' /\ (areq'[p].kind = "promote" \/ areq'[p] # NoRequest =>
                                            p # r /\ areq[p] # NoRequest /\ areq'[p].kind = areq[p].kind)
      <3>1. CASE p = r
        BY <1>1, <3>1 DEF ReadWell, Reading, NoRequest
      <3>2. CASE p # r /\ areq[p].kind \in Reading /\ areq[p].target = u
        <4> DEFINE x == areq[p]
                   y == [x EXCEPT !.target = NoUser]
        <4>1. areq'[p] = y
          BY <1>1, <1>4, <3>2
        <4>2. ReadWell(x) /\ x # NoRequest
          BY <3>2 DEF AdminInv, NoRequest, Reading
        <4>3. y.kind = x.kind /\ y.seen = x.seen /\ y.patch = x.patch
          OBVIOUS
        <4>4. y.target = NoUser
          OBVIOUS
        <4> QED BY <3>2, <4>1, <4>2, <4>3, <4>4 DEF ReadWell
      <3>3. CASE p # r /\ ~(areq[p].kind \in Reading /\ areq[p].target = u)
        <4>1. areq'[p] = areq[p] /\ ReadWell(areq[p])
          BY <1>1, <3>3 DEF AdminInv
        <4>2. areq[p].kind \in Reading /\ areq[p].target # NoUser =>
                /\ areq[p].target \in DOMAIN acct'
                /\ ActiveAdmin(acct'[areq[p].target]) => ActiveAdmin(areq[p].seen)
          BY <2>2, <3>3, <4>1 DEF ReadWell
        <4>3. ReadWell(areq[p])'
          BY <4>1, <4>2 DEF ReadWell
        <4>4. areq[p].kind = "promote" => areq[p] # NoRequest
          BY DEF NoRequest
        <4> QED BY <3>3, <4>1, <4>3, <4>4
      <3> QED BY <3>1, <3>2, <3>3
    <2>7. \A p, t \in AReq : areq'[p].kind = "promote" /\ areq'[t] # NoRequest => t = p
      BY <2>6 DEF AdminInv
    <2> QED BY <2>4, <2>5, <2>6, <2>7 DEF AdminInv
  <1> QED BY <1>3, <1>4

(* AdminRemains: for any accounts, roles and requests, also with invitations *)
(* redeemed at any time, if a request that makes an administrator or         *)
(* switches an account on has no other beside it (accounts.ts LAST_ADMIN).   *)
THEOREM NeverWithoutAdmin == ASSUME "promote" \in Alone PROVE AccessSpec => []AdminRemains
  <1>1. AccessInit => AdminInv
    <2> SUFFICES ASSUME AccessInit PROVE AdminInv
      OBVIOUS
    <2>1. PICK first \in User : acct = [u \in {first} |-> [role |-> "admin", active |-> TRUE]]
      BY DEF AccessInit, AccountsInit
    <2>2. areq = [r \in AReq |-> NoRequest]
      BY DEF AccessInit, AccountsInit
    <2>3. AdminRemains
      BY <2>1 DEF AdminRemains, Admins
    <2>4. IsFiniteSet(DOMAIN acct)
      BY <2>1, FS_Singleton
    <2> QED BY <2>1, <2>2, <2>3, <2>4 DEF AdminInv, AcctTyped, IsRow, ReadWell, Reading, NoRequest
  <1>2. AdminInv /\ [AccessNext]_<<acvars, invars>> => AdminInv'
    <2> SUFFICES ASSUME AdminInv, [AccessNext]_<<acvars, invars>> PROVE AdminInv'
      OBVIOUS
    <2>1. CASE UNCHANGED <<acct, areq>>
      BY <2>1 DEF AdminInv, AcctTyped, ReadWell, AdminRemains, Admins
    <2>2. ASSUME NEW r \in IReq, Redeem(r) PROVE AdminInv'
      <3>1. areq' = areq /\ areq' = [p \in AReq |-> areq'[p]]
        BY <2>2 DEF Redeem, AdminInv, AcctTyped
      <3> QED BY <2>1, <2>2, <3>1, NewAccountKeeps DEF Redeem
    <2>3. ReadWell(NoRequest) /\ NoRequest.kind # "promote"
      BY DEF ReadWell, Reading, NoRequest
    <2>4. ASSUME NEW r \in AReq, Create(r) PROVE AdminInv'
      <3>1. \A p \in AReq : areq'[p] = areq[p] \/ areq'[p] = NoRequest
        BY <2>4 DEF Create, AdminInv, AcctTyped
      <3>2. areq' = [p \in AReq |-> areq'[p]]
        BY <2>4 DEF Create, AdminInv, AcctTyped
      <3> QED BY <2>4, <3>1, <3>2, NewAccountKeeps DEF Create
    <2>5. ASSUME NEW r \in AReq, DropRole(r) \/ Perms(r) PROVE AdminInv'
      BY <2>3, <2>5, RequestKeeps DEF DropRole, Perms
    <2>6. ASSUME NEW r \in AReq, NEW s, NEW u, NEW role, BeginCreate(r, s, u, role) PROVE AdminInv'
      <3> DEFINE q == [kind |-> "create", target |-> u, role |-> role]
      <3>1. ReadWell(q) /\ Begin(r, s, q) /\ acct' = acct
        BY <2>6 DEF BeginCreate, ReadWell, Reading
      <3> HIDE DEF q
      <3> QED BY <3>1, BeginKeeps
    <2>7. ASSUME NEW r \in AReq, NEW s, NEW c, BeginDropRole(r, s, c) PROVE AdminInv'
      <3> DEFINE q == [kind |-> "dropRole", target |-> c]
      <3>1. ReadWell(q) /\ Begin(r, s, q) /\ acct' = acct
        BY <2>7 DEF BeginDropRole, ReadWell, Reading
      <3> HIDE DEF q
      <3> QED BY <3>1, BeginKeeps
    <2>8. ASSUME NEW r \in AReq, NEW s, NEW role, NEW set, BeginPerms(r, s, role, set) PROVE AdminInv'
      <3> DEFINE q == [kind |-> "perms", target |-> role, set |-> set, rows |-> rolePerm[role]]
      <3>1. ReadWell(q) /\ Begin(r, s, q) /\ acct' = acct
        BY <2>8 DEF BeginPerms, ReadWell, Reading
      <3> HIDE DEF q
      <3> QED BY <3>1, BeginKeeps
    <2>9. CASE InvitesNext
      BY <2>1, <2>2, <2>9 DEF InvitesNext, Invite, Revoke, Lapse, Present, BindLook, Bind, SetSuspended, acvars
    <2>10. CASE AccountsNext
      BY <2>1, <2>4, <2>5, <2>6, <2>7, <2>8, <2>10, UpdateKeeps, DeleteKeeps, BeginUpdateKeeps, BeginDeleteKeeps
         DEF AccountsNext, Login, Expire, CreateRole, EnableRole
    <2> QED BY <2>1, <2>9, <2>10 DEF AccessNext, acvars
  <1> QED BY <1>1, <1>2, PTL DEF AccessSpec, AdminInv
----------------------------------------------------------------------------
(* Roles.  What a request is about to give is a role there is, unless it is  *)
(* given and deleted at the same time; whoever has a role that is about to   *)
(* go got it beside the deletion.                                            *)
RoleKnown(role) == role \in Defined
GivesKnown(q) ==
  /\ q.kind = "create" => RoleKnown(q.role)
  /\ q.kind \in {"update", "promote"} => q.patch.role = Same \/ RoleKnown(q.patch.role)
  /\ q.kind = "perms" => RoleKnown(q.target)
Shaped ==
  /\ acct = [u \in DOMAIN acct |-> [role |-> acct[u].role, active |-> acct[u].active]]
  /\ areq = [r \in AReq |-> areq[r]] /\ rolePerm = [role \in Role |-> rolePerm[role]]
RolesInv ==
  /\ Shaped
  /\ RolesDefined
  /\ \A r \in AReq : GivesKnown(areq[r])
  /\ \A r \in AReq : areq[r].kind = "dropRole" /\ InUse(areq[r].target) => areq[r].target \in crossed

LEMMA BeginKeepsRoles ==
  ASSUME RolesInv, NEW r \in AReq, NEW s, NEW q, Begin(r, s, q), GivesKnown(q),
         UNCHANGED <<acct, roleDef, rolePerm, crossed>>, q.kind = "dropRole" => ~InUse(q.target)
  PROVE  RolesInv'
  <1>1. /\ \A p \in AReq : areq'[p] = IF p = r THEN q ELSE areq[p]
        /\ areq' = [p \in AReq |-> areq'[p]]
    BY DEF Begin, RolesInv, Shaped
  <1>2. \A p \in AReq : GivesKnown(areq'[p])
    BY <1>1 DEF RolesInv
  <1>3. \A p \in AReq : GivesKnown(areq[p])'
    BY <1>2 DEF GivesKnown, RoleKnown, Defined
  <1>4. \A p \in AReq : areq'[p].kind = "dropRole" /\ InUse(areq'[p].target) => areq'[p].target \in crossed
    BY <1>1 DEF RolesInv
  <1>5. \A p \in AReq : areq'[p].kind = "dropRole" /\ InUse(areq[p].target)' => areq'[p].target \in crossed'
    BY <1>4 DEF InUse
  <1>6. Shaped' /\ RolesDefined'
    BY <1>1 DEF RolesInv, Shaped, RolesDefined, Defined
  <1> QED BY <1>3, <1>5, <1>6 DEF RolesInv

(* A request ends: a role nobody had is given to an account beside the       *)
(* deletion of that role only if it is noted.                                *)
LEMMA EndKeepsRoles ==
  ASSUME RolesInv, roleDef' = roleDef, crossed \subseteq crossed', Shaped',
         \A p \in AReq : \/ areq'[p] \in {areq[p], NoRequest}
                         \/ areq[p].kind \in Reading /\ areq'[p] = [areq[p] EXCEPT !.target = NoUser],
         \A u \in DOMAIN acct' : acct'[u].role \in Defined',
         \A u \in DOMAIN acct' : InUse(acct'[u].role) \/ (Dropping(acct'[u].role) => acct'[u].role \in crossed'),
         \A role \in Role : rolePerm'[role] # {} => role \in Defined'
  PROVE  RolesInv'
  <1>1. Defined \subseteq Defined'
    BY DEF Defined
  <1>2. ASSUME NEW p \in AReq PROVE GivesKnown(areq'[p]) /\ (areq'[p].kind = "dropRole" => areq'[p] = areq[p])
    <2>1. CASE areq'[p] \in {areq[p], NoRequest}
      BY <2>1 DEF RolesInv, GivesKnown, NoRequest
    <2>2. CASE areq[p].kind \in Reading /\ areq'[p] = [areq[p] EXCEPT !.target = NoUser]
      <3>1. areq'[p].kind = areq[p].kind /\ areq'[p].patch = areq[p].patch /\ GivesKnown(areq[p])
        BY <2>2 DEF RolesInv
      <3> QED BY <2>2, <3>1 DEF GivesKnown, Reading
    <2> QED BY <2>1, <2>2
  <1>3. \A p \in AReq : GivesKnown(areq[p])'
    BY <1>1, <1>2 DEF GivesKnown, RoleKnown
  <1>4. ASSUME NEW p \in AReq, areq'[p].kind = "dropRole", InUse(areq[p].target)' PROVE areq'[p].target \in crossed'
    <2>1. PICK u \in DOMAIN acct' : acct'[u].role = areq[p].target
      BY <1>2, <1>4 DEF InUse
    <2>2. Dropping(areq[p].target) /\ areq'[p].target = areq[p].target /\ areq[p].kind = "dropRole"
      BY <1>2, <1>4 DEF Dropping
    <2> QED BY <2>1, <2>2 DEF RolesInv
  <1>5. RolesDefined'
    BY DEF RolesDefined
  <1> QED BY <1>3, <1>4, <1>5 DEF RolesInv

LEMMA CreateKeepsRoles == ASSUME RolesInv, NEW r \in AReq, Create(r) PROVE RolesInv'
  <1>0. PICK u, role : u = areq[r].target /\ role = areq[r].role
    OBVIOUS
  <1>1. NewAccount(u, role) /\ UNCHANGED <<roleDef, rolePerm>> /\ RoleKnown(role)
    BY <1>0 DEF Create, RolesInv, GivesKnown
  <1>2. /\ areq' = [p \in AReq |-> areq'[p]]
        /\ \A p \in AReq : areq'[p] \in {areq[p], NoRequest}
    BY DEF Create, RolesInv, Shaped
  <1>3. /\ acct' = [v \in DOMAIN acct' |-> acct'[v]]
        /\ crossed' = crossed \/ crossed' = GivenBeside(role)
        /\ \A v \in DOMAIN acct' : \/ v \in DOMAIN acct /\ acct'[v] = acct[v]
                                   \/ acct'[v] = [role |-> role, active |-> TRUE] /\ crossed' = GivenBeside(role)
    BY <1>1 DEF NewAccount, RolesInv, Shaped
  <1>4. crossed \subseteq crossed' /\ Defined \subseteq Defined'
    BY <1>1, <1>3 DEF GivenBeside, Defined
  <1>5. \A v \in DOMAIN acct' : /\ acct'[v].role \in Defined'
                                /\ acct'[v] = [role |-> acct'[v].role, active |-> acct'[v].active]
    BY <1>1, <1>3, <1>4 DEF RolesInv, RolesDefined, RoleKnown, Shaped
  <1>6. \A v \in DOMAIN acct' : InUse(acct'[v].role) \/ (Dropping(acct'[v].role) => acct'[v].role \in crossed')
    BY <1>3 DEF InUse, GivenBeside
  <1>7. Shaped'
    BY <1>1, <1>2, <1>3, <1>5 DEF RolesInv, Shaped
  <1> QED BY <1>1, <1>2, <1>4, <1>5, <1>6, <1>7, EndKeepsRoles DEF RolesInv, RolesDefined

LEMMA UpdateKeepsRoles == ASSUME RolesInv, NEW r \in AReq, Update(r) PROVE RolesInv'
  <1>0. PICK q, u : q = areq[r] /\ u = q.target
    OBVIOUS
  <1>1. /\ q.kind \in {"update", "promote"} /\ UNCHANGED <<roleDef, rolePerm>> /\ GivesKnown(q)
        /\ \/ acct' = acct /\ crossed' = crossed
           \/ acct' = [acct EXCEPT ![u] = Patched(@, q.patch)] /\ crossed' = GivenBeside(q.patch.role)
    BY <1>0 DEF Update, RolesInv
  <1>2. /\ areq' = [p \in AReq |-> areq'[p]]
        /\ \A p \in AReq : areq'[p] \in {areq[p], NoRequest}
    BY DEF Update, RolesInv, Shaped
  <1>3. \A v \in DOMAIN acct : acct[v].role \in Defined /\ acct[v] = [role |-> acct[v].role, active |-> acct[v].active]
    BY DEF RolesInv, RolesDefined, Shaped
  <1>4. crossed \subseteq crossed' /\ Defined \subseteq Defined'
    BY <1>1 DEF GivenBeside, Defined
  <1>5. acct' = [v \in DOMAIN acct' |-> acct'[v]]
        /\ \A v \in DOMAIN acct' : /\ acct'[v].role \in Defined'
                                   /\ acct'[v] = [role |-> acct'[v].role, active |-> acct'[v].active]
                                   /\ InUse(acct'[v].role) \/ (Dropping(acct'[v].role) => acct'[v].role \in crossed')
    <2>1. CASE acct' = acct
      BY <1>3, <1>4, <2>1 DEF RolesInv, Shaped, InUse
    <2>2. CASE /\ acct' = [acct EXCEPT ![u] = Patched(@, q.patch)] /\ crossed' = GivenBeside(q.patch.role)
               /\ u \in DOMAIN acct
      <3> DEFINE new == Patched(acct[u], q.patch)
      <3>1. new = [role |-> IF q.patch.role = Same THEN acct[u].role ELSE q.patch.role,
                   active |-> IF q.patch.active = Same THEN acct[u].active ELSE q.patch.active = "on"]
        BY <1>3, <2>2, PatchedRow
      <3>2. new = [role |-> new.role, active |-> new.active] /\ new.role \in Defined
        BY <1>1, <1>3, <2>2, <3>1 DEF GivesKnown, RoleKnown
      <3>3. new.role = acct[u].role \/ new.role = q.patch.role
        BY <3>1
      <3> HIDE DEF new
      <3>4. acct' = [v \in DOMAIN acct |-> IF v = u THEN new ELSE acct[v]]
        BY <2>2 DEF RolesInv, Shaped, new
      <3>5. \A v \in DOMAIN acct : InUse(acct[v].role)
        BY DEF InUse
      <3>6. InUse(new.role) \/ (Dropping(new.role) => new.role \in crossed')
        BY <2>2, <3>3, <3>5 DEF GivenBeside
      <3>7. \A v \in DOMAIN acct : acct'[v] = IF v = u THEN new ELSE acct[v]
        BY <3>4
      <3>8. DOMAIN acct' = DOMAIN acct /\ acct' = [v \in DOMAIN acct' |-> acct'[v]]
        BY <3>4
      <3> QED BY <1>3, <1>4, <3>2, <3>5, <3>6, <3>7, <3>8
    <2>3. CASE acct' = [acct EXCEPT ![u] = Patched(@, q.patch)] /\ u \notin DOMAIN acct
      <3>1. acct' = acct
        BY <2>3 DEF RolesInv, Shaped
      <3> QED BY <2>1, <3>1
    <2> QED BY <1>1, <2>1, <2>2, <2>3
  <1>6. \A v \in DOMAIN acct' : acct'[v] = [role |-> acct'[v].role, active |-> acct'[v].active]
    BY <1>5
  <1>7. Shaped'
    <2>1. acct' = [v \in DOMAIN acct' |-> [role |-> acct'[v].role, active |-> acct'[v].active]]
      BY <1>5, <1>6
    <2>2. rolePerm' = [role \in Role |-> rolePerm'[role]]
      BY <1>1 DEF RolesInv, Shaped
    <2> QED BY <1>2, <2>1, <2>2 DEF Shaped
  <1>8. \A v \in DOMAIN acct' : acct'[v].role \in Defined'
    BY <1>5
  <1>9. \A v \in DOMAIN acct' : InUse(acct'[v].role) \/ (Dropping(acct'[v].role) => acct'[v].role \in crossed')
    BY <1>5
  <1>10. \A role \in Role : rolePerm'[role] # {} => role \in Defined'
    BY <1>1, <1>4 DEF RolesInv, RolesDefined
  <1>11. /\ roleDef' = roleDef /\ \A p \in AReq : areq'[p] \in {areq[p], NoRequest}
    BY <1>1, <1>2
  <1>12. crossed \subseteq crossed'
    BY <1>4
  <1> QED BY <1>7, <1>8, <1>9, <1>10, <1>11, <1>12, EndKeepsRoles

LEMMA DeleteKeepsRoles == ASSUME RolesInv, NEW r \in AReq, Delete(r) PROVE RolesInv'
  <1>0. PICK u : u = areq[r].target
    OBVIOUS
  <1>1. /\ UNCHANGED <<roleDef, rolePerm, crossed>>
        /\ acct' = acct \/ acct' = [v \in DOMAIN acct \ {u} |-> acct[v]]
    BY <1>0 DEF Delete
  <1>2. /\ areq' = [p \in AReq |-> areq'[p]]
        /\ \A p \in AReq : \/ areq'[p] \in {areq[p], NoRequest}
                           \/ areq[p].kind \in Reading /\ areq'[p] = [areq[p] EXCEPT !.target = NoUser]
    BY DEF Delete, Reading
  <1>3. DOMAIN acct' \subseteq DOMAIN acct /\ acct' = [v \in DOMAIN acct' |-> acct'[v]]
        /\ \A v \in DOMAIN acct' : acct'[v] = acct[v]
    BY <1>1 DEF RolesInv, Shaped
  <1>4. Defined' = Defined
    BY <1>1 DEF Defined
  <1>5. \A v \in DOMAIN acct' : /\ acct'[v].role \in Defined' /\ InUse(acct'[v].role)
                                /\ acct'[v] = [role |-> acct'[v].role, active |-> acct'[v].active]
    BY <1>3, <1>4 DEF RolesInv, RolesDefined, Shaped, InUse
  <1>6. Shaped'
    BY <1>1, <1>2, <1>3, <1>5 DEF RolesInv, Shaped
  <1> QED BY <1>1, <1>2, <1>4, <1>5, <1>6, EndKeepsRoles DEF RolesInv, RolesDefined

LEMMA PermsKeepsRoles == ASSUME RolesInv, NEW r \in AReq, Perms(r) PROVE RolesInv'
  <1>0. PICK q, x : q = areq[r] /\ rolePerm' = [rolePerm EXCEPT ![q.target] = x]
    BY DEF Perms
  <1>1. UNCHANGED <<acct, roleDef, crossed>> /\ RoleKnown(q.target)
    BY <1>0 DEF Perms, RolesInv, GivesKnown
  <1>2. /\ areq' = [p \in AReq |-> areq'[p]]
        /\ \A p \in AReq : areq'[p] \in {areq[p], NoRequest}
    BY DEF Perms, RolesInv, Shaped
  <1>3. rolePerm' = [role \in Role |-> rolePerm'[role]] /\ \A role \in Role : rolePerm'[role] = rolePerm[role] \/ role = q.target
    BY <1>0 DEF RolesInv, Shaped
  <1>4. Shaped' /\ Defined' = Defined
    BY <1>1, <1>2, <1>3 DEF RolesInv, Shaped, Defined
  <1>5. \A v \in DOMAIN acct' : acct'[v].role \in Defined' /\ InUse(acct'[v].role)
    BY <1>1, <1>4 DEF RolesInv, RolesDefined, InUse
  <1> QED BY <1>1, <1>2, <1>3, <1>4, <1>5, EndKeepsRoles DEF RolesInv, RolesDefined, RoleKnown

(* The role that goes is nobody's, unless it was given meanwhile; who is     *)
(* about to give it is noted.                                                *)
LEMMA DropKeepsRoles == ASSUME RolesInv, NEW r \in AReq, DropRole(r) PROVE RolesInv'
  <1>0. PICK c : c = areq[r].target
    OBVIOUS
  <1>1. /\ areq[r].kind = "dropRole" /\ acct' = acct
        /\ rolePerm' = [rolePerm EXCEPT ![c] = {}] /\ DOMAIN roleDef' = DOMAIN roleDef \ {c}
        /\ crossed' = crossed \cup {d \in {c} : \E q \in AReq : Gives(areq[q], d)}
    BY <1>0 DEF DropRole
  <1>2. /\ areq' = [p \in AReq |-> areq'[p]]
        /\ \A p \in AReq : areq'[p] \in {areq[p], NoRequest}
    BY <1>1 DEF DropRole, RolesInv, Shaped
  <1>3. crossed \subseteq crossed' /\ \A d \in Defined : d \in Defined' \/ d = c
    BY <1>1 DEF Defined
  <1>4. \A u \in DOMAIN acct : acct[u].role = c => c \in crossed
    BY <1>0, <1>1 DEF RolesInv, InUse
  <1>5. Shaped'
    BY <1>1, <1>2 DEF RolesInv, Shaped
  <1>6. crossed' \subseteq Defined'
    BY DEF Defined
  <1>7. RolesDefined'
    <2>1. \A u \in DOMAIN acct' : acct'[u].role \in Defined'
      BY <1>1, <1>3, <1>4, <1>6 DEF RolesInv, RolesDefined
    <2>2. \A role \in Role : rolePerm'[role] # {} => role # c /\ rolePerm[role] # {}
      BY <1>1 DEF RolesInv, Shaped
    <2>3. \A role \in Role : rolePerm'[role] # {} => role \in Defined'
      BY <1>3, <2>2 DEF RolesInv, RolesDefined
    <2> QED BY <2>1, <2>3 DEF RolesDefined
  <1>8. ASSUME NEW p \in AReq PROVE GivesKnown(areq[p])'
    <2>1. CASE areq'[p] = NoRequest
      BY <2>1 DEF GivesKnown, NoRequest
    <2>2. CASE areq'[p] = areq[p]
      <3>1. \A d : Gives(areq[p], d) /\ d \in Defined => d \in Defined'
        BY <1>1, <1>3, <1>6
      <3> QED BY <2>2, <3>1 DEF RolesInv, GivesKnown, Gives, RoleKnown
    <2> QED BY <1>2, <2>1, <2>2
  <1>9. \A p \in AReq : areq'[p].kind = "dropRole" /\ InUse(areq[p].target)' => areq'[p].target \in crossed'
    BY <1>1, <1>2, <1>3 DEF RolesInv, InUse, NoRequest
  <1> QED BY <1>5, <1>7, <1>8, <1>9 DEF RolesInv

LEMMA DefineKeepsRoles ==
  ASSUME RolesInv, UNCHANGED <<acct, rolePerm, areq, crossed>>, DOMAIN roleDef \subseteq DOMAIN roleDef'
  PROVE  RolesInv'
  <1>1. Defined \subseteq Defined'
    BY DEF Defined
  <1>2. \A p \in AReq : GivesKnown(areq[p])'
    BY <1>1 DEF RolesInv, GivesKnown, RoleKnown
  <1>3. Shaped' /\ RolesDefined'
    BY <1>1 DEF RolesInv, Shaped, RolesDefined
  <1> QED BY <1>2, <1>3 DEF RolesInv, InUse

(* RolesDefined: for any accounts, roles and requests, of which any number   *)
(* look and write at once, deletions of roles among them (accounts.ts,       *)
(* DELETE /accounts/roles).                                                  *)
THEOREM RolesStayDefined == AccountsSpec => []RolesDefined
  <1>1. AccountsInit => RolesInv
    <2> SUFFICES ASSUME AccountsInit PROVE RolesInv
      OBVIOUS
    <2>1. PICK first \in User : acct = [u \in {first} |-> [role |-> "admin", active |-> TRUE]]
      BY DEF AccountsInit
    <2>2. areq = [r \in AReq |-> NoRequest] /\ rolePerm = [role \in Role |-> {}]
      BY DEF AccountsInit
    <2>3. \A u \in DOMAIN acct : acct[u].role = "admin" /\ acct[u].active = TRUE
      BY <2>1
    <2>4. Shaped
      BY <2>1, <2>2 DEF Shaped
    <2> QED BY <2>2, <2>3, <2>4 DEF RolesInv, RolesDefined, Defined, Builtin, GivesKnown, NoRequest
  <1>2. RolesInv /\ [AccountsNext]_acvars => RolesInv'
    <2> SUFFICES ASSUME RolesInv, [AccountsNext]_acvars PROVE RolesInv'
      OBVIOUS
    <2>1. CASE UNCHANGED <<acct, roleDef, rolePerm, areq, crossed>>
      BY <2>1 DEF RolesInv, Shaped, RolesDefined, GivesKnown, RoleKnown, InUse, Defined
    <2>2. ASSUME NEW s, NEW c, CreateRole(s, c) PROVE RolesInv'
      BY <2>2, DefineKeepsRoles DEF CreateRole
    <2>3. ASSUME NEW s, NEW c, NEW on, EnableRole(s, c, on) PROVE RolesInv'
      BY <2>3, DefineKeepsRoles DEF EnableRole
    <2>4. ASSUME NEW r \in AReq, NEW s, NEW u, NEW role, BeginCreate(r, s, u, role) PROVE RolesInv'
      <3> DEFINE q == [kind |-> "create", target |-> u, role |-> role]
      <3>1. /\ GivesKnown(q) /\ Begin(r, s, q) /\ UNCHANGED <<acct, roleDef, rolePerm, crossed>> /\ q.kind # "dropRole"
        BY <2>4 DEF BeginCreate, GivesKnown, RoleKnown, Usable, Defined
      <3> HIDE DEF q
      <3> QED BY <3>1, BeginKeepsRoles
    <2>5. ASSUME NEW r \in AReq, NEW s, NEW u, NEW patch, BeginUpdate(r, s, u, patch) PROVE RolesInv'
      <3> DEFINE q == [kind |-> IF patch.role = "admin" \/ patch.active = "on" THEN "promote" ELSE "update",
                       target |-> u, patch |-> patch, seen |-> acct[u]]
      <3>1. /\ GivesKnown(q) /\ Begin(r, s, q) /\ UNCHANGED <<acct, roleDef, rolePerm, crossed>> /\ q.kind # "dropRole"
        BY <2>5 DEF BeginUpdate, GivesKnown, RoleKnown, Usable, Defined
      <3> HIDE DEF q
      <3> QED BY <3>1, BeginKeepsRoles
    <2>6. ASSUME NEW r \in AReq, NEW s, NEW u, BeginDelete(r, s, u) PROVE RolesInv'
      <3> DEFINE q == [kind |-> "delete", target |-> u, seen |-> acct[u]]
      <3>1. /\ GivesKnown(q) /\ Begin(r, s, q) /\ UNCHANGED <<acct, roleDef, rolePerm, crossed>> /\ q.kind # "dropRole"
        BY <2>6 DEF BeginDelete, GivesKnown
      <3> HIDE DEF q
      <3> QED BY <3>1, BeginKeepsRoles
    <2>7. ASSUME NEW r \in AReq, NEW s, NEW c, BeginDropRole(r, s, c) PROVE RolesInv'
      <3> DEFINE q == [kind |-> "dropRole", target |-> c]
      <3>1. /\ GivesKnown(q) /\ Begin(r, s, q) /\ UNCHANGED <<acct, roleDef, rolePerm, crossed>> /\ ~InUse(q.target)
        BY <2>7 DEF BeginDropRole, GivesKnown
      <3> HIDE DEF q
      <3> QED BY <3>1, BeginKeepsRoles
    <2>8. ASSUME NEW r \in AReq, NEW s, NEW role, NEW set, BeginPerms(r, s, role, set) PROVE RolesInv'
      <3> DEFINE q == [kind |-> "perms", target |-> role, set |-> set, rows |-> rolePerm[role]]
      <3>1. /\ GivesKnown(q) /\ Begin(r, s, q) /\ UNCHANGED <<acct, roleDef, rolePerm, crossed>> /\ q.kind # "dropRole"
        BY <2>8 DEF BeginPerms, GivesKnown, RoleKnown, Usable, Defined
      <3> HIDE DEF q
      <3> QED BY <3>1, BeginKeepsRoles
    <2>9. CASE UNCHANGED acvars
      BY <2>1, <2>9 DEF acvars
    <2>10. CASE AccountsNext
      BY <2>1, <2>2, <2>3, <2>4, <2>5, <2>6, <2>7, <2>8, <2>10, CreateKeepsRoles, UpdateKeepsRoles, DeleteKeepsRoles,
         PermsKeepsRoles, DropKeepsRoles
         DEF AccountsNext, Login, Expire
    <2> QED BY <2>9, <2>10
  <1> QED BY <1>1, <1>2, PTL DEF AccountsSpec, RolesInv
----------------------------------------------------------------------------
(* Invitations.  A code that has made an account is used, and stays so.      *)
IsCode(x) == x = [f \in DOMAIN x |-> x[f]] /\ "used" \in DOMAIN x
CodesInv ==
  /\ madeBy = [c \in Code |-> madeBy[c]]
  /\ invite = [c \in DOMAIN invite |-> invite[c]]
  /\ \A c \in DOMAIN invite : IsCode(invite[c])
  /\ \A c \in Code : madeBy[c] # 0 => c \in DOMAIN invite /\ invite[c].used = TRUE
CodeStep == \A c \in Code : madeBy'[c] # madeBy[c] => madeBy[c] = 0 /\ Live(c) /\ ~suspended

LEMMA Revoked ==
  ASSUME NEW x, IsCode(x)
  PROVE  IsCode([x EXCEPT !.revoked = TRUE]) /\ [x EXCEPT !.revoked = TRUE].used = x.used
  BY DEF IsCode
LEMMA Lapsed ==
  ASSUME NEW x, IsCode(x)
  PROVE  IsCode([x EXCEPT !.expired = TRUE]) /\ [x EXCEPT !.expired = TRUE].used = x.used
  BY DEF IsCode
LEMMA Redeemed ==
  ASSUME NEW x, IsCode(x)
  PROVE  IsCode([x EXCEPT !.used = TRUE]) /\ [x EXCEPT !.used = TRUE].used = TRUE
  BY DEF IsCode

(* Codes are added, voided and lapse: a used one stays used.                 *)
LEMMA UsedStayUsed ==
  ASSUME CodesInv, madeBy' = madeBy, invite' = [c \in DOMAIN invite' |-> invite'[c]],
         \A c \in DOMAIN invite : c \in DOMAIN invite' /\ (invite[c].used = TRUE => invite'[c].used = TRUE),
         \A c \in DOMAIN invite' : IsCode(invite'[c])
  PROVE  CodesInv' /\ CodeStep
  BY DEF CodesInv, CodeStep

(* OnlyGoodCodes: for any codes, identities and requests, with accounts made *)
(* and changed beside them (invite.ts POST /invites/redeem).                 *)
THEOREM CodesMakeOne == AccessSpec => OnlyGoodCodes
  <1>1. AccessInit => CodesInv
    BY DEF AccessInit, InvitesInit, CodesInv
  <1>2. CodesInv /\ [AccessNext]_<<acvars, invars>> => CodesInv' /\ CodeStep
    <2> SUFFICES ASSUME CodesInv, [AccessNext]_<<acvars, invars>> PROVE CodesInv' /\ CodeStep
      OBVIOUS
    <2>1. CASE UNCHANGED <<invite, madeBy>>
      BY <2>1 DEF CodesInv, CodeStep
    <2>2. ASSUME NEW s, NEW c, NEW u, NEW role, Invite(s, c, u, role) PROVE CodesInv' /\ CodeStep
      <3>1. /\ madeBy' = madeBy /\ invite' = [d \in DOMAIN invite' |-> invite'[d]]
            /\ DOMAIN invite' = DOMAIN invite \cup {c} /\ c \notin DOMAIN invite
            /\ \A d \in DOMAIN invite :
                 invite'[d] = IF invite[d].user = u /\ ~invite[d].used THEN [invite[d] EXCEPT !.revoked = TRUE] ELSE invite[d]
            /\ invite'[c] = [user |-> u, role |-> role, used |-> FALSE, revoked |-> FALSE, expired |-> FALSE]
        BY <2>2 DEF Invite
      <3>2. ASSUME NEW d \in DOMAIN invite' PROVE IsCode(invite'[d])
        <4>1. CASE d = c
          BY <3>1, <4>1 DEF IsCode
        <4>2. CASE d # c
          <5>1. d \in DOMAIN invite /\ IsCode(invite[d])
            BY <3>1, <4>2 DEF CodesInv
          <5> QED BY <3>1, <5>1, Revoked
        <4> QED BY <4>1, <4>2
      <3>3. \A d \in DOMAIN invite : ~(~invite[d].used) => invite'[d] = invite[d]
        BY <3>1
      <3> QED BY <3>1, <3>2, <3>3, UsedStayUsed
    <2>3. ASSUME NEW s, NEW c, Revoke(s, c) PROVE CodesInv' /\ CodeStep
      <3>1. /\ madeBy' = madeBy /\ invite' = [d \in DOMAIN invite' |-> invite'[d]] /\ DOMAIN invite' = DOMAIN invite
            /\ \A d \in DOMAIN invite : invite'[d] = IF d = c THEN [invite[c] EXCEPT !.revoked = TRUE] ELSE invite[d]
        BY <2>3 DEF Revoke, CodesInv
      <3>2. \A d \in DOMAIN invite : IsCode(invite'[d]) /\ invite'[d].used = invite[d].used
        <4> DEFINE new == [invite[c] EXCEPT !.revoked = TRUE]
        <4>1. \A d \in DOMAIN invite : IsCode(invite[d])
          BY DEF CodesInv
        <4>2. IsCode(invite[c]) => IsCode(new) /\ new.used = invite[c].used
          BY Revoked
        <4>3. \A d \in DOMAIN invite : invite'[d] = IF d = c THEN new ELSE invite[d]
          BY <3>1
        <4> HIDE DEF new
        <4> QED BY <4>1, <4>2, <4>3
      <3> QED BY <3>1, <3>2, UsedStayUsed
    <2>4. ASSUME NEW c, Lapse(c) PROVE CodesInv' /\ CodeStep
      <3>1. /\ madeBy' = madeBy /\ invite' = [d \in DOMAIN invite' |-> invite'[d]] /\ DOMAIN invite' = DOMAIN invite
            /\ \A d \in DOMAIN invite : invite'[d] = IF d = c THEN [invite[c] EXCEPT !.expired = TRUE] ELSE invite[d]
        BY <2>4 DEF Lapse, CodesInv
      <3>2. \A d \in DOMAIN invite : IsCode(invite'[d]) /\ invite'[d].used = invite[d].used
        <4> DEFINE new == [invite[c] EXCEPT !.expired = TRUE]
        <4>1. \A d \in DOMAIN invite : IsCode(invite[d])
          BY DEF CodesInv
        <4>2. IsCode(invite[c]) => IsCode(new) /\ new.used = invite[c].used
          BY Lapsed
        <4>3. \A d \in DOMAIN invite : invite'[d] = IF d = c THEN new ELSE invite[d]
          BY <3>1
        <4> HIDE DEF new
        <4> QED BY <4>1, <4>2, <4>3
      <3> QED BY <3>1, <3>2, UsedStayUsed
    <2>5. ASSUME NEW r \in IReq, Redeem(r) PROVE CodesInv' /\ CodeStep
      <3>0. PICK c : c = ireq[r].code
        OBVIOUS
      <3>1. CASE /\ ~suspended /\ Live(c)
                 /\ invite' = [invite EXCEPT ![c].used = TRUE] /\ madeBy' = [madeBy EXCEPT ![c] = @ + 1]
        <4>1. c \in DOMAIN invite /\ invite[c].used # TRUE
          BY <3>1 DEF Live
        <4>2. /\ invite' = [d \in DOMAIN invite |-> invite'[d]]
              /\ \A d \in DOMAIN invite : IF d = c THEN invite'[d] = [invite[c] EXCEPT !.used = TRUE] ELSE invite'[d] = invite[d]
          BY <3>1, <4>1 DEF CodesInv
        <4>3. madeBy' = [d \in Code |-> madeBy'[d]] /\ \A d \in Code : d # c => madeBy'[d] = madeBy[d]
          BY <3>1 DEF CodesInv
        <4>4. c \in Code => madeBy[c] = 0
          BY <4>1 DEF CodesInv
        <4>5. \A d \in DOMAIN invite : IsCode(invite'[d]) /\ (invite[d].used = TRUE => invite'[d].used = TRUE)
          BY <4>1, <4>2, Redeemed DEF CodesInv
        <4>6. invite'[c].used = TRUE
          BY <4>1, <4>2, Redeemed DEF CodesInv
        <4> QED BY <3>1, <4>1, <4>2, <4>3, <4>4, <4>5, <4>6 DEF CodesInv, CodeStep
      <3> QED BY <2>1, <2>5, <3>0, <3>1 DEF Redeem, StillGood
    <2>6. CASE InvitesNext
      BY <2>1, <2>2, <2>3, <2>4, <2>5, <2>6 DEF InvitesNext, Present, BindLook, Bind, SetSuspended
    <2> QED BY <2>1, <2>6 DEF AccessNext, acvars, invars
  <1> QED BY <1>1, <1>2, PTL DEF AccessSpec, OnlyGoodCodes, CodeStep
----------------------------------------------------------------------------
(* Flows that name roles, with the roles coming and going beside the saves.  *)
NamesSpec ==
  /\ AccountsInit /\ FlowRolesInit
  /\ [][(AccountsNext /\ UNCHANGED flowvars) \/ (FlowRolesNext /\ UNCHANGED acvars)]_<<acvars, flowvars>>

(* A tenant's own roles have none of the retired names, and a save has       *)
(* looked at its flow.                                                       *)
NamesInv ==
  /\ DOMAIN roleDef \subseteq OwnRole
  /\ save = [r \in FlowReq |-> save[r]]
  /\ \A r \in FlowReq : save[r] # NoSave => RolesOf(save[r].flow) \cap Retired = {}
  /\ RetiredStayOut

(* RetiredStayOut: for any drafts, templates and versions, and saves that    *)
(* overlap (workflowDef.ts assertWorkflowDefRolesUsable).                    *)
THEOREM RetiredNamesStayOut == NamesSpec => []RetiredStayOut
  <1> DEFINE NamesNext == (AccountsNext /\ UNCHANGED flowvars) \/ (FlowRolesNext /\ UNCHANGED acvars)
  <1>0. Builtin \cap Retired = {}
    BY DEF Builtin, Retired
  <1>1. AccountsInit /\ FlowRolesInit => NamesInv
    <2> SUFFICES ASSUME AccountsInit, FlowRolesInit PROVE NamesInv
      OBVIOUS
    <2>1. RetiredStayOut
      BY <1>0 DEF FlowRolesInit, RetiredStayOut
    <2>2. DOMAIN roleDef = {}
      BY DEF AccountsInit
    <2> QED BY <2>1, <2>2 DEF FlowRolesInit, NamesInv
  <1>2. NamesInv /\ [NamesNext]_<<acvars, flowvars>> => NamesInv'
    <2> SUFFICES ASSUME NamesInv, [NamesNext]_<<acvars, flowvars>> PROVE NamesInv'
      OBVIOUS
    <2>1. CASE UNCHANGED flowvars /\ AccountsNext
      <3>1. DOMAIN roleDef' \subseteq OwnRole
        <4>1. CASE roleDef' = roleDef
          BY <4>1 DEF NamesInv
        <4>2. ASSUME NEW s, NEW c \in OwnRole, CreateRole(s, c) PROVE DOMAIN roleDef' \subseteq OwnRole
          BY <4>2 DEF CreateRole, NamesInv
        <4>3. ASSUME NEW s, NEW c, NEW on, EnableRole(s, c, on) PROVE DOMAIN roleDef' \subseteq OwnRole
          BY <4>3 DEF EnableRole, NamesInv
        <4>4. ASSUME NEW r \in AReq, DropRole(r) PROVE DOMAIN roleDef' \subseteq OwnRole
          BY <4>4 DEF DropRole, NamesInv
        <4> QED BY <2>1, <4>1, <4>2, <4>3, <4>4 DEF AccountsNext, Login, Expire, Create, Update, Delete, Perms,
                                                   BeginCreate, BeginUpdate, BeginDelete, BeginDropRole, BeginPerms
      <3> QED BY <2>1, <3>1 DEF NamesInv, RetiredStayOut, flowvars
    <2>2. CASE UNCHANGED <<acvars, flowvars>>
      BY <2>2 DEF NamesInv, RetiredStayOut, acvars, flowvars
    <2>3. ASSUME NEW r \in FlowReq, NEW def \in Flow, NEW expect, BeginSave(r, def, expect), roleDef' = roleDef PROVE NamesInv'
      <3>1. RolesOf(def) \cap Retired = {}
        BY <1>0, <2>3, FlowRolesAssumption DEF BeginSave, RolesUsable, NamesInv, RetiredStayOut
      <3> DEFINE new == [flow |-> def, expect |-> expect]
      <3>2. save' = [save EXCEPT ![r] = new] /\ liveFlow' = liveFlow /\ new.flow = def
        BY <2>3 DEF BeginSave
      <3> HIDE DEF new
      <3> QED BY <2>3, <3>1, <3>2 DEF NamesInv, RetiredStayOut
    <2>4. ASSUME NEW r \in FlowReq, EndSave(r), roleDef' = roleDef PROVE NamesInv'
      <3>1. liveFlow'.def = liveFlow.def \/ liveFlow'.def = save[r].flow
        BY <2>4 DEF EndSave
      <3>2. RetiredStayOut'
        BY <2>4, <3>1 DEF EndSave, NamesInv, RetiredStayOut
      <3> QED BY <2>4, <3>2 DEF EndSave, NamesInv
    <2> QED BY <2>1, <2>2, <2>3, <2>4 DEF FlowRolesNext, acvars
  <1> QED BY <1>1, <1>2, PTL DEF NamesSpec, NamesInv
----------------------------------------------------------------------------
(* Tables of basic data: EditsKept for any number of editors, of every       *)
(* table, any of whom may have the row open at once.                         *)
MastersSpec == MastersInit /\ [][MastersNext]_mvars

WholeRows == {Absent} \cup [Column -> Value]
EditStates == [given : SUBSET Column, seen : WholeRows]
MType ==
  /\ table \in Table /\ row \in WholeRows /\ asked \in WholeRows
  /\ contested \in SUBSET Column /\ medit \in [MReq -> EditStates]
  /\ \A r \in MReq : medit[r] # Unread => medit[r].seen \in [Column -> Value]
(* What was last asked for while nobody else had the row open is in the row, *)
(* and in what everybody has read of it; where only the given columns are    *)
(* written, so is the rest.                                                  *)
Agreed ==
  row # Absent =>
    /\ asked # Absent
    /\ table \in WrittenAsGiven => row = asked
    /\ \A c \in Column \ contested :
         row[c] = asked[c] /\ \A r \in MReq : medit[r] # Unread /\ table \in WrittenWhole => medit[r].seen[c] = asked[c]
MInv == MType /\ Agreed

LEMMA AbsentApart == \A f \in [Column -> Value] : f # Absent
  BY DEF Absent, Column

LEMMA StartsSo == MastersInit => MInv
  BY DEF MastersInit, MInv, MType, Agreed, WholeRows, EditStates, Unread

LEMMA InsertKeeps == ASSUME MInv, NEW cols \in SUBSET Column, InsertRow(cols) PROVE MInv'
<1>1. row' \in [Column -> Value] /\ asked' = row'
  BY DEF InsertRow, Value
<1>2. row' # Absent
  BY <1>1, AbsentApart
<1> QED BY <1>1, <1>2 DEF InsertRow, MInv, MType, Agreed, WholeRows

LEMMA AgainKeeps == ASSUME MInv, NEW r \in MReq, NEW cols \in SUBSET Column, PostAgain(r, cols) PROVE MInv'
<1>1. PICK v \in Value : /\ row' = [row EXCEPT !["note"] = v] /\ asked' = [asked EXCEPT !["note"] = v]
                         /\ contested' = ContestedBy(r, {"note"})
  BY DEF PostAgain, Value
<1>2. /\ row \in [Column -> Value] /\ asked \in [Column -> Value] /\ "note" \in Column
      /\ table = "term" /\ UNCHANGED <<table, medit>> /\ medit[r] = Unread
  BY DEF PostAgain, MInv, MType, Agreed, WholeRows, Column
<1>3. row' \in [Column -> Value] /\ asked' \in [Column -> Value] /\ contested' \in SUBSET Column
  BY <1>1, <1>2 DEF ContestedBy, MInv, MType
<1>4. asked' # Absent
  BY <1>3, AbsentApart
<1>5. ASSUME NEW c \in Column \ contested'
      PROVE  row'[c] = asked'[c] /\ \A q \in MReq : medit[q] # Unread => medit[q].seen[c] = asked'[c]
  <2>1. CASE c = "note"
    <3>1. \A q \in MReq : medit[q] = Unread
      BY <1>1, <1>2, <1>5, <2>1 DEF ContestedBy
    <3> QED BY <1>1, <1>2, <2>1, <3>1
  <2>2. CASE c # "note"
    <3>1. c \notin contested
      BY <1>1, <1>5, <2>2 DEF ContestedBy
    <3> QED BY <1>1, <1>2, <2>2, <3>1 DEF PostAgain, MInv, Agreed, WrittenWhole
  <2> QED BY <2>1, <2>2
<1>6. "term" \notin WrittenAsGiven
  BY DEF WrittenAsGiven
<1> QED BY <1>2, <1>3, <1>4, <1>5, <1>6 DEF MInv, MType, Agreed, WholeRows

LEMMA DropKeeps == ASSUME MInv, DropRow PROVE MInv'
  BY DEF DropRow, MInv, MType, Agreed, WholeRows

LEMMA ReadKeeps ==
  ASSUME MInv, NEW r \in MReq, NEW cols \in SUBSET Column, ReadRow(r, cols)
  PROVE  MInv'
<1>1. medit' \in [MReq -> EditStates]
  BY DEF ReadRow, MInv, MType, EditStates
<1>2. \A q \in MReq : medit'[q] = medit[q] \/ medit'[q].seen = row
  BY DEF ReadRow, MInv, MType
<1>3. row # Absent /\ row \in [Column -> Value] /\ UNCHANGED <<table, row, asked, contested>>
  BY DEF ReadRow, MInv, MType, WholeRows
<1>4. MType'
  BY <1>1, <1>2, <1>3 DEF MInv, MType
<1>5. ASSUME NEW c \in Column \ contested, NEW q \in MReq, medit'[q] # Unread, table \in WrittenWhole
      PROVE  medit'[q].seen[c] = asked[c]
  BY <1>2, <1>3, <1>5 DEF MInv, Agreed
<1> QED BY <1>3, <1>4, <1>5 DEF MInv, Agreed

(* Either pattern of UPDATE leaves what was not given as it is, unless it is *)
(* contested.                                                                *)
LEMMA WriteKeeps == ASSUME MInv, NEW r \in MReq, WriteRow(r) PROVE MInv'
<1>1. CASE row = Absent
  BY <1>1 DEF WriteRow, MInv, MType, Agreed, EditStates, WholeRows, Unread
<1>2. CASE row # Absent
  <2> DEFINE given == medit[r].given
  <2>1. /\ row \in [Column -> Value] /\ asked \in [Column -> Value] /\ given \in SUBSET Column
        /\ medit[r].seen \in WholeRows
    BY <1>2 DEF MInv, MType, WholeRows, EditStates, Agreed
  <2>2. /\ row' = Written(r) /\ asked' = [c \in Column |-> IF c \in given THEN r ELSE asked[c]]
        /\ contested' = ContestedBy(r, given) /\ medit' = [medit EXCEPT ![r] = Unread] /\ table' = table
        /\ medit[r] # Unread
    BY <1>2 DEF WriteRow
  <2>3. \A c \in Column : /\ c \in given => Written(r)[c] = r
                          /\ c \notin given => Written(r)[c] \in {row[c], medit[r].seen[c]}
                          /\ c \notin given /\ table \in WrittenAsGiven => Written(r)[c] = row[c]
    BY DEF Written, WroteGiven, WroteAll
  <2>4. Written(r) = [c \in Column |-> Written(r)[c]]
    BY DEF Written, WroteGiven, WroteAll
  <2>5. medit[r].seen \in [Column -> Value]
    BY <2>2 DEF MInv, MType
  <2>6. \A c \in Column : Written(r)[c] \in Value
    BY <2>1, <2>3, <2>5 DEF Value
  <2>7. row' \in [Column -> Value] /\ asked' \in [Column -> Value] /\ contested' \in SUBSET Column
    <3>1. row' \in [Column -> Value]
      BY <2>2, <2>4, <2>6
    <3>2. asked' \in [Column -> Value]
      BY <2>1, <2>2 DEF Value
    <3>3. contested' \in SUBSET Column
      BY <2>1, <2>2 DEF ContestedBy, MInv, MType
    <3> QED BY <3>1, <3>2, <3>3
  <2> HIDE DEF given
  <2>8. MType'
    BY <2>2, <2>7 DEF MInv, MType, EditStates, WholeRows, Unread
  <2>9. asked' # Absent
    BY <2>7, AbsentApart
  <2>10. table \in WrittenAsGiven => row' = asked'
    <3>1. table \in WrittenAsGiven => row = asked
      BY <1>2 DEF MInv, Agreed
    <3>2. table \in WrittenAsGiven => Written(r) = [c \in Column |-> IF c \in given THEN r ELSE row[c]]
      BY DEF Written, WroteGiven, given
    <3> QED BY <2>2, <3>1, <3>2
  <2>11. ASSUME NEW c \in Column \ contested'
         PROVE  /\ row'[c] = asked'[c]
                /\ \A q \in MReq : medit'[q] # Unread /\ table \in WrittenWhole => medit'[q].seen[c] = asked'[c]
    <3>1. \A q \in MReq : medit'[q] # Unread => q # r /\ medit'[q] = medit[q]
      BY <2>2 DEF MInv, MType
    <3>2. CASE c \in given
      <4>1. \A q \in MReq \ {r} : medit[q] = Unread
        BY <2>2, <2>11, <3>2 DEF ContestedBy
      <4> QED BY <2>2, <2>3, <3>1, <3>2, <4>1 DEF given
    <3>3. CASE c \notin given
      <4>1. c \notin contested
        BY <2>2, <2>11, <3>3 DEF ContestedBy
      <4>2. asked'[c] = asked[c] /\ row[c] = asked[c]
        BY <1>2, <2>2, <3>3, <4>1 DEF MInv, Agreed
      <4>3. table \in WrittenWhole => \A q \in MReq : medit[q] # Unread => medit[q].seen[c] = asked[c]
        BY <1>2, <4>1 DEF MInv, Agreed
      <4>4. table \in WrittenAsGiven \/ table \in WrittenWhole
        BY DEF MInv, MType, Table
      <4>5. row'[c] = asked[c]
        BY <2>2, <2>3, <3>3, <4>2, <4>3, <4>4 DEF given
      <4> QED BY <3>1, <4>2, <4>3, <4>5
    <3> QED BY <3>2, <3>3
  <2> QED BY <2>2, <2>8, <2>9, <2>10, <2>11 DEF MInv, Agreed
<1> QED BY <1>1, <1>2

(* EditsKept: for any number of editors of a row of any table, at once (PUT, *)
(* POST and DELETE of the tables named in Masters).                          *)
THEOREM EditsSound == MastersSpec => []EditsKept
<1>1. MInv /\ [MastersNext]_mvars => MInv'
  <2> SUFFICES ASSUME MInv, [MastersNext]_mvars PROVE MInv'
    OBVIOUS
  <2>1. CASE UNCHANGED mvars
    BY <2>1 DEF mvars, MInv, MType, Agreed
  <2> QED BY <2>1, InsertKeeps, AgainKeeps, DropKeeps, ReadKeeps, WriteKeeps DEF MastersNext
<1>2. MInv => EditsKept
  BY DEF MInv, MType, Agreed, EditsKept, Table
<1> QED BY <1>1, <1>2, StartsSo, PTL DEF MastersSpec
----------------------------------------------------------------------------
(* Automatic reviews: AutoNeverEnds for any flows, rules and orders.  No     *)
(* state of the rules enters the invariant: whatever the tenant saved,       *)
(* deleted or published in between, the hop itself looks at the flow of the  *)
(* order again.                                                              *)
AutoRulesSpec == AutoRulesInit /\ [][AutoRulesNext]_rvars

AllEdges == UNION {RFlows[v].edges : v \in DOMAIN RFlows}
(* Orders under a flow.  A hop has led where such an order is, and is one    *)
(* that tryAutoAdvance may take in that flow.                                *)
Rightly ==
  {held \in [dv : DOMAIN RFlows, st : RState, traits : Trait, auto : SUBSET AllEdges] :
     \A h \in held.auto : h.to = held.st /\ h.to \notin EndsIn(RFlows[held.dv]) /\ ~h.needs}
AutoInv ==
  /\ shown \in DOMAIN RFlows
  /\ rorder \in [ROrder -> {NotFiled} \cup Rightly]

(* A filed order has been moved by nobody.                                   *)
LEMMA FileKeeps == ASSUME AutoInv, NEW o \in ROrder, NEW traits \in Trait, FileOrder(o, traits) PROVE AutoInv'
<1> DEFINE held == [dv |-> shown, st |-> RFlows[shown].initial, traits |-> traits, auto |-> NoHop]
<1>1. held \in Rightly
  BY AutoRulesAssumption DEF Rightly, NoHop, AutoInv, AutoRulesAssumption
<1>2. rorder' = [rorder EXCEPT ![o] = held] /\ shown' = shown
  BY DEF FileOrder
<1> HIDE DEF held
<1> QED BY <1>1, <1>2 DEF AutoInv

(* A move takes no hop but an allowed one, and forgets the one before.       *)
LEMMA MoveKeeps ==
  ASSUME AutoInv, NEW o \in ROrder, rorder[o] # NotFiled,
         NEW e \in RFlows[rorder[o].dv].edges, MoveOrder(o, e)
  PROVE  AutoInv'
<1> DEFINE flow == RFlows[rorder[o].dv]
           hop  == Hop(flow, e.to, rorder[o].traits)
           held(to, a) == [[rorder[o] EXCEPT !.st = to] EXCEPT !.auto = a]
<1>1. rorder[o] \in Rightly
  BY DEF AutoInv
<1>2. held(e.to, NoHop) \in Rightly
  BY <1>1, AutoRulesAssumption DEF Rightly, NoHop, AutoRulesAssumption
<1>3. ASSUME NEW h \in hop PROVE held(h.to, {h}) \in Rightly
  <2>1. h \in flow.edges /\ h.to \notin EndsIn(flow) /\ ~h.needs
    BY <1>3 DEF Hop
  <2>2. h \in AllEdges /\ h.to \in RState
    BY <2>1, <1>1, AutoRulesAssumption DEF Rightly, AllEdges, AutoRulesAssumption
  <2> QED BY <1>1, <2>1, <2>2 DEF Rightly
<1>4. PICK new \in Rightly : rorder' = [rorder EXCEPT ![o] = new]
  BY <1>2, <1>3 DEF MoveOrder
<1> QED BY <1>4 DEF AutoInv, MoveOrder

LEMMA AutoInvInductive == AutoInv /\ [AutoRulesNext]_rvars => AutoInv'
<1> SUFFICES ASSUME AutoInv, [AutoRulesNext]_rvars PROVE AutoInv'
  OBVIOUS
<1>1. CASE UNCHANGED <<rorder, shown>>
  BY <1>1 DEF AutoInv
<1>2. CASE Publish
  BY <1>2 DEF AutoInv, Publish
<1>3. ASSUME NEW o \in ROrder, NEW traits \in Trait, FileOrder(o, traits) PROVE AutoInv'
  BY <1>3, FileKeeps
<1>4. ASSUME NEW o \in ROrder, rorder[o] # NotFiled,
             NEW e \in RFlows[rorder[o].dv].edges, MoveOrder(o, e) PROVE AutoInv'
  BY <1>4, MoveKeeps
<1> QED BY <1>1, <1>2, <1>3, <1>4 DEF AutoRulesNext, rvars, SaveRule, DeleteRule

(* What the flow leaves to people stays with them (tryAutoAdvance of         *)
(* repo/ticket.ts), for every rule and every version.                        *)
THEOREM NeverEndsByRule == AutoRulesSpec => []AutoNeverEnds
<1>1. AutoRulesInit => AutoInv
  BY AutoRulesAssumption DEF AutoRulesInit, AutoInv, AutoRulesAssumption
<1>2. AutoInv => AutoNeverEnds
  BY DEF AutoInv, Rightly, AutoNeverEnds
<1> QED BY <1>1, <1>2, AutoInvInductive, PTL DEF AutoRulesSpec
================================================================================
