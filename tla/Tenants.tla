-------------------------------- MODULE Tenants --------------------------------
(* The platform's register of tenants (routes/platform.ts,                    *)
(* repo/tenantProvision.ts), trial applications and their review, and the     *)
(* cache of a tenant's status behind every request (middleware/auth.ts).      *)
EXTENDS Naturals, FiniteSets

CONSTANTS
  Tenant,
  Applic,     \* trial applications
  Reviewer,   \* platform administrators, one review at a time each
  Caller,     \* requests carrying a token of a tenant
  Ttl,        \* TENANT_STATUS_TTL_MS in ticks
  Slow,       \* a bound: ticks a query for the status may take
  Horizon     \* a bound: ticks in all

(* An entry is kept for a while, and a query takes its time.                 *)
ASSUME TenantsAssumption == Ttl \in Nat \ {0} /\ Slow \in Nat

VARIABLES
  status,     \* tenant_registry.status, "none" without a row
  lastUp,     \* per tenant, the last tick at which requests were to be served
  applic,     \* trial_applications: status
  opened,     \* per application, the tenants opened for it
  review,     \* reviews in flight
  cache,      \* tenantStatusCache
  call,       \* requests in the middleware
  now

tnvars == <<status, lastUp, applic, opened, review, cache, call, now>>

Free == [st |-> "free"]
Shut == {"suspended", "pending"}

(* PUT /platform/tenants/:id/status *)
SetStatus(t, s) ==
  /\ status[t] # "none" /\ s # status[t]
  /\ status' = [status EXCEPT ![t] = s]
  /\ lastUp' = IF s \in Shut THEN lastUp ELSE [lastUp EXCEPT ![t] = now]
  /\ UNCHANGED <<applic, opened, review, cache, call, now>>

(* POST /platform/tenants: registry row and content in one transaction; a    *)
(* duplicate fails on the key and rolls everything back.                     *)
Open(t, s) == status[t] = "none" /\ status' = [status EXCEPT ![t] = s]
CreateTenant(t, s) ==
  /\ Open(t, s) /\ s \in {"active", "pending"}
  /\ UNCHANGED <<lastUp, applic, opened, review, cache, call, now>>

(* POST /public/trial-applications *)
Submit(a) ==
  /\ applic[a] = "none" /\ applic' = [applic EXCEPT ![a] = "pending"]
  /\ UNCHANGED <<status, lastUp, opened, review, cache, call, now>>

(* POST /platform/trial-applications/:id/review: first look *)
LookAt(r, a, decision, t) ==
  /\ review[r] = Free /\ applic[a] = "pending"
  /\ decision = "approve" => status[t] = "none"
  /\ review' = [review EXCEPT ![r] = [st |-> decision, app |-> a, tenant |-> t]]
  /\ UNCHANGED <<status, lastUp, applic, opened, cache, call, now>>
Decided(a) == FALSE                  \* a fault: what was read first still holds
(* The status is read again under a lock, or guards the update. *)
Reviewed(a) == applic[a] # "pending"
Reject(r) ==
  LET a == review[r].app IN
  /\ review[r].st = "reject"
  /\ applic' = IF Reviewed(a) THEN applic ELSE [applic EXCEPT ![a] = "rejected"]
  /\ review' = [review EXCEPT ![r] = Free]
  /\ UNCHANGED <<status, lastUp, opened, cache, call, now>>
Approve(r) ==
  LET a == review[r].app
      t == review[r].tenant IN
  /\ review[r].st = "approve"
  /\ \/ /\ ~Reviewed(a) /\ Open(t, "pending")
        /\ applic' = [applic EXCEPT ![a] = "approved"]
        /\ opened' = [opened EXCEPT ![a] = @ \cup {t}]
     \/ /\ Reviewed(a) \/ status[t] # "none"
        /\ UNCHANGED <<status, applic, opened>>
  /\ review' = [review EXCEPT ![r] = Free] /\ UNCHANGED <<lastUp, cache, call, now>>

(* assertTenantActive: a fresh entry answers, otherwise the row is read; the *)
(* answer is cached with the time at which it came back.                     *)
Known(t) == cache[t].status # "none" /\ now - cache[t].at < Ttl
Answer(c, t, s) == call' = [call EXCEPT ![c] = [st |-> IF s \in Shut THEN "refused" ELSE "served", tenant |-> t]]
(* A fault: an entry that is used is young again. *)
Kept(t) == cache' = [cache EXCEPT ![t].at = now]
AsItIs(t) == cache' = cache
FromCache(c, t) ==
  /\ call[c] = Free /\ Known(t) /\ Answer(c, t, cache[t].status) /\ AsItIs(t)
  /\ UNCHANGED <<status, lastUp, applic, opened, review, now>>
Ask(c, t) ==
  /\ call[c] = Free /\ ~Known(t)
  /\ call' = [call EXCEPT ![c] = [st |-> "asking", tenant |-> t, got |-> status[t], at |-> now]]
  /\ UNCHANGED <<status, lastUp, applic, opened, review, cache, now>>
FromTable(c) ==
  LET t == call[c].tenant
      s == call[c].got IN
  /\ call[c].st = "asking" /\ Answer(c, t, s)
  /\ cache' = IF s = "none" THEN cache ELSE [cache EXCEPT ![t] = [status |-> s, at |-> now]]
  /\ UNCHANGED <<status, lastUp, applic, opened, review, now>>
Leave(c) ==
  /\ call[c].st \in {"served", "refused"} /\ call' = [call EXCEPT ![c] = Free]
  /\ UNCHANGED <<status, lastUp, applic, opened, review, cache, now>>

Tick ==
  /\ now < Horizon /\ now' = now + 1
  /\ \A c \in Caller : call[c].st = "asking" => now - call[c].at < Slow
  /\ \A c \in Caller : call[c].st \notin {"served", "refused"}
  /\ lastUp' = [t \in Tenant |-> IF status[t] \in Shut THEN lastUp[t] ELSE now + 1]
  /\ UNCHANGED <<status, applic, opened, review, cache, call>>

TenantsInit ==
  /\ status \in [Tenant -> {"none", "active"}] /\ lastUp = [t \in Tenant |-> 0]
  /\ applic = [a \in Applic |-> "none"] /\ opened = [a \in Applic |-> {}]
  /\ review = [r \in Reviewer |-> Free]
  /\ cache = [t \in Tenant |-> [status |-> "none", at |-> 0]]
  /\ call = [c \in Caller |-> Free] /\ now = 0

StatusNext ==
  \/ \E t \in Tenant : \E s \in {"active", "suspended", "pending"} : SetStatus(t, s) \/ CreateTenant(t, s)
  \/ \E c \in Caller : FromTable(c) \/ Leave(c) \/ \E t \in Tenant : FromCache(c, t) \/ Ask(c, t)
  \/ Tick
ReviewNext ==
  \/ \E r \in Reviewer : Reject(r) \/ Approve(r)
  \/ \E r \in Reviewer, a \in Applic, t \in Tenant, d \in {"approve", "reject"} : LookAt(r, a, d, t)
  \/ \E t \in Tenant : CreateTenant(t, "active") \/ \E a \in Applic : Submit(a)

(* A suspended tenant is served for no longer than the cache keeps an entry  *)
(* plus the time a query takes (middleware/auth.ts, TENANT_STATUS_TTL_MS).   *)
ServedLately ==
  \A c \in Caller : call[c].st = "served" => now - lastUp[call[c].tenant] < Ttl + Slow

(* An application opens one tenant at most, and none when it was rejected,   *)
(* whoever reviews it at the same time.                                      *)
OneTenantEach ==
  \A a \in Applic : opened[a] # {} => Cardinality(opened[a]) = 1 /\ applic[a] = "approved"
=============================================================================
