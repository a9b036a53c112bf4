------------------------------- MODULE Volunteer -------------------------------
(***************************************************************************)
(* Volunteer activities and who signed up for them (routes/volunteer.ts).  *)
(* A sign-up holds the row of the activity from its first read to its end; *)
(* check-in, check-out and approval read the record without a lock.        *)
(***************************************************************************)
EXTENDS Naturals, FiniteSets

CONSTANTS
  Activity, Person, VReq,
  MaxSlots        \* bound: slots of an activity

VARIABLES
  activity,   \* slots, status, and where the clock is: before its end, within the grace, past it
  signed,     \* volunteer_record: status and whether the check-in was late, per sign-up
  vreq        \* requests under way

vvars == <<activity, signed, vreq>>

NoActivity == [slots |-> 0, st |-> "none", clock |-> "before"]
AtEase == [pc |-> "none", activity |-> "none", person |-> "none"]
Statuses == {"registered", "checked_in", "checked_out", "approved"}
Ups(a) == {s \in signed : s.activity = a}

VolunteerInit ==
  /\ activity = [a \in Activity |-> NoActivity]
  /\ signed = {}
  /\ vreq = [r \in VReq |-> AtEase]

(* A fault: the activity is read without FOR UPDATE.                         *)
NotLocked(a) == TRUE
Unlocked(a) == \A q \in VReq : vreq[q].pc # "signup" \/ vreq[q].activity # a

(* POST /activities and PUT /activities/:id/status                           *)
Announce(a, n) ==
  /\ activity[a] = NoActivity
  /\ activity' = [activity EXCEPT ![a] = [slots |-> n, st |-> "open", clock |-> "before"]]
  /\ UNCHANGED <<signed, vreq>>
SetStatus(a, st) ==
  /\ activity[a] # NoActivity /\ Unlocked(a)
  /\ activity' = [activity EXCEPT ![a].st = st]
  /\ UNCHANGED <<signed, vreq>>
(* end_at passes, then the three days of grace (CHECKIN_GRACE_MS); an        *)
(* activity without an end stays where it is.                                *)
Pass(a) ==
  /\ activity[a] # NoActivity /\ activity[a].clock # "past"
  /\ activity' = [activity EXCEPT ![a].clock = IF @ = "before" THEN "grace" ELSE "past"]
  /\ UNCHANGED <<signed, vreq>>

(* POST /activities/:id/signup: open, not ended, not signed up, not full;    *)
(* then the insert.                                                          *)
BeginSignup(r, a, p) ==
  /\ vreq[r] = AtEase /\ Unlocked(a)
  /\ activity[a].st = "open" /\ activity[a].clock = "before"
  /\ \A s \in Ups(a) : s.person # p
  /\ Cardinality(Ups(a)) < activity[a].slots
  /\ vreq' = [vreq EXCEPT ![r] = [pc |-> "signup", activity |-> a, person |-> p]]
  /\ UNCHANGED <<activity, signed>>
Signup(r) ==
  /\ vreq[r].pc = "signup"
  /\ signed' = signed \cup {[activity |-> vreq[r].activity, person |-> vreq[r].person, id |-> r,
                             st |-> "registered", late |-> FALSE]}
  /\ vreq' = [vreq EXCEPT ![r] = AtEase]
  /\ UNCHANGED activity

Become(s, st, late) ==
  /\ signed' = (signed \ {s}) \cup {[s EXCEPT !.st = st, !.late = late]}
  /\ UNCHANGED <<activity, vreq>>
(* POST /records/:id/checkin: up to the grace, and marked when late.         *)
CheckinVolunteer(s) ==
  /\ s.st = "registered" /\ activity[s.activity].clock # "past"
  /\ Become(s, "checked_in", activity[s.activity].clock = "grace")
(* POST /records/:id/checkout, /approve                                      *)
Checkout(s) == s.st = "checked_in" /\ Become(s, "checked_out", s.late)
Approve(s) == s.st = "checked_out" /\ Become(s, "approved", s.late)

VolunteerNext ==
  \/ \E a \in Activity :
       \/ \E n \in 1..MaxSlots : Announce(a, n)
       \/ \E st \in {"open", "closed"} : SetStatus(a, st)
       \/ Pass(a)
       \/ \E r \in VReq, p \in Person : BeginSignup(r, a, p)
  \/ \E r \in VReq : Signup(r)
  \/ \E s \in signed : CheckinVolunteer(s) \/ Checkout(s) \/ Approve(s)
----------------------------------------------------------------------------
(* However many sign up at once, for the last slot or twice in a row, an     *)
(* activity has no more sign-ups than slots and none of the same person      *)
(* twice (FOR UPDATE in POST /activities/:id/signup).                        *)
SlotsKept ==
  \A a \in Activity :
    /\ Cardinality(Ups(a)) <= activity[a].slots
    /\ \A s, u \in Ups(a) : s.person = u.person => s = u
=============================================================================
