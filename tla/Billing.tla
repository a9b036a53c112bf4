------------------------------- MODULE Billing -------------------------------
(* What settlements promise to whoever pays them: each is a paper about the  *)
(* orders that are on it, an order is on one paper at a time, and a paper    *)
(* changes as a draft only.  Requests, locks, lines and stock are out of     *)
(* sight.                                                                    *)
CONSTANTS Order, Settlement
VARIABLES
  on,      \* the settlements an order is billed by
  paper    \* the status of a settlement and its total

Blank == [status |-> "none", total |-> 0]
Init ==
  /\ on = [o \in Order |-> {}]
  /\ paper = [s \in Settlement |-> Blank]

Draft(s, os) ==
  /\ paper[s].status = "none" /\ os # {} /\ \A o \in os : on[o] = {}
  /\ on' = [o \in Order |-> IF o \in os THEN {s} ELSE on[o]]
  /\ paper' = [paper EXCEPT ![s].status = "draft", ![s].total = paper'[s].total]

(* Whatever the orders come to, it is written on the draft.                  *)
Amend(s) ==
  /\ paper[s].status = "draft"
  /\ paper' = [paper EXCEPT ![s].total = paper'[s].total] /\ on' = on

Confirm(s) ==
  /\ paper[s].status = "draft" /\ \E o \in Order : on[o] = {s}
  /\ paper' = [paper EXCEPT ![s].status = "confirmed"] /\ on' = on

Released(s) == [o \in Order |-> on[o] \ {s}]
Void(s) ==
  /\ paper[s].status = "confirmed"
  /\ paper' = [paper EXCEPT ![s].status = "voided"] /\ on' = Released(s)
Delete(s) ==
  /\ paper[s].status = "draft"
  /\ paper' = [paper EXCEPT ![s] = [Blank EXCEPT !.status = "deleted"]] /\ on' = Released(s)

Next ==
  \E s \in Settlement :
    \/ \E os \in SUBSET Order : Draft(s, os)
    \/ Amend(s) \/ Confirm(s) \/ Void(s) \/ Delete(s)

Spec == Init /\ [][Next]_<<on, paper>>
=============================================================================
