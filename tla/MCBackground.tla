----------------------------- MODULE MCBackground -----------------------------
(* The escalation of overdue orders and what leaves the process, for TLC.     *)
(* They share no state in the model: part says which an instance is about, so *)
(* that their states add up.  Where nothing is ever due or begun, fairness    *)
(* asks for nothing.                                                          *)
EXTENDS Escalation, Outgoing, TLC

CONSTANTS Parts, x1, x2
VARIABLE part

(* The live version calls done final, which the one before it does not, and   *)
(* no longer suspends what is held.                                           *)
MCFinished == [v \in 1..2 |-> IF v = 2 THEN {"done"} ELSE {}]
MCOnHold == [v \in 1..2 |-> IF v = 1 THEN {"held"} ELSE {}]

(* The two orders may be taken in either order.                               *)
Ordered ==
  IF ord[x1].line = ord[x2].line THEN ord[x1].dv <= ord[x2].dv ELSE ord[x1].line = "work"
Init ==
  /\ EscalationInit /\ OutgoingInit /\ part \in Parts
  /\ IF part = "escalation" THEN Ordered ELSE \A o \in Order : ord[o].line = "work" /\ ord[o].dv = 1
Next ==
  /\ part' = part
  /\ \/ part = "escalation" /\ EscalationNext /\ UNCHANGED ovars
     \/ part = "outgoing" /\ OutgoingNext /\ UNCHANGED evars
Spec ==
  /\ Init /\ [][Next]_<<evars, ovars, part>>
  /\ EscalationFairness /\ OutgoingFairness
=============================================================================
