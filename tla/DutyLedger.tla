------------------------------ MODULE DutyLedger ------------------------------
(* What worker.load promises to the dispatcher, who sends an order to the    *)
(* worker with the least of it: an order is taken from one worker and given  *)
(* to another in one step that moves its share of the load along.  Requests, *)
(* hops, row locks and flows are out of sight.                               *)
EXTENDS Naturals

CONSTANTS Order, Worker, NoWorker
VARIABLES
  duty,    \* who is on duty for an order
  load     \* the orders a worker is on duty for

Init ==
  /\ duty = [o \in Order |-> NoWorker]
  /\ load = [w \in Worker |-> 0]

(* Load changes hands: the worker it is taken from has something to give, and *)
(* nobody else's is touched.                                                 *)
Handover(o, w) ==
  /\ load' # load /\ duty[o] # w
  /\ duty' = [duty EXCEPT ![o] = w]
  /\ duty[o] # NoWorker => load[duty[o]] > 0
  /\ load' = [x \in Worker |-> IF x = w THEN load[x] + 1
                               ELSE IF x = duty[o] THEN load[x] - 1 ELSE load[x]]

Next == \E o \in Order : \E w \in Worker \cup {NoWorker} : Handover(o, w)

Spec == Init /\ [][Next]_<<duty, load>>
=============================================================================
