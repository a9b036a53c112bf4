------------------------------- MODULE Calendar -------------------------------
(* What recurring plans promise to whoever works from the list of tasks: the *)
(* tasks of a plan stand in a row, one interval apart, each writer goes on   *)
(* from where the row has been reached, and as long as nothing was disturbed *)
(* from its next date only.  Processes, locks, days and rounds are out of    *)
(* sight.                                                                    *)
EXTENDS Naturals

CONSTANTS Plan, Interval, Day, Starts, Ahead, CatchUp
VARIABLES
  next,    \* of a plan that was created, the date it goes on from
  tasks,   \* the number of tasks of a date
  calm     \* nothing was disturbed

Init ==
  /\ next = [p \in {} |-> 0]
  /\ tasks = [p \in Plan |-> [d \in Day |-> 0]]
  /\ calm \in BOOLEAN

(* n occurrences from d on, and the date after the last.                     *)
InRow(p, d, n) == {x \in Day : \E k \in 0..(n - 1) : x = d + k * Interval[p]}
Written(p, d, n) ==
  /\ tasks' = [tasks EXCEPT ![p] = [x \in Day |-> @[x] + IF x \in InRow(p, d, n) THEN 1 ELSE 0]]
  /\ next' = [q \in DOMAIN next \cup {p} |-> IF q = p THEN d + n * Interval[p] ELSE next[q]]
  /\ calm' = calm

Begin(p, d, n) == p \notin DOMAIN next /\ Written(p, d, n)

(* A date that has a task, or that follows one.                              *)
Reached(p) == {d \in Day : tasks[p][d] > 0 \/ \E e \in Day : tasks[p][e] > 0 /\ d = e + Interval[p]}
GoOn(p, d, n) ==
  /\ p \in DOMAIN next /\ d \in Reached(p) /\ (calm => d = next[p])
  /\ Written(p, d, n)

Disturb == calm /\ calm' = FALSE /\ UNCHANGED <<next, tasks>>

Next ==
  \/ Disturb
  \/ \E p \in Plan :
       \/ \E d \in Starts, n \in Ahead : Begin(p, d, n)
       \/ \E d \in Day, n \in 1..CatchUp : GoOn(p, d, n)

Spec == Init /\ [][Next]_<<next, tasks, calm>>
=============================================================================
