------------------------------ MODULE VersionLog ------------------------------
(* What the versions of a flow promise to everything that is stamped with    *)
(* one: a log that only grows, in which a version once published can always  *)
(* be looked up again.                                                       *)
EXTENDS Naturals, Sequences

CONSTANT Def
VARIABLE log

Init == log \in {<<>>} \cup {<<d>> : d \in Def}
Publish(d) == log' = Append(log, d)
Next == \E d \in Def : Publish(d)
Spec == Init /\ [][Next]_log
=============================================================================
