---------------------------- MODULE MCRecurrence ----------------------------
(* Two server processes for TLC: two ticks of the first may overlap.         *)
EXTENDS Recurrence, TLC

CONSTANTS i1, i2, s1, s2, s3

MCHome == (s1 :> i1) @@ (s2 :> i1) @@ (s3 :> i2)
MCInterval == [p \in Plan |-> 1]
=============================================================================
