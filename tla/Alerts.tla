-------------------------------- MODULE Alerts --------------------------------
(***************************************************************************)
(* The alert centre and the library of emergency plans                     *)
(* (routes/emergency.ts).  Inspection, patrol and people raise alerts.     *)
(***************************************************************************)
EXTENDS Naturals, FiniteSets

CONSTANTS
  Alert,          \* alerts that can be raised
  Guide, NoGuide  \* emergency plans

VARIABLES
  alert,     \* status, source, level and related plan
  library    \* plans that exist

avars == <<alert, library>>

NoAlert == [st |-> "none", source |-> "none", level |-> "none", guide |-> NoGuide]
Unraised == {a \in Alert : alert[a] = NoAlert}
AlertsInit == alert = [a \in Alert |-> NoAlert] /\ library \in SUBSET Guide

(* createAlert for every source of a set.                                    *)
Raise(sources, level) ==
  \E ids \in [sources -> Unraised] :
    /\ \A s, u \in sources : ids[s] = ids[u] => s = u
    /\ alert' = [a \in Alert |->
         IF \E s \in sources : ids[s] = a
         THEN [st |-> "pending", source |-> CHOOSE s \in sources : ids[s] = a, level |-> level, guide |-> NoGuide]
         ELSE alert[a]]
(* POST /alerts *)
RaiseByHand(source, level) == Raise({source}, level) /\ UNCHANGED library
(* POST /alerts/:id/handle, whatever the status is.                          *)
HandleAlert(a, st) ==
  alert[a] # NoAlert /\ alert' = [alert EXCEPT ![a].st = st] /\ UNCHANGED library
(* POST /alerts/:id/link-plan                                                *)
LinkPlan(a, g) ==
  alert[a] # NoAlert /\ g \in library /\ alert' = [alert EXCEPT ![a].guide = g] /\ UNCHANGED library
(* POST and DELETE /plans: alerts keep what they are linked to.              *)
AddPlan(g) == g \notin library /\ library' = library \cup {g} /\ UNCHANGED alert
DeletePlan(g) == g \in library /\ library' = library \ {g} /\ UNCHANGED alert

AlertStep ==
  \/ \E level \in {"L1", "L2"} : RaiseByHand("people", level)
  \/ \E a \in Alert :
       \/ \E st \in {"handling", "handled", "ignored"} : HandleAlert(a, st)
       \/ \E g \in Guide : LinkPlan(a, g)
  \/ \E g \in Guide : AddPlan(g) \/ DeletePlan(g)
=============================================================================
