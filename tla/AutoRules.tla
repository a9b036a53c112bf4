------------------------------- MODULE AutoRules -------------------------------
(***************************************************************************)
(* The rules by which a tenant lets orders be reviewed automatically       *)
(* (engine/autoRules.ts, repo/autoRule.ts, routes/workflowDef.ts) and the  *)
(* hop they add to a move (tryAutoAdvance of repo/ticket.ts).              *)
(*                                                                         *)
(* A rule is judged by the live flow when it is saved.  It acts on orders  *)
(* that keep the flow they were filed under, so that hop judges it again.  *)
(***************************************************************************)
EXTENDS Naturals

CONSTANTS
  ROrder,      \* orders
  RState,      \* states of the flows
  RFlows,      \* the versions of the flow, one after the other: initial, edges
  Condition,   \* what a rule may ask of an order
  Trait,       \* what orders are like
  Holds(_, _)  \* whether an order with these traits meets a condition

Reviews == {"approve", "reject"}            \* AUTO_RULE_EVENTS
ByHandOnly == {"closed", "cancelled", "evaluated"}   \* TERMINAL_STATES
NoRule == [made |-> FALSE]
NotFiled == [dv |-> 0]
NoHop == {}

ASSUME AutoRulesAssumption ==
  /\ 1 \in DOMAIN RFlows
  /\ \A v \in DOMAIN RFlows :
       /\ RFlows[v].initial \in RState
       /\ \A e \in RFlows[v].edges : e.from \in RState /\ e.to \in RState /\ e.needs \in BOOLEAN

VARIABLES
  arule,    \* workflow_auto_rule, by from_state and event
  shown,    \* version of the live flow
  rorder    \* work_orders; auto: the automatic hop that brought it where it is

rvars == <<arule, shown, rorder>>

EndsIn(flow) == ByHandOnly \cup {s \in RState : \A e \in flow.edges : e.from # s}
AutoRulesInit ==
  /\ arule = [k \in RState \X Reviews |-> NoRule]
  /\ shown = 1
  /\ rorder = [o \in ROrder |-> NotFiled]
----------------------------------------------------------------------------
(* assertAutoRuleSavable                                                     *)
Savable(s, event) ==
  \E e \in RFlows[shown].edges : e.from = s /\ e.event = event /\ e.to \notin EndsIn(RFlows[shown])
(* upsertAutoRule                                                            *)
Upsert(k, rule) == arule' = [arule EXCEPT ![k] = rule]

(* PUT /:entityType/auto-rules                                               *)
SaveRule(s, event, cond, on) ==
  /\ Savable(s, event) /\ Upsert(<<s, event>>, [made |-> TRUE, cond |-> cond, on |-> on])
  /\ UNCHANGED <<shown, rorder>>
(* DELETE /:entityType/auto-rules/:fromState/:event                          *)
DeleteRule(s, event) ==
  /\ arule[<<s, event>>].made /\ arule' = [arule EXCEPT ![<<s, event>>] = NoRule]
  /\ UNCHANGED <<shown, rorder>>
(* The next version of the flow goes live; the rules stay.                   *)
Publish ==
  /\ shown + 1 \in DOMAIN RFlows /\ shown' = shown + 1
  /\ UNCHANGED <<arule, rorder>>
----------------------------------------------------------------------------
(* listEnabledAutoRules, matchAutoRule                                       *)
Enabled(s, event) == arule[<<s, event>>].made /\ arule[<<s, event>>].on
Applies(s, event, traits) == Enabled(s, event) /\ Holds(arule[<<s, event>>].cond, traits)
(* pickAutoRule over the rules in the order of their events: an approval is  *)
(* found before a rejection, whatever the flow of the order makes of it.     *)
Picks(s, traits) ==
  IF Applies(s, "approve", traits) THEN {"approve"}
  ELSE IF Applies(s, "reject", traits) THEN {"reject"} ELSE {}

(* A fault: the rule was judged when it was saved.                           *)
HopAsSaved(flow, s, traits) == {e \in flow.edges : e.from = s /\ e.event \in Picks(s, traits)}
(* tryAutoAdvance: no end, no field that somebody must fill in.              *)
Hop(flow, s, traits) ==
  {e \in flow.edges : e.from = s /\ e.event \in Picks(s, traits) /\ e.to \notin EndsIn(flow) /\ ~e.needs}

(* An order is filed under the live flow.                                    *)
FileOrder(o, traits) ==
  /\ rorder[o] = NotFiled
  /\ rorder' = [rorder EXCEPT ![o] = [dv |-> shown, st |-> RFlows[shown].initial, traits |-> traits, auto |-> NoHop]]
  /\ UNCHANGED <<arule, shown>>
(* transition: somebody's move, and at most one automatic hop with it.       *)
MoveOrder(o, e) ==
  LET hop == Hop(RFlows[rorder[o].dv], e.to, rorder[o].traits) IN
  /\ e.from = rorder[o].st
  /\ \/ /\ hop = NoHop
        /\ rorder' = [rorder EXCEPT ![o].st = e.to, ![o].auto = NoHop]
     \/ \E h \in hop : rorder' = [rorder EXCEPT ![o].st = h.to, ![o].auto = {h}]
  /\ UNCHANGED <<arule, shown>>

AutoRulesNext ==
  \/ \E s \in RState, event \in Reviews :
       DeleteRule(s, event) \/ \E cond \in Condition, on \in BOOLEAN : SaveRule(s, event, cond, on)
  \/ Publish
  \/ \E o \in ROrder :
       \/ \E traits \in Trait : FileOrder(o, traits)
       \/ rorder[o] # NotFiled /\ \E e \in RFlows[rorder[o].dv].edges : MoveOrder(o, e)
----------------------------------------------------------------------------
(* What the flow leaves to people stays with them: no order that is where it *)
(* is by a rule is at an end of the flow it was filed under, or came past a  *)
(* field to be filled in, although another flow had to judge the rule when   *)
(* it was saved ("引擎绝不自动推进到终态").                                     *)
AutoNeverEnds ==
  \A o \in ROrder :
    rorder[o] # NotFiled
    => \A h \in rorder[o].auto : ~h.needs /\ rorder[o].st \notin EndsIn(RFlows[rorder[o].dv])
=============================================================================
