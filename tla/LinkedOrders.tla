----------------------------- MODULE LinkedOrders -----------------------------
(***************************************************************************)
(* Repair orders made from something else (services/linkedWorkOrder.ts):   *)
(* an inspection exception, an alert.  The idempotency key of the source   *)
(* is taken before the order is inserted (createWithIdem of                *)
(* repo/ticket.ts); who finds it taken by a transaction that is still open *)
(* waits for its end.                                                      *)
(***************************************************************************)
EXTENDS FiniteSets

CONSTANTS Source, Order, Unlinked, CReq

VARIABLES
  key,       \* idempotency_key: the order of a source
  orders,    \* work orders: the source they were made from
  conv       \* conversions under way

lvars == <<key, orders, conv>>

NoConversion == [pc |-> "none", source |-> "none", order |-> Unlinked]
NoSource == "none"

LinkedInit ==
  /\ key = [s \in Source |-> Unlinked]
  /\ orders = [o \in Order |-> NoSource]
  /\ conv = [r \in CReq |-> NoConversion]

(* The route draws the id of the order before the key is looked at.          *)
BeginConvert(r, s, o) ==
  /\ conv[r] = NoConversion /\ orders[o] = NoSource /\ \A q \in CReq : conv[q].order # o
  /\ conv' = [conv EXCEPT ![r] = [pc |-> "asking", source |-> s, order |-> o]]
  /\ UNCHANGED <<key, orders>>

(* A fault: the key is looked up, not taken.                                 *)
LooksFree(r, s) == key[s] = Unlinked
(* INSERT ... ON CONFLICT DO NOTHING has inserted: nobody has the key, and   *)
(* nobody is about to.                                                       *)
Takes(r, s) == key[s] = Unlinked /\ \A q \in CReq \ {r} : ~(conv[q].pc = "holding" /\ conv[q].source = s)
TakeKey(r) ==
  /\ conv[r].pc = "asking" /\ Takes(r, conv[r].source)
  /\ conv' = [conv EXCEPT ![r].pc = "holding"]
  /\ UNCHANGED <<key, orders>>
(* 'already converted': the order of the key is answered.                    *)
AlreadyConverted(r) ==
  /\ conv[r].pc = "asking" /\ key[conv[r].source] # Unlinked
  /\ conv' = [conv EXCEPT ![r] = NoConversion]
  /\ UNCHANGED <<key, orders>>
(* The order is inserted, dispatched or sent to the claim hall, committed.   *)
Converted(r) ==
  /\ conv[r].pc = "holding"
  /\ key' = [key EXCEPT ![conv[r].source] = conv[r].order]
  /\ orders' = [orders EXCEPT ![conv[r].order] = conv[r].source]
  /\ conv' = [conv EXCEPT ![r] = NoConversion]
(* 422, as when the flow has no way to dispatch: the key is rolled back too. *)
NotConverted(r) ==
  /\ conv[r].pc = "holding"
  /\ conv' = [conv EXCEPT ![r] = NoConversion]
  /\ UNCHANGED <<key, orders>>

Converting == \E r \in CReq : TakeKey(r) \/ AlreadyConverted(r) \/ Converted(r) \/ NotConverted(r)
----------------------------------------------------------------------------
(* However often and by however many a source is converted, and whichever of *)
(* the attempts fail, it has one repair order at most, and its key knows it  *)
(* (createWithIdem takes the key first).                                     *)
OneOrder == \A o \in Order : orders[o] # NoSource => key[orders[o]] = o
=============================================================================
