--------------------------- MODULE SettlementNumber ---------------------------
(***************************************************************************)
(* How createSettlementDraft (repo/settlement.ts) finds the number of a    *)
(* new settlement on one day: one more than the settlements counted, and   *)
(* on a collision with the unique index the next one, a few times.         *)
(***************************************************************************)
EXTENDS Naturals, FiniteSets

CONSTANTS
  Creator,     \* requests that create a settlement at a time
  RetryLimit,  \* attempts before the request is refused
  MaxNo,       \* bound: the highest number
  MaxDeleted   \* bound: drafts deleted on the day

ASSUME NumberAssumption == RetryLimit \in Nat /\ MaxNo \in Nat

VARIABLES
  draft, kept,  \* numbers of the day's drafts, and of its confirmed or voided settlements
  tx,           \* requests in progress; since counts (history) the commits of others meanwhile
  deleted       \* history: drafts of the day that were deleted

numberVars == <<draft, kept, tx, deleted>>

Taken == draft \cup kept
Idle  == [step |-> "idle", seq |-> 0, tries |-> 0, since |-> 0]
Inserting(n) == \E c \in Creator : tx[c].step = "inserted" /\ tx[c].seq = n

NumberInit == draft = {} /\ kept = {} /\ tx = [c \in Creator |-> Idle] /\ deleted = 0

Count(c) ==
  /\ tx[c] = Idle
  /\ tx' = [tx EXCEPT ![c] = [Idle EXCEPT !.step = "counted", !.seq = Cardinality(Taken) + 1]]
  /\ UNCHANGED <<draft, kept, deleted>>

(* INSERT waits for another one of the same number that is not committed.    *)
Insert(c) ==
  /\ tx[c].step = "counted" /\ tx[c].seq \in (1..MaxNo) \ Taken /\ ~Inserting(tx[c].seq)
  /\ tx' = [tx EXCEPT ![c].step = "inserted"]
  /\ UNCHANGED <<draft, kept, deleted>>

(* 23505: back to the savepoint and on to the next number.                   *)
CollideForever(c) ==   \* a fault: refused at the first collision
  /\ tx[c].step = "counted" /\ tx[c].seq \in Taken
  /\ tx' = [tx EXCEPT ![c].tries = 1, ![c].step = "refused"]
  /\ UNCHANGED <<draft, kept, deleted>>
Collide(c) ==
  /\ tx[c].step = "counted" /\ tx[c].seq \in Taken
  /\ tx' = [tx EXCEPT ![c].tries = @ + 1, ![c].seq = @ + 1,
                      ![c].step = IF tx[c].tries + 1 = RetryLimit THEN "refused" ELSE @]
  /\ UNCHANGED <<draft, kept, deleted>>

Commit(c) ==
  /\ tx[c].step = "inserted"
  /\ draft' = draft \cup {tx[c].seq}
  /\ tx' = [d \in Creator |-> IF d = c \/ tx[d] = Idle THEN Idle ELSE [tx[d] EXCEPT !.since = @ + 1]]
  /\ UNCHANGED <<kept, deleted>>

(* Refused with 409, or rolled back for another reason.                      *)
Abort(c) ==
  /\ tx[c] # Idle
  /\ tx' = [tx EXCEPT ![c] = Idle]
  /\ UNCHANGED <<draft, kept, deleted>>

DeleteDraft(n) ==
  /\ draft' = draft \ {n} /\ deleted' = deleted + 1
  /\ UNCHANGED <<kept, tx>>

Confirm(n) ==
  /\ draft' = draft \ {n} /\ kept' = kept \cup {n}
  /\ UNCHANGED <<tx, deleted>>

NumberNext ==
  \/ \E c \in Creator : Count(c) \/ Insert(c) \/ Collide(c) \/ Commit(c) \/ Abort(c)
  \/ \E n \in draft : (deleted < MaxDeleted /\ DeleteDraft(n)) \/ Confirm(n)

NumberSpec == NumberInit /\ [][NumberNext]_numberVars
----------------------------------------------------------------------------
(* A request is refused only when deletions of the day and settlements       *)
(* created meanwhile account for every number it tried (the retry loop).     *)
RefusedForAReason ==
  \A c \in Creator : tx[c].step = "refused" => deleted + tx[c].since >= RetryLimit

(* The orders of a deleted draft can be settled again (deleteSettlement): a  *)
(* request that is alone finds a free number among those it tries.           *)
CanSettleAgain ==
  (\A c \in Creator : tx[c] = Idle) =>
    \E i \in 1..RetryLimit : Cardinality(Taken) + i \notin Taken
=============================================================================
