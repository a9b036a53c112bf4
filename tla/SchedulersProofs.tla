--------------------------- MODULE SchedulersProofs ---------------------------
(***************************************************************************)
(* What holds of the schedulers for every value of the constants: an order *)
(* is not escalated again, no occurrence of a recurring plan is left out   *)
(* and none is generated twice.                                            *)
(***************************************************************************)
EXTENDS Escalation, Recurrence, FiniteSetTheorems, TLAPS
----------------------------------------------------------------------------
(* Escalations.                                                              *)
Orders ==
  [line : {"work", "transport"}, st : Status \cup {"open"}, dv : Version, past : BOOLEAN, escalated : BOOLEAN,
   stale : BOOLEAN]
(* An order is found only before it is escalated: from then on its events    *)
(* and the scans that have found it and not ended get no more together.      *)
Finders(o) == {s \in Scanner : o \in scan[s]}
EscInv ==
  /\ ord \in [Order -> Orders] /\ events \in [Order -> Nat]
  /\ scan \in [Scanner -> SUBSET Order]
  /\ \A o \in Order : events[o] # 0 => ord[o].escalated = TRUE
  /\ \A o \in Order : events[o] + Cardinality(Finders(o)) <= Cardinality(Scanner)

LEMMA ScannersFinite ==
  /\ IsFiniteSet(Scanner) /\ Cardinality(Scanner) \in Nat
  /\ \A S \in SUBSET Scanner : /\ IsFiniteSet(S) /\ Cardinality(S) \in Nat
                              /\ Cardinality(S) <= Cardinality(Scanner)
                              /\ \A s \in S : Cardinality(S \ {s}) = Cardinality(S) - 1
  <1>1. IsFiniteSet(Scanner)
    BY EscalationAssumption, FS_Singleton, FS_Union DEF Scanner
  <1> QED BY <1>1, FS_CardinalityType, FS_Subset, FS_RemoveElement

(* The workflows, and time, leave escalated_at as it is.                     *)
LEMMA StaysEscalated ==
  ASSUME EscInv, ord' \in [Order -> Orders], \A o \in Order : ord'[o].escalated = ord[o].escalated,
         UNCHANGED <<events, scan>>
  PROVE  EscInv'
  BY DEF EscInv, Finders

(* One order is rewritten, escalated_at as before.                           *)
LEMMA OneMoves ==
  ASSUME EscInv, NEW o \in Order, NEW r \in Orders, r.escalated = ord[o].escalated,
         ord' = [ord EXCEPT ![o] = r], UNCHANGED <<events, scan>>
  PROVE  EscInv'
  <1>1. ord' \in [Order -> Orders] /\ \A x \in Order : ord'[x].escalated = ord[x].escalated
    BY DEF EscInv
  <1> QED BY <1>1, StaysEscalated

LEMMA OrderMoves ==
  ASSUME EscInv, NEW o \in Order, Elapse(o) \/ ElapseInHall(o) \/ Rework(o) \/ \E st \in Status : Move(o, st)
  PROVE  EscInv'
  <1>0. ord[o] \in Orders /\ ord \in [Order -> Orders]
    BY DEF EscInv
  <1>1. CASE Elapse(o)
    <2>1. [ord[o] EXCEPT !.past = TRUE] \in Orders /\ [ord[o] EXCEPT !.past = TRUE].escalated = ord[o].escalated
      BY <1>0 DEF Orders
    <2>2. ord' = [ord EXCEPT ![o] = [ord[o] EXCEPT !.past = TRUE]] /\ UNCHANGED <<events, scan>>
      BY <1>1, <1>0 DEF Elapse
    <2> QED BY <2>1, <2>2, OneMoves
  <1>2. CASE ElapseInHall(o)
    <2>1. [ord[o] EXCEPT !.stale = TRUE] \in Orders /\ [ord[o] EXCEPT !.stale = TRUE].escalated = ord[o].escalated
      BY <1>0 DEF Orders
    <2>2. ord' = [ord EXCEPT ![o] = [ord[o] EXCEPT !.stale = TRUE]] /\ UNCHANGED <<events, scan>>
      BY <1>2, <1>0 DEF ElapseInHall
    <2> QED BY <2>1, <2>2, OneMoves
  <1>3. CASE Rework(o)
    <2> DEFINE opened == [ord[o] EXCEPT !.st = "open"]
               again == [opened EXCEPT !.past = FALSE]
    <2>1. opened \in Orders /\ opened.escalated = ord[o].escalated
      BY <1>0 DEF Orders
    <2>2. again \in Orders /\ again.escalated = opened.escalated
      <3> HIDE DEF opened
      <3> QED BY <2>1 DEF Orders
    <2>3. ord' = [ord EXCEPT ![o] = again] /\ UNCHANGED <<events, scan>>
      BY <1>3, <1>0 DEF Rework
    <2> HIDE DEF again, opened
    <2> QED BY <2>1, <2>2, <2>3, OneMoves
  <1>4. CASE \E st \in Status : Move(o, st)
    <2> PICK st \in Status : Move(o, st)
      BY <1>4
    <2> DEFINE moved == [ord[o] EXCEPT !.st = st]
               fresh == [moved EXCEPT !.stale = FALSE]
    <2>1. moved \in Orders /\ moved.escalated = ord[o].escalated
      BY <1>0 DEF Orders
    <2>2. fresh \in Orders /\ fresh.escalated = moved.escalated
      <3> HIDE DEF moved
      <3> QED BY <2>1 DEF Orders
    <2>3. ord' = [ord EXCEPT ![o] = fresh] /\ UNCHANGED <<events, scan>>
      BY <1>0 DEF Move
    <2> HIDE DEF fresh, moved
    <2> QED BY <2>1, <2>2, <2>3, OneMoves
  <1> QED BY <1>1, <1>2, <1>3, <1>4

LEMMA ReadKeepsOnce ==
  ASSUME EscInv, NEW s \in Scanner, NEW hits, hits \subseteq {o \in Order : ord[o].escalated = FALSE},
         Read(s, hits)
  PROVE  EscInv'
  <1>1. scan' = [scan EXCEPT ![s] = hits] /\ UNCHANGED <<ord, events>> /\ scan[s] = {}
    BY DEF Read
  <1>2. scan' \in [Scanner -> SUBSET Order] /\ \A t \in Scanner : scan'[t] = IF t = s THEN hits ELSE scan[t]
    BY <1>1 DEF EscInv
  <1>3. ASSUME NEW o \in Order PROVE events[o] + Cardinality(Finders(o)') <= Cardinality(Scanner)
    <2>1. CASE o \in hits
      <3>1. events[o] = 0
        BY <2>1 DEF EscInv
      <3>2. Finders(o)' \in SUBSET Scanner
        BY DEF Finders
      <3> QED BY <3>1, <3>2, ScannersFinite
    <2>2. CASE o \notin hits
      <3>1. Finders(o)' = Finders(o)
        BY <1>1, <1>2, <2>2 DEF Finders
      <3> QED BY <3>1 DEF EscInv
    <2> QED BY <2>1, <2>2
  <1> QED BY <1>1, <1>2, <1>3 DEF EscInv

(* What s has found counts for it no more.                                   *)
LEMMA ScanEnds ==
  ASSUME EscInv, NEW s \in Scanner, scan' = [scan EXCEPT ![s] = {}]
  PROVE  /\ scan' \in [Scanner -> SUBSET Order]
         /\ \A o \in Order : /\ Cardinality(Finders(o)) \in Nat
                            /\ Cardinality(Finders(o)') = Cardinality(Finders(o)) - IF o \in scan[s] THEN 1 ELSE 0
  <1>1. scan' \in [Scanner -> SUBSET Order] /\ \A t \in Scanner : scan'[t] = IF t = s THEN {} ELSE scan[t]
    BY DEF EscInv
  <1>2. ASSUME NEW o \in Order
        PROVE  /\ Cardinality(Finders(o)) \in Nat
               /\ Cardinality(Finders(o)') = Cardinality(Finders(o)) - IF o \in scan[s] THEN 1 ELSE 0
    <2>1. Finders(o) \in SUBSET Scanner /\ Finders(o)' = Finders(o) \ {s} /\ (s \in Finders(o) <=> o \in scan[s])
      BY <1>1 DEF Finders
    <2>2. Cardinality(Finders(o)) \in Nat
      BY <2>1, ScannersFinite
    <2>3. CASE o \in scan[s]
      BY <2>1, <2>2, <2>3, ScannersFinite
    <2>4. CASE o \notin scan[s]
      <3>1. s \notin Finders(o)
        BY <2>1, <2>4
      <3>2. Finders(o) \ {s} = Finders(o)
        BY <3>1
      <3>3. Cardinality(Finders(o)') = Cardinality(Finders(o))
        BY <2>1, <3>2
      <3> QED BY <2>2, <2>4, <3>3
    <2> QED BY <2>2, <2>3, <2>4
  <1> QED BY <1>1, <1>2

LEMMA CommitKeepsOnce == ASSUME EscInv, NEW s \in Scanner, Commit(s) PROVE EscInv'
  <1>1. /\ ord' = [o \in Order |-> IF o \in scan[s] THEN [ord[o] EXCEPT !.escalated = TRUE] ELSE ord[o]]
        /\ events' = [o \in Order |-> events[o] + IF o \in scan[s] THEN 1 ELSE 0]
        /\ scan' = [scan EXCEPT ![s] = {}]
    BY DEF Commit
  <1>2. ord' \in [Order -> Orders] /\ \A o \in Order : ord'[o].escalated = IF o \in scan[s] THEN TRUE ELSE ord[o].escalated
    <2>1. ASSUME NEW o \in Order
          PROVE  /\ [ord[o] EXCEPT !.escalated = TRUE] \in Orders /\ ord[o] \in Orders
                 /\ [ord[o] EXCEPT !.escalated = TRUE].escalated = TRUE
      <3>1. ord[o] \in Orders
        BY DEF EscInv
      <3> QED BY <3>1 DEF Orders
    <2> QED BY <1>1, <2>1
  <1>3. events' \in [Order -> Nat] /\ \A o \in Order : events'[o] = events[o] + IF o \in scan[s] THEN 1 ELSE 0
    BY <1>1 DEF EscInv
  <1>4. \A o \in Order : events'[o] # 0 => ord'[o].escalated = TRUE
    <2> SUFFICES ASSUME NEW o \in Order, events'[o] # 0 PROVE ord'[o].escalated = TRUE
      OBVIOUS
    <2>1. CASE o \in scan[s]
      BY <1>2, <2>1
    <2>2. CASE o \notin scan[s]
      <3>1. events[o] \in Nat /\ (events[o] # 0 => ord[o].escalated = TRUE)
        BY DEF EscInv
      <3>2. events'[o] = events[o] + 0
        BY <1>3, <2>2
      <3>3. ord'[o].escalated = ord[o].escalated
        BY <1>2, <2>2
      <3> QED BY <3>1, <3>2, <3>3
    <2> QED BY <2>1, <2>2
  <1>5. ASSUME NEW o \in Order PROVE events'[o] + Cardinality(Finders(o)') <= Cardinality(Scanner)
    <2>1. /\ Cardinality(Finders(o)) \in Nat
          /\ Cardinality(Finders(o)') = Cardinality(Finders(o)) - IF o \in scan[s] THEN 1 ELSE 0
      BY <1>1, ScanEnds
    <2>2. events[o] \in Nat /\ events[o] + Cardinality(Finders(o)) <= Cardinality(Scanner)
      BY DEF EscInv
    <2> QED BY <1>3, <2>1, <2>2, ScannersFinite
  <1> QED BY <1>1, <1>2, <1>3, <1>4, <1>5, ScanEnds DEF EscInv

LEMMA AbortKeepsOnce == ASSUME EscInv, NEW s \in Scanner, Abort(s) PROVE EscInv'
  <1>1. scan' = [scan EXCEPT ![s] = {}] /\ UNCHANGED <<ord, events>>
    BY DEF Abort
  <1>2. ASSUME NEW o \in Order PROVE events'[o] + Cardinality(Finders(o)') <= Cardinality(Scanner)
    <2>1. /\ Cardinality(Finders(o)) \in Nat
          /\ Cardinality(Finders(o)') = Cardinality(Finders(o)) - IF o \in scan[s] THEN 1 ELSE 0
      BY <1>1, ScanEnds
    <2>2. events[o] \in Nat /\ events[o] + Cardinality(Finders(o)) <= Cardinality(Scanner)
      BY DEF EscInv
    <2> QED BY <1>1, <2>1, <2>2, ScannersFinite
  <1> QED BY <1>1, <1>2, ScanEnds DEF EscInv

(* NotEscalatedAgain: for any orders, lines, versions of the flows and       *)
(* faults, and any number of scans by hand beside the scheduler's, of the    *)
(* same orders or not (slaScan).                                             *)
THEOREM EscalatesOnce == EscalationSpec => []NotEscalatedAgain
  <1>1. EscalationInit => EscInv
    <2> SUFFICES ASSUME EscalationInit PROVE EscInv
      OBVIOUS
    <2>1. /\ ord \in [Order -> [line : {"work", "transport"}, st : {"open"}, dv : Version, past : {FALSE},
                               escalated : {FALSE}, stale : {FALSE}]]
          /\ events = [o \in Order |-> 0] /\ scan = [s \in Scanner |-> {}]
      BY DEF EscalationInit
    <2>2. \A o \in Order : ord[o] \in Orders /\ ord[o].escalated = FALSE
      BY <2>1 DEF Orders
    <2>3. ord \in [Order -> Orders]
      BY <2>1, <2>2
    <2>4. \A o \in Order : events[o] = 0 /\ Finders(o) = {}
      BY <2>1 DEF Finders
    <2>5. \A o \in Order : events[o] + Cardinality(Finders(o)) <= Cardinality(Scanner)
      BY <2>4, FS_EmptySet, ScannersFinite
    <2> QED BY <2>1, <2>2, <2>3, <2>4, <2>5 DEF EscInv
  <1>2. EscInv /\ [EscalationNext]_evars => EscInv'
    <2> SUFFICES ASSUME EscInv, [EscalationNext]_evars PROVE EscInv'
      OBVIOUS
    <2>1. CASE UNCHANGED <<ord, events, scan>>
      BY <2>1 DEF EscInv, Finders
    <2>2. /\ WorkHits \subseteq {o \in Order : ord[o].escalated = FALSE}
          /\ TransportHits \subseteq {o \in Order : ord[o].escalated = FALSE}
      BY DEF WorkHits, TransportHits, Pending, EscInv, Orders
    <2>3. Cron \in Scanner /\ Desk \subseteq Scanner
      BY DEF Scanner
    <2> QED BY <2>1, <2>2, <2>3, OrderMoves, ReadKeepsOnce, CommitKeepsOnce, AbortKeepsOnce
            DEF EscalationNext, CronStep, HallScan, evars
  <1>3. EscInv => NotEscalatedAgain
    <2> SUFFICES ASSUME EscInv, NEW o \in Order PROVE events[o] <= Cardinality(Scanner)
      BY DEF NotEscalatedAgain
    <2>1. Finders(o) \in SUBSET Scanner
      BY DEF Finders
    <2>2. events[o] \in Nat /\ events[o] + Cardinality(Finders(o)) <= Cardinality(Scanner)
      BY DEF EscInv
    <2> QED BY <2>1, <2>2, ScannersFinite
  <1> QED BY <1>1, <1>2, <1>3, PTL DEF EscalationSpec
----------------------------------------------------------------------------
(* Recurring plans.                                                          *)
Ticks == [pc : {"resting", "asking", "scanning", "unlocking"}, left : SUBSET Plan, plan : Plan \cup {NoOne}, next : Nat]
RunTypes ==
  /\ today \in Nat
  /\ plan \in [Plan -> [there : BOOLEAN, paused : BOOLEAN, next : Nat]]
  /\ made \in [Plan -> [Day -> [n : Nat, carrying : Nat]]]
  /\ byHand \in [Plan -> Nat]
  /\ tick \in [Session -> Ticks]

(* A date from which somebody will go on: the next date of the plan, or one  *)
(* that a request or a round has read.                                       *)
InHand(p, d) ==
  \/ Exists(p) /\ d = plan[p].next
  \/ byHand[p] # NoDay /\ d = byHand[p]
  \/ \E s \in Session : tick[s].plan = p /\ d = tick[s].next

(* The tasks of a plan are the first m occurrences from start on, and every  *)
(* date in hand is one of them or the one after.                             *)
Chain(p, start, m) ==
  /\ \A x \in Day : made[p][x].n > 0 <=> \E k \in 0..(m - 1) : x = After(p, start, k)
  /\ \A d \in Nat : InHand(p, d) => \E j \in 0..m : d = After(p, start, j)
Chained(p) ==
  IF Exists(p) THEN \E start \in Nat, m \in Nat \ {0} : Chain(p, start, m)
  ELSE /\ \A x \in Day : made[p][x].n = 0
       /\ \A d \in Nat : ~InHand(p, d)
ChainInv == RunTypes /\ \A p \in Plan : Chained(p)

LEMMA AfterSteps ==
  ASSUME NEW p \in Plan, NEW d \in Nat, NEW j \in Nat, NEW k \in Nat
  PROVE  /\ After(p, d, k) \in Nat
         /\ After(p, After(p, d, j), k) = After(p, d, j + k)
         /\ After(p, d, 0) = d
         /\ j < k => After(p, d, j) < After(p, d, k)
  <1>1. Interval[p] \in Nat /\ Interval[p] > 0
    BY RecurrenceAssumption
  <1> DEFINE i == Interval[p]
  <1> HIDE DEF i
  <1>2. i \in Nat /\ i > 0
    BY <1>1 DEF i
  <1>3. (d + j * i) + k * i = d + (j + k) * i
    BY <1>2
  <1>4. d + k * i \in Nat
    BY <1>2
  <1>5. j < k => d + j * i < d + k * i
    <2> SUFFICES ASSUME j < k PROVE j * i < k * i
      BY <1>2
    <2>1. PICK e \in Nat : e > 0 /\ k = j + e
      <3>1. k - j \in Nat /\ k - j > 0 /\ k = j + (k - j)
        OBVIOUS
      <3> QED BY <3>1
    <2>2. k * i = j * i + e * i
      BY <2>1, <1>2
    <2>3. e * i > 0
      BY <2>1, <1>2
    <2> QED BY <2>2, <2>3, <1>2, <2>1
  <1> QED BY <1>2, <1>3, <1>4, <1>5 DEF After, i

(* createPlanOccurrence, n times: one task more at each of the n dates.      *)
LEMMA WithWritten ==
  ASSUME RunTypes, NEW p \in Plan, NEW d \in Nat, NEW n \in Nat, NEW carried \in BOOLEAN,
         made' = With(p, d, n, carried)
  PROVE  /\ made' \in [Plan -> [Day -> [n : Nat, carrying : Nat]]]
         /\ \A q \in Plan : q # p => made'[q] = made[q]
         /\ \A x \in Day : made'[p][x].n = made[p][x].n + IF \E k \in 0..(n - 1) : x = After(p, d, k) THEN 1 ELSE 0
  <1> DEFINE hit(x) == \E k \in 0..(n - 1) : x = After(p, d, k)
             new(x) == IF hit(x)
                       THEN [n |-> made[p][x].n + 1, carrying |-> made[p][x].carrying + IF carried THEN 1 ELSE 0]
                       ELSE made[p][x]
  <1>1. made' = [made EXCEPT ![p] = [x \in Day |-> new(x)]]
    BY DEF With, RunTypes
  <1>2. \A x \in Day : made[p][x] \in [n : Nat, carrying : Nat]
    BY DEF RunTypes
  <1>3. ASSUME NEW x \in Day
        PROVE  new(x) \in [n : Nat, carrying : Nat] /\ new(x).n = made[p][x].n + IF hit(x) THEN 1 ELSE 0
    <2> HIDE DEF hit
    <2> QED BY <1>2
  <1> HIDE DEF new
  <1>4. made' \in [Plan -> [Day -> [n : Nat, carrying : Nat]]]
    BY <1>1, <1>3 DEF RunTypes
  <1>5. \A x \in Day : made'[p][x] = new(x)
    BY <1>1 DEF RunTypes
  <1>6. \A q \in Plan : q # p => made'[q] = made[q]
    BY <1>1 DEF RunTypes
  <1> QED BY <1>3, <1>4, <1>5, <1>6

(* Nothing is written, and no date comes to hand that was not.               *)
LEMMA NothingWritten ==
  ASSUME NEW p \in Plan, Chained(p), Exists(p)' = Exists(p), \A x \in Day : made'[p][x].n = made[p][x].n,
         \A d \in Nat : InHand(p, d)' => InHand(p, d)
  PROVE  Chained(p)'
  <1>1. CASE Exists(p)
    <2> PICK start \in Nat, m \in Nat \ {0} : Chain(p, start, m)
      BY <1>1 DEF Chained
    <2>1. Chain(p, start, m)'
      BY DEF Chain, After, Day
    <2> QED BY <2>1, <1>1 DEF Chained
  <1>2. CASE ~Exists(p)
    BY <1>2 DEF Chained, Day
  <1> QED BY <1>1, <1>2

(* n occurrences are written from a date in hand on; the one after the last  *)
(* of them comes to hand.                                                    *)
LEMMA Written ==
  ASSUME RunTypes, NEW p \in Plan, Chained(p), Exists(p), Exists(p)', NEW r \in Nat, InHand(p, r), NEW n \in Nat,
         NEW carried \in BOOLEAN, made' = With(p, r, n, carried),
         \A d \in Nat : InHand(p, d)' => InHand(p, d) \/ d = After(p, r, n)
  PROVE  Chained(p)'
  <1> PICK start \in Nat, m \in Nat \ {0} : Chain(p, start, m)
    BY DEF Chained
  <1> PICK j \in 0..m : r = After(p, start, j)
    BY DEF Chain
  <1> DEFINE w == IF j + n > m THEN j + n ELSE m
  <1>1. w \in Nat \ {0} /\ m <= w /\ j + n <= w /\ (w = m \/ w = j + n)
    OBVIOUS
  <1>2. \A k \in Nat : After(p, r, k) = After(p, start, j + k)
    BY AfterSteps
  <1>3. ASSUME NEW x \in Day
        PROVE  made'[p][x].n > 0 <=> \E k \in 0..(w - 1) : x = After(p, start, k)
    <2>1. made'[p][x].n > 0 <=> made[p][x].n > 0 \/ \E k \in 0..(n - 1) : x = After(p, r, k)
      <3> DEFINE hit == \E k \in 0..(n - 1) : x = After(p, r, k)
      <3>1. made'[p][x].n = made[p][x].n + IF hit THEN 1 ELSE 0
        BY WithWritten
      <3>2. made[p][x].n \in Nat
        BY DEF RunTypes
      <3> HIDE DEF hit
      <3>3. made'[p][x].n > 0 <=> made[p][x].n > 0 \/ hit
        BY <3>1, <3>2
      <3> QED BY <3>3 DEF hit
    <2>2. made[p][x].n > 0 <=> \E k \in 0..(m - 1) : x = After(p, start, k)
      BY DEF Chain
    <2>3. (\E k \in 0..(n - 1) : x = After(p, r, k)) => \E k \in 0..(w - 1) : x = After(p, start, k)
      BY <1>1, <1>2
    <2>4. (\E k \in 0..(m - 1) : x = After(p, start, k)) => \E k \in 0..(w - 1) : x = After(p, start, k)
      BY <1>1
    <2>5. ASSUME NEW k \in 0..(w - 1), x = After(p, start, k)
          PROVE  (\E i \in 0..(m - 1) : x = After(p, start, i)) \/ \E i \in 0..(n - 1) : x = After(p, r, i)
      <3>1. CASE k < m
        BY <3>1, <2>5
      <3>2. CASE k >= m
        <4>1. k - j \in 0..(n - 1) /\ j + (k - j) = k
          BY <3>2, <1>1
        <4> QED BY <4>1, <1>2, <2>5
      <3> QED BY <3>1, <3>2
    <2> QED BY <2>1, <2>2, <2>3, <2>4, <2>5
  <1>4. ASSUME NEW d \in Nat, InHand(p, d)'
        PROVE  \E i \in 0..w : d = After(p, start, i)
    <2>1. CASE InHand(p, d)
      BY <2>1, <1>1 DEF Chain
    <2>2. CASE d = After(p, r, n)
      BY <2>2, <1>1, <1>2
    <2> QED BY <2>1, <2>2, <1>4
  <1> HIDE DEF w
  <1>5. Chain(p, start, w)'
    BY <1>3, <1>4 DEF Chain, After, Day
  <1> QED BY <1>1, <1>5 DEF Chained

(* The first n occurrences of a plan that is created.                        *)
LEMMA FirstWritten ==
  ASSUME RunTypes, NEW p \in Plan, Chained(p), ~Exists(p), Exists(p)', NEW r \in Nat, NEW n \in Nat \ {0},
         NEW carried \in BOOLEAN, made' = With(p, r, n, carried),
         \A d \in Nat : InHand(p, d)' => InHand(p, d) \/ d = After(p, r, n)
  PROVE  Chained(p)'
  <1>2. ASSUME NEW x \in Day PROVE made'[p][x].n > 0 <=> \E k \in 0..(n - 1) : x = After(p, r, k)
    <2> DEFINE hit == \E k \in 0..(n - 1) : x = After(p, r, k)
    <2>1. made'[p][x].n = made[p][x].n + IF hit THEN 1 ELSE 0
      BY WithWritten
    <2>2. made[p][x].n = 0
      BY DEF Chained
    <2> HIDE DEF hit
    <2>3. CASE hit
      <3>1. made'[p][x].n = 1
        BY <2>1, <2>2, <2>3
      <3> QED BY <3>1, <2>3 DEF hit
    <2>4. CASE ~hit
      <3>1. made'[p][x].n = 0
        BY <2>1, <2>2, <2>4
      <3> QED BY <3>1, <2>4 DEF hit
    <2> QED BY <2>3, <2>4
  <1>3. \A d \in Nat : InHand(p, d)' => \E j \in 0..n : d = After(p, r, j)
    BY DEF Chained
  <1>4. Chain(p, r, n)'
    BY <1>2, <1>3 DEF Chain, After, Day
  <1> QED BY <1>4 DEF Chained

(* The state of a round, after it has been changed in two places.            *)
LEMMA TickTwice ==
  ASSUME RunTypes, NEW s \in Session, NEW r \in Ticks, tick' = [tick EXCEPT ![s] = r]
  PROVE  tick' \in [Session -> Ticks] /\ tick'[s] = r /\ \A t \in Session : t # s => tick'[t] = tick[t]
  BY DEF RunTypes

LEMMA RoundStarted ==
  ASSUME RunTypes, NEW s \in Session, Started(s)
  PROVE  /\ tick' \in [Session -> Ticks] /\ \A t \in Session : t # s => tick'[t] = tick[t]
         /\ tick'[s].pc = "scanning" /\ tick'[s].plan = tick[s].plan /\ tick'[s].next = tick[s].next
  <1>0. tick[s] \in Ticks /\ tick \in [Session -> Ticks]
    BY DEF RunTypes
  <1> DEFINE due == {p \in Plan : Due(p)}
             mid == [tick[s] EXCEPT !.pc = "scanning"]
             new == [mid EXCEPT !.left = due]
  <1>1. mid \in Ticks /\ mid.pc = "scanning" /\ mid.plan = tick[s].plan /\ mid.next = tick[s].next
    BY <1>0 DEF Ticks
  <1>2. new \in Ticks /\ new.pc = mid.pc /\ new.plan = mid.plan /\ new.next = mid.next
    <2>1. due \in SUBSET Plan
      OBVIOUS
    <2> HIDE DEF mid, due
    <2> QED BY <1>1, <2>1 DEF Ticks
  <1>3. tick' = [tick EXCEPT ![s] = new]
    BY <1>0 DEF Started
  <1> HIDE DEF new, mid
  <1> QED BY <1>1, <1>2, <1>3, TickTwice

LEMMA RoundPutDown ==
  ASSUME RunTypes, NEW s \in Session, tick' = [tick EXCEPT ![s].plan = NoOne, ![s].next = NoDay]
  PROVE  /\ tick' \in [Session -> Ticks] /\ \A t \in Session : t # s => tick'[t] = tick[t]
         /\ tick'[s].pc = tick[s].pc /\ tick'[s].plan = NoOne
  <1>0. tick[s] \in Ticks /\ tick \in [Session -> Ticks]
    BY DEF RunTypes
  <1> DEFINE mid == [tick[s] EXCEPT !.plan = NoOne]
             new == [mid EXCEPT !.next = NoDay]
  <1>1. mid \in Ticks /\ mid.pc = tick[s].pc /\ mid.plan = NoOne
    BY <1>0 DEF Ticks
  <1>2. new \in Ticks /\ new.pc = mid.pc /\ new.plan = mid.plan
    <2>1. NoDay \in Nat
      BY RecurrenceAssumption DEF NoDay
    <2> HIDE DEF mid
    <2> QED BY <1>1, <2>1 DEF Ticks
  <1>3. tick' = [tick EXCEPT ![s] = new]
    BY <1>0
  <1> HIDE DEF new, mid
  <1> QED BY <1>1, <1>2, <1>3, TickTwice

LEMMA RoundReads ==
  ASSUME RunTypes, NEW s \in Session, NEW p \in Plan, ReadPlan(s, p)
  PROVE  /\ tick' \in [Session -> Ticks] /\ \A t \in Session : t # s => tick'[t] = tick[t]
         /\ tick'[s].pc = tick[s].pc
         /\ IF Due(p) THEN tick'[s].plan = p /\ tick'[s].next = plan[p].next ELSE tick'[s].plan = NoOne
  <1>0. tick[s] \in Ticks /\ tick \in [Session -> Ticks]
    BY DEF RunTypes
  <1> DEFINE less == tick[s].left \ {p}
             found == IF Due(p) THEN p ELSE NoOne
             day == IF Due(p) THEN plan[p].next ELSE NoDay
             first == [tick[s] EXCEPT !.left = less]
             mid == [first EXCEPT !.plan = found]
             new == [mid EXCEPT !.next = day]
  <1>1. less \in SUBSET Plan /\ found \in Plan \cup {NoOne} /\ day \in Nat
    <2>1. NoDay \in Nat /\ plan[p].next \in Nat
      BY RecurrenceAssumption DEF NoDay, RunTypes
    <2> QED BY <1>0, <2>1 DEF Ticks
  <1>2. tick' = [tick EXCEPT ![s] = new]
    BY <1>0 DEF ReadPlan
  <1>3. first \in Ticks /\ first.pc = tick[s].pc
    <2> HIDE DEF less
    <2> QED BY <1>0, <1>1 DEF Ticks
  <1>4. mid \in Ticks /\ mid.pc = first.pc /\ mid.plan = found
    <2> HIDE DEF first, found
    <2> QED BY <1>1, <1>3 DEF Ticks
  <1>5. new \in Ticks /\ new.pc = mid.pc /\ new.plan = mid.plan /\ new.next = day
    <2> HIDE DEF mid, day
    <2> QED BY <1>1, <1>4 DEF Ticks
  <1>6. found = (IF Due(p) THEN p ELSE NoOne) /\ day = IF Due(p) THEN plan[p].next ELSE NoDay
    OBVIOUS
  <1> HIDE DEF new, mid, first, found, day
  <1>7. tick' \in [Session -> Ticks] /\ tick'[s] = new /\ \A t \in Session : t # s => tick'[t] = tick[t]
    BY <1>2, <1>5, TickTwice
  <1> QED BY <1>3, <1>4, <1>5, <1>6, <1>7

LEMMA PhaseSet ==
  ASSUME RunTypes, NEW s \in Session, NEW c \in {"resting", "asking", "scanning", "unlocking"},
         tick' = [tick EXCEPT ![s].pc = c]
  PROVE  /\ tick' \in [Session -> Ticks] /\ \A t \in Session : t # s => tick'[t] = tick[t]
         /\ tick'[s].pc = c /\ tick'[s].plan = tick[s].plan /\ tick'[s].next = tick[s].next
  <1>0. tick[s] \in Ticks /\ tick \in [Session -> Ticks]
    BY DEF RunTypes
  <1> DEFINE new == [tick[s] EXCEPT !.pc = c]
  <1>1. new \in Ticks /\ new.pc = c /\ new.plan = tick[s].plan /\ new.next = tick[s].next
    BY <1>0 DEF Ticks
  <1>2. tick' = [tick EXCEPT ![s] = new]
    BY <1>0
  <1> HIDE DEF new
  <1> QED BY <1>1, <1>2, TickTwice

LEMMA AtRest == Resting \in Ticks /\ Resting.plan = NoOne /\ Resting.pc = "resting"
  <1>1. NoDay \in Nat
    BY RecurrenceAssumption DEF NoDay
  <1> QED BY <1>1 DEF Resting, Ticks

(* Rounds take, keep and put down what they have read.                       *)
LEMMA RoundsMove ==
  ASSUME ChainInv, tick' \in [Session -> Ticks], UNCHANGED planVars,
         \A t \in Session : \A p \in Plan : tick'[t].plan = p =>
            \/ tick[t].plan = p /\ tick'[t].next = tick[t].next
            \/ Exists(p) /\ tick'[t].next = plan[p].next
  PROVE  ChainInv'
  <1>1. RunTypes'
    BY DEF ChainInv, RunTypes, planVars, Day
  <1>2. ASSUME NEW p \in Plan PROVE Chained(p)'
    <2>1. Exists(p)' = Exists(p) /\ \A x \in Day : made'[p][x].n = made[p][x].n
      BY DEF Exists, planVars
    <2>2. \A d \in Nat : InHand(p, d)' => InHand(p, d)
      BY DEF InHand, Exists, planVars, NoDay
    <2> QED BY <2>1, <2>2, NothingWritten DEF ChainInv
  <1> QED BY <1>1, <1>2 DEF ChainInv

LEMMA TickKeepsChain ==
  ASSUME ChainInv, NEW s \in Session, StartTick(s) \/ Granted(s) \/ Refused(s) \/ LetThrough(s) \/ SkipPlan(s)
                                      \/ EndTick(s) \/ Unlock(s) \/ \E p \in Plan : ReadPlan(s, p)
  PROVE  ChainInv'
  <1>0. RunTypes /\ tick \in [Session -> Ticks]
    BY DEF ChainInv, RunTypes
  <1>1. CASE StartTick(s) \/ EndTick(s)
    <2>1. PICK c \in {"asking", "unlocking"} : tick' = [tick EXCEPT ![s].pc = c]
      BY <1>1 DEF StartTick, EndTick
    <2>2. UNCHANGED planVars
      BY <1>1 DEF StartTick, EndTick
    <2>3. /\ tick' \in [Session -> Ticks] /\ \A t \in Session : t # s => tick'[t] = tick[t]
          /\ tick'[s].pc = c /\ tick'[s].plan = tick[s].plan /\ tick'[s].next = tick[s].next
      BY <2>1, <1>0, PhaseSet
    <2> QED BY <2>2, <2>3, RoundsMove
  <1>2. CASE Granted(s) \/ LetThrough(s)
    <2>1. Started(s) /\ UNCHANGED planVars
      BY <1>2 DEF Granted, LetThrough
    <2>2. /\ tick' \in [Session -> Ticks] /\ \A t \in Session : t # s => tick'[t] = tick[t]
          /\ tick'[s].pc = "scanning" /\ tick'[s].plan = tick[s].plan /\ tick'[s].next = tick[s].next
      BY <2>1, <1>0, RoundStarted
    <2> QED BY <2>1, <2>2, RoundsMove
  <1>3. CASE Refused(s) \/ Unlock(s)
    <2>1. tick' = [tick EXCEPT ![s] = Resting] /\ UNCHANGED planVars
      BY <1>3 DEF Refused, Unlock
    <2>2. tick' \in [Session -> Ticks] /\ tick'[s] = Resting /\ \A t \in Session : t # s => tick'[t] = tick[t]
      BY <2>1, <1>0, AtRest, TickTwice
    <2>3. NoOne \notin Plan
      BY RecurrenceAssumption
    <2> QED BY <2>1, <2>2, <2>3, AtRest, RoundsMove
  <1>4. CASE SkipPlan(s)
    <2>1. tick' = [tick EXCEPT ![s].plan = NoOne, ![s].next = NoDay] /\ UNCHANGED planVars
      BY <1>4 DEF SkipPlan
    <2>2. /\ tick' \in [Session -> Ticks] /\ \A t \in Session : t # s => tick'[t] = tick[t]
          /\ tick'[s].pc = tick[s].pc /\ tick'[s].plan = NoOne
      BY <2>1, <1>0, RoundPutDown
    <2>3. NoOne \notin Plan
      BY RecurrenceAssumption
    <2> QED BY <2>1, <2>2, <2>3, RoundsMove
  <1>5. CASE \E p \in Plan : ReadPlan(s, p)
    <2> PICK p \in Plan : ReadPlan(s, p)
      BY <1>5
    <2>1. /\ tick' \in [Session -> Ticks] /\ \A t \in Session : t # s => tick'[t] = tick[t]
          /\ tick'[s].pc = tick[s].pc
          /\ IF Due(p) THEN tick'[s].plan = p /\ tick'[s].next = plan[p].next ELSE tick'[s].plan = NoOne
      BY <1>0, RoundReads
    <2>2. UNCHANGED planVars
      BY DEF ReadPlan
    <2>3. NoOne \notin Plan
      BY RecurrenceAssumption
    <2>4. Due(p) => Exists(p)
      BY DEF Due
    <2> QED BY <2>1, <2>2, <2>3, <2>4, RoundsMove
  <1> QED BY <1>1, <1>2, <1>3, <1>4, <1>5

LEMMA DownKeepsChain == ASSUME ChainInv, NEW i \in Process, GoDown(i) PROVE ChainInv'
  <1>1. tick' = [s \in Session |-> IF Home[s] = i THEN Resting ELSE tick[s]] /\ UNCHANGED planVars
    BY DEF GoDown
  <1>2. tick' \in [Session -> Ticks] /\ \A t \in Session : tick'[t] = Resting \/ tick'[t] = tick[t]
    BY <1>1, AtRest DEF ChainInv, RunTypes
  <1>3. NoOne \notin Plan
    BY RecurrenceAssumption
  <1> QED BY <1>1, <1>2, <1>3, AtRest, RoundsMove

(* The number of occurrences that have come due is a number.                 *)
LEMMA CountedMissed == ASSUME NEW p \in Plan, NEW d \in Nat PROVE Missed(p, d) \in Nat /\ Least(Missed(p, d), CatchUp) \in Nat
  <1> DEFINE due == {k \in 0..Horizon : After(p, d, k) <= today}
  <1>1. Horizon \in Nat /\ CatchUp \in Nat
    BY RecurrenceAssumption
  <1>2. IsFiniteSet(0..Horizon)
    BY <1>1, FS_Interval
  <1>3. IsFiniteSet(due)
    BY <1>2, FS_Subset
  <1>4. Cardinality(due) \in Nat
    BY <1>3, FS_CardinalityType
  <1>5. Missed(p, d) \in Nat
    BY <1>4 DEF Missed
  <1> QED BY <1>1, <1>5 DEF Least

(* A plan that is changed, and the rest as it was.                           *)
LEMMA PlansElsewhere ==
  ASSUME ChainInv, NEW p \in Plan, RunTypes', Chained(p)',
         \A q \in Plan : q # p => /\ made'[q] = made[q] /\ plan'[q] = plan[q] /\ byHand'[q] = byHand[q]
                                  /\ \A t \in Session : tick'[t].plan = q => tick[t].plan = q /\ tick'[t].next = tick[t].next
  PROVE  ChainInv'
  <1>1. ASSUME NEW q \in Plan, q # p PROVE Chained(q)'
    <2>1. Exists(q)' = Exists(q) /\ \A x \in Day : made'[q][x].n = made[q][x].n
      BY <1>1 DEF Exists
    <2>2. \A d \in Nat : InHand(q, d)' => InHand(q, d)
      BY <1>1 DEF InHand, Exists, NoDay
    <2> QED BY <2>1, <2>2, NothingWritten DEF ChainInv
  <1> QED BY <1>1 DEF ChainInv

LEMMA CreateKeepsChain ==
  ASSUME ChainInv, NEW p \in Plan, NEW start \in Starts, NEW n \in Ahead, CreatePlan(p, start, n)
  PROVE  ChainInv'
  <1>0. RunTypes /\ start \in Nat /\ n \in Nat \ {0} /\ ~Exists(p) /\ Chained(p)
    BY RecurrenceAssumption DEF ChainInv, CreatePlan
  <1> DEFINE after == After(p, start, n)
  <1>1. after \in Nat
    BY <1>0, AfterSteps
  <1>2. PICK c \in BOOLEAN : made' = With(p, start, n, c)
    BY DEF CreatePlan
  <1>3. /\ plan' = [plan EXCEPT ![p] = [there |-> TRUE, paused |-> FALSE, next |-> after]]
        /\ UNCHANGED <<today, byHand, tick>>
    BY DEF CreatePlan, tickVars
  <1>4. /\ made' \in [Plan -> [Day -> [n : Nat, carrying : Nat]]]
        /\ \A q \in Plan : q # p => made'[q] = made[q]
    BY <1>0, <1>2, WithWritten
  <1> HIDE DEF after
  <1>5. /\ plan' \in [Plan -> [there : BOOLEAN, paused : BOOLEAN, next : Nat]]
        /\ plan'[p].next = after /\ plan'[p].there = TRUE /\ \A q \in Plan : q # p => plan'[q] = plan[q]
    <2>1. [there |-> TRUE, paused |-> FALSE, next |-> after] \in [there : BOOLEAN, paused : BOOLEAN, next : Nat]
      BY <1>1
    <2> QED BY <1>0, <1>3, <2>1 DEF RunTypes
  <1>6. RunTypes'
    BY <1>0, <1>3, <1>4, <1>5 DEF RunTypes, Day
  <1>7. Exists(p)'
    BY <1>5 DEF Exists
  <1>8. \A d \in Nat : InHand(p, d)' => InHand(p, d) \/ d = after
    BY <1>3, <1>5 DEF InHand, Exists, NoDay
  <1>9. Chained(p)'
    BY <1>0, <1>2, <1>7, <1>8, FirstWritten DEF after
  <1> QED BY <1>3, <1>4, <1>5, <1>6, <1>9, PlansElsewhere

LEMMA PauseKeepsChain == ASSUME ChainInv, NEW p \in Plan, NEW b \in BOOLEAN, SetPaused(p, b) PROVE ChainInv'
  <1>0. RunTypes /\ Chained(p) /\ plan[p] \in [there : BOOLEAN, paused : BOOLEAN, next : Nat]
    BY DEF ChainInv, RunTypes
  <1> DEFINE new == [plan[p] EXCEPT !.paused = b]
  <1>1. new \in [there : BOOLEAN, paused : BOOLEAN, next : Nat] /\ new.there = plan[p].there /\ new.next = plan[p].next
    BY <1>0
  <1>2. plan' = [plan EXCEPT ![p] = new] /\ UNCHANGED <<today, made, byHand, tick>>
    BY <1>0 DEF SetPaused, tickVars, RunTypes
  <1> HIDE DEF new
  <1>3. /\ plan' \in [Plan -> [there : BOOLEAN, paused : BOOLEAN, next : Nat]]
        /\ plan'[p] = new /\ \A q \in Plan : q # p => plan'[q] = plan[q]
    BY <1>0, <1>1, <1>2 DEF RunTypes
  <1>4. RunTypes'
    BY <1>0, <1>2, <1>3 DEF RunTypes, Day
  <1>5. Exists(p)' = Exists(p) /\ \A x \in Day : made'[p][x].n = made[p][x].n
    BY <1>1, <1>2, <1>3 DEF Exists
  <1>6. \A d \in Nat : InHand(p, d)' => InHand(p, d)
    BY <1>1, <1>2, <1>3 DEF InHand, Exists, NoDay
  <1>7. Chained(p)'
    BY <1>0, <1>5, <1>6, NothingWritten
  <1> QED BY <1>2, <1>3, <1>4, <1>7, PlansElsewhere

LEMMA BeginKeepsChain == ASSUME ChainInv, NEW p \in Plan, BeginByHand(p) PROVE ChainInv'
  <1>0. RunTypes /\ Chained(p) /\ Exists(p) /\ plan[p].next \in Nat
    BY DEF ChainInv, RunTypes, BeginByHand
  <1>1. byHand' = [byHand EXCEPT ![p] = plan[p].next] /\ UNCHANGED <<today, plan, made, tick>>
    BY DEF BeginByHand, tickVars
  <1>2. byHand' \in [Plan -> Nat] /\ byHand'[p] = plan[p].next /\ \A q \in Plan : q # p => byHand'[q] = byHand[q]
    BY <1>0, <1>1 DEF RunTypes
  <1>3. RunTypes'
    BY <1>0, <1>1, <1>2 DEF RunTypes, Day
  <1>4. Exists(p)' = Exists(p) /\ \A x \in Day : made'[p][x].n = made[p][x].n
    BY <1>1 DEF Exists
  <1>5. \A d \in Nat : InHand(p, d)' => InHand(p, d)
    BY <1>0, <1>1, <1>2 DEF InHand, Exists, NoDay
  <1>6. Chained(p)'
    BY <1>0, <1>4, <1>5, NothingWritten
  <1> QED BY <1>1, <1>2, <1>3, <1>6, PlansElsewhere

(* The next date of a plan is set.                                           *)
LEMMA NextSet ==
  ASSUME RunTypes, NEW p \in Plan, NEW d \in Nat, plan' = [plan EXCEPT ![p].next = d]
  PROVE  /\ plan' \in [Plan -> [there : BOOLEAN, paused : BOOLEAN, next : Nat]]
         /\ plan'[p].next = d /\ plan'[p].there = plan[p].there /\ \A q \in Plan : q # p => plan'[q] = plan[q]
  <1>0. plan[p] \in [there : BOOLEAN, paused : BOOLEAN, next : Nat]
    BY DEF RunTypes
  <1> DEFINE new == [plan[p] EXCEPT !.next = d]
  <1>1. new \in [there : BOOLEAN, paused : BOOLEAN, next : Nat] /\ new.there = plan[p].there /\ new.next = d
    BY <1>0
  <1>2. plan' = [plan EXCEPT ![p] = new]
    BY DEF RunTypes
  <1> HIDE DEF new
  <1> QED BY <1>1, <1>2 DEF RunTypes

(* Somebody writes from the date in hand.                                    *)
LEMMA WriteKeepsChain ==
  ASSUME ChainInv, NEW p \in Plan, NEW r \in Nat, InHand(p, r), NEW n \in Nat, NEW carried \in BOOLEAN,
         made' = With(p, r, n, carried), plan' = [plan EXCEPT ![p].next = After(p, r, n)], today' = today,
         byHand' \in [Plan -> Nat], \A q \in Plan : byHand'[q] \in {byHand[q], NoDay},
         \A q \in Plan : q # p => byHand'[q] = byHand[q],
         tick' \in [Session -> Ticks],
         \A t \in Session : \A q \in Plan : tick'[t].plan = q => tick[t].plan = q /\ tick'[t].next = tick[t].next
  PROVE  ChainInv'
  <1> DEFINE after == After(p, r, n)
  <1>0. RunTypes /\ Chained(p) /\ after \in Nat
    BY AfterSteps DEF ChainInv
  <1>1. Exists(p)
    BY <1>0 DEF Chained
  <1>2. /\ made' \in [Plan -> [Day -> [n : Nat, carrying : Nat]]]
        /\ \A q \in Plan : q # p => made'[q] = made[q]
    BY <1>0, WithWritten
  <1>3. plan' = [plan EXCEPT ![p].next = after]
    OBVIOUS
  <1> HIDE DEF after
  <1>4. /\ plan' \in [Plan -> [there : BOOLEAN, paused : BOOLEAN, next : Nat]]
        /\ plan'[p].next = after /\ plan'[p].there = plan[p].there /\ \A q \in Plan : q # p => plan'[q] = plan[q]
    BY <1>0, <1>3, NextSet
  <1>5. RunTypes'
    BY <1>0, <1>2, <1>4 DEF RunTypes, Day
  <1>6. Exists(p)'
    BY <1>1, <1>4 DEF Exists
  <1>7. \A d \in Nat : InHand(p, d)' => InHand(p, d) \/ d = after
    BY <1>4 DEF InHand, Exists, NoDay
  <1>8. Chained(p)'
    BY <1>0, <1>1, <1>6, <1>7, Written DEF after
  <1> QED BY <1>2, <1>4, <1>5, <1>8, PlansElsewhere

LEMMA ByHandKeepsChain == ASSUME ChainInv, NEW p \in Plan, GenerateByHand(p) PROVE ChainInv'
  <1>0. RunTypes /\ byHand[p] \in Nat /\ NoDay \in Nat /\ byHand[p] # NoDay
    BY RecurrenceAssumption DEF ChainInv, RunTypes, NoDay, GenerateByHand
  <1>1. PICK r \in Nat, c \in BOOLEAN : /\ r = byHand[p] /\ made' = With(p, r, 1, c)
                                       /\ plan' = [plan EXCEPT ![p].next = After(p, r, 1)]
    BY <1>0 DEF GenerateByHand
  <1>2. byHand' = [byHand EXCEPT ![p] = NoDay] /\ today' = today /\ tick' = tick
    BY DEF GenerateByHand, tickVars
  <1>3. byHand' \in [Plan -> Nat] /\ byHand'[p] = NoDay /\ \A q \in Plan : q # p => byHand'[q] = byHand[q]
    BY <1>0, <1>2 DEF RunTypes
  <1>4. InHand(p, r)
    BY <1>0, <1>1 DEF InHand
  <1>5. tick' \in [Session -> Ticks]
    BY <1>0, <1>2 DEF RunTypes
  <1> QED BY <1>1, <1>2, <1>3, <1>4, <1>5, WriteKeepsChain

LEMMA RoundKeepsChain == ASSUME ChainInv, NEW s \in Session, WritePlan(s) PROVE ChainInv'
  <1>0. RunTypes /\ tick[s] \in Ticks /\ tick[s].plan # NoOne
    BY DEF ChainInv, RunTypes, WritePlan
  <1>1. PICK p \in Plan, r \in Nat : p = tick[s].plan /\ r = tick[s].next
    BY <1>0 DEF Ticks
  <1>2. PICK n \in Nat : n = Least(Missed(p, r), CatchUp)
    BY CountedMissed
  <1>3. PICK c \in BOOLEAN : made' = With(p, r, n, c)
    BY <1>1, <1>2 DEF WritePlan
  <1>4. plan' = [plan EXCEPT ![p].next = After(p, r, n)]
    BY <1>1, <1>2 DEF WritePlan, Onwards
  <1>5. /\ tick' = [tick EXCEPT ![s].plan = NoOne, ![s].next = NoDay]
        /\ today' = today /\ byHand' = byHand
    BY DEF WritePlan
  <1>6. /\ tick' \in [Session -> Ticks] /\ \A t \in Session : t # s => tick'[t] = tick[t]
        /\ tick'[s].plan = NoOne
    BY <1>0, <1>5, RoundPutDown
  <1>7. InHand(p, r)
    BY <1>1 DEF InHand
  <1>8. byHand' \in [Plan -> Nat] /\ NoOne \notin Plan
    BY <1>0, <1>5, RecurrenceAssumption DEF RunTypes
  <1> QED BY <1>1, <1>3, <1>4, <1>5, <1>6, <1>7, <1>8, WriteKeepsChain

LEMMA ChainStarts == RecurrenceInit => ChainInv
  <1> SUFFICES ASSUME RecurrenceInit PROVE ChainInv
    OBVIOUS
  <1>1. NoDay \in Nat /\ NoOne \notin Plan
    BY RecurrenceAssumption DEF NoDay
  <1>2. /\ today = 0 /\ plan = [p \in Plan |-> NoPlan] /\ made = [p \in Plan |-> [d \in Day |-> Nothing]]
        /\ byHand = [p \in Plan |-> NoDay] /\ tick = [s \in Session |-> Resting]
    BY DEF RecurrenceInit
  <1>3. /\ NoPlan \in [there : BOOLEAN, paused : BOOLEAN, next : Nat] /\ NoPlan.there = FALSE
        /\ Nothing \in [n : Nat, carrying : Nat] /\ Nothing.n = 0
    BY <1>1 DEF NoPlan, Nothing
  <1>4. RunTypes
    BY <1>1, <1>2, <1>3, AtRest DEF RunTypes
  <1>5. ASSUME NEW p \in Plan PROVE Chained(p)
    <2>1. ~Exists(p) /\ \A x \in Day : made[p][x].n = 0
      BY <1>2, <1>3 DEF Exists
    <2>2. byHand[p] = NoDay /\ \A s \in Session : tick[s].plan = NoOne
      BY <1>2, AtRest
    <2>3. \A d \in Nat : ~InHand(p, d)
      BY <1>1, <2>1, <2>2 DEF InHand
    <2> QED BY <2>1, <2>3 DEF Chained
  <1> QED BY <1>4, <1>5 DEF ChainInv

LEMMA ChainHolds == ChainInv /\ [RecurrenceNext]_rvars => ChainInv'
  <1> SUFFICES ASSUME ChainInv, [RecurrenceNext]_rvars PROVE ChainInv'
    OBVIOUS
  <1>1. ASSUME UNCHANGED <<planVars, tick>> PROVE ChainInv'
    BY <1>1, RoundsMove DEF ChainInv, RunTypes
  <1>2. CASE NextDay
    <2>1. UNCHANGED <<plan, made, byHand, tick>> /\ today' = today + 1
      BY <1>2 DEF NextDay, tickVars
    <2>2. RunTypes'
      BY <2>1 DEF ChainInv, RunTypes, Day
    <2>3. ASSUME NEW p \in Plan PROVE Chained(p)'
      BY <2>1, NothingWritten DEF ChainInv, InHand, Exists, NoDay
    <2> QED BY <2>2, <2>3 DEF ChainInv
  <1>3. ASSUME NEW i \in Process, ComeUp(i) PROVE ChainInv'
    BY <1>1, <1>3 DEF ComeUp
  <1>4. CASE UNCHANGED rvars
    BY <1>1, <1>4 DEF rvars, tickVars
  <1>5. ASSUME NEW p \in Plan,
               \/ \E start \in Starts, n \in Ahead : CreatePlan(p, start, n)
               \/ \E b \in BOOLEAN : SetPaused(p, b)
               \/ BeginByHand(p) \/ GenerateByHand(p)
        PROVE  ChainInv'
    BY <1>5, CreateKeepsChain, PauseKeepsChain, BeginKeepsChain, ByHandKeepsChain
  <1>6. ASSUME NEW s \in Session, StartTick(s) \/ Round(s) \/ LetThrough(s) \/ SkipPlan(s) PROVE ChainInv'
    BY <1>6, TickKeepsChain, RoundKeepsChain DEF Round
  <1> QED BY <1>2, <1>3, <1>4, <1>5, <1>6, DownKeepsChain DEF RecurrenceNext

(* NoneMissed: for any plans, processes, sessions and faults, whoever writes *)
(* beside whom.  The tasks of a plan are a run without a gap, and every      *)
(* writer goes on from inside it or from its end.                            *)
THEOREM NothingMissed == RecurrenceSpec => []NoneMissed
  <1>1. ChainInv => NoneMissed
    <2> SUFFICES ASSUME ChainInv, NEW p \in Plan, NEW d \in Day, made[p][d].n > 0, After(p, d, 1) < plan[p].next,
                        After(p, d, 1) \in Day
                 PROVE  made[p][After(p, d, 1)].n > 0
      BY DEF NoneMissed
    <2>1. Exists(p)
      BY DEF ChainInv, Chained
    <2> PICK start \in Nat, m \in Nat \ {0} : Chain(p, start, m)
      BY <2>1 DEF ChainInv, Chained
    <2>2. PICK k \in 0..(m - 1) : d = After(p, start, k)
      BY DEF Chain
    <2>3. PICK j \in 0..m : plan[p].next = After(p, start, j)
      BY <2>1 DEF Chain, InHand, ChainInv, RunTypes
    <2>4. After(p, d, 1) = After(p, start, k + 1)
      BY <2>2, AfterSteps
    <2>5. k + 1 < j
      <3>a. j \in Nat /\ k + 1 \in Nat /\ plan[p].next \in Nat
        BY DEF ChainInv, RunTypes
      <3>b. After(p, start, k + 1) \in Nat
        BY <3>a, AfterSteps
      <3>0. After(p, start, k + 1) < plan[p].next
        BY <2>4
      <3>1. j # k + 1
        BY <3>a, <3>b, <3>0, <2>3
      <3>2. j < k + 1 => After(p, start, j) < After(p, start, k + 1)
        BY <3>a, <3>b, <3>0, AfterSteps
      <3>3. ~(j < k + 1)
        BY <3>a, <3>b, <3>0, <3>2, <2>3
      <3> QED BY <3>a, <3>b, <3>0, <3>1, <3>3
    <2>6. k + 1 \in 0..(m - 1)
      BY <2>5
    <2> QED BY <2>4, <2>6 DEF Chain
  <1> QED BY ChainStarts, ChainHolds, <1>1, PTL DEF RecurrenceSpec

(* As long as the database answers, whoever scans or is about to unlock has  *)
(* the lock, and the server will unlock the session that has it.             *)
Exclusive ==
  /\ \A s \in Session : tick[s].pc \in {"scanning", "unlocking"} => holder = s
  /\ \A s \in Session : tick[s].plan # NoOne => tick[s].pc = "scanning"
  /\ holder # NoOne => holder \in Session /\ held[Home[holder]] = holder
LockInv == /\ failures \in Nat /\ held \in [Process -> Session \cup {NoOne}]
           /\ failures = 0 => Exclusive

(* Whoever has read a plan alone has it in hand, and what is done lies       *)
(* before its next date.                                                     *)
Fresh(p) ==
  /\ byHand[p] # NoDay => \A s \in Session : tick[s].plan # p
  /\ \A d \in Nat : InHand(p, d) => d = plan[p].next
  /\ \A x \in Day : made[p][x].n <= 1 /\ (made[p][x].n > 0 => x < plan[p].next)
OnceInv == ChainInv /\ LockInv /\ (failures = 0 => \A p \in Plan : Fresh(p))

LEMMA LockKept ==
  ASSUME RunTypes, LockInv, UNCHANGED <<holder, held, failures>>,
         \A s \in Session : tick'[s].pc \in {"scanning", "unlocking"} => tick[s].pc \in {"scanning", "unlocking"},
         \A s \in Session : tick'[s].plan # NoOne => tick'[s].pc = "scanning" \/ tick'[s] = tick[s]
  PROVE  LockInv'
  BY DEF LockInv, Exclusive

LEMMA TickKeepsLock ==
  ASSUME RunTypes, LockInv, NEW s \in Session, StartTick(s) \/ Round(s) \/ LetThrough(s) \/ SkipPlan(s)
  PROVE  LockInv'
  <1>0. Home[s] \in Process /\ NoOne \notin Session /\ Home \in [Session -> Process]
    BY RecurrenceAssumption
  <1>1. CASE StartTick(s)
    <2>1. tick' = [tick EXCEPT ![s].pc = "asking"] /\ UNCHANGED <<holder, held, failures>> /\ tick[s].plan = NoOne
      BY <1>1, AtRest DEF StartTick, faultVars
    <2>2. /\ \A t \in Session : t # s => tick'[t] = tick[t]
          /\ tick'[s].pc = "asking" /\ tick'[s].plan = tick[s].plan
      BY <2>1, PhaseSet
    <2> QED BY <2>1, <2>2, LockKept
  <1>2. CASE LetThrough(s) \/ SkipPlan(s)
    <2>1. failures' = failures + 1 /\ held' = held
      BY <1>2 DEF LetThrough, SkipPlan, tickVars
    <2> QED BY <2>1 DEF LockInv
  <1>3. CASE Granted(s)
    <2>1. /\ Started(s) /\ holder = NoOne /\ holder' = s /\ held' = [held EXCEPT ![Home[s]] = s]
          /\ tick[s].pc = "asking" /\ failures' = failures
      BY <1>3 DEF Granted, Free, faultVars
    <2>2. /\ \A t \in Session : t # s => tick'[t] = tick[t]
          /\ tick'[s].pc = "scanning" /\ tick'[s].plan = tick[s].plan
      BY <2>1, RoundStarted
    <2>3. held' \in [Process -> Session \cup {NoOne}] /\ held'[Home[s]] = s
      BY <1>0, <2>1 DEF LockInv
    <2>4. failures = 0 => \A t \in Session : tick[t].pc \notin {"scanning", "unlocking"}
      BY <1>0, <2>1 DEF LockInv, Exclusive
    <2>5. failures = 0 => Exclusive'
      BY <1>0, <2>1, <2>2, <2>3, <2>4 DEF LockInv, Exclusive
    <2> QED BY <2>1, <2>3, <2>5 DEF LockInv
  <1>4. CASE Refused(s)
    <2>1. tick' = [tick EXCEPT ![s] = Resting] /\ UNCHANGED <<holder, held, failures>>
      BY <1>4 DEF Refused, faultVars
    <2>2. tick'[s] = Resting /\ \A t \in Session : t # s => tick'[t] = tick[t]
      BY <2>1, AtRest, TickTwice
    <2> QED BY <2>1, <2>2, AtRest, LockKept
  <1>5. CASE WritePlan(s)
    <2>1. /\ tick' = [tick EXCEPT ![s].plan = NoOne, ![s].next = NoDay]
          /\ UNCHANGED <<holder, held, failures>>
      BY <1>5 DEF WritePlan, faultVars
    <2>2. /\ \A t \in Session : t # s => tick'[t] = tick[t]
          /\ tick'[s].pc = tick[s].pc /\ tick'[s].plan = NoOne
      BY <2>1, RoundPutDown
    <2> QED BY <2>1, <2>2, LockKept
  <1>6. CASE EndTick(s)
    <2>1. /\ tick' = [tick EXCEPT ![s].pc = "unlocking"] /\ UNCHANGED <<holder, held, failures>>
          /\ tick[s].pc = "scanning" /\ tick[s].plan = NoOne
      BY <1>6 DEF EndTick, faultVars
    <2>2. /\ \A t \in Session : t # s => tick'[t] = tick[t]
          /\ tick'[s].pc = "unlocking" /\ tick'[s].plan = tick[s].plan
      BY <2>1, PhaseSet
    <2> QED BY <2>1, <2>2, LockKept
  <1>7. CASE Unlock(s)
    <2>1. /\ tick' = [tick EXCEPT ![s] = Resting] /\ holder' = Released(s) /\ held' = [held EXCEPT ![Home[s]] = NoOne]
          /\ failures' = failures /\ tick[s].pc = "unlocking"
      BY <1>7 DEF Unlock, faultVars
    <2>2. tick'[s] = Resting /\ \A t \in Session : t # s => tick'[t] = tick[t]
      BY <2>1, AtRest, TickTwice
    <2>3. held' \in [Process -> Session \cup {NoOne}]
      BY <1>0, <2>1 DEF LockInv
    <2>4. failures = 0 => holder = s /\ held[Home[s]] = s
      BY <1>0, <2>1 DEF LockInv, Exclusive
    <2>5. failures = 0 => holder' = NoOne
      BY <2>1, <2>4 DEF Released
    <2>6. failures = 0 => Exclusive'
      BY <1>0, <2>2, <2>4, <2>5, AtRest DEF LockInv, Exclusive
    <2> QED BY <2>1, <2>3, <2>6 DEF LockInv
  <1>8. CASE \E p \in Plan : ReadPlan(s, p)
    <2> PICK p \in Plan : ReadPlan(s, p)
      BY <1>8
    <2>1. tick[s].pc = "scanning" /\ UNCHANGED <<holder, held, failures>>
      BY DEF ReadPlan, faultVars
    <2>2. (\A t \in Session : t # s => tick'[t] = tick[t]) /\ tick'[s].pc = tick[s].pc
      BY RoundReads
    <2> QED BY <2>1, <2>2, LockKept
  <1> QED BY <1>1, <1>2, <1>3, <1>4, <1>5, <1>6, <1>7, <1>8 DEF Round

LEMMA DownKeepsLock == ASSUME RunTypes, LockInv, NEW i \in Process, GoDown(i) PROVE LockInv'
  <1>0. NoOne \notin Session /\ Home \in [Session -> Process]
    BY RecurrenceAssumption
  <1>1. /\ tick' = [s \in Session |-> IF Home[s] = i THEN Resting ELSE tick[s]]
        /\ holder' = IF holder # NoOne /\ Home[holder] = i THEN NoOne ELSE holder
        /\ held' = [held EXCEPT ![i] = NoOne] /\ failures' = failures
    BY DEF GoDown
  <1>2. held' \in [Process -> Session \cup {NoOne}] /\ \A j \in Process : j # i => held'[j] = held[j]
    BY <1>1 DEF LockInv
  <1>3. \A s \in Session : tick'[s] = IF Home[s] = i THEN Resting ELSE tick[s]
    BY <1>1
  <1>4. failures = 0 => Exclusive'
    <2> SUFFICES ASSUME failures = 0 PROVE Exclusive'
      OBVIOUS
    <2>1. \A s \in Session : tick[s].pc \in {"scanning", "unlocking"} => holder = s
      BY DEF LockInv, Exclusive
    <2>2. ASSUME NEW s \in Session, tick'[s].pc \in {"scanning", "unlocking"} PROVE holder' = s
      BY <1>0, <1>1, <1>3, <2>1, <2>2, AtRest
    <2>3. ASSUME NEW s \in Session, tick'[s].plan # NoOne PROVE tick'[s].pc = "scanning"
      BY <1>3, <2>3, AtRest DEF LockInv, Exclusive
    <2>4. holder' # NoOne => holder' \in Session /\ held'[Home[holder']] = holder'
      BY <1>0, <1>1, <1>2 DEF LockInv, Exclusive
    <2> QED BY <2>2, <2>3, <2>4 DEF Exclusive
  <1> QED BY <1>1, <1>2, <1>4 DEF LockInv

(* Nothing is written of a plan, and nobody takes it in hand who should not. *)
LEMMA FreshKept ==
  ASSUME NEW p \in Plan, Fresh(p), plan'[p].next = plan[p].next, \A x \in Day : made'[p][x].n = made[p][x].n,
         \A d \in Nat : InHand(p, d)' => InHand(p, d),
         byHand'[p] # NoDay => \A s \in Session : tick'[s].plan # p
  PROVE  Fresh(p)'
  BY DEF Fresh, Day, NoDay

(* Occurrences are written from a date before which everything done lies.    *)
LEMMA FreshWritten ==
  ASSUME RunTypes, NEW p \in Plan, NEW r \in Nat, NEW n \in Nat, NEW carried \in BOOLEAN,
         \A x \in Day : made[p][x].n <= 1 /\ (made[p][x].n > 0 => x < r),
         made' = With(p, r, n, carried), plan'[p].next = After(p, r, n),
         \A d \in Nat : InHand(p, d)' => d = After(p, r, n),
         byHand'[p] # NoDay => \A s \in Session : tick'[s].plan # p
  PROVE  Fresh(p)'
  <1>0. After(p, r, n) \in Nat /\ r <= After(p, r, n)
    <2>1. After(p, r, n) \in Nat
      BY AfterSteps
    <2>2. After(p, r, 0) = r /\ (0 < n => After(p, r, 0) < After(p, r, n))
      BY AfterSteps
    <2>3. n = 0 \/ 0 < n
      OBVIOUS
    <2>4. CASE n = 0
      BY <2>1, <2>2, <2>4
    <2>5. CASE 0 < n
      BY <2>1, <2>2, <2>5
    <2> QED BY <2>3, <2>4, <2>5
  <1>1. ASSUME NEW x \in Day PROVE made'[p][x].n <= 1 /\ (made'[p][x].n > 0 => x < After(p, r, n))
    <2> DEFINE hit == \E k \in 0..(n - 1) : x = After(p, r, k)
    <2>0. x \in Nat /\ made[p][x].n \in Nat
      BY RecurrenceAssumption DEF Day, RunTypes
    <2>1. made'[p][x].n = made[p][x].n + IF hit THEN 1 ELSE 0
      BY WithWritten
    <2>2. CASE hit
      <3>1. PICK k \in 0..(n - 1) : x = After(p, r, k)
        BY <2>2
      <3>2. k \in Nat /\ k < n
        OBVIOUS
      <3>3. x < After(p, r, n)
        BY <3>1, <3>2, AfterSteps
      <3>4. r <= x
        <4>1. After(p, r, 0) = r /\ (0 < k => After(p, r, 0) < After(p, r, k))
          BY <3>2, AfterSteps
        <4>2. CASE k = 0
          BY <4>1, <4>2, <3>1, <2>0
        <4>3. CASE 0 < k
          BY <4>1, <4>3, <3>1, <2>0
        <4> QED BY <3>2, <4>2, <4>3
      <3>5. made[p][x].n = 0
        BY <2>0, <3>4
      <3>6. made'[p][x].n = 1
        <4> HIDE DEF hit
        <4> QED BY <2>1, <2>2, <3>5
      <3> QED BY <3>3, <3>6
    <2>3. CASE ~hit
      <3>1. made'[p][x].n = made[p][x].n
        <4> HIDE DEF hit
        <4> QED BY <2>0, <2>1, <2>3
      <3>2. made[p][x].n <= 1 /\ (made[p][x].n > 0 => x < r)
        OBVIOUS
      <3> QED BY <2>0, <3>1, <3>2, <1>0
    <2> QED BY <2>2, <2>3
  <1> DEFINE after == After(p, r, n)
  <1>2. /\ \A x \in Day : made'[p][x].n <= 1 /\ (made'[p][x].n > 0 => x < after)
        /\ plan'[p].next = after /\ \A d \in Nat : InHand(p, d)' => d = after
    BY <1>1
  <1> HIDE DEF after
  <1> QED BY <1>2 DEF Fresh, Day, NoDay

(* Rounds take, keep and put down what they have read, and take no plan that *)
(* a request has read.                                                       *)
LEMMA RoundsKeepFresh ==
  ASSUME UNCHANGED planVars, NEW p \in Plan, Fresh(p),
         \A t \in Session : tick'[t].plan = p =>
            \/ tick[t].plan = p /\ tick'[t].next = tick[t].next
            \/ Exists(p) /\ byHand[p] = NoDay /\ tick'[t].next = plan[p].next
  PROVE  Fresh(p)'
  <1>1. plan' = plan /\ made' = made /\ byHand' = byHand
    BY DEF planVars
  <1>2. \A d \in Nat : InHand(p, d)' => InHand(p, d)
    BY <1>1 DEF InHand, Exists, NoDay
  <1>3. byHand'[p] # NoDay => \A s \in Session : tick'[s].plan # p
    BY <1>1 DEF Fresh
  <1> QED BY <1>1, <1>2, <1>3, FreshKept

LEMMA TickKeepsFresh ==
  ASSUME RunTypes, Beside = FALSE, NEW s \in Session, NEW p \in Plan, Fresh(p),
         \/ StartTick(s) \/ Granted(s) \/ Refused(s) \/ EndTick(s) \/ Unlock(s)
         \/ \E q \in Plan : ReadPlan(s, q)
  PROVE  Fresh(p)'
  <1>0. NoOne \notin Plan
    BY RecurrenceAssumption
  <1>1. CASE StartTick(s) \/ EndTick(s)
    <2>1. PICK c \in {"asking", "unlocking"} : tick' = [tick EXCEPT ![s].pc = c]
      BY <1>1 DEF StartTick, EndTick
    <2>2. UNCHANGED planVars
      BY <1>1 DEF StartTick, EndTick
    <2>3. /\ \A t \in Session : t # s => tick'[t] = tick[t]
          /\ tick'[s].plan = tick[s].plan /\ tick'[s].next = tick[s].next
      BY <2>1, PhaseSet
    <2> QED BY <2>2, <2>3, RoundsKeepFresh
  <1>2. CASE Granted(s)
    <2>1. Started(s) /\ UNCHANGED planVars
      BY <1>2 DEF Granted
    <2>2. /\ \A t \in Session : t # s => tick'[t] = tick[t]
          /\ tick'[s].plan = tick[s].plan /\ tick'[s].next = tick[s].next
      BY <2>1, RoundStarted
    <2> QED BY <2>1, <2>2, RoundsKeepFresh
  <1>3. CASE Refused(s) \/ Unlock(s)
    <2>1. tick' = [tick EXCEPT ![s] = Resting] /\ UNCHANGED planVars
      BY <1>3 DEF Refused, Unlock
    <2>2. tick'[s] = Resting /\ \A t \in Session : t # s => tick'[t] = tick[t]
      BY <2>1, AtRest, TickTwice
    <2> QED BY <1>0, <2>1, <2>2, AtRest, RoundsKeepFresh
  <1>4. CASE \E q \in Plan : ReadPlan(s, q)
    <2> PICK q \in Plan : ReadPlan(s, q)
      BY <1>4
    <2>1. /\ \A t \in Session : t # s => tick'[t] = tick[t]
          /\ IF Due(q) THEN tick'[s].plan = q /\ tick'[s].next = plan[q].next ELSE tick'[s].plan = NoOne
      BY RoundReads
    <2>2. UNCHANGED planVars /\ (Due(q) => byHand[q] = NoDay /\ Exists(q))
      BY DEF ReadPlan, Due
    <2> QED BY <1>0, <2>1, <2>2, RoundsKeepFresh
  <1> QED BY <1>1, <1>2, <1>3, <1>4

(* What is written of one plan leaves the others as they are.                *)
LEMMA FreshElsewhere ==
  ASSUME NEW p \in Plan, Fresh(p), made'[p] = made[p], plan'[p] = plan[p], byHand'[p] = byHand[p],
         \A t \in Session : tick'[t].plan = p => tick[t].plan = p /\ tick'[t].next = tick[t].next
  PROVE  Fresh(p)'
  <1>1. \A d \in Nat : InHand(p, d)' => InHand(p, d)
    BY DEF InHand, Exists, NoDay
  <1>2. byHand'[p] # NoDay => \A s \in Session : tick'[s].plan # p
    BY DEF Fresh
  <1> QED BY <1>1, <1>2, FreshKept

LEMMA CreateKeepsFresh ==
  ASSUME ChainInv, NEW p \in Plan, NEW start \in Starts, NEW n \in Ahead, CreatePlan(p, start, n),
         NEW q \in Plan, Fresh(q)
  PROVE  Fresh(q)'
  <1>0. RunTypes /\ start \in Nat /\ n \in Nat /\ ~Exists(p) /\ Chained(p) /\ NoDay \in Nat
    BY RecurrenceAssumption DEF ChainInv, CreatePlan, NoDay
  <1>1. PICK c \in BOOLEAN : made' = With(p, start, n, c)
    BY DEF CreatePlan
  <1> DEFINE after == After(p, start, n)
  <1>2. after \in Nat
    BY <1>0, AfterSteps
  <1>3. /\ plan' = [plan EXCEPT ![p] = [there |-> TRUE, paused |-> FALSE, next |-> after]]
        /\ UNCHANGED <<byHand, tick>>
    BY DEF CreatePlan, tickVars
  <1> HIDE DEF after
  <1>4. plan'[p].next = after /\ \A r \in Plan : r # p => plan'[r] = plan[r]
    BY <1>0, <1>3 DEF RunTypes
  <1>5. CASE q # p
    <2>1. made'[q] = made[q]
      BY <1>0, <1>1, <1>5, WithWritten
    <2> QED BY <1>3, <1>4, <1>5, <2>1, FreshElsewhere
  <1>6. CASE q = p
    <2>1. (\A x \in Day : made[p][x].n = 0) /\ \A d \in Nat : ~InHand(p, d)
      BY <1>0 DEF Chained
    <2>2. byHand[p] = NoDay
      BY <1>0, <2>1 DEF InHand, RunTypes
    <2>3. \A d \in Nat : InHand(p, d)' => d = after
      BY <1>3, <1>4, <2>1 DEF InHand, Exists, NoDay
    <2>4. \A x \in Day : made[p][x].n <= 1 /\ (made[p][x].n > 0 => x < start)
      BY <2>1
    <2>5. byHand'[p] # NoDay => \A s \in Session : tick'[s].plan # p
      BY <1>3, <2>2
    <2> QED BY <1>0, <1>1, <1>4, <1>6, <2>3, <2>4, <2>5, FreshWritten DEF after
  <1> QED BY <1>5, <1>6

LEMMA PauseKeepsFresh ==
  ASSUME RunTypes, NEW p \in Plan, NEW b \in BOOLEAN, SetPaused(p, b), NEW q \in Plan, Fresh(q)
  PROVE  Fresh(q)'
  <1>0. plan[p] \in [there : BOOLEAN, paused : BOOLEAN, next : Nat] /\ plan[q] \in [there : BOOLEAN, paused : BOOLEAN, next : Nat]
    BY DEF RunTypes
  <1> DEFINE new == [plan[p] EXCEPT !.paused = b]
  <1>1. new.there = plan[p].there /\ new.next = plan[p].next
    BY <1>0
  <1>2. plan' = [plan EXCEPT ![p] = new] /\ UNCHANGED <<made, byHand, tick>>
    BY <1>0 DEF SetPaused, tickVars, RunTypes
  <1> HIDE DEF new
  <1>3. plan'[q].there = plan[q].there /\ plan'[q].next = plan[q].next
    BY <1>1, <1>2 DEF RunTypes
  <1>4. \A d \in Nat : InHand(q, d)' => InHand(q, d)
    BY <1>2, <1>3 DEF InHand, Exists, NoDay
  <1>5. byHand'[q] # NoDay => \A s \in Session : tick'[s].plan # q
    BY <1>2 DEF Fresh
  <1> QED BY <1>2, <1>3, <1>4, <1>5, FreshKept

LEMMA BeginKeepsFresh ==
  ASSUME RunTypes, Beside = FALSE, NEW p \in Plan, BeginByHand(p), NEW q \in Plan, Fresh(q)
  PROVE  Fresh(q)'
  <1>0. Exists(p) /\ \A s \in Session : tick[s].plan # p
    BY DEF BeginByHand
  <1>1. byHand' = [byHand EXCEPT ![p] = plan[p].next] /\ UNCHANGED <<plan, made, tick>>
    BY DEF BeginByHand, tickVars
  <1>2. byHand'[p] = plan[p].next /\ \A r \in Plan : r # p => byHand'[r] = byHand[r]
    BY <1>1 DEF RunTypes
  <1>3. \A d \in Nat : InHand(q, d)' => InHand(q, d)
    BY <1>0, <1>1, <1>2 DEF InHand, Exists, NoDay
  <1>4. byHand'[q] # NoDay => \A s \in Session : tick'[s].plan # q
    BY <1>0, <1>1, <1>2 DEF Fresh
  <1> QED BY <1>1, <1>3, <1>4, FreshKept

(* Somebody who is alone with a plan writes from its next date.              *)
LEMMA WriteKeepsFresh ==
  ASSUME RunTypes, NEW p \in Plan, Fresh(p), NEW r \in Nat, InHand(p, r), NEW n \in Nat, NEW carried \in BOOLEAN,
         made' = With(p, r, n, carried), plan' = [plan EXCEPT ![p].next = After(p, r, n)],
         byHand'[p] = NoDay, \A t \in Session : tick'[t].plan # p
  PROVE  Fresh(p)'
  <1> DEFINE after == After(p, r, n)
  <1>1. after \in Nat
    BY AfterSteps
  <1>2. plan' = [plan EXCEPT ![p].next = after]
    OBVIOUS
  <1>3. r = plan[p].next
    BY DEF Fresh
  <1>4. \A x \in Day : made[p][x].n <= 1 /\ (made[p][x].n > 0 => x < r)
    BY <1>3 DEF Fresh
  <1> HIDE DEF after
  <1>5. plan'[p].next = after
    BY <1>1, <1>2, NextSet
  <1>6. \A d \in Nat : InHand(p, d)' => d = after
    BY <1>5 DEF InHand, Exists, NoDay
  <1> QED BY <1>4, <1>5, <1>6, FreshWritten DEF after

LEMMA ByHandKeepsFresh ==
  ASSUME RunTypes, NEW p \in Plan, GenerateByHand(p), NEW q \in Plan, Fresh(p), Fresh(q)
  PROVE  Fresh(q)'
  <1>0. byHand[p] \in Nat /\ NoDay \in Nat /\ byHand[p] # NoDay
    BY RecurrenceAssumption DEF RunTypes, NoDay, GenerateByHand
  <1>1. PICK r \in Nat, c \in BOOLEAN : /\ r = byHand[p] /\ made' = With(p, r, 1, c)
                                       /\ plan' = [plan EXCEPT ![p].next = After(p, r, 1)]
    BY <1>0 DEF GenerateByHand
  <1>2. byHand' = [byHand EXCEPT ![p] = NoDay] /\ tick' = tick
    BY DEF GenerateByHand, tickVars
  <1>3. byHand'[p] = NoDay /\ \A i \in Plan : i # p => byHand'[i] = byHand[i]
    BY <1>0, <1>2 DEF RunTypes
  <1>4. CASE q = p
    <2>1. InHand(p, r) /\ \A t \in Session : tick'[t].plan # p
      BY <1>0, <1>1, <1>2 DEF InHand, Fresh
    <2> QED BY <1>1, <1>3, <1>4, <2>1, WriteKeepsFresh
  <1>5. CASE q # p
    <2>1. made'[q] = made[q]
      BY <1>1, <1>5, WithWritten
    <2>2. After(p, r, 1) \in Nat
      BY AfterSteps
    <2>3. plan'[q] = plan[q]
      BY <1>1, <1>5, <2>2, NextSet
    <2> QED BY <1>2, <1>3, <1>5, <2>1, <2>3, FreshElsewhere
  <1> QED BY <1>4, <1>5

LEMMA RoundKeepsFresh ==
  ASSUME RunTypes, Exclusive, NEW s \in Session, WritePlan(s), NEW q \in Plan, \A p \in Plan : Fresh(p)
  PROVE  Fresh(q)'
  <1>0. tick[s] \in Ticks /\ tick[s].plan # NoOne
    BY DEF RunTypes, WritePlan
  <1>1. PICK p \in Plan, r \in Nat : p = tick[s].plan /\ r = tick[s].next
    BY <1>0 DEF Ticks
  <1>2. PICK n \in Nat : n = Least(Missed(p, r), CatchUp)
    BY CountedMissed
  <1>3. PICK c \in BOOLEAN : made' = With(p, r, n, c)
    BY <1>1, <1>2 DEF WritePlan
  <1>4. plan' = [plan EXCEPT ![p].next = After(p, r, n)]
    BY <1>1, <1>2 DEF WritePlan, Onwards
  <1>5. tick' = [tick EXCEPT ![s].plan = NoOne, ![s].next = NoDay] /\ byHand' = byHand
    BY DEF WritePlan
  <1>6. (\A t \in Session : t # s => tick'[t] = tick[t]) /\ tick'[s].plan = NoOne
    BY <1>5, RoundPutDown
  <1>7. NoOne \notin Plan
    BY RecurrenceAssumption
  <1>8. CASE q = p
    <2>1. InHand(p, r) /\ byHand[p] = NoDay
      BY <1>1 DEF InHand, Fresh
    <2>2. \A t \in Session : tick'[t].plan # p
      BY <1>1, <1>6, <1>7 DEF Exclusive
    <2>3. Fresh(p)
      OBVIOUS
    <2> QED BY <1>3, <1>4, <1>5, <1>8, <2>1, <2>2, <2>3, WriteKeepsFresh
  <1>9. CASE q # p
    <2>1. made'[q] = made[q]
      BY <1>3, <1>9, WithWritten
    <2>2. After(p, r, n) \in Nat
      BY AfterSteps
    <2>3. plan'[q] = plan[q]
      BY <1>4, <1>9, <2>2, NextSet
    <2>4. Fresh(q)
      OBVIOUS
    <2>5. \A t \in Session : tick'[t].plan = q => tick[t].plan = q /\ tick'[t].next = tick[t].next
      BY <1>6, <1>7
    <2>6. byHand'[q] = byHand[q]
      BY <1>5
    <2> QED BY <2>1, <2>3, <2>4, <2>5, <2>6, FreshElsewhere
  <1> QED BY <1>8, <1>9

LEMMA OnceStarts == RecurrenceInit => OnceInv
  <1> SUFFICES ASSUME RecurrenceInit PROVE OnceInv
    OBVIOUS
  <1>1. ChainInv
    BY ChainStarts
  <1>2. NoDay \in Nat
    BY RecurrenceAssumption DEF NoDay
  <1>3. /\ \A p \in Plan : plan[p] = NoPlan /\ byHand[p] = NoDay /\ \A x \in Day : made[p][x] = Nothing
        /\ \A s \in Session : tick[s] = Resting
        /\ holder = NoOne /\ failures = 0 /\ held = [i \in Process |-> NoOne]
    BY DEF RecurrenceInit
  <1>4. LockInv
    BY <1>3, AtRest DEF LockInv, Exclusive
  <1>5. NoOne \notin Plan /\ NoPlan.there = FALSE /\ Nothing.n = 0
    BY RecurrenceAssumption DEF NoPlan, Nothing
  <1>6. ASSUME NEW p \in Plan PROVE Fresh(p)
    <2>1. ~Exists(p) /\ byHand[p] = NoDay /\ \A s \in Session : tick[s].plan # p
      BY <1>3, <1>5, AtRest DEF Exists
    <2>2. \A d \in Nat : ~InHand(p, d)
      BY <2>1 DEF InHand
    <2>3. \A x \in Day : made[p][x].n = 0
      BY <1>3, <1>5
    <2> QED BY <2>1, <2>2, <2>3 DEF Fresh
  <1> QED BY <1>1, <1>4, <1>6 DEF OnceInv

LEMMA OnceHolds == ASSUME Beside = FALSE PROVE OnceInv /\ [RecurrenceNext]_rvars => OnceInv'
  <1> SUFFICES ASSUME OnceInv, [RecurrenceNext]_rvars PROVE OnceInv'
    OBVIOUS
  <1>1. ChainInv' /\ ChainInv /\ RunTypes /\ LockInv
    BY ChainHolds DEF OnceInv, ChainInv
  <1>2. ASSUME UNCHANGED <<plan, made, byHand, tick>> PROVE \A p \in Plan : Fresh(p) => Fresh(p)'
    BY <1>2, FreshElsewhere
  <1>3. ASSUME UNCHANGED <<tick, holder, held, failures>> PROVE LockInv'
    BY <1>1, <1>3, LockKept
  <1>4. CASE NextDay \/ UNCHANGED rvars \/ \E i \in Process : ComeUp(i)
    <2>1. UNCHANGED <<plan, made, byHand, tick, holder, held, failures>>
      BY <1>4 DEF NextDay, ComeUp, rvars, planVars, tickVars, faultVars
    <2> QED BY <1>1, <1>2, <1>3, <2>1 DEF OnceInv
  <1>5. ASSUME NEW p \in Plan,
               \/ \E start \in Starts, n \in Ahead : CreatePlan(p, start, n)
               \/ \E b \in BOOLEAN : SetPaused(p, b)
               \/ BeginByHand(p) \/ GenerateByHand(p)
        PROVE  OnceInv'
    <2>1. UNCHANGED <<tick, holder, held, failures>>
      BY <1>5 DEF CreatePlan, SetPaused, BeginByHand, GenerateByHand, tickVars, faultVars
    <2>2. ASSUME failures = 0, NEW q \in Plan PROVE Fresh(q)'
      <3>1. Fresh(p) /\ Fresh(q)
        BY <2>2 DEF OnceInv
      <3> QED BY <1>1, <1>5, <3>1, CreateKeepsFresh, PauseKeepsFresh, BeginKeepsFresh, ByHandKeepsFresh
    <2> QED BY <1>1, <1>3, <2>1, <2>2 DEF OnceInv
  <1>6. ASSUME NEW s \in Session, StartTick(s) \/ Round(s) \/ LetThrough(s) \/ SkipPlan(s) PROVE OnceInv'
    <2>1. LockInv'
      BY <1>1, <1>6, TickKeepsLock
    <2>2. ASSUME failures' = 0, NEW q \in Plan PROVE Fresh(q)'
      <3>1. ~LetThrough(s) /\ ~SkipPlan(s) /\ failures = 0
        <4>1. LetThrough(s) \/ SkipPlan(s) => failures' = failures + 1
          BY DEF LetThrough, SkipPlan
        <4>2. StartTick(s) \/ Round(s) => failures' = failures
          BY DEF StartTick, Round, Granted, Refused, WritePlan, EndTick, Unlock, ReadPlan, faultVars
        <4> QED BY <1>1, <1>6, <2>2, <4>1, <4>2 DEF LockInv
      <3>2. Exclusive /\ Fresh(q) /\ \A p \in Plan : Fresh(p)
        BY <1>1, <3>1 DEF OnceInv, LockInv
      <3>3. CASE WritePlan(s)
        BY <1>1, <3>2, <3>3, RoundKeepsFresh
      <3>4. CASE ~WritePlan(s)
        BY <1>1, <1>6, <3>1, <3>2, <3>4, TickKeepsFresh DEF Round
      <3> QED BY <3>3, <3>4
    <2> QED BY <1>1, <2>1, <2>2 DEF OnceInv
  <1>7. ASSUME NEW i \in Process, GoDown(i) PROVE OnceInv'
    <2>1. LockInv'
      BY <1>1, <1>7, DownKeepsLock
    <2>2. /\ UNCHANGED planVars /\ failures' = failures
          /\ tick' = [s \in Session |-> IF Home[s] = i THEN Resting ELSE tick[s]]
      BY <1>7 DEF GoDown
    <2>3. (\A t \in Session : tick'[t] = Resting \/ tick'[t] = tick[t]) /\ NoOne \notin Plan
      BY <2>2, RecurrenceAssumption
    <2>4. \A q \in Plan : Fresh(q) => Fresh(q)'
      BY <2>2, <2>3, AtRest, RoundsKeepFresh
    <2> QED BY <1>1, <2>1, <2>2, <2>4 DEF OnceInv
  <1> QED BY <1>4, <1>5, <1>6, <1>7 DEF RecurrenceNext

(* NoneTwice: for any plans, processes, sessions, crashes and failures, if   *)
(* no occurrence is generated by hand beside a round that has read the same  *)
(* plan: nothing locks a plan between reading and writing it.                *)
THEOREM GeneratedOnce == ASSUME Beside = FALSE PROVE RecurrenceSpec => []NoneTwice
  <1>1. OnceInv => NoneTwice
    BY DEF OnceInv, Fresh, NoneTwice
  <1> QED BY OnceStarts, OnceHolds, <1>1, PTL DEF RecurrenceSpec
----------------------------------------------------------------------------
(* The calendar.                                                             *)
(* Who has read a date has read one that has come, or one that is looked at. *)
Dated ==
  /\ today \in Day
  /\ \A p \in Plan : byHand[p] \in Day \cup {NoDay}
  /\ \A s \in Session : tick[s].plan # NoOne => tick[s].next \in Nat /\ tick[s].next <= today
CalendarInv == ChainInv /\ Dated /\ failures \in Nat /\ (Beside = FALSE => OnceInv)

LEMMA DatedKept ==
  ASSUME Dated, today' = today, \A p \in Plan : byHand'[p] \in {byHand[p], NoDay} \cup Day,
         \A s \in Session : \/ tick'[s].plan = NoOne
                            \/ tick'[s].next \in Nat /\ tick'[s].next <= today
                            \/ tick'[s].plan = tick[s].plan /\ tick'[s].next = tick[s].next
  PROVE  Dated'
  BY DEF Dated, Day, NoDay

LEMMA DatedStarts == RecurrenceInit => Dated
  BY AtRest, RecurrenceAssumption DEF RecurrenceInit, Dated, Day

LEMMA TickKeepsDated ==
  ASSUME RunTypes, Dated, NEW s \in Session, StartTick(s) \/ Round(s) \/ LetThrough(s) \/ SkipPlan(s)
  PROVE  Dated'
  <1>0. today' = today /\ byHand' = byHand
    BY DEF StartTick, Round, Granted, Refused, WritePlan, EndTick, Unlock, ReadPlan, LetThrough, SkipPlan, planVars
  <1>1. CASE StartTick(s) \/ EndTick(s)
    <2>1. PICK c \in {"asking", "unlocking"} : tick' = [tick EXCEPT ![s].pc = c]
      BY <1>1 DEF StartTick, EndTick
    <2>2. /\ \A t \in Session : t # s => tick'[t] = tick[t]
          /\ tick'[s].plan = tick[s].plan /\ tick'[s].next = tick[s].next
      BY <2>1, PhaseSet
    <2> QED BY <1>0, <2>2, DatedKept
  <1>2. CASE Granted(s) \/ LetThrough(s)
    <2>1. Started(s)
      BY <1>2 DEF Granted, LetThrough
    <2>2. /\ \A t \in Session : t # s => tick'[t] = tick[t]
          /\ tick'[s].plan = tick[s].plan /\ tick'[s].next = tick[s].next
      BY <2>1, RoundStarted
    <2> QED BY <1>0, <2>2, DatedKept
  <1>3. CASE Refused(s) \/ Unlock(s)
    <2>1. tick' = [tick EXCEPT ![s] = Resting]
      BY <1>3 DEF Refused, Unlock
    <2>2. tick'[s] = Resting /\ \A t \in Session : t # s => tick'[t] = tick[t]
      BY <2>1, AtRest, TickTwice
    <2> QED BY <1>0, <2>2, AtRest, DatedKept
  <1>4. CASE SkipPlan(s) \/ WritePlan(s)
    <2>1. tick' = [tick EXCEPT ![s].plan = NoOne, ![s].next = NoDay]
      BY <1>4 DEF SkipPlan, WritePlan
    <2>2. tick'[s].plan = NoOne /\ \A t \in Session : t # s => tick'[t] = tick[t]
      BY <2>1, RoundPutDown
    <2> QED BY <1>0, <2>2, DatedKept
  <1>5. CASE \E p \in Plan : ReadPlan(s, p)
    <2> PICK p \in Plan : ReadPlan(s, p)
      BY <1>5
    <2>1. /\ \A t \in Session : t # s => tick'[t] = tick[t]
          /\ IF Due(p) THEN tick'[s].plan = p /\ tick'[s].next = plan[p].next ELSE tick'[s].plan = NoOne
      BY RoundReads
    <2>2. Due(p) => plan[p].next \in Nat /\ plan[p].next <= today
      BY DEF Due, RunTypes
    <2> QED BY <1>0, <2>1, <2>2, DatedKept
  <1> QED BY <1>1, <1>2, <1>3, <1>4, <1>5 DEF Round

LEMMA DatedHolds == RunTypes /\ Dated /\ [RecurrenceNext]_rvars => Dated'
  <1> SUFFICES ASSUME RunTypes, Dated, [RecurrenceNext]_rvars PROVE Dated'
    OBVIOUS
  <1>1. CASE NextDay
    <2>1. today < Horizon /\ today' = today + 1 /\ byHand' = byHand /\ tick' = tick
      BY <1>1 DEF NextDay, tickVars
    <2>2. today \in Nat /\ Horizon \in Nat
      BY RecurrenceAssumption DEF RunTypes
    <2>3. today' \in Day
      BY <2>1, <2>2 DEF Day
    <2>4. \A t \in Nat : t <= today => t <= today'
      BY <2>1, <2>2
    <2> QED BY <2>1, <2>3, <2>4 DEF Dated, Day, NoDay
  <1>2. CASE UNCHANGED rvars \/ \E i \in Process : ComeUp(i)
    <2>1. UNCHANGED <<today, byHand, tick>>
      BY <1>2 DEF ComeUp, rvars, planVars, tickVars
    <2> QED BY <2>1, DatedKept
  <1>3. ASSUME NEW p \in Plan,
               \/ \E start \in Starts, n \in Ahead : CreatePlan(p, start, n)
               \/ \E b \in BOOLEAN : SetPaused(p, b)
        PROVE  Dated'
    <2>1. UNCHANGED <<today, byHand, tick>>
      BY <1>3 DEF CreatePlan, SetPaused, tickVars
    <2> QED BY <2>1, DatedKept
  <1>4. ASSUME NEW p \in Plan, BeginByHand(p) \/ GenerateByHand(p) PROVE Dated'
    <2>1. today' = today /\ tick' = tick /\ byHand \in [Plan -> Nat]
      BY <1>4 DEF BeginByHand, GenerateByHand, tickVars, RunTypes
    <2>2. BeginByHand(p) => plan[p].next \in Day /\ byHand' = [byHand EXCEPT ![p] = plan[p].next]
      BY DEF BeginByHand
    <2>3. GenerateByHand(p) => byHand' = [byHand EXCEPT ![p] = NoDay]
      BY DEF GenerateByHand
    <2>4. \A q \in Plan : byHand'[q] \in {byHand[q], NoDay} \cup Day
      BY <1>4, <2>1, <2>2, <2>3
    <2> QED BY <2>1, <2>4, DatedKept
  <1>5. ASSUME NEW i \in Process, GoDown(i) PROVE Dated'
    <2>1. /\ today' = today /\ byHand' = byHand
          /\ tick' = [s \in Session |-> IF Home[s] = i THEN Resting ELSE tick[s]]
      BY <1>5 DEF GoDown, planVars
    <2> QED BY <2>1, AtRest, DatedKept
  <1> QED BY <1>1, <1>2, <1>3, <1>4, <1>5, TickKeepsDated DEF RecurrenceNext

LEMMA CalendarHolds ==
  /\ RecurrenceInit => CalendarInv
  /\ CalendarInv /\ [RecurrenceNext]_rvars => CalendarInv'
  <1>1. RecurrenceInit => failures \in Nat
    BY DEF RecurrenceInit
  <1>2. RecurrenceInit => CalendarInv
    BY <1>1, ChainStarts, DatedStarts, OnceStarts DEF CalendarInv
  <1>3. [RecurrenceNext]_rvars => failures' \in {failures, failures + 1}
    BY DEF RecurrenceNext, Round, NextDay, CreatePlan, SetPaused, BeginByHand, GenerateByHand, StartTick, Granted, Refused,
           LetThrough, ReadPlan, WritePlan, SkipPlan, EndTick, Unlock, ComeUp, GoDown, rvars, faultVars
  <1>4. CalendarInv /\ [RecurrenceNext]_rvars => CalendarInv'
    <2> SUFFICES ASSUME CalendarInv, [RecurrenceNext]_rvars PROVE CalendarInv'
      OBVIOUS
    <2>1. ChainInv /\ RunTypes /\ Dated /\ failures \in Nat
      BY DEF CalendarInv, ChainInv
    <2>2. failures' \in Nat
      BY <1>3, <2>1
    <2>3. Beside = FALSE => OnceInv'
      BY OnceHolds DEF CalendarInv
    <2> QED BY <2>1, <2>2, <2>3, ChainHolds, DatedHolds DEF CalendarInv
  <1> QED BY <1>2, <1>4

(* Nothing is written.                                                       *)
LEMMA CalendarKept ==
  ASSUME \A q \in Plan : /\ Exists(q)' = Exists(q) /\ plan'[q].next = plan[q].next
                         /\ \A x \in Day : made'[q][x].n = made[q][x].n
  PROVE  NextDates' = NextDates /\ TasksOn' = TasksOn
  <1>1. {q \in Plan : Exists(q)}' = {q \in Plan : Exists(q)}
    OBVIOUS
  <1>2. NextDates' = NextDates
    BY <1>1 DEF NextDates
  <1>3. TasksOn' = TasksOn
    BY DEF TasksOn, Day
  <1> QED BY <1>2, <1>3

(* n occurrences of one plan are written from d on.                          *)
LEMMA CalendarWritten ==
  ASSUME RunTypes, NEW p \in Plan, NEW d \in Nat, NEW n \in Nat, NEW carried \in BOOLEAN,
         made' = With(p, d, n, carried), Exists(p)', plan'[p].next = After(p, d, n),
         \A q \in Plan : q # p => plan'[q] = plan[q], failures' = failures
  PROVE  Dates!Written(p, d, n)
  <1>1. Answering' = Answering
    BY DEF Answering
  <1>2. TasksOn' = [TasksOn EXCEPT ![p] = [x \in Day |-> @[x] + IF x \in Dates!InRow(p, d, n) THEN 1 ELSE 0]]
    <2>1. \A x \in Day : made'[p][x].n = made[p][x].n + IF x \in Dates!InRow(p, d, n) THEN 1 ELSE 0
      BY WithWritten DEF Dates!InRow, After
    <2>2. \A q \in Plan : q # p => made'[q] = made[q]
      BY WithWritten
    <2> DEFINE row == Dates!InRow(p, d, n)
    <2> HIDE DEF row
    <2>3. \A x \in Day : made'[p][x].n = made[p][x].n + IF x \in row THEN 1 ELSE 0
      BY <2>1 DEF row
    <2>4. TasksOn' = [q \in Plan |-> [x \in Day |-> made'[q][x].n]]
      BY DEF TasksOn, Day
    <2>5. \A q \in Plan : TasksOn[q] = [x \in Day |-> made[q][x].n]
      BY DEF TasksOn
    <2>6. [x \in Day |-> made'[p][x].n] = [x \in Day |-> TasksOn[p][x] + IF x \in row THEN 1 ELSE 0]
      BY <2>3, <2>5
    <2>7. TasksOn' = [q \in Plan |-> IF q = p THEN [x \in Day |-> TasksOn[p][x] + IF x \in row THEN 1 ELSE 0] ELSE TasksOn[q]]
      <3> DEFINE filled == [x \in Day |-> TasksOn[p][x] + IF x \in row THEN 1 ELSE 0]
                 count(q) == [x \in Day |-> made'[q][x].n]
      <3>1. count(p) = filled
        BY <2>6
      <3>2. \A q \in Plan : q # p => count(q) = TasksOn[q]
        BY <2>2, <2>5
      <3>3. TasksOn' = [q \in Plan |-> count(q)]
        BY <2>4
      <3> HIDE DEF filled, count
      <3>4. TasksOn' = [q \in Plan |-> IF q = p THEN filled ELSE TasksOn[q]]
        BY <3>1, <3>2, <3>3
      <3> QED BY <3>4 DEF filled
    <2>8. TasksOn' = [TasksOn EXCEPT ![p] = [x \in Day |-> TasksOn[p][x] + IF x \in row THEN 1 ELSE 0]]
      <3>1. TasksOn = [q \in Plan |-> TasksOn[q]]
        BY DEF TasksOn
      <3> QED BY <2>7, <3>1
    <2> QED BY <2>8 DEF row
  <1>3. NextDates' = [q \in DOMAIN NextDates \cup {p} |-> IF q = p THEN d + n * Interval[p] ELSE NextDates[q]]
    <2>1. DOMAIN NextDates = {q \in Plan : Exists(q)}
      BY DEF NextDates
    <2>2. {q \in Plan : Exists(q)}' = DOMAIN NextDates \cup {p}
      BY <2>1 DEF Exists
    <2>3. NextDates' = [q \in DOMAIN NextDates \cup {p} |-> plan'[q].next]
      BY <2>2 DEF NextDates
    <2>4. \A q \in DOMAIN NextDates \cup {p} :
             plan'[q].next = IF q = p THEN d + n * Interval[p] ELSE NextDates[q]
      BY <2>1 DEF NextDates, After
    <2> QED BY <2>3, <2>4
  <1> QED BY <1>1, <1>2, <1>3 DEF Dates!Written

(* A date in hand is one the plan has reached.                               *)
LEMMA InHandReached == ASSUME ChainInv, NEW p \in Plan, NEW d \in Day, InHand(p, d) PROVE d \in Dates!Reached(p)
  <1>0. d \in Nat /\ RunTypes /\ TasksOn[p] = [x \in Day |-> made[p][x].n]
    BY RecurrenceAssumption DEF Day, ChainInv, TasksOn
  <1>1. Exists(p)
    BY <1>0 DEF ChainInv, Chained
  <1> PICK start \in Nat, m \in Nat \ {0} : Chain(p, start, m)
    BY <1>1 DEF ChainInv, Chained
  <1>2. PICK j \in 0..m : d = After(p, start, j)
    BY <1>0 DEF Chain
  <1>3. CASE j < m
    <2>1. made[p][d].n > 0
      BY <1>2, <1>3 DEF Chain
    <2> QED BY <1>0, <2>1 DEF Dates!Reached
  <1>4. CASE j = m
    <2> DEFINE e == After(p, start, m - 1)
    <2>1. m - 1 \in Nat /\ m - 1 < m /\ (m - 1) + 1 = m
      OBVIOUS
    <2>2. e \in Nat /\ After(p, e, 1) = d /\ e < d
      <3>1. m \in Nat /\ d = After(p, start, m)
        BY <1>2, <1>4
      <3>2. e \in Nat
        BY <2>1, AfterSteps
      <3>3. After(p, e, 1) = After(p, start, (m - 1) + 1)
        BY <2>1, AfterSteps
      <3>4. e < After(p, start, m)
        BY <2>1, <3>1, AfterSteps
      <3> HIDE DEF e
      <3> QED BY <2>1, <3>1, <3>2, <3>3, <3>4
    <2>3. e \in Day
      BY <1>0, <2>2, RecurrenceAssumption DEF Day
    <2>4. made[p][e].n > 0
      BY <2>1, <2>3 DEF Chain
    <2>5. d = e + Interval[p]
      <3> HIDE DEF e
      <3>1. Interval[p] \in Nat
        BY RecurrenceAssumption
      <3> QED BY <2>2, <3>1 DEF After
    <2> HIDE DEF e
    <2> QED BY <1>0, <2>3, <2>4, <2>5 DEF Dates!Reached
  <1> QED BY <1>2, <1>3, <1>4

(* Somebody writes from a date in hand.                                      *)
LEMMA WriterGoesOn ==
  ASSUME CalendarInv, NEW p \in Plan, NEW d \in Day, InHand(p, d), NEW n \in 1..CatchUp, NEW carried \in BOOLEAN,
         made' = With(p, d, n, carried), plan' = [plan EXCEPT ![p].next = After(p, d, n)], failures' = failures
  PROVE  Dates!GoOn(p, d, n)
  <1>0. ChainInv /\ RunTypes /\ d \in Nat /\ n \in Nat
    BY RecurrenceAssumption DEF CalendarInv, ChainInv, Day
  <1>1. Exists(p)
    BY <1>0 DEF ChainInv, Chained
  <1>2. d \in Dates!Reached(p)
    BY <1>0, InHandReached
  <1>3. Answering => d = plan[p].next
    BY <1>0 DEF Answering, CalendarInv, OnceInv, Fresh
  <1>4. p \in DOMAIN NextDates /\ NextDates[p] = plan[p].next
    BY <1>1 DEF NextDates
  <1> DEFINE after == After(p, d, n)
  <1>5. after \in Nat
    BY <1>0, AfterSteps
  <1>6. plan' = [plan EXCEPT ![p].next = after]
    OBVIOUS
  <1> HIDE DEF after
  <1>7. plan'[p].next = after /\ plan'[p].there = plan[p].there /\ \A q \in Plan : q # p => plan'[q] = plan[q]
    BY <1>0, <1>5, <1>6, NextSet
  <1>8. Exists(p)'
    BY <1>1, <1>7 DEF Exists
  <1>9. Dates!Written(p, d, n)
    BY <1>0, <1>7, <1>8, CalendarWritten DEF after
  <1> QED BY <1>2, <1>3, <1>4, <1>9 DEF Dates!GoOn

LEMMA CreatorBegins ==
  ASSUME CalendarInv, NEW p \in Plan, NEW start \in Starts, NEW n \in Ahead, CreatePlan(p, start, n)
  PROVE  Dates!Begin(p, start, n)
  <1>0. RunTypes /\ start \in Nat /\ n \in Nat /\ ~Exists(p)
    BY RecurrenceAssumption DEF CalendarInv, ChainInv, CreatePlan
  <1>1. PICK c \in BOOLEAN : made' = With(p, start, n, c)
    BY DEF CreatePlan
  <1> DEFINE after == After(p, start, n)
  <1>2. /\ plan' = [plan EXCEPT ![p] = [there |-> TRUE, paused |-> FALSE, next |-> after]]
        /\ failures' = failures
    BY DEF CreatePlan, faultVars
  <1> HIDE DEF after
  <1>3. plan'[p].next = after /\ plan'[p].there = TRUE /\ \A q \in Plan : q # p => plan'[q] = plan[q]
    BY <1>0, <1>2 DEF RunTypes
  <1>4. Exists(p)'
    BY <1>3 DEF Exists
  <1>5. Dates!Written(p, start, n)
    BY <1>0, <1>1, <1>2, <1>3, <1>4, CalendarWritten DEF after
  <1>6. p \notin DOMAIN NextDates
    BY <1>0 DEF NextDates
  <1> QED BY <1>5, <1>6 DEF Dates!Begin

(* At least the occurrence that was read has come due.                       *)
LEMMA SomeMissed ==
  ASSUME RunTypes, NEW p \in Plan, NEW d \in Nat, d <= today
  PROVE  Least(Missed(p, d), CatchUp) \in 1..CatchUp
  <1> DEFINE due == {k \in 0..Horizon : After(p, d, k) <= today}
  <1>1. Horizon \in Nat /\ CatchUp \in Nat /\ CatchUp > 0
    BY RecurrenceAssumption
  <1>2. IsFiniteSet(0..Horizon)
    BY <1>1, FS_Interval
  <1>3. IsFiniteSet(due)
    BY <1>2, FS_Subset
  <1>4. 0 \in due
    BY <1>1, AfterSteps
  <1> HIDE DEF due
  <1>5. Cardinality(due) \in Nat /\ Cardinality(due) # 0
    BY <1>3, <1>4, FS_CardinalityType, FS_EmptySet
  <1>6. Missed(p, d) = Cardinality(due)
    BY DEF Missed, due
  <1> QED BY <1>1, <1>5, <1>6 DEF Least

(* The tables implement Calendar, for any plans, intervals, processes,       *)
(* sessions and faults, whoever writes beside whom.                          *)
THEOREM PlansAreACalendar == RecurrenceSpec => ImplementsCalendar
  <1>1. RecurrenceInit => Dates!Init
    <2> SUFFICES ASSUME RecurrenceInit PROVE Dates!Init
      OBVIOUS
    <2>1. NoPlan.there = FALSE /\ Nothing.n = 0
      BY DEF NoPlan, Nothing
    <2>2. \A p \in Plan : ~Exists(p)
      BY <2>1 DEF RecurrenceInit, Exists
    <2>3. NextDates = [p \in {} |-> 0]
      BY <2>2 DEF NextDates
    <2>4. TasksOn = [p \in Plan |-> [d \in Day |-> 0]]
      BY <2>1 DEF RecurrenceInit, TasksOn
    <2>5. Answering \in BOOLEAN
      BY DEF Answering
    <2> QED BY <2>3, <2>4, <2>5 DEF Dates!Init
  <1> DEFINE still == NextDates' = NextDates /\ TasksOn' = TasksOn /\ Answering' = Answering
  <1>2. CalendarInv /\ [RecurrenceNext]_rvars => Dates!Next \/ still
    <2> SUFFICES ASSUME CalendarInv, [RecurrenceNext]_rvars PROVE Dates!Next \/ still
      OBVIOUS
    <2>0. ChainInv /\ RunTypes /\ Dated /\ failures \in Nat
      BY DEF CalendarInv, ChainInv
    <2>1. ASSUME UNCHANGED <<plan, made>>, failures' \in {failures, failures + 1} PROVE Dates!Next \/ still
      <3>1. NextDates' = NextDates /\ TasksOn' = TasksOn
        BY <2>1, CalendarKept DEF Exists
      <3>2. Answering' = Answering \/ (Answering /\ Answering' = FALSE)
        BY <2>0, <2>1 DEF Answering
      <3> QED BY <3>1, <3>2 DEF Dates!Next, Dates!Disturb
    <2>2. CASE NextDay \/ UNCHANGED rvars \/ \E i \in Process : ComeUp(i) \/ GoDown(i)
      <3>1. UNCHANGED <<plan, made>> /\ failures' = failures
        BY <2>2 DEF NextDay, ComeUp, GoDown, rvars, planVars, faultVars
      <3> QED BY <2>1, <3>1
    <2>3. ASSUME NEW p \in Plan, NEW start \in Starts, NEW n \in Ahead, CreatePlan(p, start, n) PROVE Dates!Next
      BY <2>3, CreatorBegins DEF Dates!Next
    <2>4. ASSUME NEW p \in Plan, NEW b \in BOOLEAN, SetPaused(p, b) PROVE still
      <3> DEFINE new == [plan[p] EXCEPT !.paused = b]
      <3>1. plan[p] \in [there : BOOLEAN, paused : BOOLEAN, next : Nat] /\ plan' = [plan EXCEPT ![p] = new]
        BY <2>0, <2>4 DEF RunTypes, SetPaused
      <3>2. new.there = plan[p].there /\ new.next = plan[p].next
        BY <3>1
      <3> HIDE DEF new
      <3>3. \A q \in Plan : plan'[q].there = plan[q].there /\ plan'[q].next = plan[q].next
        BY <2>0, <3>1, <3>2 DEF RunTypes
      <3>4. made' = made /\ failures' = failures
        BY <2>4 DEF SetPaused, faultVars
      <3>5. \A q \in Plan : /\ Exists(q)' = Exists(q) /\ plan'[q].next = plan[q].next
                            /\ \A x \in Day : made'[q][x].n = made[q][x].n
        BY <3>3, <3>4 DEF Exists
      <3> QED BY <3>4, <3>5, CalendarKept DEF Answering
    <2>5. ASSUME NEW p \in Plan, BeginByHand(p) PROVE Dates!Next \/ still
      <3>1. UNCHANGED <<plan, made>> /\ failures' = failures
        BY <2>5 DEF BeginByHand, faultVars
      <3> QED BY <2>1, <3>1
    <2>6. ASSUME NEW p \in Plan, GenerateByHand(p) PROVE Dates!Next
      <3>1. byHand[p] # NoDay /\ failures' = failures
        BY <2>6 DEF GenerateByHand, faultVars
      <3>2. PICK d \in Day : d = byHand[p]
        BY <2>0, <3>1 DEF Dated
      <3>3. InHand(p, d)
        BY <3>1, <3>2 DEF InHand
      <3>4. PICK c \in BOOLEAN : made' = With(p, d, 1, c)
        BY <2>6, <3>2 DEF GenerateByHand
      <3>5. plan' = [plan EXCEPT ![p].next = After(p, d, 1)]
        BY <2>6, <3>2 DEF GenerateByHand
      <3>6. 1 \in 1..CatchUp
        BY RecurrenceAssumption
      <3> QED BY <3>1, <3>3, <3>4, <3>5, <3>6, WriterGoesOn DEF Dates!Next
    <2>7. ASSUME NEW s \in Session, WritePlan(s) PROVE Dates!Next
      <3>0. tick[s] \in Ticks /\ tick[s].plan # NoOne /\ failures' = failures
        BY <2>0, <2>7 DEF RunTypes, WritePlan, faultVars
      <3>1. PICK p \in Plan, d \in Nat : p = tick[s].plan /\ d = tick[s].next
        BY <3>0 DEF Ticks
      <3>2. d <= today /\ d \in Day
        <4>1. d <= today /\ today <= Horizon /\ today \in Nat /\ Horizon \in Nat
          BY <2>0, <3>0, <3>1, RecurrenceAssumption DEF Dated, Day
        <4> QED BY <4>1 DEF Day
      <3>3. PICK n \in 1..CatchUp : n = Least(Missed(p, d), CatchUp)
        BY <2>0, <3>2, SomeMissed
      <3>4. PICK c \in BOOLEAN : made' = With(p, d, n, c)
        BY <2>7, <3>1, <3>3 DEF WritePlan
      <3>5. plan' = [plan EXCEPT ![p].next = After(p, d, n)]
        BY <2>7, <3>1, <3>3 DEF WritePlan, Onwards
      <3>6. InHand(p, d)
        BY <3>1 DEF InHand
      <3> QED BY <3>0, <3>2, <3>4, <3>5, <3>6, WriterGoesOn DEF Dates!Next
    <2>8. ASSUME NEW s \in Session, StartTick(s) \/ Round(s) \/ LetThrough(s) \/ SkipPlan(s), ~WritePlan(s)
          PROVE  Dates!Next \/ still
      <3>1. UNCHANGED <<plan, made>> /\ failures' \in {failures, failures + 1}
        BY <2>8 DEF StartTick, Round, Granted, Refused, EndTick, Unlock, ReadPlan, LetThrough, SkipPlan, planVars, faultVars
      <3> QED BY <2>1, <3>1
    <2> HIDE DEF still
    <2> QED BY <2>2, <2>3, <2>4, <2>5, <2>6, <2>7, <2>8 DEF RecurrenceNext, Round
  <1>3. CalendarInv /\ [RecurrenceNext]_rvars => [Dates!Next]_<<NextDates, TasksOn, Answering>>
    BY <1>2
  <1> QED BY <1>1, <1>3, CalendarHolds, PTL DEF RecurrenceSpec, ImplementsCalendar, Dates!Spec
==============================================================================
