------------------------------ MODULE Dispatching ------------------------------
(***************************************************************************)
(* Who gets a new order: the dispatch rules of a tenant and the algorithm  *)
(* over them (engine/dispatch.ts), the skills an order needs               *)
(* (engine/dispatch/needResolver.ts), and the tables both read, as they    *)
(* are edited (routes/config.ts, routes/faultCategory.ts,                  *)
(* routes/workers.ts).                                                     *)
(*                                                                         *)
(* A need and a rule say tags or say nothing; to say the empty set is to   *)
(* ask for no skill.                                                       *)
(***************************************************************************)
EXTENDS Naturals, Sequences, FiniteSets, SequencesExt

CONSTANTS
  Person, Skills,    \* workers and their skill_tags
  Score,             \* what the model makes of a worker
  Category,          \* fault categories
  Rules,             \* bodies a rule may be given
  Needs,             \* business type and priority that orders come with
  Tags,              \* sets of tags that may be named
  MaxRules, MaxLoad

Unsaid == [said |-> FALSE, tags |-> {}]
Says(ts) == [said |-> TRUE, tags |-> ts]
Whatever == "any"
Manual == 0

ASSUME DispatchingAssumption ==
  /\ Score \in [Person -> Nat \ {0}] /\ MaxRules \in Nat /\ MaxLoad \in Nat
  /\ \A rule \in Rules : rule.prio \in Nat /\ rule.on \in BOOLEAN /\ rule.known \in BOOLEAN

VARIABLES
  rules,    \* dispatch_rule, oldest first
  person,   \* worker: active, load
  cat       \* fault_category: enabled, skill_tags

dvars == <<rules, person, cat>>

(* What resolveNeed is given: a category by its code from the desk, by its   *)
(* id from a public report (publicReportCreate.ts:127, :245).                *)
Filing == [by : {"desk", "public"}, cat : Category \cup {Whatever}, skills : {Unsaid} \cup {Says(ts) : ts \in Tags}]
Key(f) == <<IF f.by = "desk" THEN "code" ELSE "id", f.cat>>

(* explicitSkillTagsResolver, then catalogSkillTagsResolver; a category that *)
(* asks for nothing has nothing to say.                                      *)
OfCategory(key) == {c \in Category : key = <<"code", c>> /\ cat[c].on /\ cat[c].tags # {}}
Need(f, n) ==
  [bt |-> n.bt, urgent |-> n.urgent,
   skills |-> IF f.skills.said THEN f.skills
              ELSE IF OfCategory(Key(f)) # {} THEN Says(cat[f.cat].tags) ELSE Unsaid]

Matches(rule, need) ==
  /\ rule.bt \in {Whatever, need.bt}
  /\ rule.urgent => need.urgent
  /\ rule.tags \subseteq need.skills.tags

Fit(ts) == {p \in Person : person[p].active /\ ts \subseteq Skills[p]}
(* pickWorker, and rankByModel: score / (1 + load).                          *)
LeastLoaded(ps) == {p \in ps : \A q \in ps : person[p].load <= person[q].load}
BestRanked(ps) == {p \in ps : \A q \in ps : Score[p] * (1 + person[q].load) >= Score[q] * (1 + person[p].load)}

(* The tags of a rule, when it names some, stand for those of the need.      *)
Candidates(rule, need) == Fit(IF rule.own.said THEN rule.own.tags ELSE need.skills.tags)
(* A strategy that is not in the registry falls back to pickWorker.          *)
PickOf(rule, need) ==
  IF rule.known THEN BestRanked(Candidates(rule, need)) ELSE LeastLoaded(Candidates(rule, need))

(* A fault: as they were created.                                            *)
InOrderOfAge == [i \in DOMAIN rules |-> i]
(* ORDER BY priority DESC, created_at, and the sort of resolveDispatch.      *)
ByPriority ==
  SetToSortSeq(DOMAIN rules,
               LAMBDA i, j : rules[i].prio > rules[j].prio \/ (rules[i].prio = rules[j].prio /\ i < j))

(* resolveDispatch: the rules in turn, until one of them finds somebody.     *)
Decider(need) ==
  FoldLeft(LAMBDA found, i :
             IF found = Manual /\ rules[i].on /\ Matches(rules[i], need) /\ Candidates(rules[i], need) # {}
             THEN i ELSE found,
           Manual, ByPriority)
(* autoDispatchAfterCreate: who may be picked; nobody sends it to the hall.  *)
Picked(need) ==
  IF Decider(need) # Manual THEN PickOf(rules[Decider(need)], need) ELSE LeastLoaded(Fit(need.skills.tags))
----------------------------------------------------------------------------
DispatchingInit ==
  /\ rules = <<>>
  /\ person = [p \in Person |-> [active |-> TRUE, load |-> 0]]
  /\ cat = [c \in Category |-> [on |-> TRUE, tags |-> {}]]

(* An order is filed and goes to a worker, an order of a worker ends.        *)
File(f, n) ==
  \E p \in Picked(Need(f, n)) :
    /\ person[p].load < MaxLoad
    /\ person' = [person EXCEPT ![p].load = @ + 1]
    /\ UNCHANGED <<rules, cat>>
Finish(p) ==
  /\ person[p].load > 0
  /\ person' = [person EXCEPT ![p].load = @ - 1]
  /\ UNCHANGED <<rules, cat>>

(* POST, PUT and DELETE /config/dispatch-rules                               *)
CreateRule(rule) ==
  /\ Len(rules) < MaxRules
  /\ rules' = Append(rules, rule) /\ UNCHANGED <<person, cat>>
ChangeRule(i, rule) ==
  /\ rules' = [rules EXCEPT ![i] = rule] /\ UNCHANGED <<person, cat>>
DropRule(i) ==
  /\ rules' = RemoveAt(rules, i) /\ UNCHANGED <<person, cat>>
(* PUT /fault-categories/:id, PUT /workers/:id                               *)
ChangeCategory(c, on, ts) ==
  /\ cat' = [cat EXCEPT ![c] = [on |-> on, tags |-> ts]] /\ UNCHANGED <<rules, person>>
ChangeWorker(p, active) ==
  /\ person' = [person EXCEPT ![p].active = active] /\ UNCHANGED <<rules, cat>>

DispatchingNext ==
  \/ \E f \in Filing, n \in Needs : File(f, n)
  \/ \E rule \in Rules : CreateRule(rule) \/ \E i \in DOMAIN rules : ChangeRule(i, rule)
  \/ \E i \in DOMAIN rules : DropRule(i)
  \/ \E c \in Category, on \in BOOLEAN, ts \in Tags : ChangeCategory(c, on, ts)
  \/ \E p \in Person, active \in BOOLEAN : Finish(p) \/ ChangeWorker(p, active)
----------------------------------------------------------------------------
(* However rules, categories and workers are edited: a rule decides only     *)
(* where every matching rule above it finds nobody, and an order is left to  *)
(* the hall only when nobody at work has its skills and no rule that matches *)
(* finds anybody with its own (resolveDispatch and the fallback of           *)
(* autoDispatchAfterCreate).                                                 *)
HighestRuleDecides ==
  \A f \in Filing, n \in Needs :
    LET need == Need(f, n)  i == Decider(need)
        able == {j \in DOMAIN rules : rules[j].on /\ Matches(rules[j], need) /\ Candidates(rules[j], need) # {}} IN
    /\ i # Manual => i \in able /\ \A j \in able : rules[j].prio < rules[i].prio \/ (rules[j].prio = rules[i].prio /\ i <= j)
    /\ Picked(need) = {} => able = {} /\ Fit(need.skills.tags) = {}

(* An order under a category that asks for skills goes to somebody who has   *)
(* them, unless it says otherwise itself or a rule names its own             *)
(* ("故障分类上配了什么技能，这张单就要什么技能").                                *)
SkillsOfCategory ==
  \A f \in Filing, n \in Needs :
    LET need == Need(f, n)  i == Decider(need) IN
    /\ f.cat # Whatever /\ ~f.skills.said
    /\ i # Manual => ~rules[i].own.said
    => \A p \in Picked(need) : cat[f.cat].on => cat[f.cat].tags \subseteq Skills[p]
=============================================================================
