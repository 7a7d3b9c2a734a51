-------------------------- MODULE AutomationProofs --------------------------
(***************************************************************************)
(* Proofs about what the server does by itself.  First automation rules,   *)
(* the jobs they make, the scheduler's housekeeping and the digests, for   *)
(* any rules, events, budget, number of server processes and of days.      *)
(* Then the calendar's arithmetic, and what templates, recurring invoices, *)
(* recurring journals and amortization schedules post, for any dates,      *)
(* frequencies and number of requests.                                     *)
(***************************************************************************)
EXTENDS Automation, Recurring, RequestsProofs, FiniteSetTheorems, SequenceTheorems

EventLabels == {"budget", "fan"}
HkLabels == {"hk"}
DigestLabels == {"digest"}

(* The centres' ids are distinct and were given out; a tag is one of them. *)
CentresOK ==
    /\ centre \in [CentreNames -> Nat] /\ lastId \in 0..MaxId
    /\ \A c \in CentreNames : centre[c] <= lastId
    /\ \A b, c \in CentreNames : centre[b] = centre[c] /\ centre[b] # 0 => b = c
    /\ \A p \in Posting : tag[p] = 0 \/ Alive(tag[p])

(* An event that has looked at the budget has at most as many jobs to make *)
(* as there are rules.                                                     *)
EventHeld(r) ==
    /\ pc[r] \in EventLabels =>
          /\ loc[r] = [on |-> "budget", data |-> loc[r].data, todo |-> loc[r].todo]
          /\ loc[r].todo \subseteq Rule
    /\ pc[r] = "fan" /\ "budget" \notin raced =>
          recent + Cardinality(loc[r].todo) < ActionBudget + Cardinality(Rule) + uncounted

BudgetOK ==
    /\ recent \in 0..Len(acts) /\ uncounted \in Nat
    /\ BudgetBounded
    /\ \A r \in Req : EventHeld(r)

(* A job has had at most one effect per attempt, the one under way         *)
(* included; the worker that has it is the only one.                       *)
ActJob == [rule : Rule, status : {"pending", "running", "done", "dead"},
           tries : Nat, effects : Nat, skipped : BOOLEAN]

JobRow(a) ==
    /\ a.effects <= a.tries + 1
    /\ a.status = "pending" => a.effects <= a.tries
    /\ a.status = "done" => a.skipped \/ a.effects > 0

JobHeld(r) ==
    pc[r] \in ActLabels =>
        /\ loc[r] = [on |-> loc[r].on, job |-> loc[r].job, cc |-> loc[r].cc]
        /\ loc[r].job \in 1..Len(acts)
        /\ acts[loc[r].job].status = "running" /\ acts[loc[r].job].rule = loc[r].on
        /\ pc[r] # "actor" => acts[loc[r].job].effects <= acts[loc[r].job].tries
        /\ pc[r] = "actor" => acts[loc[r].job].effects > 0
        /\ pc[r] # "check" => rule[loc[r].on] = "on" \/ loc[r].on \in raced
        /\ pc[r] = "centre" => RuleAction[loc[r].on] \in CentreNames

JobsOK ==
    /\ rule \in [Rule -> {"absent", "off", "on"}]
    /\ acts \in Seq(ActJob)
    /\ \A j \in 1..Len(acts) : JobRow(acts[j])
    /\ \A r \in Req : JobHeld(r)
    /\ \A q, r \in Req : q # r /\ pc[q] \in ActLabels /\ pc[r] \in ActLabels
                            => loc[q].job # loc[r].job

(* The schedulers that have queued the i-th job of a day. *)
Doers(d, i) ==
    {r \in Req : marker[r] >= d \/ (pc[r] = "hk" /\ loc[r].day = d /\ loc[r].next > i)}

HkHeld(r) ==
    pc[r] = "hk" =>
        /\ loc[r] = [on |-> "hk", next |-> loc[r].next, day |-> loc[r].day]
        /\ loc[r].day \in 1..hday /\ marker[r] < loc[r].day
        /\ loc[r].next \in 1..(Len(Kinds(loc[r].day)) + 1)
        /\ \A i \in 1..(loc[r].next - 1) : queued[<<Kinds(loc[r].day)[i], loc[r].day>>] > 0

DaysOK ==
    /\ hday \in 1..LastDay /\ faulted \in Nat
    /\ marker \in [Req -> 0..LastDay] /\ \A r \in Req : marker[r] <= hday
    /\ queued \in [KindDays -> Nat]
    /\ MarkedDayComplete
    /\ \A r \in Req : HkHeld(r)
    /\ \A d \in 1..LastDay : \A i \in 1..Len(Kinds(d)) :
          queued[<<Kinds(d)[i], d>>] <= Cardinality(Doers(d, i)) + faulted

(* The digests of a Monday, and who is building one. *)
DigestRow == [pending : Nat, sent : Nat, inApp : Nat, unsaved : Nat, declined : Nat, stuck : Nat,
              dead : Nat]

Building(d) == {r \in Req : pc[r] = "digest" /\ loc[r].day = d}

DigestsOK ==
    /\ digests \in [Mondays -> DigestRow]
    /\ DigestsAccounted
    /\ \A r \in Req : pc[r] = "digest" => loc[r].day \in Mondays

AutoInv == RequestsOK /\ CentresOK /\ BudgetOK /\ JobsOK /\ DaysOK /\ DigestsOK

-----------------------------------------------------------------------------
(* Facts about the operators. *)
LEMMA Bounds ==
    /\ IsFiniteSet(Req) /\ IsFiniteSet(Rule)
    /\ ActionBudget \in Nat \ {0} /\ MaxAttempts \in Nat \ {0} /\ MaxId \in Nat \ {0}
    /\ LastDay \in Nat \ {0}
    BY AutomationBounds

(* The jobs of a day: the fifth, on Mondays, is the digest. *)
LEMMA KindsOfDay ==
    ASSUME NEW d
    PROVE  /\ Len(Kinds(d)) = (IF d \in Mondays THEN 5 ELSE 4)
           /\ DOMAIN Kinds(d) = 1..Len(Kinds(d))
           /\ \A i, j \in 1..Len(Kinds(d)) : Kinds(d)[i] = Kinds(d)[j] => i = j
           /\ \A i \in 1..Len(Kinds(d)) : Kinds(d)[i] = "weekly_digest" <=> i = 5
<1> DEFINE four == <<"template_scan", "invoice_reminder_scan", "recurring_invoice_scan",
                     "restore_verify">>
           five == Append(four, "weekly_digest")
           S == {"template_scan", "invoice_reminder_scan", "recurring_invoice_scan",
                 "restore_verify", "weekly_digest"}
<1>0. /\ Len(four) = 4 /\ DOMAIN four = 1..4 /\ four \in Seq(S)
      /\ \A i, j \in 1..4 : four[i] = four[j] => i = j
      /\ \A i \in 1..4 : four[i] # "weekly_digest"
  <2>1. Len(four) = 4 /\ DOMAIN four = 1..4 OBVIOUS
  <2>2. four \in Seq(S) OBVIOUS
  <2>3. \A i, j \in 1..4 : four[i] = four[j] => i = j OBVIOUS
  <2>4. \A i \in 1..4 : four[i] # "weekly_digest" OBVIOUS
  <2> QED BY <2>1, <2>2, <2>3, <2>4
<1>1. CASE d \in Mondays
  <2>1. Kinds(d) = five BY <1>1 DEF Kinds
  <2> HIDE DEF four
  <2>2. /\ Len(five) = 5 /\ DOMAIN five = 1..5 /\ five[5] = "weekly_digest"
        /\ \A i \in 1..4 : five[i] = four[i]
    <3>1. "weekly_digest" \in S OBVIOUS
    <3>2. five \in Seq(S) /\ Len(five) = Len(four) + 1 /\ five[Len(four) + 1] = "weekly_digest"
          /\ \A i \in 1..Len(four) : five[i] = four[i]
      <4> HIDE DEF S
      <4> QED BY <1>0, <3>1, AppendProperties
    <3>3. DOMAIN five = 1..Len(five) BY <3>2, LenProperties
    <3> HIDE DEF five
    <3> QED BY <1>0, <3>2, <3>3
  <2> HIDE DEF five
  <2>3. \A i \in 1..5 : i \in 1..4 \/ i = 5 OBVIOUS
  <2>4. \A i \in 1..5 : five[i] = "weekly_digest" <=> i = 5
      BY <1>0, <2>2, <2>3
  <2>5. \A i, j \in 1..5 : five[i] = five[j] => i = j
      BY <1>0, <2>2, <2>3
  <2> QED BY <2>5, <1>1, <2>1, <2>2, <2>3, <2>4
<1>2. CASE d \notin Mondays
  <2>1. Kinds(d) = four BY <1>2 DEF Kinds
  <2> HIDE DEF four
  <2>2. \A i \in 1..4 : i # 5 OBVIOUS
  <2> QED BY <1>0, <1>2, <2>1, <2>2
<1> QED BY <1>1, <1>2

LEMMA KindDay ==
    ASSUME NEW d \in 1..LastDay, NEW i \in 1..Len(Kinds(d))
    PROVE  <<Kinds(d)[i], d>> \in KindDays
    BY KindsOfDay DEF KindDays

LEMMA DigestDay ==
    ASSUME NEW d \in Mondays
    PROVE  d \in 1..LastDay /\ Len(Kinds(d)) = 5 /\ Kinds(d)[5] = "weekly_digest"
           /\ <<"weekly_digest", d>> \in KindDays
<1>1. d \in 1..LastDay /\ Len(Kinds(d)) = 5 /\ Kinds(d)[5] = "weekly_digest"
    BY KindsOfDay DEF Mondays
<1>2. <<Kinds(d)[5], d>> \in KindDays BY <1>1, KindDay
<1> QED BY <1>1, <1>2

(* Cardinalities of sets of schedulers. *)
LEMMA OneMore ==
    ASSUME NEW S \in SUBSET Req, NEW r \in Req, r \notin S
    PROVE  Cardinality(S) \in Nat /\ Cardinality(S \cup {r}) = Cardinality(S) + 1
    BY Bounds, FS_Subset, FS_AddElement, FS_CardinalityType

LEMMA AtMostOneLess ==
    ASSUME NEW S \in SUBSET Req, NEW T \in SUBSET Req, NEW r, S \subseteq T \cup {r}
    PROVE  Cardinality(S) \in Nat /\ Cardinality(T) \in Nat /\ Cardinality(S) <= Cardinality(T) + 1
<1>1. IsFiniteSet(S) /\ IsFiniteSet(T) BY Bounds, FS_Subset
<1>2. IsFiniteSet(T \cup {r}) /\ Cardinality(T \cup {r}) <= Cardinality(T) + 1
  <2>0. Cardinality(T) \in Nat BY <1>1, FS_CardinalityType
  <2>1. CASE r \in T
    <3>1. T \cup {r} = T BY <2>1
    <3>2. Cardinality(T \cup {r}) = Cardinality(T) BY <3>1
    <3> QED BY <1>1, <2>0, <3>1, <3>2
  <2>2. CASE r \notin T
    <3>1. IsFiniteSet(T \cup {r}) /\ Cardinality(T \cup {r}) = Cardinality(T) + 1
        BY <1>1, <2>2, FS_AddElement
    <3> QED BY <2>0, <3>1
  <2> QED BY <2>1, <2>2
<1>3. Cardinality(S) <= Cardinality(T \cup {r})
    BY <1>2, FS_Subset
<1> QED BY <1>1, <1>2, <1>3, FS_CardinalityType

LEMMA NotFewer ==
    ASSUME NEW S \in SUBSET Req, NEW T \in SUBSET Req, S \subseteq T
    PROVE  Cardinality(S) \in Nat /\ Cardinality(T) \in Nat /\ Cardinality(S) <= Cardinality(T)
    BY Bounds, FS_Subset, FS_CardinalityType

-----------------------------------------------------------------------------
(* Frames: the requests at the labels of L stay where they are. *)
Same(L) == \A q \in Req : pc[q] \in L \/ pc'[q] \in L => pc'[q] = pc[q] /\ loc'[q] = loc[q]

LEMMA CentresFrame ==
    ASSUME CentresOK, UNCHANGED <<centre, lastId, tag>>
    PROVE  CentresOK'
    BY DEF CentresOK, Alive

LEMMA BudgetFrame ==
    ASSUME BudgetOK, Len(acts') = Len(acts), UNCHANGED <<recent, uncounted>>, raced \subseteq raced', Same(EventLabels)
    PROVE  BudgetOK'
<1>1. BudgetBounded' BY DEF BudgetOK, BudgetBounded
<1>2. ASSUME NEW r \in Req PROVE EventHeld(r)'
  <2>1. EventHeld(r) BY DEF BudgetOK
  <2>2. pc'[r] \in EventLabels => pc'[r] = pc[r] /\ loc'[r] = loc[r] BY DEF Same
  <2> QED BY <2>1, <2>2 DEF EventHeld, EventLabels
<1> QED BY <1>1, <1>2 DEF BudgetOK

LEMMA JobsFrame ==
    ASSUME JobsOK, UNCHANGED <<rule, acts>>, raced \subseteq raced', Same(ActLabels)
    PROVE  JobsOK'
<1>1. \A r \in Req : pc'[r] \in ActLabels => pc'[r] = pc[r] /\ loc'[r] = loc[r] BY DEF Same
<1>2. ASSUME NEW r \in Req PROVE JobHeld(r)'
  <2>1. JobHeld(r) BY DEF JobsOK
  <2> QED BY <1>1, <2>1 DEF JobHeld
<1>3. \A q, r \in Req : q # r /\ pc'[q] \in ActLabels /\ pc'[r] \in ActLabels
                            => loc'[q].job # loc'[r].job
    BY <1>1 DEF JobsOK
<1> QED BY <1>2, <1>3 DEF JobsOK, JobRow

LEMMA DaysFrame ==
    ASSUME DaysOK, UNCHANGED <<hday, marker, queued, faulted>>, Same(HkLabels)
    PROVE  DaysOK'
<1>1. \A r \in Req : pc[r] = "hk" \/ pc'[r] = "hk" => pc'[r] = pc[r] /\ loc'[r] = loc[r]
    BY DEF Same, HkLabels
<1>2. \A r \in Req : HkHeld(r)'
    BY <1>1 DEF DaysOK, HkHeld
<1>3. MarkedDayComplete' BY DEF DaysOK, MarkedDayComplete
<1>4. \A d, i : Doers(d, i)' = Doers(d, i)
    BY <1>1 DEF Doers
<1> QED BY <1>2, <1>3, <1>4 DEF DaysOK

LEMMA DigestsFrame ==
    ASSUME DigestsOK, UNCHANGED <<digests, queued>>, Same(DigestLabels)
    PROVE  DigestsOK'
<1>1. \A r \in Req : pc[r] = "digest" \/ pc'[r] = "digest" => pc'[r] = pc[r] /\ loc'[r] = loc[r]
    BY DEF Same, DigestLabels
<1>2. \A d : {r \in Req : pc'[r] = "digest" /\ loc'[r].day = d} =
             {r \in Req : pc[r] = "digest" /\ loc[r].day = d}
    BY <1>1
<1> QED BY <1>1, <1>2 DEF DigestsOK, DigestsAccounted

(* A step of r from one label to another touches only their sets. *)
LEMMA SameOutside ==
    ASSUME NEW r \in Req, Keeps(r), NEW L, pc[r] \notin L, pc'[r] \notin L
    PROVE  Same(L)
    BY DEF Keeps, Same

LEMMA SameAll ==
    ASSUME UNCHANGED <<pc, loc>>, NEW L
    PROVE  Same(L)
    BY DEF Same

LEMMA LabelsApart ==
    /\ \A l \in EventLabels : l \notin ActLabels \cup HkLabels \cup DigestLabels
    /\ \A l \in ActLabels : l \notin EventLabels \cup HkLabels \cup DigestLabels
    /\ \A l \in HkLabels : l \notin EventLabels \cup ActLabels \cup DigestLabels
    /\ \A l \in DigestLabels : l \notin EventLabels \cup ActLabels \cup HkLabels
    /\ "idle" \notin EventLabels \cup ActLabels \cup HkLabels \cup DigestLabels
    BY DEF EventLabels, ActLabels, HkLabels, DigestLabels

-----------------------------------------------------------------------------
(* The owner's page.  A rule that a job is at work for, when it is         *)
(* disabled, is in raced.                                                  *)
LEMMA OwnerOK ==
    ASSUME AutoInv, NEW r \in Req, NEW x \in Rule, RuleCreate(r, x) \/ RuleToggle(r, x) \/ RuleDelete(r, x)
    PROVE  AutoInv'
<1>1. Serve(r, x) /\ UNCHANGED <<acts, recent, uncounted, centre, lastId, tag, hkVars>>
    BY DEF RuleCreate, RuleToggle, RuleDelete
<1>2. /\ RequestsOK' /\ UNCHANGED <<pc, loc>> /\ raced \subseteq raced'
      /\ WorkingOn(x) # {} => x \in raced'
    BY <1>1, ServeOK DEF AutoInv
<1>3. rule' \in [Rule -> {"absent", "off", "on"}] /\ \A y \in Rule \ {x} : rule'[y] = rule[y]
    BY DEF RuleCreate, RuleToggle, RuleDelete, AutoInv, JobsOK
<1>4. \A L : Same(L) BY <1>2, SameAll
<1>5. UNCHANGED <<hday, marker, queued, digests, faulted>> BY <1>1 DEF hkVars
<1>6. CentresOK' /\ BudgetOK' /\ DaysOK' /\ DigestsOK'
    BY <1>1, <1>2, <1>4, <1>5, CentresFrame, BudgetFrame, DaysFrame, DigestsFrame DEF AutoInv
<1>7. ASSUME NEW q \in Req PROVE JobHeld(q)'
  <2> SUFFICES ASSUME pc[q] \in ActLabels PROVE JobHeld(q)'
      BY <1>2 DEF JobHeld
  <2>1. JobHeld(q) BY DEF AutoInv, JobsOK
  <2>2. loc[q].on = x => q \in WorkingOn(x) BY LabelsApart DEF WorkingOn, Busy
  <2>3. loc[q].on \in Rule
    <3>1. acts \in Seq(ActJob) /\ loc[q].job \in 1..Len(acts) BY <2>1 DEF JobHeld, AutoInv, JobsOK
    <3>2. acts[loc[q].job] \in ActJob BY <3>1
    <3> QED BY <3>2, <2>1 DEF JobHeld, ActJob
  <2> QED BY <1>1, <1>2, <1>3, <2>1, <2>2, <2>3 DEF JobHeld
<1>8. JobsOK' BY <1>1, <1>2, <1>3, <1>7 DEF AutoInv, JobsOK, JobRow
<1> QED BY <1>2, <1>6, <1>8 DEF AutoInv

-----------------------------------------------------------------------------
(* Events. *)
LEMMA TodoCount ==
    ASSUME NEW T \in SUBSET Rule
    PROVE  /\ IsFiniteSet(T) /\ Cardinality(T) \in Nat /\ Cardinality(Rule) \in Nat
           /\ Cardinality(T) <= Cardinality(Rule)
           /\ \A x \in T : Cardinality(T \ {x}) = Cardinality(T) - 1
    BY Bounds, FS_Subset, FS_RemoveElement, FS_CardinalityType

(* One event: the other requests are apart from it, or noticed. *)
LEMMA EventsApart ==
    ASSUME AutoInv, NEW q \in Req, NEW r \in Req, q # r, pc[q] \in EventLabels, pc[r] \in EventLabels
    PROVE  "budget" \in raced
<1>1. loc[q].on = "budget" /\ loc[r].on = "budget"
  <2>1. EventHeld(q) /\ EventHeld(r) BY DEF AutoInv, BudgetOK
  <2> QED BY <2>1 DEF EventHeld
<1>2. Busy(q) /\ Busy(r) BY LabelsApart DEF Busy
<1> QED BY <1>1, <1>2 DEF AutoInv, RequestsOK

(* Steps of an event that make no job. *)
LEMMA EventStep ==
    ASSUME AutoInv, NEW r \in Req, Keeps(r),
           UNCHANGED <<rule, acts, recent, centre, lastId, tag, hkVars>>,
           uncounted' \in Nat, uncounted' >= uncounted,
           uncounted' = uncounted \/ pc[r] \in EventLabels,
           pc[r] \in EventLabels \cup {"idle"}, pc'[r] \in EventLabels \cup {"idle"},
           EventHeld(r)'
    PROVE  AutoInv'
<1>1. UNCHANGED <<rule, acts, recent, centre, lastId, tag, hday, marker, queued, digests, faulted>>
    BY DEF hkVars
<1>2. Same(ActLabels) /\ Same(HkLabels) /\ Same(DigestLabels)
    BY LabelsApart, SameOutside
<1>3. RequestsOK' /\ raced \subseteq raced' BY DEF Keeps
<1>4. CentresOK' /\ JobsOK' /\ DaysOK' /\ DigestsOK'
    BY <1>1, <1>2, <1>3, CentresFrame, JobsFrame, DaysFrame, DigestsFrame DEF AutoInv
<1>5. ASSUME NEW q \in Req, q # r PROVE EventHeld(q)'
  <2>1. EventHeld(q) BY DEF AutoInv, BudgetOK
  <2>2. pc[q] = "fan" /\ "budget" \notin raced => uncounted' = uncounted
      BY <1>5, EventsApart DEF EventLabels
  <2> QED BY <1>1, <1>3, <1>5, <2>1, <2>2 DEF EventHeld, Keeps
<1>6. BudgetOK'
  <2>1. BudgetBounded'
    <3>1. PICK n \in Nat, c \in Nat, u \in Nat :
             n = recent /\ c = ActionBudget + Cardinality(Rule) /\ u = uncounted
      <4>1. Cardinality(Rule) \in Nat /\ ActionBudget \in Nat BY Bounds, FS_CardinalityType
      <4>2. recent \in 0..Len(acts) /\ uncounted \in Nat BY DEF AutoInv, BudgetOK
      <4>3. recent \in Nat BY <4>2
      <4>4. ActionBudget + Cardinality(Rule) \in Nat BY <4>1
      <4> QED BY <4>2, <4>3, <4>4
    <3>2. "budget" \notin raced' => n < c + u
        BY <1>3, <3>1 DEF AutoInv, BudgetOK, BudgetBounded
    <3>3. n < c + u => n < c + uncounted' BY <3>1
    <3> QED BY <1>1, <3>1, <3>2, <3>3 DEF BudgetBounded
  <2> QED BY <1>1, <1>5, <2>1 DEF AutoInv, BudgetOK
<1> QED BY <1>3, <1>4, <1>6 DEF AutoInv

LEMMA MatchRulesOK ==
    ASSUME AutoInv, NEW r \in Req, NEW data, MatchRules(r, data)
    PROVE  AutoInv'
<1> DEFINE d == [on |-> "budget", data |-> data, todo |-> {x \in Rule : rule[x] = "on"}]
<1>1. Keeps(r) /\ pc[r] = "idle" /\ pc'[r] = "budget" /\ loc'[r] = d
    BY BeginKeeps DEF MatchRules, AutoInv
<1>2. EventHeld(r)' BY <1>1 DEF EventHeld
<1>3. UNCHANGED <<rule, acts, recent, uncounted, centre, lastId, tag, hkVars>> /\ uncounted \in Nat
    BY DEF MatchRules, autoVars, ruleVars, AutoInv, BudgetOK
<1> QED BY <1>1, <1>2, <1>3, EventStep DEF EventLabels

LEMMA MatchBudgetOK ==
    ASSUME AutoInv, NEW r \in Req, MatchBudget(r)
    PROVE  AutoInv'
<1>0. pc[r] = "budget" /\ UNCHANGED <<rule, acts, recent, centre, lastId, tag, hkVars>> BY DEF MatchBudget
<1>1. PICK data, todo : loc[r] = [on |-> "budget", data |-> data, todo |-> todo] /\ todo \subseteq Rule
    BY <1>0 DEF AutoInv, BudgetOK, EventHeld, EventLabels
<1>2. PICK T : T = MatchTodo(r) OBVIOUS
<1>3. T \subseteq Rule BY <1>1, <1>2 DEF MatchTodo
<1>4. PICK t, c : t = Cardinality(T) /\ c = Cardinality(Rule) OBVIOUS
<1>5. t \in Nat /\ c \in Nat /\ t <= c BY <1>3, <1>4, TodoCount
<1>6. recent \in Nat /\ uncounted \in Nat /\ ActionBudget \in Nat
      /\ ("budget" \notin raced => recent < ActionBudget + c + uncounted)
    BY <1>4, Bounds DEF AutoInv, BudgetOK, BudgetBounded
<1>7. CASE End(r) /\ UNCHANGED uncounted
  <2>1. Keeps(r) /\ pc'[r] = "idle" BY <1>7, EndKeeps DEF AutoInv, StaysOrEnds
  <2>2. EventHeld(r)' BY <2>1 DEF EventHeld, EventLabels
  <2> QED BY <1>0, <1>6, <1>7, <2>1, <2>2, EventStep DEF EventLabels
<1>8. CASE /\ Goto(r, "fan", [loc[r] EXCEPT !.todo = T])
           /\ \/ recent < ActionBudget /\ uncounted' = uncounted
              \/ uncounted' = uncounted + t
  <2> DEFINE d == [on |-> "budget", data |-> data, todo |-> T]
  <2>1. [loc[r] EXCEPT !.todo = T] = d BY <1>1
  <2>2. Keeps(r) /\ pc'[r] = "fan" /\ loc'[r] = d /\ raced' = raced
      BY <1>0, <1>1, <1>8, <2>1, GotoKeeps DEF AutoInv
  <2>3. uncounted' \in Nat /\ uncounted' >= uncounted BY <1>5, <1>6, <1>8
  <2>4. "budget" \notin raced => recent + t < ActionBudget + c + uncounted'
      BY <1>5, <1>6, <1>8
  <2>5. recent' = recent BY <1>0
  <2> HIDE <1>2, <1>8
  <2>6. EventHeld(r)' BY <1>3, <1>4, <2>2, <2>4, <2>5 DEF EventHeld, EventLabels
  <2> QED BY <1>0, <2>2, <2>3, <2>6, EventStep DEF EventLabels
<1> QED BY <1>2, <1>4, <1>7, <1>8 DEF MatchBudget

LEMMA EventCutOffOK ==
    ASSUME AutoInv, NEW r \in Req, EventCutOff(r)
    PROVE  AutoInv'
<1>1. Keeps(r) /\ pc'[r] = "idle" BY EndKeeps DEF EventCutOff, CutOff, AutoInv, StaysOrEnds
<1>2. EventHeld(r)' BY <1>1 DEF EventHeld, EventLabels
<1>3. UNCHANGED <<rule, acts, recent, uncounted, centre, lastId, tag, hkVars>> /\ uncounted \in Nat
    BY DEF EventCutOff, autoVars, ruleVars, AutoInv, BudgetOK
<1> QED BY <1>1, <1>2, <1>3, EventStep DEF EventCutOff, EventLabels

LEMMA MatchEnqueueOK ==
    ASSUME AutoInv, NEW r \in Req, MatchEnqueue(r)
    PROVE  AutoInv'
<1>0. pc[r] = "fan" /\ UNCHANGED <<rule, uncounted, centre, lastId, tag, hday, marker, queued, digests, faulted>>
    BY DEF MatchEnqueue, hkVars
<1>1. PICK data, todo : loc[r] = [on |-> "budget", data |-> data, todo |-> todo] /\ todo \subseteq Rule
    BY <1>0 DEF AutoInv, BudgetOK, EventHeld, EventLabels
<1>2. "budget" \notin raced => recent + Cardinality(todo) < ActionBudget + Cardinality(Rule) + uncounted
    BY <1>0, <1>1 DEF AutoInv, BudgetOK, EventHeld
<1>3. CASE End(r) /\ UNCHANGED <<acts, recent>>
  <2>1. Keeps(r) /\ pc'[r] = "idle" BY <1>3, EndKeeps DEF AutoInv, StaysOrEnds
  <2>2. EventHeld(r)' BY <2>1 DEF EventHeld, EventLabels
  <2>3. UNCHANGED <<rule, acts, recent, uncounted, centre, lastId, tag, hkVars>> /\ uncounted \in Nat
      BY <1>0, <1>3 DEF hkVars, AutoInv, BudgetOK
  <2> QED BY <1>0, <2>1, <2>2, <2>3, EventStep DEF EventLabels
<1>4. ASSUME NEW x \in todo, Goto(r, "fan", [loc[r] EXCEPT !.todo = @ \ {x}]),
             \/ acts' = Append(acts, NewAct(x)) /\ recent' = recent + 1
             \/ UNCHANGED <<acts, recent>>
      PROVE  AutoInv'
  <2> DEFINE d == [on |-> "budget", data |-> data, todo |-> todo \ {x}]
  <2>1. [loc[r] EXCEPT !.todo = @ \ {x}] = d BY <1>1
  <2>2. Keeps(r) /\ pc'[r] = "fan" /\ loc'[r] = d /\ raced' = raced
      BY <1>0, <1>1, <1>4, <2>1, GotoKeeps DEF AutoInv
  <2>3. RequestsOK' BY <2>2 DEF Keeps
  <2>4. Same(ActLabels) /\ Same(HkLabels) /\ Same(DigestLabels)
      BY <1>0, <2>2, LabelsApart, SameOutside DEF EventLabels
  <2>5. CentresOK' /\ DaysOK' /\ DigestsOK'
      BY <1>0, <2>4, CentresFrame, DaysFrame, DigestsFrame DEF AutoInv
  <2>6. /\ recent \in Nat /\ recent <= Len(acts) /\ Len(acts) \in Nat /\ acts \in Seq(ActJob)
        /\ recent' \in {recent, recent + 1} /\ recent' - recent = Len(acts') - Len(acts)
        /\ acts' \in Seq(ActJob)
    <3>1. recent \in Nat /\ recent <= Len(acts) /\ Len(acts) \in Nat /\ acts \in Seq(ActJob)
        BY DEF AutoInv, BudgetOK, JobsOK
    <3>2. NewAct(x) \in ActJob BY <1>1 DEF NewAct, ActJob
    <3>3. CASE acts' = Append(acts, NewAct(x)) /\ recent' = recent + 1
      <4>1. acts' \in Seq(ActJob) /\ Len(acts') = Len(acts) + 1
          BY <3>1, <3>2, <3>3, AppendProperties
      <4> QED BY <3>1, <3>3, <4>1
    <3>4. CASE UNCHANGED <<acts, recent>> BY <3>1, <3>4
    <3> QED BY <1>4, <3>3, <3>4
  <2>7. BudgetOK'
    <3>1. recent' \in 0..Len(acts') BY <2>6
    <3>2. "budget" \notin raced =>
             /\ recent' + Cardinality(todo \ {x}) < ActionBudget + Cardinality(Rule) + uncounted'
             /\ recent' < ActionBudget + Cardinality(Rule) + uncounted'
      <4>1. /\ Cardinality(todo \ {x}) = Cardinality(todo) - 1 /\ Cardinality(todo) \in Nat
            /\ Cardinality(todo \ {x}) \in Nat /\ Cardinality(Rule) \in Nat
          BY <1>1, TodoCount
      <4>2. uncounted' = uncounted /\ uncounted \in Nat BY <1>0 DEF AutoInv, BudgetOK
      <4> QED BY <1>2, <2>6, <4>1, <4>2, Bounds
    <3>3. EventHeld(r)' BY <1>1, <2>2, <3>2 DEF EventHeld, EventLabels
    <3>4. ASSUME NEW q \in Req, q # r PROVE EventHeld(q)'
      <4>1. EventHeld(q) /\ pc'[q] = pc[q] /\ loc'[q] = loc[q]
          BY <2>2, <3>4 DEF AutoInv, BudgetOK, Keeps
      <4>2. pc[q] = "fan" => "budget" \in raced BY <1>0, <3>4, EventsApart DEF EventLabels
      <4> QED BY <2>2, <4>1, <4>2 DEF EventHeld
    <3>5. uncounted' \in Nat BY <1>0 DEF AutoInv, BudgetOK
    <3> QED BY <2>2, <3>1, <3>2, <3>3, <3>4, <3>5 DEF BudgetOK, BudgetBounded
  <2>8. JobsOK'
    <3>1. CASE acts' = acts
        BY <1>0, <2>2, <2>4, <3>1, JobsFrame DEF AutoInv
    <3>2. CASE acts' = Append(acts, NewAct(x))
      <4>1. /\ Len(acts') = Len(acts) + 1 /\ acts'[Len(acts) + 1] = NewAct(x)
            /\ \A j \in 1..Len(acts) : acts'[j] = acts[j]
          BY <2>6, <3>2
      <4>2. JobRow(NewAct(x)) BY DEF JobRow, NewAct
      <4>3. \A j \in 1..Len(acts') : JobRow(acts'[j])
          BY <2>6, <4>1, <4>2 DEF AutoInv, JobsOK
      <4>4. \A q \in Req : pc'[q] \in ActLabels => pc'[q] = pc[q] /\ loc'[q] = loc[q]
          BY <2>4 DEF Same
      <4>5. ASSUME NEW q \in Req PROVE JobHeld(q)'
        <5>1. JobHeld(q) BY DEF AutoInv, JobsOK
        <5>2. 1..Len(acts) \subseteq 1..Len(acts') BY <2>6, <4>1
        <5> QED BY <1>0, <2>2, <4>1, <4>4, <5>1, <5>2 DEF JobHeld
      <4> QED BY <1>0, <2>6, <4>3, <4>4, <4>5 DEF AutoInv, JobsOK, JobRow
    <3>3. acts' = acts \/ acts' = Append(acts, NewAct(x)) BY <1>4
    <3> QED BY <3>1, <3>2, <3>3
  <2> QED BY <2>3, <2>5, <2>7, <2>8 DEF AutoInv
<1> QED
  <2>1. CASE End(r) /\ UNCHANGED <<acts, recent>> BY <2>1, <1>3
  <2>2. ASSUME NEW x \in loc[r].todo, Goto(r, "fan", [loc[r] EXCEPT !.todo = @ \ {x}]),
               \/ acts' = Append(acts, NewAct(x)) /\ recent' = recent + 1
               \/ UNCHANGED <<acts, recent>>
        PROVE  AutoInv'
    <3>1. x \in todo BY <1>1, <2>2
    <3> QED BY <1>4, <2>2, <3>1
  <2> QED BY <2>1, <2>2 DEF MatchEnqueue

LEMMA AgeOutOK ==
    ASSUME AutoInv, AgeOut
    PROVE  AutoInv'
<1>1. /\ UNCHANGED <<pc, loc, raced, rule, acts, uncounted, centre, lastId, tag, hday, marker, queued, digests, faulted>>
      /\ recent > 0 /\ recent' = recent - 1
    BY DEF AgeOut, reqVars, hkVars
<1>2. RequestsOK' BY <1>1 DEF AutoInv, RequestsOK, Busy
<1>3. \A L : Same(L) BY <1>1, SameAll
<1>4. CentresOK' /\ JobsOK' /\ DaysOK' /\ DigestsOK'
    BY <1>1, <1>3, CentresFrame, JobsFrame, DaysFrame, DigestsFrame DEF AutoInv
<1>5. recent \in Nat /\ recent <= Len(acts) /\ Len(acts) \in Nat /\ uncounted \in Nat
    BY DEF AutoInv, BudgetOK, JobsOK
<1>6. ASSUME NEW q \in Req PROVE EventHeld(q)'
  <2>1. EventHeld(q) BY DEF AutoInv, BudgetOK
  <2>2. pc[q] = "fan" => Cardinality(loc[q].todo) \in Nat BY <2>1, TodoCount DEF EventHeld, EventLabels
  <2>3. Cardinality(Rule) \in Nat BY Bounds, FS_CardinalityType
  <2> QED BY <1>1, <1>5, <2>1, <2>2, <2>3, Bounds DEF EventHeld
<1>7. BudgetBounded'
  <2>1. Cardinality(Rule) \in Nat BY Bounds, FS_CardinalityType
  <2> QED BY <1>1, <1>5, <2>1, Bounds DEF AutoInv, BudgetOK, BudgetBounded
<1>8. BudgetOK' BY <1>1, <1>5, <1>6, <1>7 DEF BudgetOK
<1> QED BY <1>2, <1>4, <1>8 DEF AutoInv

-----------------------------------------------------------------------------
(* Jobs.  A step that changes at most the job j, which is r's. *)
OneJob(j, a) ==
    /\ acts' \in Seq(ActJob) /\ Len(acts') = Len(acts)
    /\ acts'[j] = a /\ \A i \in 1..Len(acts) : i # j => acts'[i] = acts[i]

LEMMA JobUpdate ==
    ASSUME acts \in Seq(ActJob), NEW j \in 1..Len(acts), NEW a \in ActJob, acts' = [acts EXCEPT ![j] = a]
    PROVE  OneJob(j, a)
    BY DEF OneJob

(* The fields of an updated job. *)
LEMMA JobFields ==
    ASSUME NEW a \in ActJob
    PROVE  /\ \A st \in {"pending", "running", "done", "dead"} :
                LET b == [a EXCEPT !.status = st]
                IN  /\ b \in ActJob /\ b.status = st /\ b.rule = a.rule /\ b.tries = a.tries
                    /\ b.effects = a.effects /\ b.skipped = a.skipped
           /\ LET b == [a EXCEPT !.effects = @ + 1]
              IN  /\ b \in ActJob /\ b.status = a.status /\ b.rule = a.rule /\ b.tries = a.tries
                  /\ b.effects = a.effects + 1 /\ b.skipped = a.skipped
           /\ LET b == [a EXCEPT !.status = "done", !.skipped = TRUE]
              IN  /\ b \in ActJob /\ b.status = "done" /\ b.rule = a.rule /\ b.tries = a.tries
                  /\ b.effects = a.effects /\ b.skipped
<1>1. ASSUME NEW st \in {"pending", "running", "done", "dead"}
      PROVE  LET b == [a EXCEPT !.status = st]
             IN  /\ b \in ActJob /\ b.status = st /\ b.rule = a.rule /\ b.tries = a.tries
                 /\ b.effects = a.effects /\ b.skipped = a.skipped
    BY <1>1 DEF ActJob
<1>2. LET b == [a EXCEPT !.effects = @ + 1]
      IN  /\ b \in ActJob /\ b.status = a.status /\ b.rule = a.rule /\ b.tries = a.tries
          /\ b.effects = a.effects + 1 /\ b.skipped = a.skipped
    BY DEF ActJob
<1>3. LET b == [a EXCEPT !.status = "done", !.skipped = TRUE]
      IN  /\ b \in ActJob /\ b.status = "done" /\ b.rule = a.rule /\ b.tries = a.tries
          /\ b.effects = a.effects /\ b.skipped
    BY DEF ActJob
<1> QED BY <1>1, <1>2, <1>3

(* Whose job it is. *)
LEMMA JobOf ==
    ASSUME AutoInv, NEW r \in Req, pc[r] \in ActLabels
    PROVE  /\ acts \in Seq(ActJob) /\ Len(acts) \in Nat /\ loc[r].job \in 1..Len(acts)
           /\ acts[loc[r].job] \in ActJob
           /\ loc[r].on \in Rule /\ loc[r].on = acts[loc[r].job].rule
           /\ acts[loc[r].job].status = "running" /\ JobRow(acts[loc[r].job])
           /\ pc[r] # "idle" /\ JobHeld(r)
<1>1. JobHeld(r) /\ acts \in Seq(ActJob) BY DEF AutoInv, JobsOK
<1>2. loc[r].job \in 1..Len(acts) /\ acts[loc[r].job].status = "running"
      /\ acts[loc[r].job].rule = loc[r].on
    BY <1>1 DEF JobHeld
<1>3. acts[loc[r].job] \in ActJob BY <1>1, <1>2
<1>4. JobRow(acts[loc[r].job]) BY <1>2 DEF AutoInv, JobsOK
<1> QED BY <1>1, <1>2, <1>3, <1>4, LabelsApart DEF ActJob

(* A step of the worker r with its job j. *)
LEMMA WorkerStep ==
    ASSUME AutoInv, NEW r \in Req, Keeps(r), pc[r] \in ActLabels \cup {"idle"},
           pc'[r] \in ActLabels \cup {"idle"},
           UNCHANGED <<rule, recent, uncounted, hkVars>>, CentresOK',
           NEW j \in 1..Len(acts), NEW a \in ActJob, OneJob(j, a), JobRow(a),
           pc[r] \in ActLabels => j = loc[r].job,
           pc[r] = "idle" => acts[j].status # "running",
           pc'[r] \in ActLabels => loc'[r].job = j, JobHeld(r)'
    PROVE  AutoInv'
<1>1. UNCHANGED <<hday, marker, queued, digests, faulted>> BY DEF hkVars
<1>2. Same(EventLabels) /\ Same(HkLabels) /\ Same(DigestLabels)
    BY LabelsApart, SameOutside
<1>3. RequestsOK' /\ raced \subseteq raced' BY DEF Keeps
<1>4. Len(acts') = Len(acts) BY DEF OneJob
<1>5. BudgetOK' /\ DaysOK' /\ DigestsOK'
    BY <1>1, <1>2, <1>3, <1>4, BudgetFrame, DaysFrame, DigestsFrame DEF AutoInv
<1>6. ASSUME NEW q \in Req, q # r, pc[q] \in ActLabels
      PROVE  loc[q].job # j /\ pc'[q] = pc[q] /\ loc'[q] = loc[q]
  <2>1. pc'[q] = pc[q] /\ loc'[q] = loc[q] BY <1>6 DEF Keeps
  <2>2. acts[loc[q].job].status = "running" BY <1>6, JobOf
  <2>3. CASE pc[r] = "idle" BY <2>1, <2>2, <2>3
  <2>4. CASE pc[r] \in ActLabels
      BY <1>6, <2>1, <2>4 DEF AutoInv, JobsOK
  <2> QED BY <2>3, <2>4
<1>7. \A q \in Req : q # r /\ pc'[q] \in ActLabels => pc[q] \in ActLabels BY DEF Keeps
<1>8. ASSUME NEW q \in Req PROVE JobHeld(q)'
  <2>1. CASE q = r BY <2>1
  <2>2. CASE q # r /\ pc'[q] \in ActLabels
    <3>1. pc[q] \in ActLabels BY <1>7, <2>2
    <3>2. loc[q].job # j /\ pc'[q] = pc[q] /\ loc'[q] = loc[q] BY <1>6, <2>2, <3>1
    <3>3. JobHeld(q) /\ loc[q].job \in 1..Len(acts) BY <3>1, JobOf
    <3>4. acts'[loc[q].job] = acts[loc[q].job] BY <3>2, <3>3 DEF OneJob
    <3> QED BY <1>3, <1>4, <3>1, <3>2, <3>3, <3>4 DEF JobHeld
  <2>3. CASE pc'[q] \notin ActLabels BY <2>3 DEF JobHeld
  <2> QED BY <2>1, <2>2, <2>3
<1>9. \A i \in 1..Len(acts') : JobRow(acts'[i])
  <2> SUFFICES ASSUME NEW i \in 1..Len(acts) PROVE JobRow(acts'[i])
      BY <1>4
  <2>1. CASE i = j BY <2>1 DEF OneJob
  <2>2. CASE i # j
    <3>1. acts'[i] = acts[i] BY <2>2 DEF OneJob
    <3>2. JobRow(acts[i]) BY DEF AutoInv, JobsOK
    <3> QED BY <3>1, <3>2
  <2> QED BY <2>1, <2>2
<1>10. ASSUME NEW p \in Req, NEW q \in Req, p # q, pc'[p] \in ActLabels, pc'[q] \in ActLabels
       PROVE  loc'[p].job # loc'[q].job
  <2>1. CASE p = r BY <2>1, <1>6, <1>7, <1>10
  <2>2. CASE q = r BY <2>2, <1>6, <1>7, <1>10
  <2>3. CASE p # r /\ q # r
    <3>1. pc[p] \in ActLabels /\ pc[q] \in ActLabels /\ loc'[p] = loc[p] /\ loc'[q] = loc[q]
        BY <1>6, <1>7, <1>10, <2>3
    <3> QED BY <1>10, <3>1 DEF AutoInv, JobsOK
  <2> QED BY <2>1, <2>2, <2>3
<1>11. JobsOK'
    BY <1>8, <1>9, <1>10 DEF AutoInv, JobsOK, OneJob, JobRow
<1> QED BY <1>3, <1>5, <1>11 DEF AutoInv

(* ... without its job. *)
LEMMA WorkerMoves ==
    ASSUME AutoInv, NEW r \in Req, Keeps(r), pc[r] \in ActLabels,
           pc'[r] \in ActLabels \cup {"idle"},
           UNCHANGED <<rule, acts, recent, uncounted, hkVars>>, CentresOK',
           pc'[r] \in ActLabels => loc'[r].job = loc[r].job, JobHeld(r)'
    PROVE  AutoInv'
<1>1. OneJob(loc[r].job, acts[loc[r].job]) BY JobOf DEF OneJob
<1> QED BY <1>1, WorkerStep, JobOf, LabelsApart

LEMMA ActClaimOK ==
    ASSUME AutoInv, NEW r \in Req, ActClaim(r)
    PROVE  AutoInv'
<1>1. PICK j \in DOMAIN acts :
         /\ acts[j].status = "pending"
         /\ Begin(r, "check", [on |-> acts[j].rule, job |-> j, cc |-> 0])
         /\ acts' = [acts EXCEPT ![j].status = "running"]
         /\ UNCHANGED <<rule, recent, uncounted, centre, lastId, tag, hkVars>>
    BY DEF ActClaim
<1> DEFINE a == [acts[j] EXCEPT !.status = "running"]
           d == [on |-> acts[j].rule, job |-> j, cc |-> 0]
<1>2. acts \in Seq(ActJob) /\ j \in 1..Len(acts) /\ acts[j] \in ActJob /\ JobRow(acts[j])
  <2>1. acts \in Seq(ActJob) BY DEF AutoInv, JobsOK
  <2>2. j \in 1..Len(acts) BY <2>1
  <2> QED BY <2>1, <2>2 DEF AutoInv, JobsOK
<1>3. /\ a \in ActJob /\ a.status = "running" /\ a.rule = acts[j].rule /\ a.tries = acts[j].tries
      /\ a.effects = acts[j].effects
    BY <1>2, JobFields
<1>4. OneJob(j, a) BY <1>1, <1>2, <1>3, JobUpdate
<1>5. JobRow(a) BY <1>2, <1>3 DEF JobRow, ActJob
<1>6. Keeps(r) /\ pc[r] = "idle" /\ pc'[r] = "check" /\ loc'[r] = d
    BY <1>1, BeginKeeps DEF AutoInv
<1>7. CentresOK' BY <1>1, CentresFrame DEF AutoInv
<1>8. JobHeld(r)'
  <2>1. d.on = acts[j].rule /\ d.job = j /\ d = [on |-> d.on, job |-> d.job, cc |-> d.cc] OBVIOUS
  <2>2. acts'[j] = a /\ Len(acts') = Len(acts) BY <1>4 DEF OneJob
  <2>3. a.effects <= a.tries BY <1>1, <1>2, <1>3 DEF JobRow
  <2> HIDE DEF a, d
  <2> QED BY <1>2, <1>3, <1>6, <2>1, <2>2, <2>3 DEF JobHeld
<1>9. loc'[r].job = j /\ acts[j].status # "running" /\ UNCHANGED <<rule, recent, uncounted, hkVars>>
    BY <1>1, <1>6
<1>10. pc'[r] \in ActLabels /\ pc[r] \notin ActLabels BY <1>6 DEF ActLabels
<1> HIDE DEF a, d
<1> QED BY <1>2, <1>3, <1>4, <1>5, <1>6, <1>7, <1>8, <1>9, <1>10, WorkerStep

LEMMA ActCheckOK ==
    ASSUME AutoInv, NEW r \in Req, ActCheck(r)
    PROVE  AutoInv'
<1>0. pc[r] = "check" /\ pc[r] \in ActLabels /\ UNCHANGED <<rule, recent, uncounted, centre, lastId, tag, hkVars>>
    BY DEF ActCheck, ActLabels
<1>1. CentresOK' BY <1>0, CentresFrame DEF AutoInv
<1>2. CASE rule[loc[r].on] = "on"
  <2>1. Goto(r, ActStep(r), loc[r]) /\ UNCHANGED acts BY <1>2 DEF ActCheck
  <2>2. ActStep(r) \in {"centre", "webhook_post", "email_notify"}
        /\ (ActStep(r) = "centre" => RuleAction[loc[r].on] \in CentreNames)
      BY <1>0, JobOf DEF ActStep, CentreNames
  <2>3. Keeps(r) /\ pc'[r] = ActStep(r) /\ loc'[r] = loc[r] /\ raced' = raced
      BY <1>0, <2>1, GotoKeeps DEF AutoInv
  <2>4. pc'[r] \in ActLabels /\ pc'[r] # "actor" BY <2>2, <2>3 DEF ActLabels
  <2>5. JobHeld(r)'
      BY <1>0, <1>2, <2>1, <2>2, <2>3, <2>4, JobOf DEF JobHeld
  <2> QED BY <1>0, <1>1, <2>1, <2>3, <2>4, <2>5, WorkerMoves
<1>3. CASE rule[loc[r].on] # "on"
  <2>1. PICK j : j = loc[r].job OBVIOUS
  <2> DEFINE a == [acts[j] EXCEPT !.status = "done", !.skipped = TRUE]
  <2>2. acts \in Seq(ActJob) /\ j \in 1..Len(acts) /\ acts[j] \in ActJob /\ JobRow(acts[j])
      BY <1>0, <2>1, JobOf
  <2>3. End(r) /\ acts' = [acts EXCEPT ![j] = a]
      BY <1>3, <2>1 DEF ActCheck
  <2>4. a \in ActJob /\ a.status = "done" /\ a.tries = acts[j].tries /\ a.effects = acts[j].effects
        /\ a.skipped
      BY <2>2, JobFields
  <2>5. OneJob(j, a) BY <2>2, <2>3, <2>4, JobUpdate
  <2>6. JobRow(a) BY <2>2, <2>4 DEF JobRow
  <2>7. Keeps(r) /\ pc'[r] = "idle" BY <2>3, EndKeeps DEF AutoInv, StaysOrEnds
  <2>8. JobHeld(r)' /\ pc'[r] \notin ActLabels /\ pc[r] # "idle" BY <1>0, <2>7, LabelsApart DEF JobHeld
  <2> HIDE DEF a
  <2> QED BY <1>0, <1>1, <2>1, <2>2, <2>4, <2>5, <2>6, <2>7, <2>8, WorkerStep
<1> QED BY <1>2, <1>3

LEMMA ActWebhookRowOK ==
    ASSUME AutoInv, NEW r \in Req, ActWebhookRow(r)
    PROVE  AutoInv'
<1>1. pc[r] = "webhook_post" /\ pc[r] \in ActLabels /\ UNCHANGED <<rule, acts, recent, uncounted, centre, lastId, tag, hkVars>>
    BY DEF ActWebhookRow, ActLabels, autoVars, ruleVars
<1>2. CentresOK' BY <1>1, CentresFrame DEF AutoInv
<1>3. Keeps(r) /\ pc'[r] = "queue" /\ loc'[r] = loc[r] /\ raced' = raced
    BY <1>1, GotoKeeps DEF AutoInv, ActWebhookRow
<1>4. pc'[r] \in ActLabels BY <1>3 DEF ActLabels
<1>5. JobHeld(r)' BY <1>1, <1>3, <1>4, JobOf DEF JobHeld
<1> QED BY <1>1, <1>2, <1>3, <1>4, <1>5, WorkerMoves

(* The effect, whatever it is: the job is counted one more. *)
LEMMA EffectOK ==
    ASSUME AutoInv, NEW r \in Req, pc[r] \in ActLabels \ {"check", "actor"},
           Goto(r, "actor", loc[r]), acts' = [acts EXCEPT ![loc[r].job].effects = @ + 1],
           UNCHANGED <<rule, recent, uncounted, hkVars>>, CentresOK'
    PROVE  AutoInv'
<1>1. PICK j : j = loc[r].job OBVIOUS
<1> DEFINE a == [acts[j] EXCEPT !.effects = @ + 1]
<1>2. /\ acts \in Seq(ActJob) /\ j \in 1..Len(acts) /\ acts[j] \in ActJob /\ JobRow(acts[j])
      /\ JobHeld(r) /\ pc[r] # "idle"
    BY <1>1, JobOf
<1>3. acts' = [acts EXCEPT ![j] = a] BY <1>1
<1>4. /\ a \in ActJob /\ a.status = acts[j].status /\ a.rule = acts[j].rule /\ a.tries = acts[j].tries
      /\ a.effects = acts[j].effects + 1
    BY <1>2, JobFields
<1>5. OneJob(j, a) BY <1>2, <1>3, <1>4, JobUpdate
<1>6. acts[j].status = "running" /\ acts[j].effects <= acts[j].tries /\ acts[j].effects \in Nat
      /\ acts[j].tries \in Nat
    BY <1>1, <1>2 DEF JobHeld, ActJob
<1> HIDE DEF a
<1>7. JobRow(a) /\ a.effects > 0 BY <1>4, <1>6 DEF JobRow
<1>8. Keeps(r) /\ pc'[r] = "actor" /\ loc'[r] = loc[r] /\ raced' = raced
    BY <1>2, GotoKeeps DEF AutoInv
<1>9. pc'[r] \in ActLabels BY <1>8 DEF ActLabels
<1>10. JobHeld(r)'
  <2>1. acts'[j] = a /\ Len(acts') = Len(acts) BY <1>5 DEF OneJob
  <2> QED BY <1>1, <1>2, <1>4, <1>6, <1>7, <1>8, <2>1 DEF JobHeld
<1> QED BY <1>1, <1>2, <1>4, <1>5, <1>7, <1>8, <1>9, <1>10, WorkerStep

LEMMA ActQueueOK ==
    ASSUME AutoInv, NEW r \in Req, ActQueue(r)
    PROVE  AutoInv'
<1>1. CentresOK' BY CentresFrame DEF ActQueue, AutoInv
<1>2. pc[r] \in ActLabels \ {"check", "actor"} BY DEF ActQueue, ActLabels
<1> QED BY <1>1, <1>2, EffectOK DEF ActQueue

(* A posting gets the centre if it has none. *)
LEMMA ActTagOK ==
    ASSUME AutoInv, NEW r \in Req, ActTag(r)
    PROVE  AutoInv'
<1>1. CentresOK' BY DEF ActTag, AutoInv, CentresOK, Alive
<1>2. pc[r] \in ActLabels \ {"check", "actor"} BY DEF ActTag, ActLabels
<1> QED BY <1>1, <1>2, EffectOK DEF ActTag

(* A centre that is made has an id of its own. *)
LEMMA NewCentre ==
    ASSUME CentresOK, NEW name \in CentreNames, centre[name] = 0, lastId + 1 <= MaxId,
           centre' = [centre EXCEPT ![name] = lastId + 1], lastId' = lastId + 1, UNCHANGED tag
    PROVE  CentresOK'
<1>1. lastId \in Nat /\ centre \in [CentreNames -> Nat] /\ MaxId \in Nat BY Bounds DEF CentresOK
<1>2. \A c \in CentreNames : centre'[c] = IF c = name THEN lastId + 1 ELSE centre[c] BY <1>1
<1>3. centre' \in [CentreNames -> Nat] /\ lastId' \in 0..MaxId BY <1>1
<1>4. \A c \in CentreNames : centre[c] <= lastId /\ centre[c] \in Nat BY <1>1 DEF CentresOK
<1>5. \A c \in CentreNames : centre'[c] <= lastId' BY <1>1, <1>2, <1>4
<1>6. \A b, c \in CentreNames : centre'[b] = centre'[c] /\ centre'[b] # 0 => b = c
  <2> SUFFICES ASSUME NEW b \in CentreNames, NEW c \in CentreNames,
                      centre'[b] = centre'[c], centre'[b] # 0, b # c PROVE FALSE
      OBVIOUS
  <2>1. b # name /\ c # name BY <1>1, <1>2, <1>4
  <2> QED BY <1>2, <2>1 DEF CentresOK
<1>7. \A p \in Posting : tag'[p] = 0 \/ Alive(tag[p])'
  <2> SUFFICES ASSUME NEW p \in Posting, tag[p] # 0 PROVE \E c \in CentreNames : centre'[c] = tag'[p]
      BY DEF Alive
  <2>1. PICK c \in CentreNames : centre[c] = tag[p] BY DEF CentresOK, Alive
  <2> QED BY <1>2, <2>1
<1> QED BY <1>3, <1>5, <1>6, <1>7 DEF CentresOK

LEMMA ActCentreOK ==
    ASSUME AutoInv, NEW r \in Req, ActCentre(r)
    PROVE  AutoInv'
<1>1. PICK name, id :
         /\ name = RuleAction[loc[r].on] /\ id = (IF centre[name] # 0 THEN centre[name] ELSE lastId + 1)
         /\ id <= MaxId /\ centre' = [centre EXCEPT ![name] = id]
         /\ lastId' = (IF id > lastId THEN id ELSE lastId)
         /\ Goto(r, "tag", [loc[r] EXCEPT !.cc = id])
    BY DEF ActCentre
<1>2. pc[r] = "centre" /\ pc[r] \in ActLabels /\ UNCHANGED <<rule, acts, recent, uncounted, tag, hkVars>>
    BY DEF ActCentre, ActLabels
<1>3. JobHeld(r) BY DEF AutoInv, JobsOK
<1>4. name \in CentreNames BY <1>1, <1>2, <1>3 DEF JobHeld
<1>5. /\ lastId \in Nat /\ centre \in [CentreNames -> Nat] /\ centre[name] \in Nat /\ centre[name] <= lastId
    BY <1>4, Bounds DEF AutoInv, CentresOK
<1>6. CentresOK'
  <2>1. CASE centre[name] # 0
    <3>1. id = centre[name] /\ centre' = centre /\ lastId' = lastId /\ tag' = tag
        BY <1>1, <1>2, <1>4, <1>5, <2>1
    <3> QED BY <3>1, CentresFrame DEF AutoInv
  <2>2. CASE centre[name] = 0
    <3>1. id = lastId + 1 /\ lastId' = lastId + 1 BY <1>1, <1>5, <2>2
    <3> QED BY <1>1, <1>2, <1>4, <2>2, <3>1, NewCentre DEF AutoInv
  <2> QED BY <2>1, <2>2
<1>7. PICK o, j, c : loc[r] = [on |-> o, job |-> j, cc |-> c] BY <1>2, <1>3 DEF JobHeld
<1> DEFINE d == [on |-> o, job |-> j, cc |-> id]
<1>8. [loc[r] EXCEPT !.cc = id] = d BY <1>7
<1>9. Keeps(r) /\ pc'[r] = "tag" /\ loc'[r] = d /\ raced' = raced
    BY <1>1, <1>2, <1>7, <1>8, GotoKeeps DEF AutoInv
<1>10. pc'[r] \in ActLabels /\ loc'[r].job = loc[r].job /\ loc'[r].on = loc[r].on
       /\ loc'[r] = [on |-> loc'[r].on, job |-> loc'[r].job, cc |-> loc'[r].cc]
    BY <1>7, <1>9 DEF ActLabels
<1>11. JobHeld(r)' BY <1>2, <1>3, <1>9, <1>10 DEF JobHeld
<1> QED BY <1>2, <1>6, <1>9, <1>10, <1>11, WorkerMoves

LEMMA ActDoneOK ==
    ASSUME AutoInv, NEW r \in Req, ActDone(r)
    PROVE  AutoInv'
<1>0. pc[r] = "actor" /\ pc[r] \in ActLabels /\ UNCHANGED <<rule, recent, uncounted, centre, lastId, tag, hkVars>>
    BY DEF ActDone, ActLabels
<1>1. CentresOK' BY <1>0, CentresFrame DEF AutoInv
<1>2. PICK j : j = loc[r].job OBVIOUS
<1> DEFINE a == [acts[j] EXCEPT !.status = "done"]
<1>3. /\ acts \in Seq(ActJob) /\ j \in 1..Len(acts) /\ acts[j] \in ActJob /\ JobRow(acts[j])
      /\ JobHeld(r)
    BY <1>0, <1>2, JobOf
<1>4. End(r) /\ acts' = [acts EXCEPT ![j] = a] BY <1>2 DEF ActDone
<1>5. a \in ActJob /\ a.status = "done" /\ a.tries = acts[j].tries /\ a.effects = acts[j].effects
    BY <1>3, JobFields
<1>6. OneJob(j, a) BY <1>3, <1>4, <1>5, JobUpdate
<1>7. JobRow(a) BY <1>0, <1>2, <1>3, <1>5 DEF JobRow, JobHeld
<1>8. Keeps(r) /\ pc'[r] = "idle" BY <1>4, EndKeeps DEF AutoInv, StaysOrEnds
<1>9. JobHeld(r)' /\ pc'[r] \notin ActLabels /\ pc[r] # "idle" BY <1>0, <1>8, LabelsApart DEF JobHeld
<1> HIDE DEF a
<1> QED BY <1>0, <1>1, <1>2, <1>3, <1>5, <1>6, <1>7, <1>8, <1>9, WorkerStep

LEMMA ActFailsOK ==
    ASSUME AutoInv, NEW r \in Req, ActFails(r)
    PROVE  AutoInv'
<1>0. pc[r] \in ActLabels /\ UNCHANGED <<rule, recent, uncounted, centre, lastId, tag, hkVars>>
    BY DEF ActFails
<1>1. CentresOK' BY <1>0, CentresFrame DEF AutoInv
<1>2. PICK j : j = loc[r].job OBVIOUS
<1>3. PICK st \in {"pending", "dead"} : st = IF acts[j].tries + 1 >= MaxAttempts THEN "dead" ELSE "pending"
    OBVIOUS
<1> DEFINE a == [acts[j] EXCEPT !.tries = acts[j].tries + 1, !.status = st]
<1>4. acts \in Seq(ActJob) /\ j \in 1..Len(acts) /\ acts[j] \in ActJob /\ JobRow(acts[j])
    BY <1>0, <1>2, JobOf
<1>5. End(r) /\ acts' = [acts EXCEPT ![j] = a] BY <1>2, <1>3 DEF ActFails
<1>6. a \in ActJob /\ a.status = st /\ a.tries = acts[j].tries + 1 /\ a.effects = acts[j].effects
  <2>1. PICK b \in ActJob : b = acts[j] BY <1>4
  <2>2. a = [b EXCEPT !.tries = b.tries + 1, !.status = st] BY <2>1
  <2> DEFINE c == [b EXCEPT !.tries = b.tries + 1, !.status = st]
  <2>3. b.tries + 1 \in Nat BY DEF ActJob
  <2>4. c.status = st BY DEF ActJob
  <2>5. c.tries = b.tries + 1 BY DEF ActJob
  <2>6. c.effects = b.effects BY DEF ActJob
  <2>7. c \in ActJob BY <2>3 DEF ActJob
  <2> HIDE DEF a, c
  <2>8. a = c BY <2>2 DEF c
  <2> QED BY <2>1, <2>4, <2>5, <2>6, <2>7, <2>8
<1>7. OneJob(j, a) BY <1>4, <1>5, <1>6, JobUpdate
<1>8. JobRow(a)
  <2>1. acts[j].tries \in Nat /\ acts[j].effects \in Nat BY <1>4 DEF ActJob
  <2> HIDE DEF a
  <2> QED BY <1>3, <1>4, <1>6, <2>1 DEF JobRow
<1>9. Keeps(r) /\ pc'[r] = "idle" BY <1>5, EndKeeps DEF AutoInv, StaysOrEnds
<1>10. JobHeld(r)' /\ pc'[r] \notin ActLabels /\ pc[r] # "idle" BY <1>0, <1>9, LabelsApart DEF JobHeld
<1> HIDE DEF a
<1> QED BY <1>0, <1>1, <1>2, <1>4, <1>6, <1>7, <1>8, <1>9, <1>10, WorkerStep

LEMMA ActCutOffOK ==
    ASSUME AutoInv, NEW r \in Req, ActCutOff(r)
    PROVE  AutoInv'
<1>1. pc[r] \in ActLabels /\ UNCHANGED <<rule, acts, recent, uncounted, centre, lastId, tag, hkVars>>
    BY DEF ActCutOff, autoVars, ruleVars
<1>2. CentresOK' BY <1>1, CentresFrame DEF AutoInv
<1>3. Keeps(r) /\ pc'[r] = "idle" BY EndKeeps DEF ActCutOff, CutOff, AutoInv, StaysOrEnds
<1>4. JobHeld(r)' /\ pc'[r] \notin ActLabels BY <1>3, LabelsApart DEF JobHeld
<1> QED BY <1>1, <1>2, <1>3, <1>4, WorkerMoves

(* The page of the centres. *)
LEMMA CostCentreOK ==
    ASSUME AutoInv, NEW r \in Req, NEW name \in CentreNames,
           CreateCostCentre(r, name) \/ DeleteCostCentre(r, name)
    PROVE  AutoInv'
<1>1. Serve(r, "centres") /\ UNCHANGED <<rule, acts, recent, uncounted, hkVars>>
    BY DEF CreateCostCentre, DeleteCostCentre
<1>2. RequestsOK' /\ UNCHANGED <<pc, loc>> /\ raced \subseteq raced' BY <1>1, ServeOK DEF AutoInv
<1>3. \A L : Same(L) BY <1>2, SameAll
<1>4. UNCHANGED <<hday, marker, queued, digests, faulted>> BY <1>1 DEF hkVars
<1>5. BudgetOK' /\ JobsOK' /\ DaysOK' /\ DigestsOK'
    BY <1>1, <1>2, <1>3, <1>4, BudgetFrame, JobsFrame, DaysFrame, DigestsFrame DEF AutoInv
<1>6. CentresOK'
  <2>1. CASE CreateCostCentre(r, name)
    <3>1. lastId \in Nat /\ MaxId \in Nat BY Bounds DEF AutoInv, CentresOK
    <3>2. lastId + 1 <= MaxId BY <2>1, <3>1 DEF CreateCostCentre
    <3> QED BY <2>1, <3>2, NewCentre DEF CreateCostCentre, AutoInv
  <2>2. CASE DeleteCostCentre(r, name)
    <3>1. centre \in [CentreNames -> Nat] /\ lastId \in Nat /\ UNCHANGED lastId
        BY <2>2 DEF DeleteCostCentre, AutoInv, CentresOK
    <3>2. \A c \in CentreNames : centre'[c] = IF c = name THEN 0 ELSE centre[c]
        BY <2>2, <3>1 DEF DeleteCostCentre
    <3>3. \A p \in Posting : tag'[p] = IF tag[p] = centre[name] THEN 0 ELSE tag[p]
        BY <2>2 DEF DeleteCostCentre
    <3>4. centre' \in [CentreNames -> Nat] BY <2>2, <3>1 DEF DeleteCostCentre
    <3>5. \A c \in CentreNames : centre'[c] <= lastId'
        BY <3>1, <3>2 DEF AutoInv, CentresOK
    <3>6. \A b, c \in CentreNames : centre'[b] = centre'[c] /\ centre'[b] # 0 => b = c
        BY <3>2 DEF AutoInv, CentresOK
    <3>7. \A p \in Posting : tag'[p] = 0 \/ Alive(tag[p])'
        BY <3>2, <3>3 DEF AutoInv, CentresOK, Alive
    <3> QED BY <3>1, <3>4, <3>5, <3>6, <3>7 DEF AutoInv, CentresOK
  <2> QED BY <2>1, <2>2
<1> QED BY <1>2, <1>5, <1>6 DEF AutoInv

-----------------------------------------------------------------------------
(* Housekeeping and digests leave the rules, jobs and centres alone. *)
LEMMA ClockStep ==
    ASSUME AutoInv, NEW r \in Req, Keeps(r), UNCHANGED ruleVars,
           pc[r] \in HkLabels \cup DigestLabels \cup {"idle"} \/ pc'[r] = "idle",
           pc'[r] \in HkLabels \cup DigestLabels \cup {"idle"},
           DaysOK', DigestsOK'
    PROVE  AutoInv'
<1>1. UNCHANGED <<rule, acts, recent, uncounted, centre, lastId, tag>> BY DEF ruleVars
<1>2. RequestsOK' /\ raced \subseteq raced' BY DEF Keeps
<1>3. CentresOK' BY <1>1, CentresFrame DEF AutoInv
<1>4. pc'[r] \notin EventLabels \cup ActLabels BY LabelsApart
<1>5. \A q \in Req : pc'[q] \in EventLabels \cup ActLabels => pc'[q] = pc[q] /\ loc'[q] = loc[q]
    BY <1>4 DEF Keeps
<1>6. BudgetOK'
  <2>1. ASSUME NEW q \in Req PROVE EventHeld(q)'
    <3>1. EventHeld(q) BY DEF AutoInv, BudgetOK
    <3> QED BY <1>1, <1>2, <1>5, <3>1 DEF EventHeld, EventLabels
  <2> QED BY <1>1, <1>2, <2>1 DEF AutoInv, BudgetOK, BudgetBounded
<1>7. JobsOK'
  <2>1. ASSUME NEW q \in Req PROVE JobHeld(q)'
    <3>1. JobHeld(q) BY DEF AutoInv, JobsOK
    <3> QED BY <1>1, <1>2, <1>5, <3>1 DEF JobHeld
  <2>2. \A p, q \in Req : p # q /\ pc'[p] \in ActLabels /\ pc'[q] \in ActLabels
                             => loc'[p].job # loc'[q].job
      BY <1>5 DEF AutoInv, JobsOK
  <2> QED BY <1>1, <2>1, <2>2 DEF AutoInv, JobsOK, JobRow
<1> QED BY <1>2, <1>3, <1>6, <1>7 DEF AutoInv

(* What is queued stays; a marked day stays complete. *)
LEMMA MarkedStays ==
    ASSUME DaysOK, marker' = marker, queued' \in [KindDays -> Nat],
           \A kd \in KindDays : queued'[kd] >= queued[kd]
    PROVE  MarkedDayComplete'
<1> SUFFICES ASSUME NEW r \in Req, marker[r] # 0, NEW i \in DOMAIN Kinds(marker[r])
             PROVE  queued'[<<Kinds(marker[r])[i], marker[r]>>] > 0
    BY DEF MarkedDayComplete
<1>1. marker[r] \in 1..LastDay /\ i \in 1..Len(Kinds(marker[r]))
    BY KindsOfDay, Bounds DEF DaysOK
<1>2. <<Kinds(marker[r])[i], marker[r]>> \in KindDays BY <1>1, KindDay
<1>3. queued[<<Kinds(marker[r])[i], marker[r]>>] > 0 BY DEF DaysOK, MarkedDayComplete
<1>4. queued \in [KindDays -> Nat] BY DEF DaysOK
<1> QED BY <1>2, <1>3, <1>4

LEMMA HkStartOK ==
    ASSUME AutoInv, NEW r \in Req, HkStart(r)
    PROVE  AutoInv'
<1> DEFINE h == [on |-> "hk", next |-> 1, day |-> hday]
<1>1. /\ UNCHANGED <<hday, marker, queued, digests, faulted>> /\ UNCHANGED ruleVars
      /\ marker[r] # hday
    BY DEF HkStart, autoVars, hkVars
<1>2. Keeps(r) /\ pc[r] = "idle" /\ pc'[r] = "hk" /\ loc'[r] = h
    BY BeginKeeps DEF HkStart, AutoInv
<1>3. h.on = "hk" /\ h.next = 1 /\ h.day = hday /\ h = [on |-> "hk", next |-> h.next, day |-> h.day]
    OBVIOUS
<1> HIDE DEF h
<1>4. hday \in 1..LastDay /\ marker[r] \in Nat /\ marker[r] <= hday /\ LastDay \in Nat
    BY Bounds DEF AutoInv, DaysOK
<1>5. HkHeld(r)'
  <2>1. Len(Kinds(hday)) \in Nat BY KindsOfDay
  <2> QED BY <1>1, <1>2, <1>3, <1>4, <2>1 DEF HkHeld
<1>6. ASSUME NEW q \in Req, q # r PROVE HkHeld(q)'
  <2>1. HkHeld(q) BY DEF AutoInv, DaysOK
  <2> QED BY <1>1, <1>2, <1>6, <2>1 DEF HkHeld, Keeps
<1>7. \A d \in 1..LastDay : \A i \in 1..Len(Kinds(d)) : Doers(d, i)' = Doers(d, i)
  <2> SUFFICES ASSUME NEW d \in 1..LastDay, NEW i \in 1..Len(Kinds(d)), NEW q \in Req
               PROVE  (pc'[q] = "hk" /\ loc'[q].day = d /\ loc'[q].next > i)
                         <=> (pc[q] = "hk" /\ loc[q].day = d /\ loc[q].next > i)
      BY <1>1 DEF Doers
  <2>1. CASE q = r
    <3>1. ~(1 > i) BY KindsOfDay
    <3> QED BY <1>2, <1>3, <2>1, <3>1
  <2>2. CASE q # r BY <1>2, <2>2 DEF Keeps
  <2> QED BY <2>1, <2>2
<1>8. MarkedDayComplete' BY <1>1 DEF AutoInv, DaysOK, MarkedDayComplete
<1>9. DaysOK' BY <1>1, <1>5, <1>6, <1>7, <1>8 DEF AutoInv, DaysOK
<1>10. DigestsOK'
  <2>1. Same(DigestLabels) BY <1>2, SameOutside DEF DigestLabels
  <2> QED BY <1>1, <2>1, DigestsFrame DEF AutoInv
<1> QED BY <1>1, <1>2, <1>9, <1>10, ClockStep DEF HkLabels

(* The next job of the day: r has queued it now, and had not before. *)
LEMMA HkEnqueueDays ==
    ASSUME AutoInv, NEW r \in Req, HkEnqueue(r)
    PROVE  DaysOK'
<1> DEFINE day == loc[r].day
           n == loc[r].next
<1>1. PICK d, m, kd : /\ loc[r] = [on |-> "hk", next |-> m, day |-> d] /\ kd = <<Kinds(d)[m], d>>
                      /\ d \in 1..hday /\ marker[r] < d /\ m \in 1..Len(Kinds(d))
                      /\ \A i \in 1..(m - 1) : queued[<<Kinds(d)[i], d>>] > 0
  <2>1. pc[r] = "hk" /\ HkHeld(r) /\ n <= Len(Kinds(day)) BY DEF HkEnqueue, AutoInv, DaysOK
  <2>2. Len(Kinds(day)) \in Nat BY KindsOfDay
  <2>3. n \in 1..Len(Kinds(day)) BY <2>1, <2>2 DEF HkHeld
  <2> QED BY <2>1, <2>3 DEF HkHeld
<1>2. /\ pc[r] = "hk" /\ UNCHANGED <<hday, marker, faulted>>
      /\ queued' = [queued EXCEPT ![kd] = @ + 1]
      /\ Goto(r, "hk", [loc[r] EXCEPT !.next = @ + 1])
    BY <1>1 DEF HkEnqueue
<1>3. /\ hday \in 1..LastDay /\ LastDay \in Nat /\ d \in 1..LastDay /\ faulted \in Nat
      /\ queued \in [KindDays -> Nat] /\ marker \in [Req -> 0..LastDay]
    BY <1>1, Bounds DEF AutoInv, DaysOK
<1>4. kd \in KindDays BY <1>1, <1>3, KindDay
<1>5. /\ queued' \in [KindDays -> Nat] /\ queued'[kd] = queued[kd] + 1
      /\ \A k \in KindDays : queued'[k] >= queued[k] /\ (k # kd => queued'[k] = queued[k])
    BY <1>2, <1>3, <1>4
<1> DEFINE h == [on |-> "hk", next |-> m + 1, day |-> d]
<1>6. Keeps(r) /\ pc'[r] = "hk" /\ loc'[r] = h
  <2>1. [loc[r] EXCEPT !.next = @ + 1] = h BY <1>1
  <2> QED BY <1>1, <1>2, <2>1, GotoKeeps DEF AutoInv
<1>7. h.next = m + 1 /\ h.day = d /\ h = [on |-> "hk", next |-> h.next, day |-> h.day] OBVIOUS
<1>8. loc[r].next = m /\ loc[r].day = d BY <1>1
<1> HIDE DEF h, day, n
<1>9. m \in Nat /\ Len(Kinds(d)) \in Nat /\ 1 <= m /\ m <= Len(Kinds(d)) BY <1>1, KindsOfDay
<1>10. HkHeld(r)'
  <2>1. \A i \in 1..m : queued'[<<Kinds(d)[i], d>>] > 0
    <3> SUFFICES ASSUME NEW i \in 1..m PROVE queued'[<<Kinds(d)[i], d>>] > 0
        OBVIOUS
    <3>1. CASE i = m BY <1>1, <1>3, <1>4, <1>5, <3>1
    <3>2. CASE i # m
      <4>1. i \in 1..(m - 1) /\ i \in 1..Len(Kinds(d)) BY <1>9, <3>2
      <4>2. <<Kinds(d)[i], d>> \in KindDays BY <1>3, <4>1, KindDay
      <4>3. queued[<<Kinds(d)[i], d>>] > 0 BY <1>1, <4>1
      <4> QED BY <1>3, <1>5, <4>2, <4>3
    <3> QED BY <3>1, <3>2
  <2>2. h.next \in 1..(Len(Kinds(d)) + 1) /\ h.next - 1 = m BY <1>7, <1>9
  <2>3. d \in 1..hday' /\ marker'[r] < d BY <1>1, <1>2
  <2> QED BY <1>6, <1>7, <2>1, <2>2, <2>3 DEF HkHeld
<1>11. ASSUME NEW q \in Req, q # r, pc'[q] = "hk" PROVE HkHeld(q)'
  <2>1. HkHeld(q) /\ pc'[q] = pc[q] /\ loc'[q] = loc[q] BY <1>6, <1>11 DEF AutoInv, DaysOK, Keeps
  <2>2. PICK e, k : e = loc[q].day /\ k = loc[q].next OBVIOUS
  <2>3. e \in 1..LastDay /\ k \in 1..(Len(Kinds(e)) + 1) /\ Len(Kinds(e)) \in Nat
      BY <1>3, <1>11, <2>1, <2>2, KindsOfDay DEF HkHeld
  <2>4. \A i \in 1..(k - 1) : queued'[<<Kinds(e)[i], e>>] > 0
    <3> SUFFICES ASSUME NEW i \in 1..(k - 1) PROVE queued'[<<Kinds(e)[i], e>>] > 0
        OBVIOUS
    <3>1. i \in 1..Len(Kinds(e)) BY <2>3
    <3>2. <<Kinds(e)[i], e>> \in KindDays BY <2>3, <3>1, KindDay
    <3>3. queued[<<Kinds(e)[i], e>>] > 0 BY <1>11, <2>1, <2>2 DEF HkHeld
    <3> QED BY <1>3, <1>5, <3>2, <3>3
  <2> QED BY <1>2, <2>1, <2>2, <2>4 DEF HkHeld
<1>12. MarkedDayComplete' BY <1>2, <1>5, MarkedStays DEF AutoInv
<1>13. ASSUME NEW e \in 1..LastDay, NEW i \in 1..Len(Kinds(e))
       PROVE  queued'[<<Kinds(e)[i], e>>] <= Cardinality(Doers(e, i)') + faulted'
  <2>1. queued[<<Kinds(e)[i], e>>] <= Cardinality(Doers(e, i)) + faulted
      BY DEF AutoInv, DaysOK
  <2>2. \A q \in Req : q # r => (q \in Doers(e, i)' <=> q \in Doers(e, i))
      BY <1>2, <1>6 DEF Doers, Keeps
  <2>3. r \in Doers(e, i)' <=> (marker[r] >= e \/ (e = d /\ m + 1 > i))
      BY <1>2, <1>6, <1>7 DEF Doers
  <2>4. r \in Doers(e, i) <=> (marker[r] >= e \/ (e = d /\ m > i))
      BY <1>2, <1>8 DEF Doers
  <2>5. Doers(e, i) \subseteq Req /\ Doers(e, i)' \subseteq Req BY DEF Doers
  <2>6. <<Kinds(e)[i], e>> \in KindDays BY KindDay
  <2>7. i \in Nat /\ e \in Nat /\ d \in Nat /\ marker[r] \in Nat BY <1>3, KindsOfDay
  <2>8. CASE e = d /\ i = m
    <3>1. r \notin Doers(e, i) /\ r \in Doers(e, i)' BY <1>1, <1>9, <2>3, <2>4, <2>7, <2>8
    <3>2. Doers(e, i)' = Doers(e, i) \cup {r} BY <2>2, <2>5, <3>1
    <3>3. Cardinality(Doers(e, i)') = Cardinality(Doers(e, i)) + 1 /\ Cardinality(Doers(e, i)) \in Nat
        BY <2>5, <3>1, <3>2, OneMore
    <3>4. <<Kinds(e)[i], e>> = kd BY <1>1, <2>8
    <3>5. queued'[kd] = queued[kd] + 1 /\ queued[kd] \in Nat /\ faulted' = faulted /\ faulted \in Nat
        BY <1>2, <1>3, <1>4, <1>5
    <3>6. PICK x : x = Cardinality(Doers(e, i)) OBVIOUS
    <3>7. x \in Nat /\ Cardinality(Doers(e, i)') = x + 1 BY <3>3, <3>6
    <3>8. queued[kd] <= x + faulted BY <2>1, <3>4, <3>6
    <3>9. queued[kd] + 1 <= (x + 1) + faulted BY <3>5, <3>7, <3>8
    <3> QED BY <3>4, <3>5, <3>7, <3>9
  <2>9. CASE ~(e = d /\ i = m)
    <3>1. r \in Doers(e, i)' <=> r \in Doers(e, i) BY <1>9, <2>3, <2>4, <2>7, <2>9
    <3>2. Doers(e, i)' = Doers(e, i) BY <2>2, <2>5, <3>1
    <3>3. <<Kinds(e)[i], e>> # kd
      <4>1. ASSUME <<Kinds(e)[i], e>> = kd PROVE e = d /\ i = m
        <5>1. e = d /\ Kinds(e)[i] = Kinds(d)[m] BY <1>1, <4>1
        <5> QED BY <1>1, <5>1, KindsOfDay
      <4> QED BY <2>9, <4>1
    <3>4. queued'[<<Kinds(e)[i], e>>] = queued[<<Kinds(e)[i], e>>] BY <1>5, <2>6, <3>3
    <3> QED BY <1>2, <2>1, <3>2, <3>4
  <2> QED BY <2>8, <2>9
<1>14. \A q \in Req : HkHeld(q)' BY <1>10, <1>11 DEF HkHeld
<1> QED BY <1>2, <1>5, <1>12, <1>13, <1>14 DEF AutoInv, DaysOK

(* The days after a failure or a restart of r: r may have to do a day      *)
(* again, which the count of the faults allows.                            *)
LEMMA FaultDays ==
    ASSUME AutoInv, NEW r \in Req, Keeps(r), pc'[r] = "idle",
           UNCHANGED <<hday, queued>>, faulted' = faulted + 1,
           marker' \in [Req -> 0..LastDay], \A q \in Req \ {r} : marker'[q] = marker[q],
           marker'[r] \in {0, marker[r]}
    PROVE  DaysOK'
<1>1. /\ hday \in 1..LastDay /\ LastDay \in Nat /\ faulted \in Nat /\ faulted' \in Nat
      /\ \A q \in Req : marker[q] <= hday /\ HkHeld(q)
      /\ MarkedDayComplete
    BY Bounds DEF AutoInv, DaysOK
<1>2. \A q \in Req : marker'[q] <= hday' BY <1>1
<1>3. ASSUME NEW q \in Req PROVE HkHeld(q)'
  <2>1. HkHeld(q) BY <1>1
  <2>2. pc'[q] = "hk" => q # r /\ pc'[q] = pc[q] /\ loc'[q] = loc[q] /\ marker'[q] = marker[q]
      BY DEF Keeps
  <2> QED BY <2>1, <2>2 DEF HkHeld
<1>4. MarkedDayComplete'
  <2>1. \A q \in Req : marker'[q] # 0 => marker'[q] = marker[q] OBVIOUS
  <2> QED BY <1>1, <2>1 DEF MarkedDayComplete
<1>5. ASSUME NEW e \in 1..LastDay, NEW i \in 1..Len(Kinds(e))
      PROVE  queued'[<<Kinds(e)[i], e>>] <= Cardinality(Doers(e, i)') + faulted'
  <2>1. queued[<<Kinds(e)[i], e>>] <= Cardinality(Doers(e, i)) + faulted
      BY DEF AutoInv, DaysOK
  <2>2. Doers(e, i) \subseteq Req /\ Doers(e, i)' \subseteq Req BY DEF Doers
  <2>3. Doers(e, i) \subseteq Doers(e, i)' \cup {r}
      BY DEF Doers, Keeps
  <2>4. PICK x, y : x = Cardinality(Doers(e, i)) /\ y = Cardinality(Doers(e, i)') OBVIOUS
  <2>5. x \in Nat /\ y \in Nat /\ x <= y + 1 BY <2>2, <2>3, <2>4, AtMostOneLess
  <2>6. PICK n \in Nat : n = queued[<<Kinds(e)[i], e>>]
      BY KindDay DEF AutoInv, DaysOK
  <2>7. n <= x + faulted BY <2>1, <2>4, <2>6
  <2>8. n <= y + faulted' BY <1>1, <2>5, <2>7
  <2> QED BY <2>4, <2>6, <2>8
<1> QED BY <1>1, <1>2, <1>3, <1>4, <1>5 DEF AutoInv, DaysOK

(* The marker: every job of the day has been queued. *)
LEMMA HkMarkDays ==
    ASSUME AutoInv, NEW r \in Req, HkMark(r)
    PROVE  DaysOK' /\ Keeps(r) /\ pc'[r] = "idle"
<1>1. PICK d, m : d = loc[r].day /\ m = loc[r].next OBVIOUS
<1>2. /\ pc[r] = "hk" /\ m > Len(Kinds(d)) /\ End(r) /\ UNCHANGED <<hday, queued, faulted>>
      /\ marker' = [marker EXCEPT ![r] = d]
    BY <1>1 DEF HkMark
<1>3. /\ hday \in 1..LastDay /\ LastDay \in Nat /\ marker \in [Req -> 0..LastDay]
      /\ \A q \in Req : marker[q] <= hday /\ HkHeld(q)
      /\ MarkedDayComplete
    BY Bounds DEF AutoInv, DaysOK
<1>4. Keeps(r) /\ pc'[r] = "idle" BY <1>2, EndKeeps DEF AutoInv, StaysOrEnds
<1>5. /\ d \in 1..hday /\ marker[r] < d /\ m \in 1..(Len(Kinds(d)) + 1)
      /\ \A i \in 1..(m - 1) : queued[<<Kinds(d)[i], d>>] > 0
  <2>1. HkHeld(r) BY <1>3
  <2> QED BY <1>1, <1>2, <2>1 DEF HkHeld
<1>6. d \in 1..LastDay /\ Len(Kinds(d)) \in Nat /\ m - 1 = Len(Kinds(d))
  <2>1. PICK l \in Nat : l = Len(Kinds(d)) BY KindsOfDay
  <2>2. m > l /\ m \in 1..(l + 1) BY <1>2, <1>5, <2>1
  <2>3. m - 1 = l BY <2>2
  <2>4. d \in 1..LastDay BY <1>3, <1>5
  <2> QED BY <2>1, <2>3, <2>4
<1>7. marker' \in [Req -> 0..LastDay] /\ marker'[r] = d /\ \A q \in Req \ {r} : marker'[q] = marker[q]
    BY <1>2, <1>3, <1>6
<1>8. \A q \in Req : marker'[q] <= hday' BY <1>2, <1>3, <1>5, <1>7
<1>9. ASSUME NEW q \in Req PROVE HkHeld(q)'
  <2>1. HkHeld(q) BY <1>3
  <2>2. pc'[q] = "hk" => q # r /\ pc'[q] = pc[q] /\ loc'[q] = loc[q] /\ marker'[q] = marker[q]
      BY <1>4, <1>7 DEF Keeps
  <2> QED BY <1>2, <2>1, <2>2 DEF HkHeld
<1>10. MarkedDayComplete'
  <2> SUFFICES ASSUME NEW q \in Req, marker'[q] # 0, NEW i \in DOMAIN Kinds(marker'[q])
               PROVE  queued[<<Kinds(marker'[q])[i], marker'[q]>>] > 0
      BY <1>2 DEF MarkedDayComplete
  <2>1. CASE q = r
    <3>1. i \in 1..(m - 1) BY <1>6, <1>7, <2>1, KindsOfDay
    <3> QED BY <1>5, <1>7, <2>1, <3>1
  <2>2. CASE q # r BY <1>3, <1>7, <2>2 DEF MarkedDayComplete
  <2> QED BY <2>1, <2>2
<1>11. ASSUME NEW e \in 1..LastDay, NEW i \in 1..Len(Kinds(e))
       PROVE  queued'[<<Kinds(e)[i], e>>] <= Cardinality(Doers(e, i)') + faulted'
  <2>1. queued[<<Kinds(e)[i], e>>] <= Cardinality(Doers(e, i)) + faulted
      BY DEF AutoInv, DaysOK
  <2>2. Doers(e, i) \subseteq Req /\ Doers(e, i)' \subseteq Req BY DEF Doers
  <2>3. \A q \in Req \ {r} : q \in Doers(e, i) => q \in Doers(e, i)'
      BY <1>4, <1>7 DEF Doers, Keeps
  <2>4. r \in Doers(e, i) => r \in Doers(e, i)'
    <3>1. r \in Doers(e, i) => marker[r] >= e \/ d = e BY <1>1 DEF Doers
    <3>2. r \in Doers(e, i) => d >= e BY <1>3, <1>5, <1>6, <3>1
    <3> QED BY <1>7, <3>2 DEF Doers
  <2>5. Doers(e, i) \subseteq Doers(e, i)' BY <2>2, <2>3, <2>4
  <2>6. PICK x, y : x = Cardinality(Doers(e, i)) /\ y = Cardinality(Doers(e, i)') OBVIOUS
  <2>7. x \in Nat /\ y \in Nat /\ x <= y BY <2>2, <2>5, <2>6, NotFewer
  <2>8. PICK n \in Nat : n = queued[<<Kinds(e)[i], e>>]
      BY KindDay DEF AutoInv, DaysOK
  <2>9. n <= x + faulted /\ faulted \in Nat BY <2>1, <2>6, <2>8 DEF AutoInv, DaysOK
  <2>10. n <= y + faulted BY <2>7, <2>9
  <2> QED BY <1>2, <2>6, <2>8, <2>10
<1> QED BY <1>2, <1>4, <1>3, <1>7, <1>8, <1>9, <1>10, <1>11 DEF AutoInv, DaysOK

LEMMA HkNextDayOK ==
    ASSUME AutoInv, HkNextDay
    PROVE  AutoInv'
<1>1. /\ UNCHANGED <<pc, loc, raced, rule, acts, recent, uncounted, centre, lastId, tag, marker, queued, digests, faulted>>
      /\ hday' = hday + 1 /\ hday < LastDay
    BY DEF HkNextDay, reqVars, ruleVars
<1>2. hday \in 1..LastDay /\ LastDay \in Nat /\ marker \in [Req -> 0..LastDay]
    BY Bounds DEF AutoInv, DaysOK
<1>3. \A L : Same(L) BY <1>1, SameAll
<1>4. RequestsOK' BY <1>1 DEF AutoInv, RequestsOK, Busy
<1>5. CentresOK' /\ BudgetOK' /\ JobsOK' /\ DigestsOK'
    BY <1>1, <1>3, CentresFrame, BudgetFrame, JobsFrame, DigestsFrame DEF AutoInv
<1>6. hday' \in 1..LastDay /\ \A q \in Req : marker'[q] <= hday'
    BY <1>1, <1>2 DEF AutoInv, DaysOK
<1>7. \A q \in Req : HkHeld(q)'
    BY <1>1, <1>2 DEF AutoInv, DaysOK, HkHeld
<1>8. MarkedDayComplete' BY <1>1 DEF AutoInv, DaysOK, MarkedDayComplete
<1>9. \A d, i : Doers(d, i)' = Doers(d, i) BY <1>1 DEF Doers
<1>10. DaysOK' BY <1>1, <1>6, <1>7, <1>8, <1>9 DEF AutoInv, DaysOK
<1> QED BY <1>4, <1>5, <1>10 DEF AutoInv

-----------------------------------------------------------------------------
(* Digests: what a step takes from one place it puts into another. *)
Digests(x) == x.pending + x.sent + x.inApp + x.unsaved + x.declined + x.stuck + x.dead

Outcomes == {"pending", "sent", "inApp", "unsaved", "declined", "stuck", "dead"}

LEMMA DigestAdded ==
    ASSUME NEW x \in DigestRow, NEW how \in Outcomes
    PROVE  /\ [x EXCEPT ![how] = x[how] + 1] \in DigestRow
           /\ Digests([x EXCEPT ![how] = x[how] + 1]) = Digests(x) + 1
           /\ Digests(x) \in Nat
<1>0. PICK a \in Nat, b \in Nat, c \in Nat, d \in Nat, e \in Nat, f \in Nat, g \in Nat :
         x = [pending |-> a, sent |-> b, inApp |-> c, unsaved |-> d, declined |-> e, stuck |-> f,
              dead |-> g]
    BY DEF DigestRow
<1>1. CASE how = "pending" BY <1>0, <1>1 DEF DigestRow, Digests
<1>2. CASE how = "sent" BY <1>0, <1>2 DEF DigestRow, Digests
<1>3. CASE how = "inApp" BY <1>0, <1>3 DEF DigestRow, Digests
<1>4. CASE how = "unsaved"
  <2>1. [x EXCEPT ![how] = x[how] + 1] =
           [pending |-> a, sent |-> b, inApp |-> c, unsaved |-> d + 1, declined |-> e, stuck |-> f,
            dead |-> g]
      BY <1>0, <1>4
  <2> QED BY <1>0, <2>1 DEF DigestRow, Digests
<1>5. CASE how = "declined" BY <1>0, <1>5 DEF DigestRow, Digests
<1>6. CASE how = "stuck"
  <2>1. [x EXCEPT ![how] = x[how] + 1] =
           [pending |-> a, sent |-> b, inApp |-> c, unsaved |-> d, declined |-> e,
            stuck |-> f + 1, dead |-> g]
      BY <1>0, <1>6
  <2> QED BY <1>0, <2>1 DEF DigestRow, Digests
<1>7. CASE how = "dead"
  <2>1. [x EXCEPT ![how] = x[how] + 1] =
           [pending |-> a, sent |-> b, inApp |-> c, unsaved |-> d, declined |-> e,
            stuck |-> f, dead |-> g + 1]
      BY <1>0, <1>7
  <2> QED BY <1>0, <2>1 DEF DigestRow, Digests
<1> QED BY <1>1, <1>2, <1>3, <1>4, <1>5, <1>6, <1>7 DEF Outcomes

LEMMA DigestTaken ==
    ASSUME NEW x \in DigestRow, x.pending > 0
    PROVE  /\ [x EXCEPT !.pending = x.pending - 1] \in DigestRow
           /\ Digests([x EXCEPT !.pending = x.pending - 1]) = Digests(x) - 1
           /\ Digests(x) \in Nat
<1>0. PICK a \in Nat, b \in Nat, c \in Nat, d \in Nat, e \in Nat, f \in Nat, g \in Nat :
         x = [pending |-> a, sent |-> b, inApp |-> c, unsaved |-> d, declined |-> e, stuck |-> f,
              dead |-> g]
    BY DEF DigestRow
<1>1. [x EXCEPT !.pending = x.pending - 1] =
         [pending |-> a - 1, sent |-> b, inApp |-> c, unsaved |-> d, declined |-> e, stuck |-> f,
          dead |-> g]
      /\ a - 1 \in Nat
    BY <1>0
<1> QED BY <1>0, <1>1 DEF DigestRow, Digests

(* One day's row is changed. *)
LEMMA DigestsOneDay ==
    ASSUME DigestsOK, NEW e \in Mondays, NEW x \in DigestRow, digests' = [digests EXCEPT ![e] = x],
           \A r \in Req : pc'[r] = "digest" => loc'[r].day \in Mondays,
           \A d \in Mondays \ {e} : /\ queued'[<<"weekly_digest", d>>] = queued[<<"weekly_digest", d>>]
                                    /\ Building(d)' = Building(d),
           Digests(x) + Cardinality(Building(e)') = queued'[<<"weekly_digest", e>>]
    PROVE  DigestsOK'
<1>1. digests' \in [Mondays -> DigestRow] /\ digests'[e] = x
      /\ \A d \in Mondays \ {e} : digests'[d] = digests[d]
    BY DEF DigestsOK
<1>2. ASSUME NEW d \in Mondays
      PROVE  Digests(digests'[d]) + Cardinality(Building(d)') = queued'[<<"weekly_digest", d>>]
  <2>1. CASE d = e BY <1>1, <2>1
  <2>2. CASE d # e
    <3>1. Digests(digests[d]) + Cardinality(Building(d)) = queued[<<"weekly_digest", d>>]
        BY DEF DigestsOK, DigestsAccounted, Digests, Building
    <3>2. digests'[d] = digests[d] /\ Building(d)' = Building(d) BY <1>1, <2>2
    <3> QED BY <2>2, <3>1, <3>2
  <2> QED BY <2>1, <2>2
<1>3. DigestsAccounted' BY <1>2 DEF DigestsAccounted, Digests, Building
<1> QED BY <1>1, <1>3 DEF DigestsOK

(* A builder lets go of its digest: one outcome more. *)
LEMMA DigestLetGo ==
    ASSUME DigestsOK, NEW r \in Req, pc[r] = "digest", Keeps(r), pc'[r] = "idle",
           NEW how \in Outcomes, UNCHANGED queued,
           digests' = [digests EXCEPT ![loc[r].day] = [digests[loc[r].day] EXCEPT ![how] = digests[loc[r].day][how] + 1]]
    PROVE  DigestsOK'
<1>1. PICK e \in Mondays : e = loc[r].day BY DEF DigestsOK
<1>2. PICK x \in DigestRow : x = digests[e] BY DEF DigestsOK
<1>3. PICK y : y = [x EXCEPT ![how] = x[how] + 1] OBVIOUS
<1>4. y \in DigestRow /\ Digests(y) = Digests(x) + 1 /\ Digests(x) \in Nat BY <1>3, DigestAdded
<1>5. digests' = [digests EXCEPT ![e] = y] BY <1>1, <1>2, <1>3
<1>6. \A q \in Req : pc'[q] = "digest" => q # r /\ pc'[q] = pc[q] /\ loc'[q] = loc[q]
    BY DEF Keeps
<1>7. \A d \in Mondays \ {e} : Building(d)' = Building(d)
    BY <1>1, <1>6 DEF Building, Keeps
<1>8. Building(e) = Building(e)' \cup {r} /\ r \notin Building(e)' /\ Building(e)' \subseteq Req
    BY <1>1, <1>6 DEF Building, Keeps
<1>9. PICK b : b = Cardinality(Building(e)') OBVIOUS
<1>10. b \in Nat /\ Cardinality(Building(e)) = b + 1 BY <1>8, <1>9, OneMore
<1>11. Digests(x) + (b + 1) = queued[<<"weekly_digest", e>>]
    BY <1>2, <1>10 DEF DigestsOK, DigestsAccounted, Digests, Building
<1>12. Digests(y) + b = Digests(x) + (b + 1) BY <1>4, <1>10
<1>13. Digests(y) + Cardinality(Building(e)') = queued'[<<"weekly_digest", e>>]
    BY <1>9, <1>11, <1>12
<1>14. \A q \in Req : pc'[q] = "digest" => loc'[q].day \in Mondays
    BY <1>6 DEF DigestsOK
<1> QED BY <1>4, <1>5, <1>7, <1>13, <1>14, DigestsOneDay

LEMMA DigestBuildOK ==
    ASSUME AutoInv, NEW r \in Req, DigestBuild(r)
    PROVE  AutoInv'
<1>0. DigestsOK BY DEF AutoInv
<1>1. PICK e \in Mondays :
         /\ digests[e].pending > 0
         /\ Begin(r, "digest", [on |-> "digest", next |-> 0, day |-> e])
         /\ digests' = [digests EXCEPT ![e].pending = @ - 1]
    BY DEF DigestBuild
<1>2. UNCHANGED ruleVars /\ UNCHANGED <<hday, marker, queued, faulted>> BY DEF DigestBuild
<1>3. PICK g : g = [on |-> "digest", next |-> 0, day |-> e] OBVIOUS
<1>4. Keeps(r) /\ pc[r] = "idle" /\ pc'[r] = "digest" /\ loc'[r] = g
    BY <1>1, <1>3, BeginKeeps DEF AutoInv
<1>5. g.day = e BY <1>3
<1>6. DaysOK'
  <2>1. Same(HkLabels) BY <1>4, SameOutside DEF HkLabels
  <2> QED BY <1>2, <2>1, DaysFrame DEF AutoInv
<1>7. DigestsOK'
  <2>1. PICK x \in DigestRow : x = digests[e] BY <1>0 DEF DigestsOK
  <2>2. PICK y : y = [x EXCEPT !.pending = x.pending - 1] OBVIOUS
  <2>3. y \in DigestRow /\ Digests(y) = Digests(x) - 1 /\ Digests(x) \in Nat
      BY <1>1, <2>1, <2>2, DigestTaken
  <2>4. digests' = [digests EXCEPT ![e] = y] BY <1>1, <2>1, <2>2
  <2>5. \A d \in Mondays \ {e} : Building(d)' = Building(d)
      BY <1>4, <1>5 DEF Building, Keeps
  <2>6. Building(e)' = Building(e) \cup {r} /\ r \notin Building(e) /\ Building(e) \subseteq Req
      BY <1>4, <1>5 DEF Building, Keeps
  <2>7. PICK b : b = Cardinality(Building(e)) OBVIOUS
  <2>8. b \in Nat /\ Cardinality(Building(e)') = b + 1 BY <2>6, <2>7, OneMore
  <2>9. Digests(x) + b = queued[<<"weekly_digest", e>>]
      BY <1>0, <2>1, <2>7 DEF DigestsOK, DigestsAccounted, Digests, Building
  <2>10. Digests(y) + (b + 1) = Digests(x) + b BY <2>3, <2>8
  <2>11. Digests(y) + Cardinality(Building(e)') = queued'[<<"weekly_digest", e>>]
      BY <1>2, <2>8, <2>9, <2>10
  <2>12. \A q \in Req : pc'[q] = "digest" => loc'[q].day \in Mondays
      BY <1>0, <1>4, <1>5 DEF DigestsOK, Keeps
  <2> QED BY <1>0, <1>2, <2>3, <2>4, <2>5, <2>11, <2>12, DigestsOneDay
<1> QED BY <1>2, <1>4, <1>6, <1>7, ClockStep DEF DigestLabels

LEMMA DigestSendOK ==
    ASSUME AutoInv, NEW r \in Req, DigestSend(r)
    PROVE  AutoInv'
<1>0. DigestsOK /\ DaysOK BY DEF AutoInv
<1>1. pc[r] = "digest" /\ End(r) /\ UNCHANGED ruleVars /\ UNCHANGED <<hday, marker, queued>>
    BY DEF DigestSend
<1>2. Keeps(r) /\ pc'[r] = "idle" BY <1>1, EndKeeps DEF AutoInv, StaysOrEnds
<1>3. ASSUME UNCHANGED faulted,
             \E how \in Outcomes : digests' = [digests EXCEPT ![loc[r].day][how] = @ + 1]
      PROVE  AutoInv'
  <2>1. PICK how \in Outcomes : digests' = [digests EXCEPT ![loc[r].day][how] = @ + 1] BY <1>3
  <2>2. DigestsOK' BY <1>0, <1>1, <1>2, <2>1, DigestLetGo
  <2>3. DaysOK'
    <3>1. Same(HkLabels) BY <1>1, <1>2, SameOutside DEF HkLabels
    <3> QED BY <1>0, <1>1, <1>3, <3>1, DaysFrame
  <2> QED BY <1>1, <1>2, <2>2, <2>3, ClockStep
<1>4. ASSUME faulted' = faulted + 1,
             \E how \in Outcomes : digests' = [digests EXCEPT ![loc[r].day][how] = @ + 1]
      PROVE  AutoInv'
  <2>1. PICK how \in Outcomes : digests' = [digests EXCEPT ![loc[r].day][how] = @ + 1] BY <1>4
  <2>2. DigestsOK' BY <1>0, <1>1, <1>2, <1>4, <2>1, DigestLetGo
  <2>3. DaysOK'
    <3>1. marker \in [Req -> 0..LastDay] BY <1>0 DEF DaysOK
    <3> QED BY <1>1, <1>2, <1>4, <3>1, FaultDays
  <2> QED BY <1>1, <1>2, <2>2, <2>3, ClockStep
<1>5. \/ UNCHANGED faulted /\ \E how \in {"declined", "sent", "inApp", "unsaved"} :
             digests' = [digests EXCEPT ![loc[r].day][how] = @ + 1]
      \/ faulted' = faulted + 1 /\ \E how \in {"pending", "dead"} :
             digests' = [digests EXCEPT ![loc[r].day][how] = @ + 1]
    BY DEF DigestSend
<1>6. {"declined", "sent", "inApp", "unsaved", "pending", "dead"} \subseteq Outcomes BY DEF Outcomes
<1> QED BY <1>3, <1>4, <1>5, <1>6

LEMMA HkMarkOK ==
    ASSUME AutoInv, NEW r \in Req, HkMark(r)
    PROVE  AutoInv'
<1>1. pc[r] = "hk" /\ UNCHANGED ruleVars /\ UNCHANGED <<queued, digests>> BY DEF HkMark
<1>2. DaysOK' /\ Keeps(r) /\ pc'[r] = "idle" BY HkMarkDays
<1>3. Same(DigestLabels) BY <1>1, <1>2, SameOutside DEF DigestLabels
<1>4. DigestsOK' BY <1>1, <1>3, DigestsFrame DEF AutoInv
<1> QED BY <1>1, <1>2, <1>4, ClockStep

LEMMA HkFailsOK ==
    ASSUME AutoInv, NEW r \in Req, HkFails(r)
    PROVE  AutoInv'
<1>1. /\ pc[r] = "hk" /\ End(r) /\ faulted' = faulted + 1
      /\ UNCHANGED ruleVars /\ UNCHANGED <<hday, marker, queued, digests>>
    BY DEF HkFails
<1>2. Keeps(r) /\ pc'[r] = "idle" BY <1>1, EndKeeps DEF AutoInv, StaysOrEnds
<1>3. marker \in [Req -> 0..LastDay] BY DEF AutoInv, DaysOK
<1>4. DaysOK' BY <1>1, <1>2, <1>3, FaultDays
<1>5. Same(DigestLabels) BY <1>1, <1>2, SameOutside DEF DigestLabels
<1>6. DigestsOK' BY <1>1, <1>5, DigestsFrame DEF AutoInv
<1> QED BY <1>1, <1>2, <1>4, <1>6, ClockStep

LEMMA HkRestartOK ==
    ASSUME AutoInv, NEW r \in Req, HkRestart(r)
    PROVE  AutoInv'
<1>1. /\ marker' = [marker EXCEPT ![r] = 0] /\ faulted' = faulted + 1
      /\ UNCHANGED ruleVars /\ UNCHANGED <<hday, queued>>
    BY DEF HkRestart
<1>2. Keeps(r) /\ pc'[r] = "idle"
  <2>1. CASE Busy(r)
    <3>1. End(r) BY <2>1 DEF HkRestart
    <3> QED BY <3>1, EndKeeps DEF AutoInv, StaysOrEnds
  <2>2. CASE ~Busy(r)
    <3>1. UNCHANGED <<pc, loc, raced>> BY <2>2 DEF HkRestart, reqVars
    <3>2. RequestsOK' BY <3>1 DEF AutoInv, RequestsOK, Busy
    <3> QED BY <2>2, <3>1, <3>2 DEF Keeps, Busy
  <2> QED BY <2>1, <2>2
<1>3. marker \in [Req -> 0..LastDay] /\ LastDay \in Nat BY Bounds DEF AutoInv, DaysOK
<1>4. /\ marker' \in [Req -> 0..LastDay] /\ marker'[r] = 0
      /\ \A q \in Req \ {r} : marker'[q] = marker[q]
    BY <1>1, <1>3
<1>5. DaysOK' BY <1>1, <1>2, <1>4, FaultDays
<1>6. DigestsOK'
  <2>0. DigestsOK BY DEF AutoInv
  <2>1. CASE pc[r] = "digest"
    <3>1. digests' = [digests EXCEPT ![loc[r].day].stuck = @ + 1] BY <2>1 DEF HkRestart
    <3>2. "stuck" \in Outcomes BY DEF Outcomes
    <3> QED BY <1>1, <1>2, <2>0, <2>1, <3>1, <3>2, DigestLetGo
  <2>2. CASE pc[r] # "digest"
    <3>1. digests' = digests BY <2>2 DEF HkRestart
    <3>2. Same(DigestLabels) BY <1>2, <2>2, SameOutside DEF DigestLabels
    <3> QED BY <1>1, <2>0, <3>1, <3>2, DigestsFrame
  <2> QED BY <2>1, <2>2
<1> QED BY <1>1, <1>2, <1>5, <1>6, ClockStep

LEMMA HkEnqueueOK ==
    ASSUME AutoInv, NEW r \in Req, HkEnqueue(r)
    PROVE  AutoInv'
<1>0. DigestsOK /\ DaysOK /\ HkHeld(r) BY DEF AutoInv, DaysOK
<1>1. PICK d, m : d = loc[r].day /\ m = loc[r].next OBVIOUS
<1>2. PICK kind : kind = Kinds(d)[m] OBVIOUS
<1>3. /\ pc[r] = "hk" /\ m <= Len(Kinds(d)) /\ UNCHANGED ruleVars
      /\ Goto(r, "hk", [loc[r] EXCEPT !.next = @ + 1])
      /\ queued' = [queued EXCEPT ![<<kind, d>>] = @ + 1]
      /\ digests' = IF kind # "weekly_digest" THEN digests
                    ELSE [digests EXCEPT ![d].pending = @ + 1]
    BY <1>1, <1>2 DEF HkEnqueue
<1>4. /\ d \in 1..LastDay /\ m \in 1..Len(Kinds(d)) /\ queued \in [KindDays -> Nat]
      /\ loc[r] = [on |-> "hk", next |-> m, day |-> d]
  <2>1. Len(Kinds(d)) \in Nat BY KindsOfDay
  <2>2. hday \in 1..LastDay /\ LastDay \in Nat BY <1>0, Bounds DEF DaysOK
  <2>3. loc[r] = [on |-> "hk", next |-> m, day |-> d] /\ d \in 1..hday /\ m \in 1..(Len(Kinds(d)) + 1)
      BY <1>0, <1>1, <1>3 DEF HkHeld
  <2> QED BY <1>0, <1>3, <2>1, <2>2, <2>3 DEF DaysOK
<1>5. <<kind, d>> \in KindDays BY <1>2, <1>4, KindDay
<1>6. Keeps(r) /\ pc'[r] = "hk"
  <2>1. [loc[r] EXCEPT !.next = @ + 1].on = loc[r].on BY <1>4
  <2> QED BY <1>3, <2>1, GotoKeeps DEF AutoInv
<1>7. DaysOK' BY HkEnqueueDays
<1>8. Same(DigestLabels) BY <1>3, <1>6, SameOutside DEF DigestLabels
<1>9. \A e \in Mondays : Building(e)' = Building(e)
    BY <1>8 DEF Same, DigestLabels, Building
<1>10. \A q \in Req : pc'[q] = "digest" => loc'[q].day \in Mondays
    BY <1>0, <1>8 DEF Same, DigestLabels, DigestsOK
<1>11. \A e \in Mondays : <<"weekly_digest", e>> # <<kind, d>> =>
            queued'[<<"weekly_digest", e>>] = queued[<<"weekly_digest", e>>]
    BY <1>3, <1>4, DigestDay
<1>12. DigestsOK'
  <2>1. CASE kind = "weekly_digest"
    <3>1. d \in Mondays
      <4>1. m = 5 BY <1>2, <1>4, <2>1, KindsOfDay
      <4>2. d \notin Mondays => Len(Kinds(d)) = 4 BY KindsOfDay
      <4>3. ASSUME d \notin Mondays PROVE FALSE
        <5>1. Len(Kinds(d)) = 4 BY <4>2, <4>3
        <5>2. 5 \in 1..4 BY <1>4, <4>1, <5>1
        <5> QED BY <5>2
      <4> QED BY <4>3
    <3>2. PICK x \in DigestRow : x = digests[d] BY <1>0, <3>1 DEF DigestsOK
    <3>3. PICK y : y = [x EXCEPT !["pending"] = x["pending"] + 1] OBVIOUS
    <3>4. y \in DigestRow /\ Digests(y) = Digests(x) + 1 /\ Digests(x) \in Nat
        BY <3>3, DigestAdded DEF Outcomes
    <3>5. digests' = [digests EXCEPT ![d] = y] BY <1>3, <2>1, <3>2, <3>3
    <3>6. queued'[<<"weekly_digest", d>>] = queued[<<"weekly_digest", d>>] + 1
        BY <1>3, <1>4, <1>5, <2>1
    <3>7. PICK b : b = Cardinality(Building(d)) OBVIOUS
    <3>8. b \in Nat
      <4>1. Building(d) \subseteq Req BY DEF Building
      <4> QED BY <3>7, <4>1, NotFewer
    <3>9. Digests(x) + b = queued[<<"weekly_digest", d>>]
        BY <1>0, <3>1, <3>2, <3>7 DEF DigestsOK, DigestsAccounted, Digests, Building
    <3>10. Digests(y) + b = (Digests(x) + b) + 1 BY <3>4, <3>8
    <3>11. Digests(y) + Cardinality(Building(d)') = queued'[<<"weekly_digest", d>>]
        BY <1>9, <3>1, <3>6, <3>7, <3>9, <3>10
    <3>12. \A e \in Mondays \ {d} : queued'[<<"weekly_digest", e>>] = queued[<<"weekly_digest", e>>]
        BY <1>11
    <3> QED BY <1>0, <1>9, <1>10, <3>1, <3>4, <3>5, <3>11, <3>12, DigestsOneDay
  <2>2. CASE kind # "weekly_digest"
    <3>1. digests' = digests BY <1>3, <2>2
    <3>2. \A e \in Mondays : queued'[<<"weekly_digest", e>>] = queued[<<"weekly_digest", e>>]
        BY <1>11, <2>2
    <3>3. DigestsAccounted'
      <4>1. \A e \in Mondays : {q \in Req : pc'[q] = "digest" /\ loc'[q].day = e} =
                               {q \in Req : pc[q] = "digest" /\ loc[q].day = e}
          BY <1>9 DEF Building
      <4>2. DigestsAccounted BY <1>0 DEF DigestsOK
      <4> QED BY <3>1, <3>2, <4>1, <4>2 DEF DigestsAccounted
    <3> QED BY <1>0, <1>10, <3>1, <3>3 DEF DigestsOK
  <2> QED BY <2>1, <2>2
<1> QED BY <1>3, <1>6, <1>7, <1>12, ClockStep DEF HkLabels

-----------------------------------------------------------------------------
LEMMA AutoInit ==
    ASSUME InitRequests, InitAutomation
    PROVE  AutoInv
<1>1. RequestsOK BY InitRequestsOK
<1>2. \A r \in Req : pc[r] = "idle" BY DEF InitRequests
<1>3. CentresOK
  <2>1. "manual" \in CentreNames BY DEF CentreNames
  <2>2. \A c \in CentreNames : centre[c] = IF c = "manual" THEN 1 ELSE 0 BY DEF InitAutomation
  <2>3. centre \in [CentreNames -> Nat] BY DEF InitAutomation
  <2>4. \A p \in Posting : tag[p] = IF p \in ByHand THEN 1 ELSE 0 BY DEF InitAutomation
  <2>5. \A p \in Posting : tag[p] = 0 \/ Alive(tag[p]) BY <2>1, <2>2, <2>4 DEF Alive
  <2>6. lastId = 1 /\ MaxId \in Nat \ {0} BY Bounds DEF InitAutomation
  <2> QED BY <2>2, <2>3, <2>5, <2>6 DEF CentresOK
<1>4. acts = <<>> /\ recent = 0 /\ uncounted = 0 BY DEF InitAutomation
<1>5. BudgetOK
  <2>1. Cardinality(Rule) \in Nat /\ ActionBudget \in Nat \ {0} BY Bounds, FS_CardinalityType
  <2>2. \A r \in Req : EventHeld(r) BY <1>2 DEF EventHeld, EventLabels
  <2>3. 0 < ActionBudget + Cardinality(Rule) + 0 BY <2>1
  <2> QED BY <1>4, <2>2, <2>3 DEF BudgetOK, BudgetBounded
<1>6. JobsOK
  <2>1. rule \in [Rule -> {"absent", "off", "on"}] BY DEF InitAutomation
  <2>2. acts \in Seq(ActJob) /\ \A j \in 1..Len(acts) : JobRow(acts[j]) BY <1>4
  <2>3. \A r \in Req : pc[r] \notin ActLabels BY <1>2 DEF ActLabels
  <2> QED BY <2>1, <2>2, <2>3 DEF JobsOK, JobHeld
<1>7. DaysOK
  <2>1. \A r \in Req : HkHeld(r) BY <1>2 DEF HkHeld
  <2>2. hday = 1 /\ faulted = 0 /\ LastDay \in Nat \ {0} BY Bounds DEF InitAutomation
  <2>3. marker \in [Req -> 0..LastDay] /\ \A r \in Req : marker[r] = 0 BY <2>2 DEF InitAutomation
  <2>4. queued \in [KindDays -> Nat] /\ \A kd \in KindDays : queued[kd] = 0 BY DEF InitAutomation
  <2>5. MarkedDayComplete BY <2>3 DEF MarkedDayComplete
  <2>6. ASSUME NEW d \in 1..LastDay, NEW i \in 1..Len(Kinds(d))
        PROVE  queued[<<Kinds(d)[i], d>>] <= Cardinality(Doers(d, i)) + faulted
    <3>1. Doers(d, i) \subseteq Req BY DEF Doers
    <3>2. Cardinality(Doers(d, i)) \in Nat BY <3>1, NotFewer
    <3> QED BY <2>2, <2>4, <3>2, KindDay
  <2> QED BY <2>1, <2>2, <2>3, <2>4, <2>5, <2>6 DEF DaysOK
<1>8. DigestsOK
  <2>1. digests \in [Mondays -> DigestRow] BY DEF InitAutomation, DigestRow
  <2>2. ASSUME NEW d \in Mondays
        PROVE  digests[d].pending + digests[d].sent + digests[d].inApp + digests[d].unsaved
                 + digests[d].declined + digests[d].stuck + digests[d].dead
                 + Cardinality({r \in Req : pc[r] = "digest" /\ loc[r].day = d})
                   = queued[<<"weekly_digest", d>>]
    <3>1. {r \in Req : pc[r] = "digest" /\ loc[r].day = d} = {} BY <1>2
    <3>2. Cardinality({}) = 0 BY FS_EmptySet
    <3>3. queued[<<"weekly_digest", d>>] = 0 BY DigestDay DEF InitAutomation
    <3>4. digests[d] = [pending |-> 0, sent |-> 0, inApp |-> 0, unsaved |-> 0, declined |-> 0, stuck |-> 0,
                        dead |-> 0]
        BY DEF InitAutomation
    <3>5. Cardinality({r \in Req : pc[r] = "digest" /\ loc[r].day = d}) = 0 BY <3>1, <3>2
    <3>6. /\ digests[d].pending = 0 /\ digests[d].sent = 0 /\ digests[d].inApp = 0
          /\ digests[d].unsaved = 0 /\ digests[d].declined = 0 /\ digests[d].stuck = 0
          /\ digests[d].dead = 0
        BY <3>4
    <3>7. 0 + 0 + 0 + 0 + 0 + 0 + 0 + 0 = 0 OBVIOUS
    <3> QED BY <3>3, <3>5, <3>6, <3>7
  <2>3. DigestsAccounted BY <2>2 DEF DigestsAccounted
  <2> QED BY <1>2, <2>1, <2>3 DEF DigestsOK
<1> QED BY <1>1, <1>3, <1>5, <1>6, <1>7, <1>8 DEF AutoInv

-----------------------------------------------------------------------------
(* What one step may do to the effects of jobs and to the postings. *)
EffectsKept ==
    \A j \in DOMAIN acts :
        acts'[j].effects > acts[j].effects => rule[acts[j].rule] = "on" \/ acts[j].rule \in raced

TagsKept ==
    \A p \in Posting :
        tag[p] # 0 /\ tag'[p] # tag[p] => tag'[p] = 0 /\ \A c \in CentreNames : centre'[c] # tag[p]

LEMMA JobsTyped ==
    ASSUME AutoInv
    PROVE  /\ acts \in Seq(ActJob) /\ DOMAIN acts = 1..Len(acts)
           /\ \A j \in DOMAIN acts : acts[j] \in ActJob /\ acts[j].effects \in Nat
<1>1. acts \in Seq(ActJob) BY DEF AutoInv, JobsOK
<1>2. DOMAIN acts = 1..Len(acts) BY <1>1, LenProperties
<1>3. \A j \in 1..Len(acts) : acts[j] \in ActJob BY <1>1
<1>4. \A a \in ActJob : a.effects \in Nat BY DEF ActJob
<1> QED BY <1>1, <1>2, <1>3, <1>4

LEMMA NoEffect ==
    ASSUME AutoInv, \A j \in DOMAIN acts : acts'[j].effects = acts[j].effects
    PROVE  EffectsKept
<1>1. \A j \in DOMAIN acts : acts[j].effects \in Nat BY JobsTyped
<1> QED BY <1>1 DEF EffectsKept

(* The other fields of one job. *)
LEMMA OtherFields ==
    ASSUME AutoInv, NEW j \in DOMAIN acts, NEW a, acts' = [acts EXCEPT ![j] = a],
           a.effects = acts[j].effects
    PROVE  EffectsKept
<1>1. \A i \in DOMAIN acts : acts'[i].effects = acts[i].effects OBVIOUS
<1> QED BY <1>1, NoEffect

(* The effect of a job whose rule was found enabled. *)
LEMMA OneEffect ==
    ASSUME AutoInv, NEW r \in Req, pc[r] \in ActLabels \ {"check", "actor"},
           acts' = [acts EXCEPT ![loc[r].job].effects = @ + 1]
    PROVE  EffectsKept
<1>1. JobHeld(r) /\ loc[r].on = acts[loc[r].job].rule BY JobOf
<1>2. rule[loc[r].on] = "on" \/ loc[r].on \in raced BY <1>1 DEF JobHeld
<1>3. \A j \in DOMAIN acts : j # loc[r].job => acts'[j] = acts[j] OBVIOUS
<1>4. \A j \in DOMAIN acts : acts[j].effects \in Nat BY JobsTyped
<1> QED BY <1>1, <1>2, <1>3, <1>4 DEF EffectsKept

LEMMA SameRestrained ==
    ASSUME AutoInv, UNCHANGED <<acts, tag>>
    PROVE  EffectsKept /\ TagsKept
    BY NoEffect DEF TagsKept

LEMMA EventsRestrained ==
    ASSUME AutoInv, OwnerNext \/ EventsNext
    PROVE  EffectsKept /\ TagsKept
<1>1. CASE OwnerNext
    BY <1>1, SameRestrained DEF OwnerNext, RuleCreate, RuleToggle, RuleDelete
<1>2. CASE AgeOut BY <1>2, SameRestrained DEF AgeOut
<1>3. ASSUME NEW r \in Req,
             (\E data \in EventData : MatchRules(r, data)) \/ MatchBudget(r) \/ EventCutOff(r)
      PROVE  EffectsKept /\ TagsKept
    BY <1>3, SameRestrained DEF MatchRules, MatchBudget, EventCutOff, autoVars, ruleVars
<1>4. ASSUME NEW r \in Req, MatchEnqueue(r) PROVE EffectsKept /\ TagsKept
  <2>1. UNCHANGED tag BY <1>4 DEF MatchEnqueue
  <2>2. CASE UNCHANGED acts BY <2>1, <2>2, SameRestrained
  <2>3. ASSUME NEW x, acts' = Append(acts, NewAct(x)) PROVE EffectsKept
    <3>1. \A j \in DOMAIN acts : acts'[j] = acts[j]
      <4>1. acts \in Seq(ActJob) /\ DOMAIN acts = 1..Len(acts) BY JobsTyped
      <4> QED BY <2>3, <4>1
    <3> QED BY <3>1, NoEffect
  <2>4. TagsKept BY <2>1 DEF TagsKept
  <2> QED BY <1>4, <2>1, <2>2, <2>3, <2>4 DEF MatchEnqueue
<1> QED BY <1>1, <1>2, <1>3, <1>4 DEF EventsNext

LEMMA WorkerRestrained ==
    ASSUME AutoInv, NEW r \in Req,
           \/ ActClaim(r) \/ ActCheck(r) \/ ActWebhookRow(r) \/ ActQueue(r) \/ ActCentre(r)
           \/ ActDone(r) \/ ActFails(r) \/ ActCutOff(r)
    PROVE  EffectsKept /\ TagsKept
<1>1. TagsKept
  <2>1. UNCHANGED tag
      BY DEF ActClaim, ActCheck, ActWebhookRow, ActQueue, ActCentre, ActDone, ActFails, ActCutOff,
             autoVars, ruleVars
  <2> QED BY <2>1 DEF TagsKept
<1>2. \A i \in DOMAIN acts : acts[i] \in ActJob BY JobsTyped
<1>3. CASE ActClaim(r)
  <2>1. PICK j \in DOMAIN acts : acts' = [acts EXCEPT ![j].status = "running"] BY <1>3 DEF ActClaim
  <2>2. PICK a : a = [acts[j] EXCEPT !.status = "running"] OBVIOUS
  <2>3. a.effects = acts[j].effects BY <1>2, <2>2, JobFields
  <2>4. acts' = [acts EXCEPT ![j] = a] BY <2>1, <2>2
  <2> QED BY <1>1, <2>3, <2>4, OtherFields
<1>4. pc[r] \in ActLabels => loc[r].job \in DOMAIN acts BY JobOf, JobsTyped
<1>5. CASE ActCheck(r)
  <2>1. CASE UNCHANGED acts BY <1>1, <2>1, NoEffect
  <2>2. CASE acts' = [acts EXCEPT ![loc[r].job].status = "done", ![loc[r].job].skipped = TRUE]
    <3>1. PICK j \in DOMAIN acts : j = loc[r].job BY <1>4, <1>5 DEF ActCheck, ActLabels
    <3>2. PICK a : a = [acts[j] EXCEPT !.status = "done", !.skipped = TRUE] OBVIOUS
    <3>3. a.effects = acts[j].effects BY <1>2, <3>2, JobFields
    <3>4. acts' = [acts EXCEPT ![j] = a] BY <2>2, <3>1, <3>2
    <3> QED BY <1>1, <3>3, <3>4, OtherFields
  <2> QED BY <1>5, <2>1, <2>2 DEF ActCheck
<1>6. CASE ActWebhookRow(r) \/ ActCentre(r) \/ ActCutOff(r)
  <2>1. UNCHANGED acts BY <1>6 DEF ActWebhookRow, ActCentre, ActCutOff, autoVars, ruleVars
  <2> QED BY <1>1, <2>1, NoEffect
<1>7. CASE ActQueue(r)
  <2>1. pc[r] \in ActLabels \ {"check", "actor"} BY <1>7 DEF ActQueue, ActLabels
  <2>2. acts' = [acts EXCEPT ![loc[r].job].effects = @ + 1] BY <1>7 DEF ActQueue
  <2> QED BY <1>1, <2>1, <2>2, OneEffect
<1>8. CASE ActDone(r)
  <2>1. PICK j \in DOMAIN acts : j = loc[r].job BY <1>4, <1>8 DEF ActDone, ActLabels
  <2>2. PICK a : a = [acts[j] EXCEPT !.status = "done"] OBVIOUS
  <2>3. a.effects = acts[j].effects BY <1>2, <2>2, JobFields
  <2>4. acts' = [acts EXCEPT ![j] = a] BY <1>8, <2>1, <2>2 DEF ActDone
  <2> QED BY <1>1, <2>3, <2>4, OtherFields
<1>9. CASE ActFails(r)
  <2>1. PICK j \in DOMAIN acts : j = loc[r].job BY <1>4, <1>9 DEF ActFails
  <2>2. PICK st : st = IF acts[j].tries + 1 >= MaxAttempts THEN "dead" ELSE "pending" OBVIOUS
  <2>3. PICK a : a = [acts[j] EXCEPT !.tries = acts[j].tries + 1, !.status = st] OBVIOUS
  <2>4. a.effects = acts[j].effects BY <1>2, <2>3 DEF ActJob
  <2>5. acts' = [acts EXCEPT ![j] = a] BY <1>9, <2>1, <2>2, <2>3 DEF ActFails
  <2> QED BY <1>1, <2>4, <2>5, OtherFields
<1> QED BY <1>3, <1>5, <1>6, <1>7, <1>8, <1>9

LEMMA TagRestrained ==
    ASSUME AutoInv, NEW r \in Req, ActTag(r)
    PROVE  EffectsKept /\ TagsKept
<1>1. pc[r] \in ActLabels \ {"check", "actor"} BY DEF ActTag, ActLabels
<1>2. acts' = [acts EXCEPT ![loc[r].job].effects = @ + 1] BY DEF ActTag
<1>3. \A p \in Posting : tag'[p] = IF tag[p] = 0 THEN loc[r].cc ELSE tag[p] BY DEF ActTag
<1>4. TagsKept BY <1>3 DEF TagsKept
<1> QED BY <1>1, <1>2, <1>4, OneEffect

LEMMA CentresRestrained ==
    ASSUME AutoInv, NEW r \in Req, NEW name \in CentreNames,
           CreateCostCentre(r, name) \/ DeleteCostCentre(r, name)
    PROVE  EffectsKept /\ TagsKept
<1>1. UNCHANGED acts BY DEF CreateCostCentre, DeleteCostCentre
<1>2. EffectsKept BY <1>1, NoEffect
<1>3. CASE CreateCostCentre(r, name) BY <1>2, <1>3 DEF CreateCostCentre, TagsKept
<1>4. CASE DeleteCostCentre(r, name)
  <2>1. \A p \in Posting : tag'[p] = IF tag[p] = centre[name] THEN 0 ELSE tag[p]
      BY <1>4 DEF DeleteCostCentre
  <2>2. \A c \in CentreNames : centre'[c] = IF c = name THEN 0 ELSE centre[c]
      BY <1>4 DEF DeleteCostCentre, AutoInv, CentresOK
  <2>3. \A c \in CentreNames : centre[c] = centre[name] => c = name
      BY <1>4 DEF DeleteCostCentre, AutoInv, CentresOK
  <2> QED BY <1>2, <2>1, <2>2, <2>3 DEF TagsKept
<1> QED BY <1>3, <1>4

LEMMA HousekeepingRestrained ==
    ASSUME AutoInv, HousekeepingNext
    PROVE  EffectsKept /\ TagsKept
<1>1. UNCHANGED <<acts, tag>>
    BY DEF HousekeepingNext, HkNextDay, HkStart, HkEnqueue, HkMark, HkFails, HkRestart, DigestBuild,
           DigestSend, autoVars, ruleVars
<1> QED BY <1>1, SameRestrained

-----------------------------------------------------------------------------
LEMMA AutoStep ==
    ASSUME AutoInv, OwnerNext \/ EventsNext \/ ActionsNext \/ HousekeepingNext
    PROVE  AutoInv'
<1>1. CASE OwnerNext BY <1>1, OwnerOK DEF OwnerNext
<1>2. CASE EventsNext
    BY <1>2, AgeOutOK, MatchRulesOK, MatchBudgetOK, MatchEnqueueOK, EventCutOffOK DEF EventsNext
<1>3. CASE ActionsNext
    BY <1>3, ActClaimOK, ActCheckOK, ActWebhookRowOK, ActQueueOK, ActCentreOK, ActTagOK, ActDoneOK,
       ActFailsOK, ActCutOffOK, CostCentreOK DEF ActionsNext
<1>4. CASE HousekeepingNext
    BY <1>4, HkNextDayOK, HkStartOK, HkEnqueueOK, HkMarkOK, HkFailsOK, HkRestartOK, DigestBuildOK,
       DigestSendOK DEF HousekeepingNext
<1> QED BY <1>1, <1>2, <1>3, <1>4

LEMMA AutoStutter ==
    ASSUME AutoInv, UNCHANGED <<reqVars, autoVars>>
    PROVE  AutoInv'
<1>1. UNCHANGED <<pc, loc, raced, rule, acts, recent, uncounted, centre, lastId, tag, hday, marker, queued, digests, faulted>>
    BY DEF reqVars, autoVars, ruleVars, hkVars
<1>2. RequestsOK' BY <1>1 DEF AutoInv, RequestsOK, Busy
<1>3. \A L : Same(L) BY <1>1, SameAll
<1> QED BY <1>1, <1>2, <1>3, CentresFrame, BudgetFrame, JobsFrame, DaysFrame, DigestsFrame DEF AutoInv

(* The invariant of the rules, their jobs, the schedulers and the digests. *)
THEOREM AutomationInvariant == AutomationSpec => []AutoInv
<1>1. InitRequests /\ InitAutomation => AutoInv BY AutoInit
<1>2. AutoInv /\ [OwnerNext \/ EventsNext \/ ActionsNext \/ HousekeepingNext]_<<reqVars, autoVars>>
          => AutoInv'
    BY AutoStep, AutoStutter
<1> QED BY <1>1, <1>2, PTL DEF AutomationSpec

(* The invariant says all that AutomationSound does: in particular the     *)
(* schedulers that have queued a job of a day are at most all of them.     *)
LEMMA AutoInvSound ==
    ASSUME AutoInv
    PROVE  AutomationSound
<1>1. AutomationTypeOK
  <2>1. \A j \in DOMAIN acts : acts[j] \in ActJob BY JobsTyped
  <2>2. \A j \in DOMAIN acts : acts[j].rule \in Rule /\ acts[j].status \in {"pending", "running", "done", "dead"}
      BY <2>1 DEF ActJob
  <2> QED BY <2>2 DEF AutomationTypeOK, AutoInv, CentresOK, BudgetOK, JobsOK, DaysOK
<1>2. BudgetBounded BY DEF AutoInv, BudgetOK
<1>3. ActionsAccounted
  <2>1. \A j \in DOMAIN acts : j \in 1..Len(acts) BY JobsTyped
  <2> QED BY <2>1 DEF ActionsAccounted, AutoInv, JobsOK, JobRow
<1>4. MarkedDayComplete BY DEF AutoInv, DaysOK
<1>5. HousekeptOnceEach
  <2> SUFFICES ASSUME NEW kd \in KindDays PROVE queued[kd] <= Cardinality(Req) + faulted
      BY DEF HousekeptOnceEach
  <2>0. PICK d \in 1..LastDay : \E i \in 1..Len(Kinds(d)) : kd = <<Kinds(d)[i], d>>
      BY KindsOfDay DEF KindDays
  <2>1. PICK i \in 1..Len(Kinds(d)) : kd = <<Kinds(d)[i], d>> BY <2>0
  <2>2. queued[kd] <= Cardinality(Doers(d, i)) + faulted BY <2>1 DEF AutoInv, DaysOK
  <2>3. Doers(d, i) \subseteq Req BY DEF Doers
  <2>4. PICK x, y : x = Cardinality(Doers(d, i)) /\ y = Cardinality(Req) OBVIOUS
  <2>5. x \in Nat /\ y \in Nat /\ x <= y BY <2>3, <2>4, NotFewer
  <2>6. queued[kd] \in Nat /\ faulted \in Nat BY DEF AutoInv, DaysOK
  <2>7. queued[kd] <= x + faulted BY <2>2, <2>4
  <2>8. queued[kd] <= y + faulted BY <2>5, <2>6, <2>7
  <2> QED BY <2>4, <2>8
<1>6. DigestsAccounted BY DEF AutoInv, DigestsOK
<1> QED BY <1>1, <1>2, <1>3, <1>4, <1>5, <1>6 DEF AutomationSound

(* Every action, periodic job and digest is accounted for, within the      *)
(* budget of the hour (match_and_enqueue, run, housekeeping,               *)
(* send_for_user).                                                         *)
THEOREM AutomationIsSound == AutomationSpec => []AutomationSound
<1>1. AutoInv => AutomationSound BY AutoInvSound
<1> QED BY <1>1, AutomationInvariant, PTL

LEMMA RestrainedStep ==
    ASSUME AutoInv, [OwnerNext \/ EventsNext \/ ActionsNext \/ HousekeepingNext]_<<reqVars, autoVars>>
    PROVE  EffectsKept /\ TagsKept
<1>1. CASE OwnerNext \/ EventsNext BY <1>1, EventsRestrained
<1>2. CASE ActionsNext
    BY <1>2, WorkerRestrained, TagRestrained, CentresRestrained DEF ActionsNext
<1>3. CASE HousekeepingNext BY <1>3, HousekeepingRestrained
<1>4. CASE UNCHANGED <<reqVars, autoVars>>
  <2>1. UNCHANGED <<acts, tag>> BY <1>4 DEF autoVars, ruleVars
  <2> QED BY <2>1, SameRestrained
<1> QED BY <1>1, <1>2, <1>3, <1>4

(* A rule does nothing while it is disabled, unless that happened while a  *)
(* job of it ran, and takes no posting over from the centre it has (the    *)
(* re-check of run, the IS NULL of categorize_transaction).                *)
THEOREM RulesAreRestrained == AutomationSpec => RulesRestrained
<1>1. AutoInv /\ [OwnerNext \/ EventsNext \/ ActionsNext \/ HousekeepingNext]_<<reqVars, autoVars>>
          => [EffectsKept]_autoVars
    BY RestrainedStep
<1>2. AutoInv /\ [OwnerNext \/ EventsNext \/ ActionsNext \/ HousekeepingNext]_<<reqVars, autoVars>>
          => [TagsKept]_autoVars
    BY RestrainedStep
<1>3. AutomationSpec => [][EffectsKept]_autoVars
    BY <1>1, AutomationInvariant, PTL DEF AutomationSpec
<1>4. AutomationSpec => [][TagsKept]_autoVars
    BY <1>2, AutomationInvariant, PTL DEF AutomationSpec
<1>5. AutomationSpec => DisabledDoesNothing
    BY <1>3, PTL DEF DisabledDoesNothing, EffectsKept
<1>6. AutomationSpec => CentreKept
    BY <1>4, PTL DEF CentreKept, TagsKept
<1> QED BY <1>5, <1>6, PTL DEF RulesRestrained

-----------------------------------------------------------------------------
(* The calendar. *)

IsDay(d) == d \in Int /\ IsDate(d)

(* Five weeks to a month: every step of a schedule moves on by one. *)
Week(d) == 5 * MonthOf(d) + (DayOf(d) - 1) \div 7

(* A set that holds 0 and the successor of what it holds, holds Nat. *)
LEMMA NatFills ==
    ASSUME NEW S, 0 \in S, \A n \in Nat : n \in S => n + 1 \in S
    PROVE  Nat \subseteq S
<1> DEFINE T == Nat \ S
<1> SUFFICES ASSUME NEW a \in T PROVE FALSE
    OBVIOUS
<1>1. PICK m \in T : \A x \in T : m <= x
    <2>1. T \in SUBSET Nat OBVIOUS
    <2> HIDE DEF T
    <2> QED BY <2>1, SmallestNat
<1>2. m # 0 /\ m \in Nat /\ m \notin S
    OBVIOUS
<1>3. m - 1 \in Nat /\ m - 1 + 1 = m /\ m - 1 < m
    BY <1>2
<1>4. m - 1 \in S
    BY <1>1, <1>3
<1> QED BY <1>2, <1>3, <1>4

(* A month has 28 to 31 days. *)
LEMMA MonthLength ==
    ASSUME NEW m \in Int
    PROVE  DaysInMonth(m) \in 28..31
    BY DEF DaysInMonth

(* Taking a date apart. *)
LEMMA DateParts ==
    ASSUME NEW m \in Int, NEW x \in 1..31, NEW d, d = 100 * m + x
    PROVE  d \in Int /\ MonthOf(d) = m /\ DayOf(d) = x
    BY DEF MonthOf, DayOf

(* A date has a month and a day. *)
LEMMA DayHasParts ==
    ASSUME NEW d, IsDay(d)
    PROVE  /\ d \in Int /\ MonthOf(d) \in Int /\ DayOf(d) \in 1..31
           /\ DayOf(d) <= DaysInMonth(MonthOf(d))
           /\ d = 100 * MonthOf(d) + DayOf(d)
<1>1. d \in Int /\ MonthOf(d) \in Int /\ DayOf(d) \in Int /\ d = 100 * MonthOf(d) + DayOf(d)
    BY DEF IsDay, MonthOf, DayOf
<1>2. DaysInMonth(MonthOf(d)) \in 28..31
    BY <1>1, MonthLength
<1> QED BY <1>1, <1>2 DEF IsDay, IsDate

(* add_months gives a date. *)
LEMMA AddMonthsDay ==
    ASSUME NEW d, IsDay(d), NEW n \in Nat \ {0}
    PROVE  /\ IsDay(AddMonths(d, n)) /\ d < AddMonths(d, n)
           /\ Week(AddMonths(d, n)) >= Week(d) + 1
           /\ MonthOf(AddMonths(d, n)) = MonthOf(d) + n
           /\ DayOf(AddMonths(d, n)) = (IF DayOf(d) <= DaysInMonth(MonthOf(d) + n)
                                        THEN DayOf(d) ELSE DaysInMonth(MonthOf(d) + n))
<1> DEFINE m == MonthOf(d) + n
           x == IF DayOf(d) <= DaysInMonth(m) THEN DayOf(d) ELSE DaysInMonth(m)
<1>1. MonthOf(d) \in Int /\ DayOf(d) \in 1..31 /\ d = 100 * MonthOf(d) + DayOf(d) /\ m \in Int
    BY DayHasParts
<1>2. DaysInMonth(m) \in 28..31
    BY <1>1, MonthLength
<1>3. x \in 1..31 /\ x <= DaysInMonth(m)
    BY <1>1, <1>2
<1>4. AddMonths(d, n) = 100 * m + x
    BY DEF AddMonths
<1> HIDE DEF x
<1>5. AddMonths(d, n) \in Int /\ MonthOf(AddMonths(d, n)) = m /\ DayOf(AddMonths(d, n)) = x
    BY <1>1, <1>3, <1>4, DateParts
<1>6. IsDay(AddMonths(d, n))
    BY <1>3, <1>5, <1>2 DEF IsDay, IsDate
<1>7. d < AddMonths(d, n)
    BY <1>1, <1>3, <1>4
<1>8. Week(AddMonths(d, n)) >= Week(d) + 1
    <2>1. PICK a : a = DayOf(d) OBVIOUS
    <2>2. a \in 1..31 BY <1>1, <2>1
    <2>3. (x - 1) \div 7 >= 0 /\ (a - 1) \div 7 <= 4 /\ (x - 1) \div 7 \in Int /\ (a - 1) \div 7 \in Int
        BY <1>3, <2>2
    <2>4. 5 * m >= 5 * MonthOf(d) + 5
        BY <1>1
    <2> HIDE DEF m
    <2> QED BY <1>5, <2>1, <2>3, <2>4, <1>1 DEF Week
<1> QED BY <1>5, <1>6, <1>7, <1>8 DEF x

(* Seven or fourteen days later is a date of a later week. *)
LEMMA AddDaysDay ==
    ASSUME NEW d, IsDay(d), NEW n \in {7, 14}
    PROVE  /\ IsDay(AddDays(d, n)) /\ d < AddDays(d, n)
           /\ Week(AddDays(d, n)) >= Week(d) + 1
<1>1. MonthOf(d) \in Int /\ DayOf(d) \in 1..31 /\ d = 100 * MonthOf(d) + DayOf(d)
      /\ DayOf(d) <= DaysInMonth(MonthOf(d))
    BY DayHasParts
<1>2. DaysInMonth(MonthOf(d)) \in 28..31 /\ DaysInMonth(MonthOf(d) + 1) \in 28..31
    BY <1>1, MonthLength
<1>3. PICK m \in Int : m = MonthOf(d) BY <1>1
<1>4. PICK x \in 1..31 : x = DayOf(d) BY <1>1
<1>5. PICK l \in 28..31 : l = DaysInMonth(m) BY <1>2, <1>3
<1>6. CASE x + n <= l
    <2>1. AddDays(d, n) = 100 * m + (x + n)
        BY <1>1, <1>3, <1>4, <1>5, <1>6 DEF AddDays
    <2>2. x + n \in 1..31 BY <1>6
    <2>3. AddDays(d, n) \in Int /\ MonthOf(AddDays(d, n)) = m /\ DayOf(AddDays(d, n)) = x + n
        BY <2>1, <2>2, DateParts
    <2>4. (x + n - 1) \div 7 >= (x - 1) \div 7 + 1
        OBVIOUS
    <2>5. IsDay(AddDays(d, n)) BY <2>3, <1>5, <1>6, <2>2 DEF IsDay, IsDate
    <2>6. d < AddDays(d, n) BY <1>1, <1>3, <1>4, <2>1
    <2>7. Week(AddDays(d, n)) >= Week(d) + 1
        BY <2>3, <2>4, <1>3, <1>4 DEF Week
    <2> QED BY <2>5, <2>6, <2>7
<1>7. CASE ~(x + n <= l)
    <2>1. AddDays(d, n) = 100 * (m + 1) + (x + n - l)
        BY <1>1, <1>3, <1>4, <1>5, <1>7 DEF AddDays
    <2>2. x + n - l \in 1..14 /\ x <= l BY <1>7, <1>1, <1>3, <1>4, <1>5
    <2>3. AddDays(d, n) \in Int /\ MonthOf(AddDays(d, n)) = m + 1 /\ DayOf(AddDays(d, n)) = x + n - l
        <3>1. PICK k \in Int : k = m + 1 OBVIOUS
        <3>2. PICK y \in 1..31 : y = x + n - l BY <2>2
        <3>3. AddDays(d, n) = 100 * k + y BY <2>1, <3>1, <3>2
        <3> QED BY <3>1, <3>2, <3>3, DateParts
    <2>4. (x + n - l - 1) \div 7 + 5 >= (x - 1) \div 7 + 1
        BY <2>2
    <2>5. IsDay(AddDays(d, n)) BY <2>3, <1>2, <1>3, <2>2 DEF IsDay, IsDate
    <2>6. d < AddDays(d, n) BY <1>1, <1>3, <1>4, <2>1, <2>2
    <2>7. Week(AddDays(d, n)) >= Week(d) + 1
        BY <2>3, <2>4, <1>3, <1>4 DEF Week
    <2> QED BY <2>5, <2>6, <2>7
<1> QED BY <1>6, <1>7

(* Every frequency leads to a later date, by a week of the measure at      *)
(* least.                                                                  *)
LEMMA AdvanceDay ==
    ASSUME NEW d, IsDay(d), NEW f \in Frequency
    PROVE  /\ IsDay(AdvanceFrequency(d, f)) /\ d < AdvanceFrequency(d, f)
           /\ Week(AdvanceFrequency(d, f)) >= Week(d) + 1
<1>1. CASE f = "weekly"
    BY <1>1, AddDaysDay DEF AdvanceFrequency
<1>2. CASE f = "biweekly"
    BY <1>2, AddDaysDay DEF AdvanceFrequency
<1>3. CASE f \in {"monthly", "quarterly", "yearly"}
    <2>1. MonthsIn(f) \in {1, 3, 12}
        BY <1>3 DEF MonthsIn
    <2>2. AdvanceFrequency(d, f) = AddMonths(d, MonthsIn(f))
        BY <1>3 DEF AdvanceFrequency
    <2> QED BY <2>1, <2>2, AddMonthsDay
<1> QED BY <1>1, <1>2, <1>3 DEF Frequency

(* A later date is followed by one that is not earlier. *)
LEMMA AdvanceInOrder ==
    ASSUME NEW d, NEW e, IsDay(d), IsDay(e), d <= e, NEW f \in Frequency
    PROVE  AdvanceFrequency(d, f) <= AdvanceFrequency(e, f)
<1>1. /\ MonthOf(d) \in Int /\ DayOf(d) \in 1..31 /\ d = 100 * MonthOf(d) + DayOf(d)
      /\ DayOf(d) <= DaysInMonth(MonthOf(d))
      /\ MonthOf(e) \in Int /\ DayOf(e) \in 1..31 /\ e = 100 * MonthOf(e) + DayOf(e)
      /\ DayOf(e) <= DaysInMonth(MonthOf(e))
    BY DayHasParts
<1>2. MonthOf(d) <= MonthOf(e) /\ (MonthOf(d) = MonthOf(e) => DayOf(d) <= DayOf(e))
    BY <1>1
<1>3. DaysInMonth(MonthOf(d)) \in 28..31 /\ DaysInMonth(MonthOf(e)) \in 28..31
    BY <1>1, MonthLength
<1>4. ASSUME NEW n \in {7, 14} PROVE AddDays(d, n) <= AddDays(e, n)
    BY <1>1, <1>2, <1>3 DEF AddDays
<1>5. ASSUME NEW n \in {1, 3, 12} PROVE AddMonths(d, n) <= AddMonths(e, n)
    <2>1. DaysInMonth(MonthOf(d) + n) \in 28..31 /\ DaysInMonth(MonthOf(e) + n) \in 28..31
        BY <1>1, MonthLength
    <2> QED BY <1>1, <1>2, <2>1 DEF AddMonths
<1>6. CASE f = "weekly"
    BY <1>6, <1>4 DEF AdvanceFrequency
<1>7. CASE f = "biweekly"
    BY <1>7, <1>4 DEF AdvanceFrequency
<1>8. CASE f \in {"monthly", "quarterly", "yearly"}
    <2>1. MonthsIn(f) \in {1, 3, 12}
        BY <1>8 DEF MonthsIn
    <2>2. AdvanceFrequency(d, f) = AddMonths(d, MonthsIn(f)) /\ AdvanceFrequency(e, f) = AddMonths(e, MonthsIn(f))
        BY <1>8 DEF AdvanceFrequency
    <2> QED BY <2>1, <2>2, <1>5
<1> QED BY <1>6, <1>7, <1>8 DEF Frequency

-----------------------------------------------------------------------------
(* The dates of a schedule are what the recursion says. *)
Partial(h, n, s, f) ==
    /\ h = [i \in 0..n |-> h[i]] /\ h[0] = s
    /\ \A i \in 1..n : h[i] = AdvanceFrequency(h[i - 1], f)

(* The recursive function of the calendar: it has partial solutions, they  *)
(* agree, so it satisfies its equation.                                    *)
LEMMA PartialExists ==
    ASSUME NEW s, NEW f, NEW n \in Nat
    PROVE  \E h : Partial(h, n, s, f)
<1> DEFINE S == {k \in Nat : \E h : Partial(h, k, s, f)}
<1>1. 0 \in S
    <2>1. Partial([i \in 0..0 |-> s], 0, s, f)
        BY DEF Partial
    <2> QED BY <2>1
<1>2. ASSUME NEW k \in Nat, k \in S PROVE k + 1 \in S
    <2>1. PICK h : Partial(h, k, s, f)
        BY <1>2
    <2>2. PICK g : g = [i \in 0..(k + 1) |-> IF i = k + 1 THEN AdvanceFrequency(h[k], f) ELSE h[i]]
        OBVIOUS
    <2>3. g = [i \in 0..(k + 1) |-> g[i]] /\ g[0] = h[0]
        BY <2>2
    <2>4. ASSUME NEW i \in 1..(k + 1) PROVE g[i] = AdvanceFrequency(g[i - 1], f)
        <3>1. i - 1 \in 0..(k + 1) /\ i - 1 # k + 1 /\ i \in 0..(k + 1)
            OBVIOUS
        <3>2. g[i - 1] = h[i - 1]
            BY <3>1, <2>2
        <3>3. CASE i = k + 1
            <4>1. i - 1 = k BY <3>3
            <4> QED BY <3>1, <3>2, <3>3, <4>1, <2>2
        <3>4. CASE i # k + 1
            <4>1. i \in 1..k BY <3>4
            <4> QED BY <3>1, <3>2, <3>4, <4>1, <2>1, <2>2 DEF Partial
        <3> QED BY <3>3, <3>4
    <2>5. Partial(g, k + 1, s, f)
        BY <2>1, <2>3, <2>4 DEF Partial
    <2> QED BY <2>5
<1> HIDE DEF S
<1>3. Nat \subseteq S
    BY <1>1, <1>2, NatFills
<1> QED BY <1>3 DEF S

LEMMA PartialAgree ==
    ASSUME NEW s, NEW f, NEW n \in Nat, NEW m \in Nat, n <= m, NEW g, NEW h,
           Partial(g, n, s, f), Partial(h, m, s, f)
    PROVE  \A i \in 0..n : g[i] = h[i]
<1> DEFINE S == {k \in Nat : k <= n => g[k] = h[k]}
<1>1. 0 \in S
    BY DEF Partial
<1>2. ASSUME NEW k \in Nat, k \in S PROVE k + 1 \in S
    <2> SUFFICES ASSUME k + 1 <= n PROVE g[k + 1] = h[k + 1]
        OBVIOUS
    <2>1. k + 1 \in 1..n /\ k + 1 \in 1..m /\ (k + 1) - 1 = k /\ k <= n
        OBVIOUS
    <2>2. g[k] = h[k]
        BY <1>2, <2>1
    <2> QED BY <2>1, <2>2 DEF Partial
<1> HIDE DEF S
<1>3. Nat \subseteq S
    BY <1>1, <1>2, NatFills
<1> QED BY <1>3 DEF S

LEMMA NthIs ==
    ASSUME NEW s, NEW f
    PROVE  /\ NthFrom(s, f)[0] = s
           /\ \A n \in Nat : NthFrom(s, f)[n + 1] = AdvanceFrequency(NthFrom(s, f)[n], f)
<1> DEFINE P(n) == CHOOSE h : Partial(h, n, s, f)
<1>1. \A n \in Nat : Partial(P(n), n, s, f)
    BY PartialExists
<1> HIDE DEF P
<1>2. PICK g : g = [n \in Nat |-> P(n)[n]]
    OBVIOUS
<1>3. g[0] = s
    BY <1>1, <1>2 DEF Partial
<1>4. ASSUME NEW n \in Nat \ {0} PROVE g[n] = AdvanceFrequency(g[n - 1], f)
    <2>1. n - 1 \in Nat /\ n - 1 <= n /\ n - 1 \in 0..(n - 1) /\ n \in 1..n
        OBVIOUS
    <2>2. g[n] = P(n)[n] /\ g[n - 1] = P(n - 1)[n - 1]
        BY <1>2, <2>1
    <2>3. P(n)[n - 1] = P(n - 1)[n - 1]
        BY <2>1, <1>1, PartialAgree
    <2>4. P(n)[n] = AdvanceFrequency(P(n)[n - 1], f)
        BY <2>1, <1>1 DEF Partial
    <2> QED BY <2>2, <2>3, <2>4
<1>5. g = [n \in Nat |-> IF n = 0 THEN s ELSE AdvanceFrequency(g[n - 1], f)]
    <2>1. \A n \in Nat : g[n] = IF n = 0 THEN s ELSE AdvanceFrequency(g[n - 1], f)
        BY <1>3, <1>4
    <2>2. DOMAIN g = Nat /\ g = [n \in Nat |-> g[n]]
        BY <1>2
    <2> QED BY <2>1, <2>2
<1>6. PICK c : /\ c = NthFrom(s, f)
              /\ c = [n \in Nat |-> IF n = 0 THEN s ELSE AdvanceFrequency(c[n - 1], f)]
    BY <1>5 DEF NthFrom
<1>7. c[0] = s
    BY <1>6
<1>8. ASSUME NEW n \in Nat PROVE c[n + 1] = AdvanceFrequency(c[n], f)
    <2>1. n + 1 \in Nat /\ n + 1 # 0 /\ (n + 1) - 1 = n
        OBVIOUS
    <2>2. \A k \in Nat : c[k] = IF k = 0 THEN s ELSE AdvanceFrequency(c[k - 1], f)
        BY <1>6
    <2> QED BY <2>1, <2>2
<1> QED BY <1>6, <1>7, <1>8

(* Every date a schedule ever comes to. *)
Chain(s, f) == {NthFrom(s, f)[n] : n \in Nat}

(* The dates of a schedule grow, and at least by a week each. *)
LEMMA NthRuns ==
    ASSUME NEW s, IsDay(s), NEW f \in Frequency
    PROVE  /\ \A n \in Nat : /\ IsDay(NthFrom(s, f)[n])
                             /\ Week(NthFrom(s, f)[n]) >= Week(s) + n
           /\ \A n, m \in Nat : n < m => NthFrom(s, f)[n] < NthFrom(s, f)[m]
<1>1. PICK c : c = NthFrom(s, f) OBVIOUS
<1>2. c[0] = s /\ \A n \in Nat : c[n + 1] = AdvanceFrequency(c[n], f)
    BY <1>1, NthIs
<1> DEFINE S == {n \in Nat : IsDay(c[n]) /\ Week(c[n]) >= Week(s) + n}
<1>3. Week(s) \in Int
    BY DayHasParts DEF Week
<1>4. 0 \in S
    BY <1>2, <1>3
<1>5. ASSUME NEW n \in Nat, n \in S PROVE n + 1 \in S
    <2>1. /\ IsDay(c[n + 1]) /\ Week(c[n + 1]) >= Week(c[n]) + 1
        BY <1>2, <1>5, AdvanceDay
    <2>2. Week(c[n]) \in Int /\ Week(c[n + 1]) \in Int
        BY <1>5, <2>1, DayHasParts DEF Week
    <2>3. Week(c[n + 1]) >= Week(s) + (n + 1)
        BY <2>1, <2>2, <1>5, <1>3
    <2> QED BY <2>1, <2>3
<1>6. \A n \in Nat : IsDay(c[n]) /\ Week(c[n]) >= Week(s) + n
    <2> HIDE DEF S
    <2>1. Nat \subseteq S BY <1>4, <1>5, NatFills
    <2> QED BY <2>1 DEF S
<1>7. ASSUME NEW n \in Nat PROVE \A m \in Nat : n < m => c[n] < c[m]
    <2> DEFINE T == {m \in Nat : n < m => c[n] < c[m]}
    <2>1. 0 \in T OBVIOUS
    <2>2. ASSUME NEW m \in Nat, m \in T PROVE m + 1 \in T
        <3> SUFFICES ASSUME n < m + 1 PROVE c[n] < c[m + 1]
            OBVIOUS
        <3>1. c[m] < c[m + 1] /\ c[m] \in Int /\ c[m + 1] \in Int /\ c[n] \in Int
            BY <1>2, <1>6, AdvanceDay DEF IsDay
        <3>2. CASE n = m BY <3>1, <3>2
        <3>3. CASE n < m
            <4>1. c[n] < c[m] BY <3>3, <2>2
            <4> QED BY <4>1, <3>1
        <3> QED BY <3>2, <3>3
    <2> HIDE DEF T
    <2>3. Nat \subseteq T BY <2>1, <2>2, NatFills
    <2> QED BY <2>3 DEF T
<1> QED BY <1>1, <1>6, <1>7

(* A schedule begins with its start; its dates are dates. *)
LEMMA ChainStart ==
    ASSUME NEW s, IsDay(s), NEW f \in Frequency
    PROVE  s \in Chain(s, f) /\ \A x \in Chain(s, f) : IsDay(x) /\ s <= x
<1>1. NthFrom(s, f)[0] = s BY NthIs
<1>2. ASSUME NEW n \in Nat PROVE IsDay(NthFrom(s, f)[n]) /\ s <= NthFrom(s, f)[n]
    <2>1. IsDay(NthFrom(s, f)[n]) BY NthRuns
    <2>2. CASE n = 0 BY <2>1, <2>2, <1>1 DEF IsDay
    <2>3. CASE n # 0
        <3>1. NthFrom(s, f)[0] < NthFrom(s, f)[n] BY <2>3, NthRuns
        <3> QED BY <3>1, <2>1, <1>1 DEF IsDay
    <2> QED BY <2>1, <2>2, <2>3
<1> QED BY <1>1, <1>2 DEF Chain

(* Between a date and the one it advances to there is no other. *)
LEMMA ChainNext ==
    ASSUME NEW s, IsDay(s), NEW f \in Frequency, NEW x \in Chain(s, f)
    PROVE  /\ AdvanceFrequency(x, f) \in Chain(s, f) /\ x < AdvanceFrequency(x, f)
           /\ \A y \in Chain(s, f) : y < AdvanceFrequency(x, f) <=> y <= x
<1>1. PICK n \in Nat : x = NthFrom(s, f)[n] BY DEF Chain
<1>2. AdvanceFrequency(x, f) = NthFrom(s, f)[n + 1] BY <1>1, NthIs
<1>3. IsDay(x) /\ IsDay(AdvanceFrequency(x, f)) /\ x < AdvanceFrequency(x, f)
    BY ChainStart, AdvanceDay
<1>4. ASSUME NEW m \in Nat
      PROVE  NthFrom(s, f)[m] < AdvanceFrequency(x, f) <=> NthFrom(s, f)[m] <= x
    <2>0. IsDay(NthFrom(s, f)[m]) BY NthRuns
    <2>1. CASE m < n
        <3>1. NthFrom(s, f)[m] < x BY <2>1, <1>1, NthRuns
        <3> QED BY <3>1, <1>3, <2>0 DEF IsDay
    <2>2. CASE m = n BY <2>2, <1>1, <1>3 DEF IsDay
    <2>3. CASE m = n + 1 BY <2>3, <1>2, <1>3 DEF IsDay
    <2>4. CASE m > n + 1
        <3>1. AdvanceFrequency(x, f) < NthFrom(s, f)[m] BY <2>4, <1>2, NthRuns
        <3> QED BY <3>1, <1>3, <2>0 DEF IsDay
    <2> QED BY <2>1, <2>2, <2>3, <2>4
<1> QED BY <1>2, <1>3, <1>4 DEF Chain

(* The bound of Occurrences leaves none out. *)
LEMMA OccurrencesAre ==
    ASSUME NEW s, IsDay(s), NEW f \in Frequency, NEW u \in Int
    PROVE  Occurrences(s, f, u) = {x \in Chain(s, f) : x < u}
<1>1. PICK c : c = NthFrom(s, f) OBVIOUS
<1>2. PICK b : b = 5 * (MonthOf(u) - MonthOf(s) + 1) OBVIOUS
<1>3. ASSUME NEW n \in Nat, c[n] < u PROVE n \in 0..b
    <2>1. IsDay(c[n]) /\ Week(c[n]) >= Week(s) + n
        BY <1>1, NthRuns
    <2>2. /\ MonthOf(c[n]) \in Int /\ DayOf(c[n]) \in 1..31 /\ c[n] \in Int
          /\ MonthOf(s) \in Int /\ DayOf(s) \in 1..31
        BY <2>1, DayHasParts
    <2>3. MonthOf(c[n]) <= MonthOf(u) /\ MonthOf(u) \in Int
        BY <2>2, <1>3 DEF MonthOf
    <2>4. PICK x \in 1..31 : x = DayOf(c[n]) BY <2>2
    <2>5. PICK y \in 1..31 : y = DayOf(s) BY <2>2
    <2>6. (x - 1) \div 7 <= 4 /\ (y - 1) \div 7 >= 0 /\ (x - 1) \div 7 \in Int /\ (y - 1) \div 7 \in Int
        OBVIOUS
    <2>7. 5 * MonthOf(c[n]) + (x - 1) \div 7 >= 5 * MonthOf(s) + (y - 1) \div 7 + n
        BY <2>1, <2>4, <2>5 DEF Week
    <2> QED BY <2>2, <2>3, <2>6, <2>7, <1>2
<1>4. b \in Int
    BY <1>2, DayHasParts DEF MonthOf
<1>5. Occurrences(s, f, u) = {c[n] : n \in {k \in 0..b : c[k] < u}}
    BY <1>1, <1>2 DEF Occurrences
<1>6. {c[n] : n \in {k \in 0..b : c[k] < u}} \subseteq {x \in Chain(s, f) : x < u}
    BY <1>1, <1>4 DEF Chain
<1>7. {x \in Chain(s, f) : x < u} \subseteq {c[n] : n \in {k \in 0..b : c[k] < u}}
    BY <1>1, <1>3 DEF Chain
<1> QED BY <1>5, <1>6, <1>7

-----------------------------------------------------------------------------
(* Schedules. *)

(* A date the schedule from s on can have reached: the first, or one of at *)
(* most a step after a day.                                                *)
Reached(s, f, x) ==
    /\ x \in Chain(s, f)
    /\ x = s \/ \E d \in Days : x <= AdvanceFrequency(d, f)

(* Transaction templates. *)
TmplRow == [start : StartDates, next : AllDates, freq : Frequencies,
            active : BOOLEAN, sound : BOOLEAN]

TmplAt(t) ==
    \/ tmpl[t] = NoTmpl /\ \A x \in AllDates : <<t, x>> \notin auto
    \/ tmpl[t] = Deleted
    \/ /\ tmpl[t] \in TmplRow /\ Reached(tmpl[t].start, tmpl[t].freq, tmpl[t].next)
       /\ \A x \in AllDates : <<t, x>> \in auto <=>
                x \in Chain(tmpl[t].start, tmpl[t].freq) /\ x < tmpl[t].next

(* A scan is never ahead of the template. *)
CursorOK(t, x, day) ==
    /\ t \in Tmpl /\ tmpl[t] # NoTmpl /\ x # 0 /\ x <= day
    /\ t \in Live(tmpl) => x \in Chain(tmpl[t].start, tmpl[t].freq) /\ x <= tmpl[t].next

ScanHeld(q) ==
    pc[q] = "occurrence" =>
        /\ loc[q] = [on |-> loc[q].on, day |-> loc[q].day, at |-> loc[q].at, todo |-> loc[q].todo]
        /\ loc[q].day \in Days
        /\ \A o \in loc[q].todo : CursorOK(o[1], o[2], loc[q].day)
        /\ loc[q].at # 0 => CursorOK(loc[q].on, loc[q].at, loc[q].day)

(* The entries of a live template are its dates before its next one. *)
TemplatesOK ==
    /\ DOMAIN tmpl = Tmpl /\ auto \subseteq Tmpl \X AllDates
    /\ \A t \in Tmpl : TmplAt(t)
    /\ \A q \in Req : ScanHeld(q)

(* Recurring invoices. *)
InvTmplRow == [next : StartDates, freq : Frequencies]

(* An invoice may be issued for x when every date before it has one. *)
BilledBefore(t, x) == \A y \in Chain(invTmpl[t].next, invTmpl[t].freq) : y < x => <<t, y>> \in issued
Billable(t, x) ==
    /\ t \in Live(invTmpl) /\ x \in Chain(invTmpl[t].next, invTmpl[t].freq) /\ BilledBefore(t, x)

(* A scan of invoices only holds dates it may issue. *)
IssueHeld(q) ==
    pc[q] = "issue" =>
        /\ loc[q] = [on |-> loc[q].on, day |-> loc[q].day, at |-> loc[q].at, todo |-> loc[q].todo]
        /\ loc[q].day \in Days
        /\ \A o \in loc[q].todo : Billable(o[1], o[2]) /\ o[2] <= loc[q].day
        /\ loc[q].at # 0 => Billable(loc[q].on, loc[q].at) /\ loc[q].at <= loc[q].day

BillsOK ==
    /\ DOMAIN invTmpl = Tmpl
    /\ \A t \in Tmpl : invTmpl[t] = NoTmpl \/ invTmpl[t] \in InvTmplRow
    /\ issued \subseteq Tmpl \X AllDates
    /\ \A o \in issued : Billable(o[1], o[2])
    /\ \A q \in Req : IssueHeld(q)

(* Recurring journals. *)
JournalRow == [start : StartDates, next : AllDates, freq : Frequencies,
               end : EndDates \cup {0}, cap : Caps, paused : BOOLEAN]
RunRow == [status : {"none", "preview", "posted", "skipped"}, has : {"none", "draft", "posted"}]

Handled(t, x) == run[<<t, x>>].status # "none"

(* Every period before x has its run. *)
HandledBefore(t, x) ==
    \A y \in Chain(journal[t].start, journal[t].freq) : y < x => Handled(t, y)
PeriodOK(t, x) ==
    /\ t \in Live(journal) /\ Reached(journal[t].start, journal[t].freq, x)

(* A request that has made a draft and not yet its run, or not yet deleted *)
(* the draft of a run it did not get.                                      *)
DraftLabels == {"preview_run", "preview_lost"}

(* What a request holds of a journal: run_due a period before which        *)
(* nothing is missing, skip a period that has its run, preview any date.   *)
PeriodHeld(q) ==
    /\ pc[q] \in {"preview", "run_due_end"} \cup DraftLabels =>
        /\ loc[q].on \in Live(journal) /\ loc[q].at \in AllDates /\ loc[q].due \in BOOLEAN
        /\ pc[q] = "run_due_end" => loc[q].due
        /\ loc[q].due => PeriodOK(loc[q].on, loc[q].at) /\ HandledBefore(loc[q].on, loc[q].at)
        /\ loc[q].due /\ pc[q] # "run_due_end" => loc[q].day \in Days /\ loc[q].at <= loc[q].day
        /\ pc[q] = "preview_lost" => Handled(loc[q].on, loc[q].at)
    /\ pc[q] \in {"skip_read", "skip_next"} =>
        /\ PeriodOK(loc[q].on, loc[q].at) /\ Handled(loc[q].on, loc[q].at)
        /\ \E d \in Days : loc[q].at <= d
        /\ pc[q] = "skip_next" => HandledBefore(loc[q].on, loc[q].at)
    /\ pc[q] = "post_run_end" =>
        /\ <<loc[q].on, loc[q].period>> \in Tmpl \X AllDates
        /\ run[<<loc[q].on, loc[q].period>>].has = "posted"

Drafting(t, x) == {q \in Req : pc[q] \in DraftLabels /\ loc[q].on = t /\ loc[q].at = x}

JournalAt(t) ==
    \/ journal[t] = NoTmpl
    \/ /\ journal[t] \in JournalRow
       /\ Reached(journal[t].start, journal[t].freq, journal[t].next)
       /\ HandledBefore(t, journal[t].next)

JournalsOK ==
    /\ DOMAIN journal = Tmpl
    /\ \A t \in Tmpl : JournalAt(t)
    /\ run \in [Tmpl \X AllDates -> RunRow]
    /\ \A o \in Tmpl \X AllDates :
        /\ run[o].status = "posted" => run[o].has = "posted"
        /\ run[o].status = "none" => run[o].has # "posted"
    /\ \A q \in Req : PeriodHeld(q)

(* A draft without a run belongs to one of them, unless a request was cut  *)
(* off.                                                                    *)
DraftsOK ==
    /\ stray \in [Tmpl \X AllDates -> Nat]
    /\ \A t \in Tmpl, x \in AllDates :
        /\ Cardinality(Drafting(t, x)) <= stray[<<t, x>>]
        /\ t \notin unrecorded => stray[<<t, x>>] = Cardinality(Drafting(t, x))

(* Amortization. *)
SchedRow == [start : StartDates, next : {d \in Int : IsDate(d)}, unit : Frequencies,
             periods : 1..MaxPeriods, posted : 0..MaxPeriods, skipped : Nat]
SweepLabels == {"amortize_check", "amortize_create", "amortize_record"}

PostedUpTo(t, n) == \A k \in 1..n : entries[<<t, k>>] # <<>>

(* What a sweep holds: a period agreed on, after periods that are all      *)
(* posted, and without a record when it is about to post unless it is      *)
(* raced.                                                                  *)
SweepHeld(q) ==
    pc[q] \in SweepLabels =>
        /\ loc[q].on \in Live(sched)
        /\ loc[q].period \in 1..sched[loc[q].on].periods
        /\ PostedUpTo(loc[q].on, loc[q].period - 1)
        /\ pc[q] # "amortize_check" => loc[q].at \in Int /\ IsDate(loc[q].at)
        /\ pc[q] = "amortize_create" =>
              loc[q].on \in raced \/ <<loc[q].on, loc[q].period>> \notin recorded
        /\ pc[q] = "amortize_record" => entries[<<loc[q].on, loc[q].period>>] # <<>>

(* Every entry of a period is accounted for by its record, or by the       *)
(* request that is about to write it.                                      *)
Recording(t, n) ==
    \/ <<t, n>> \in recorded
    \/ \E q \in Req : pc[q] = "amortize_record" /\ loc[q].on = t /\ loc[q].period = n

(* The entries of a schedule: none beyond the agreed periods, and one per  *)
(* period with its record or its recorder.                                 *)
SchedAt(t) ==
    \/ sched[t] = NoTmpl /\ \A n \in 1..MaxPeriods : entries[<<t, n>>] = <<>>
    \/ /\ sched[t] \in SchedRow /\ PostedUpTo(t, sched[t].posted)
       /\ \A n \in 1..MaxPeriods : entries[<<t, n>>] # <<>> => n <= sched[t].periods
       /\ t \notin raced \cup unrecorded =>
            \A n \in 1..MaxPeriods : /\ Len(entries[<<t, n>>]) <= 1
                                     /\ entries[<<t, n>>] # <<>> => Recording(t, n)

(* Two sweeps of one schedule have overlapped. *)
SweepsApart ==
    \A q, r \in Req : q # r /\ pc[q] \in SweepLabels /\ pc[r] \in SweepLabels /\ loc[q].on = loc[r].on
                        => loc[q].on \in raced

AmortizationOK ==
    /\ DOMAIN sched = Tmpl
    /\ entries \in [Tmpl \X (1..MaxPeriods) -> Seq(Int)]
    /\ recorded \subseteq Tmpl \X (1..MaxPeriods)
    /\ \A t \in Tmpl : SchedAt(t)
    /\ \A o \in recorded : PostedUpTo(o[1], o[2])
    /\ \A q \in Req : SweepHeld(q)
    /\ SweepsApart

ControlOK == DOMAIN pc = Req /\ DOMAIN loc = Req /\ today \in Days

(* The inductive invariant. *)
RecInv == ControlOK /\ TemplatesOK /\ BillsOK /\ JournalsOK /\ DraftsOK /\ AmortizationOK

-----------------------------------------------------------------------------
(* What a step of a request does to the others. *)
Moved(r) ==
    /\ DOMAIN pc' = Req /\ DOMAIN loc' = Req
    /\ \A q \in Req \ {r} : pc'[q] = pc[q] /\ loc'[q] = loc[q]
    /\ raced \subseteq raced'

(* What the steps of Requests do to the request and to the others. *)
LEMMA BeginMoves ==
    ASSUME ControlOK, NEW r \in Req, NEW label, NEW d, Begin(r, label, d)
    PROVE  /\ Moved(r) /\ pc[r] = "idle" /\ pc'[r] = label /\ loc'[r] = d
           /\ WorkingOn(d.on) # {} => d.on \in raced'
    BY DEF ControlOK, Begin, Busy, Moved

LEMMA GotoMoves ==
    ASSUME ControlOK, NEW r \in Req, NEW label, NEW d, Goto(r, label, d)
    PROVE  Moved(r) /\ pc'[r] = label /\ loc'[r] = d
    BY DEF ControlOK, Goto, Moved

LEMMA EndMoves ==
    ASSUME ControlOK, NEW r \in Req, End(r)
    PROVE  Moved(r) /\ pc'[r] = "idle"
    BY DEF ControlOK, End, Moved

LEMMA ServeMoves ==
    ASSUME ControlOK, NEW r \in Req, NEW row, Serve(r, row)
    PROVE  Moved(r) /\ UNCHANGED <<pc, loc>> /\ pc[r] = "idle" /\ pc'[r] = "idle"
    BY DEF ControlOK, Serve, Moved, Busy

(* Labels nobody arrives at, and labels nobody arrives at or leaves. *)
Holds(L) == \A q \in Req : pc'[q] \in L => pc'[q] = pc[q] /\ loc'[q] = loc[q]

(* The labels a step of r does not arrive at, or does not touch. *)
LEMMA MovedHolds ==
    ASSUME NEW r \in Req, Moved(r), NEW L, pc'[r] \notin L
    PROVE  Holds(L) /\ (pc[r] \notin L => Same(L))
    BY DEF Moved, Holds, Same

LEMMA IdleSame ==
    ASSUME UNCHANGED <<pc, loc>>, NEW L
    PROVE  Holds(L) /\ Same(L)
    BY DEF Holds, Same

JournalLabels ==
    {"preview", "run_due_end", "skip_read", "skip_next", "post_run_end"} \cup DraftLabels

(* A part of the invariant survives a step that touches neither its tables *)
(* nor the requests it is about.                                           *)
LEMMA TemplatesFrame ==
    ASSUME TemplatesOK, UNCHANGED <<tmpl, auto>>, Holds({"occurrence"})
    PROVE  TemplatesOK'
<1>1. ASSUME NEW t \in Tmpl PROVE TmplAt(t)'
    BY DEF TemplatesOK, TmplAt
<1>2. ASSUME NEW q \in Req PROVE ScanHeld(q)'
    <2> SUFFICES ASSUME pc'[q] = "occurrence" PROVE ScanHeld(q)'
        BY DEF ScanHeld
    <2>1. pc[q] = "occurrence" /\ loc'[q] = loc[q]
        BY DEF Holds
    <2> QED BY <2>1 DEF TemplatesOK, ScanHeld, CursorOK, Live
<1> QED BY <1>1, <1>2 DEF TemplatesOK

LEMMA BillsFrame ==
    ASSUME BillsOK, UNCHANGED <<invTmpl, issued>>, Holds({"issue"})
    PROVE  BillsOK'
<1>2. ASSUME NEW q \in Req PROVE IssueHeld(q)'
    <2> SUFFICES ASSUME pc'[q] = "issue" PROVE IssueHeld(q)'
        BY DEF IssueHeld
    <2>1. pc[q] = "issue" /\ loc'[q] = loc[q]
        BY DEF Holds
    <2> QED BY <2>1 DEF BillsOK, IssueHeld, Billable, BilledBefore, Live
<1>3. \A o \in issued' : Billable(o[1], o[2])'
    BY DEF BillsOK, Billable, BilledBefore, Live
<1> QED BY <1>2, <1>3 DEF BillsOK

LEMMA JournalsFrame ==
    ASSUME JournalsOK, UNCHANGED <<journal, run>>, Holds(JournalLabels)
    PROVE  JournalsOK'
<1>2. ASSUME NEW q \in Req PROVE PeriodHeld(q)'
    <2> SUFFICES ASSUME pc'[q] \in JournalLabels PROVE PeriodHeld(q)'
        BY DEF PeriodHeld, JournalLabels, DraftLabels
    <2>1. pc'[q] = pc[q] /\ loc'[q] = loc[q]
        BY DEF Holds
    <2>2. PeriodHeld(q) BY DEF JournalsOK
    <2> QED BY <2>1, <2>2 DEF PeriodHeld, PeriodOK, HandledBefore, Handled, Live
<1>3. \A t \in Tmpl : JournalAt(t) => JournalAt(t)'
    BY DEF JournalAt, HandledBefore, Handled
<1> QED BY <1>2, <1>3 DEF JournalsOK

LEMMA DraftsFrame ==
    ASSUME DraftsOK, UNCHANGED stray, unrecorded \subseteq unrecorded', Same(DraftLabels)
    PROVE  DraftsOK'
<1>1. \A t, x : Drafting(t, x)' = Drafting(t, x)
    BY DEF Drafting, Same
<1> QED BY <1>1 DEF DraftsOK

LEMMA AmortizationFrame ==
    ASSUME AmortizationOK, UNCHANGED <<sched, recorded, entries>>, raced \subseteq raced',
           unrecorded \subseteq unrecorded', Same(SweepLabels)
    PROVE  AmortizationOK'
<1>1. \A t, n : PostedUpTo(t, n)' <=> PostedUpTo(t, n)
    BY DEF PostedUpTo
<1>2. \A t, n : Recording(t, n) => Recording(t, n)'
    BY DEF Recording, Same, SweepLabels
<1>3. ASSUME NEW t \in Tmpl PROVE SchedAt(t)'
    <2>1. SchedAt(t) BY DEF AmortizationOK
    <2> QED BY <2>1, <1>1, <1>2 DEF SchedAt
<1>4. ASSUME NEW q \in Req PROVE SweepHeld(q)'
    <2> SUFFICES ASSUME pc'[q] \in SweepLabels PROVE SweepHeld(q)'
        BY DEF SweepHeld
    <2>1. pc'[q] = pc[q] /\ loc'[q] = loc[q] /\ SweepHeld(q)
        BY DEF Same, AmortizationOK
    <2> QED BY <2>1, <1>1 DEF SweepHeld, Live
<1>5. SweepsApart'
    BY DEF SweepsApart, AmortizationOK, Same
<1> QED BY <1>1, <1>3, <1>4, <1>5 DEF AmortizationOK

-----------------------------------------------------------------------------
(* The dates of the schedules. *)
LEMMA Given ==
    /\ IsFiniteSet(Req) /\ MaxEntries \in Nat /\ MaxPeriods \in Nat
    /\ Frequencies \subseteq Frequency
    /\ \A d \in StartDates \cup Days : IsDay(d)
    BY RecurringAssumption DEF IsDay

(* A date is neither of the numbers that stand for a missing row. *)
LEMMA DayIsNot ==
    ASSUME NEW d, IsDay(d)
    PROVE  d \in Int /\ d # 0 /\ d # -1
    BY DayHasParts

(* The dates of the model: first dates, and dates of a schedule up to one  *)
(* step after a day.                                                       *)
LEMMA InAllDates ==
    ASSUME NEW x
    PROVE  x \in AllDates <=>
              \/ x \in StartDates
              \/ \E s \in StartDates, f \in Frequencies, d \in Days :
                    x \in Chain(s, f) /\ x <= AdvanceFrequency(d, f)
<1>1. ASSUME NEW s \in StartDates, NEW f \in Frequencies, NEW d \in Days
      PROVE  x \in Occurrences(s, f, AdvanceFrequency(d, f) + 1) <=>
                x \in Chain(s, f) /\ x <= AdvanceFrequency(d, f)
    <2>1. IsDay(s) /\ IsDay(d) /\ f \in Frequency
        BY Given
    <2>2. AdvanceFrequency(d, f) \in Int
        BY <2>1, AdvanceDay DEF IsDay
    <2>3. Occurrences(s, f, AdvanceFrequency(d, f) + 1)
            = {y \in Chain(s, f) : y < AdvanceFrequency(d, f) + 1}
        BY <2>1, <2>2, OccurrencesAre
    <2>4. \A y \in Chain(s, f) : y \in Int
        BY <2>1, ChainStart DEF IsDay
    <2> QED BY <2>2, <2>3, <2>4
<1> QED BY <1>1 DEF AllDates

LEMMA AllDatesAreDays ==
    ASSUME NEW x \in AllDates
    PROVE  IsDay(x) /\ x \in Int /\ x # 0 /\ x # -1
<1>1. CASE x \in StartDates
    BY <1>1, Given, DayIsNot
<1>2. CASE \E s \in StartDates, f \in Frequencies, d \in Days :
              x \in Chain(s, f) /\ x <= AdvanceFrequency(d, f)
    BY <1>2, Given, ChainStart, DayIsNot
<1> QED BY <1>1, <1>2, InAllDates

(* What a schedule has reached is a date of the model, and so is every     *)
(* date of the schedule before it.                                         *)
LEMMA ReachedIsIn ==
    ASSUME NEW s \in StartDates, NEW f \in Frequencies, NEW x, Reached(s, f, x)
    PROVE  /\ x \in AllDates /\ x \in Chain(s, f) /\ IsDay(x)
           /\ \A y \in Chain(s, f) : y <= x => y \in AllDates
<1>1. IsDay(s) /\ f \in Frequency BY Given
<1>2. x \in Chain(s, f) /\ \A y \in Chain(s, f) : IsDay(y) /\ s <= y
    BY <1>1, ChainStart DEF Reached
<1>3. ASSUME NEW y \in Chain(s, f), y <= x PROVE y \in AllDates
    <2>1. y \in Int /\ s \in Int /\ x \in Int /\ s <= y BY <1>1, <1>2 DEF IsDay
    <2>2. CASE x = s
        <3>1. y = s BY <2>1, <2>2, <1>3
        <3> QED BY <3>1, InAllDates
    <2>3. CASE x # s
        <3>1. PICK d \in Days : x <= AdvanceFrequency(d, f) BY <2>3 DEF Reached
        <3>2. AdvanceFrequency(d, f) \in Int BY <1>1, Given, AdvanceDay DEF IsDay
        <3>3. y <= AdvanceFrequency(d, f) BY <1>3, <2>1, <3>1, <3>2
        <3> QED BY <3>3, InAllDates
    <2> QED BY <2>2, <2>3
<1>4. x <= x BY <1>2 DEF IsDay
<1> QED BY <1>2, <1>3, <1>4

(* Nothing of a schedule comes before its first date. *)
LEMMA ReachedStart ==
    ASSUME NEW s \in StartDates, NEW f \in Frequencies
    PROVE  Reached(s, f, s) /\ \A x \in Chain(s, f) : ~(x < s)
<1>1. IsDay(s) /\ f \in Frequency BY Given
<1>2. s \in Chain(s, f) /\ \A x \in Chain(s, f) : IsDay(x) /\ s <= x
    BY <1>1, ChainStart
<1> QED BY <1>1, <1>2 DEF Reached, IsDay

(* A date that is due has a next one in reach, and nothing between the     *)
(* two.                                                                    *)
LEMMA ReachedNext ==
    ASSUME NEW s \in StartDates, NEW f \in Frequencies, NEW x \in Chain(s, f),
           NEW d \in Days, x <= d
    PROVE  /\ Reached(s, f, x) /\ Reached(s, f, AdvanceFrequency(x, f))
           /\ IsDay(x) /\ IsDay(AdvanceFrequency(x, f)) /\ x < AdvanceFrequency(x, f)
           /\ \A y \in Chain(s, f) : y < AdvanceFrequency(x, f) <=> (y < x \/ y = x)
<1>1. IsDay(s) /\ f \in Frequency /\ IsDay(d) BY Given
<1>2. IsDay(x) /\ \A y \in Chain(s, f) : IsDay(y) BY <1>1, ChainStart
<1>3. /\ AdvanceFrequency(x, f) \in Chain(s, f) /\ x < AdvanceFrequency(x, f)
      /\ \A y \in Chain(s, f) : y < AdvanceFrequency(x, f) <=> y <= x
    BY <1>1, ChainNext
<1>4. AdvanceFrequency(x, f) <= AdvanceFrequency(d, f)
    BY <1>1, <1>2, AdvanceInOrder
<1>5. IsDay(AdvanceFrequency(d, f)) /\ d < AdvanceFrequency(d, f)
    BY <1>1, AdvanceDay
<1>6. x <= AdvanceFrequency(d, f)
    BY <1>1, <1>2, <1>5 DEF IsDay
<1>7. IsDay(AdvanceFrequency(x, f)) BY <1>2, <1>3
<1>8. \A y \in Chain(s, f) : y <= x <=> (y < x \/ y = x)
    BY <1>2 DEF IsDay
<1> QED BY <1>2, <1>3, <1>4, <1>6, <1>7, <1>8 DEF Reached

-----------------------------------------------------------------------------
(* Transaction templates. *)
LEMMA LiveTemplate ==
    ASSUME TemplatesOK, NEW t \in Live(tmpl)
    PROVE  /\ t \in Tmpl /\ tmpl[t] \in TmplRow
           /\ tmpl[t].start \in StartDates /\ tmpl[t].freq \in Frequencies
           /\ Reached(tmpl[t].start, tmpl[t].freq, tmpl[t].next)
           /\ \A x \in AllDates : <<t, x>> \in auto <=>
                x \in Chain(tmpl[t].start, tmpl[t].freq) /\ x < tmpl[t].next
<1>1. t \in Tmpl /\ tmpl[t] # NoTmpl /\ tmpl[t] # Deleted /\ TmplAt(t)
    BY DEF Live, TemplatesOK
<1> QED BY <1>1 DEF TmplAt, TmplRow

(* A row of a template is neither missing nor deleted. *)
LEMMA RowIsLive ==
    ASSUME NEW x \in TmplRow
    PROVE  x # NoTmpl /\ x # Deleted
<1>1. x.next \in AllDates BY DEF TmplRow
<1>2. x.next # 0 /\ x.next # -1 BY <1>1, AllDatesAreDays
<1> QED BY <1>2 DEF NoTmpl, Deleted

(* A template is made, or paused and taken up again. *)
LEMMA TemplateRow ==
    ASSUME TemplatesOK, NEW t \in Tmpl, NEW x \in TmplRow, tmpl' = [tmpl EXCEPT ![t] = x],
           UNCHANGED <<auto, pc, loc>>,
           \/ tmpl[t] = NoTmpl /\ x.next = x.start
           \/ t \in Live(tmpl) /\ x.start = tmpl[t].start /\ x.freq = tmpl[t].freq
                /\ x.next = tmpl[t].next
    PROVE  TemplatesOK'
<1>1. DOMAIN tmpl' = Tmpl /\ tmpl'[t] = x /\ \A u \in Tmpl \ {t} : tmpl'[u] = tmpl[u]
    BY DEF TemplatesOK
<1>2. x # NoTmpl /\ x # Deleted /\ x.start \in StartDates /\ x.freq \in Frequencies
    BY RowIsLive DEF TmplRow
<1>3. TmplAt(t)'
    <2>1. CASE tmpl[t] = NoTmpl /\ x.next = x.start
        <3>1. \A y \in AllDates : <<t, y>> \notin auto
            BY <2>1, RowIsLive DEF TemplatesOK, TmplAt, NoTmpl, Deleted
        <3>2. Reached(x.start, x.freq, x.next) /\ \A y \in Chain(x.start, x.freq) : ~(y < x.next)
            BY <1>2, <2>1, ReachedStart
        <3> QED BY <1>1, <3>1, <3>2 DEF TmplAt
    <2>2. CASE /\ t \in Live(tmpl) /\ x.start = tmpl[t].start /\ x.freq = tmpl[t].freq
               /\ x.next = tmpl[t].next
        <3>1. /\ Reached(x.start, x.freq, x.next)
              /\ \A y \in AllDates : <<t, y>> \in auto <=> y \in Chain(x.start, x.freq) /\ y < x.next
            BY <2>2, LiveTemplate
        <3> QED BY <1>1, <3>1 DEF TmplAt
    <2> QED BY <2>1, <2>2
<1>4. ASSUME NEW u \in Tmpl \ {t} PROVE TmplAt(u)'
    <2>1. TmplAt(u) BY DEF TemplatesOK
    <2> QED BY <1>1, <2>1 DEF TmplAt
<1>5. ASSUME NEW u, NEW y, NEW d, CursorOK(u, y, d) PROVE CursorOK(u, y, d)'
    <2>1. CASE u # t
        BY <2>1, <1>1, <1>5 DEF CursorOK, Live
    <2>2. CASE u = t
        <3>1. /\ t \in Live(tmpl) /\ x.start = tmpl[t].start /\ x.freq = tmpl[t].freq
              /\ x.next = tmpl[t].next
            BY <2>2, <1>5 DEF CursorOK
        <3> QED BY <2>2, <3>1, <1>1, <1>2, <1>5 DEF CursorOK, Live
    <2> QED BY <2>1, <2>2
<1>6. ASSUME NEW q \in Req PROVE ScanHeld(q)'
    <2>1. ScanHeld(q) BY DEF TemplatesOK
    <2> QED BY <2>1, <1>5 DEF ScanHeld
<1> QED BY <1>1, <1>3, <1>4, <1>6 DEF TemplatesOK

-----------------------------------------------------------------------------
(* The parts a step of r leaves alone. *)
LEMMA Frames ==
    ASSUME RecInv, NEW r \in Req, Moved(r), UNCHANGED today
    PROVE  /\ ControlOK'
           /\ UNCHANGED <<tmpl, auto>> /\ pc'[r] # "occurrence" => TemplatesOK'
           /\ UNCHANGED <<invTmpl, issued>> /\ pc'[r] # "issue" => BillsOK'
           /\ UNCHANGED <<journal, run>> /\ pc'[r] \notin JournalLabels => JournalsOK'
           /\ UNCHANGED <<stray>> /\ unrecorded \subseteq unrecorded'
              /\ pc[r] \notin DraftLabels /\ pc'[r] \notin DraftLabels => DraftsOK'
           /\ UNCHANGED <<sched, recorded, entries>> /\ unrecorded \subseteq unrecorded'
              /\ pc[r] \notin SweepLabels /\ pc'[r] \notin SweepLabels => AmortizationOK'
<1>1. ControlOK' BY DEF RecInv, ControlOK, Moved
<1>2. pc'[r] # "occurrence" => Holds({"occurrence"}) BY MovedHolds
<1>3. pc'[r] # "issue" => Holds({"issue"}) BY MovedHolds
<1>4. pc'[r] \notin JournalLabels => Holds(JournalLabels) BY MovedHolds
<1>5. pc[r] \notin DraftLabels /\ pc'[r] \notin DraftLabels => Same(DraftLabels) BY MovedHolds
<1>6. pc[r] \notin SweepLabels /\ pc'[r] \notin SweepLabels => Same(SweepLabels) BY MovedHolds
<1>7. raced \subseteq raced' BY DEF Moved
<1> QED BY <1>1, <1>2, <1>3, <1>4, <1>5, <1>6, <1>7, TemplatesFrame, BillsFrame, JournalsFrame,
           DraftsFrame, AmortizationFrame DEF RecInv

(* The clock appears in the guards only. *)
LEMMA ClockMoves ==
    ASSUME RecInv, NextDay
    PROVE  RecInv'
<1>1. UNCHANGED <<pc, loc, raced>> /\ ControlOK'
    BY DEF NextDay, reqVars, RecInv, ControlOK
<1>2. /\ UNCHANGED <<tmpl, auto>> /\ UNCHANGED <<invTmpl, issued>> /\ UNCHANGED <<journal, run>>
      /\ UNCHANGED stray /\ UNCHANGED <<sched, recorded, entries>> /\ UNCHANGED unrecorded
    BY DEF NextDay, tmplVars, invTmplVars, journalVars, schedVars
<1>3. \A L : Holds(L) /\ Same(L) BY <1>1 DEF Holds, Same
<1>4. unrecorded \subseteq unrecorded' /\ raced \subseteq raced' BY <1>1, <1>2
<1>5. Holds({"occurrence"}) /\ Holds({"issue"}) /\ Holds(JournalLabels) /\ Same(DraftLabels)
      /\ Same(SweepLabels)
    BY <1>3
<1> QED BY <1>1, <1>2, <1>4, <1>5, TemplatesFrame, BillsFrame, JournalsFrame,
           DraftsFrame, AmortizationFrame DEF RecInv

(* Steps that touch the templates only. *)
LEMMA OnlyTemplates ==
    ASSUME RecInv, NEW r \in Req, Moved(r), TemplatesOK',
           UNCHANGED <<today, invTmplVars, journalVars, schedVars, unrecorded>>,
           pc[r] \in {"idle", "run_template", "occurrence"},
           pc'[r] \in {"idle", "run_template", "occurrence"}
    PROVE  RecInv'
<1>1. /\ UNCHANGED today /\ UNCHANGED <<invTmpl, issued>> /\ UNCHANGED <<journal, run>>
      /\ UNCHANGED <<stray>> /\ UNCHANGED <<sched, recorded, entries>> /\ unrecorded \subseteq unrecorded'
    BY DEF invTmplVars, journalVars, schedVars
<1>2. /\ pc[r] \notin DraftLabels /\ pc'[r] \notin DraftLabels /\ pc'[r] # "issue"
      /\ pc'[r] \notin JournalLabels
      /\ pc[r] \notin SweepLabels /\ pc'[r] \notin SweepLabels
    BY DEF JournalLabels, SweepLabels, DraftLabels
<1> QED BY <1>1, <1>2, Frames DEF RecInv

(* create, create_recognition_template and toggle. *)
LEMMA TemplateMade ==
    ASSUME RecInv, NEW r \in Req, NEW t \in Tmpl,
           TemplateCreate(r, t) \/ RecognitionCreate(r, t) \/ TemplateToggle(r, t)
    PROVE  RecInv'
<1>1. /\ Serve(r, t) /\ UNCHANGED auto
      /\ UNCHANGED <<today, invTmplVars, journalVars, schedVars, unrecorded>>
    BY DEF TemplateCreate, RecognitionCreate, TemplateToggle
<1>2. Moved(r) /\ UNCHANGED <<pc, loc>> /\ pc[r] = "idle" /\ pc'[r] = "idle"
    BY <1>1, ServeMoves DEF RecInv
<1>3. TemplatesOK'
    <2>1. CASE TemplateCreate(r, t) \/ RecognitionCreate(r, t)
        <3>1. PICK f \in Frequencies, d \in StartDates, b \in BOOLEAN :
                tmpl' = [tmpl EXCEPT ![t] = [start |-> d, next |-> d, freq |-> f,
                                             active |-> TRUE, sound |-> b]]
            BY <2>1 DEF TemplateCreate, RecognitionCreate
        <3>2. PICK x : x = [start |-> d, next |-> d, freq |-> f, active |-> TRUE, sound |-> b]
            OBVIOUS
        <3>3. d \in AllDates BY InAllDates
        <3>4. x \in TmplRow /\ x.next = x.start BY <3>2, <3>3 DEF TmplRow
        <3>5. tmpl' = [tmpl EXCEPT ![t] = x] BY <3>1, <3>2
        <3>6. tmpl[t] = NoTmpl BY <2>1 DEF TemplateCreate, RecognitionCreate
        <3> QED BY <3>4, <3>5, <3>6, <1>1, <1>2, TemplateRow DEF RecInv
    <2>2. CASE TemplateToggle(r, t)
        <3>1. t \in Live(tmpl) /\ tmpl' = [tmpl EXCEPT ![t].active = ~@]
            BY <2>2 DEF TemplateToggle
        <3>2. tmpl[t] \in TmplRow BY <3>1, LiveTemplate DEF RecInv
        <3>3. PICK x : x = [tmpl[t] EXCEPT !.active = ~@] OBVIOUS
        <3>4. /\ x \in TmplRow /\ x.start = tmpl[t].start /\ x.freq = tmpl[t].freq
              /\ x.next = tmpl[t].next
            BY <3>2, <3>3 DEF TmplRow
        <3>5. tmpl' = [tmpl EXCEPT ![t] = x] BY <3>1, <3>3
        <3> QED BY <3>1, <3>4, <3>5, <1>1, <1>2, TemplateRow DEF RecInv
    <2> QED BY <2>1, <2>2
<1> QED BY <1>1, <1>2, <1>3, OnlyTemplates

(* delete takes the entries' template_id with it, and a scan that still    *)
(* has the template in its list posts nothing for it.                      *)
LEMMA TemplateGone ==
    ASSUME RecInv, NEW r \in Req, NEW t \in Tmpl, TemplateDelete(r, t)
    PROVE  RecInv'
<1>1. /\ Serve(r, t) /\ t \in Live(tmpl)
      /\ UNCHANGED <<today, invTmplVars, journalVars, schedVars, unrecorded>>
      /\ tmpl' = [tmpl EXCEPT ![t] = Deleted] /\ auto' = {o \in auto : o[1] # t}
    BY DEF TemplateDelete
<1>2. Moved(r) /\ UNCHANGED <<pc, loc>> /\ pc[r] = "idle" /\ pc'[r] = "idle"
    BY <1>1, ServeMoves DEF RecInv
<1>3. DOMAIN tmpl' = Tmpl /\ tmpl'[t] = Deleted /\ \A u \in Tmpl \ {t} : tmpl'[u] = tmpl[u]
    BY <1>1 DEF RecInv, TemplatesOK
<1>4. Deleted # NoTmpl BY DEF Deleted, NoTmpl
<1>5. ASSUME NEW u \in Tmpl PROVE TmplAt(u)'
    <2>1. CASE u = t BY <2>1, <1>3 DEF TmplAt
    <2>2. CASE u # t
        <3>1. TmplAt(u) /\ tmpl'[u] = tmpl[u] BY <2>2, <1>3 DEF RecInv, TemplatesOK
        <3>2. \A x : <<u, x>> \in auto' <=> <<u, x>> \in auto BY <2>2, <1>1
        <3> QED BY <3>1, <3>2 DEF TmplAt
    <2> QED BY <2>1, <2>2
<1>6. ASSUME NEW u, NEW y, NEW d, CursorOK(u, y, d) PROVE CursorOK(u, y, d)'
    BY <1>3, <1>4, <1>6 DEF CursorOK, Live
<1>7. ASSUME NEW q \in Req PROVE ScanHeld(q)'
    <2>1. ScanHeld(q) BY DEF RecInv, TemplatesOK
    <2> QED BY <2>1, <1>2, <1>6 DEF ScanHeld
<1>8. TemplatesOK'
    BY <1>1, <1>3, <1>5, <1>7 DEF RecInv, TemplatesOK
<1> QED BY <1>1, <1>2, <1>8, OnlyTemplates

(* run and process_due, whose entries have no template_id. *)
LEMMA TemplateRuns ==
    ASSUME RecInv, NEW r \in Req, (\E t \in Tmpl : TemplateRunRead(r, t)) \/ RunTemplate(r)
    PROVE  RecInv'
<1>1. /\ UNCHANGED <<today, tmpl, auto, invTmplVars, journalVars, schedVars, unrecorded>>
      /\ \/ \E d : Begin(r, "run_template", d)
         \/ pc[r] = "run_template" /\ End(r)
    BY DEF TemplateRunRead, RunTemplate, recVars, tmplVars
<1>2. Moved(r) /\ pc[r] \in {"idle", "run_template"} /\ pc'[r] \in {"idle", "run_template"}
    BY <1>1, BeginMoves, EndMoves DEF RecInv
<1>3. TemplatesOK'
    BY <1>1, <1>2, Frames
<1> QED BY <1>1, <1>2, <1>3, OnlyTemplates

(* A scan goes on while the templates stay. *)
LEMMA ScanGoesOn ==
    ASSUME TemplatesOK, NEW r \in Req, Moved(r), UNCHANGED <<tmpl, auto>>, ScanHeld(r)'
    PROVE  TemplatesOK'
<1>1. ASSUME NEW t \in Tmpl PROVE TmplAt(t)'
    BY DEF TemplatesOK, TmplAt
<1>2. ASSUME NEW q \in Req PROVE ScanHeld(q)'
    <2>1. CASE q = r BY <2>1
    <2>2. CASE q # r
        <3>1. ScanHeld(q) /\ pc'[q] = pc[q] /\ loc'[q] = loc[q]
            BY <2>2 DEF Moved, TemplatesOK
        <3> QED BY <3>1 DEF ScanHeld, CursorOK, Live
    <2> QED BY <2>1, <2>2
<1> QED BY <1>1, <1>2 DEF TemplatesOK

(* A scan starts from the next dates as they are. *)
LEMMA ScanBegins ==
    ASSUME RecInv, NEW r \in Req, TemplateScan(r)
    PROVE  RecInv'
<1>1. PICK todo : todo = {<<t, tmpl[t].next>> :
            t \in {t \in Live(tmpl) : tmpl[t].active /\ tmpl[t].next <= today}}
    OBVIOUS
<1>2. PICK d : d = [on |-> "template_scan", day |-> today, at |-> 0, todo |-> todo]
    OBVIOUS
<1>3. Begin(r, "occurrence", d) /\ UNCHANGED recVars
    BY <1>1, <1>2 DEF TemplateScan
<1>4. Moved(r) /\ pc[r] = "idle" /\ pc'[r] = "occurrence" /\ loc'[r] = d
    BY <1>3, BeginMoves DEF RecInv
<1>5. UNCHANGED <<tmpl, auto>> /\ UNCHANGED <<today, invTmplVars, journalVars, schedVars, unrecorded>>
    BY <1>3 DEF recVars, tmplVars
<1>6. ASSUME NEW o \in todo PROVE CursorOK(o[1], o[2], today)'
    <2>1. PICK t \in Live(tmpl) : o = <<t, tmpl[t].next>> /\ tmpl[t].next <= today
        BY <1>1
    <2>2. t \in Tmpl /\ tmpl[t].next \in Chain(tmpl[t].start, tmpl[t].freq) /\ IsDay(tmpl[t].next)
        BY <2>1, LiveTemplate, ReachedIsIn DEF RecInv
    <2>3. tmpl[t].next # 0 /\ tmpl[t].next <= tmpl[t].next
        BY <2>2, DayIsNot
    <2>4. CursorOK(t, tmpl[t].next, today)
        BY <2>1, <2>2, <2>3 DEF CursorOK, Live
    <2>5. o[1] = t /\ o[2] = tmpl[t].next BY <2>1
    <2> QED BY <2>4, <2>5, <1>5 DEF CursorOK, Live
<1>7. ScanHeld(r)'
    <2>1. d.day = today /\ d.at = 0 /\ d.todo = todo
          /\ d = [on |-> d.on, day |-> d.day, at |-> d.at, todo |-> d.todo]
        BY <1>2
    <2>2. today' = today /\ today \in Days BY <1>5 DEF RecInv, ControlOK
    <2> HIDE DEF CursorOK
    <2> QED BY <1>4, <1>6, <2>1, <2>2 DEF ScanHeld
<1>8. TemplatesOK' BY <1>4, <1>5, <1>7, ScanGoesOn DEF RecInv
<1> QED BY <1>4, <1>5, <1>8, OnlyTemplates

(* A scan takes the next template of its list. *)
LEMMA ScanPicks ==
    ASSUME RecInv, NEW r \in Req, ScanPick(r)
    PROVE  RecInv'
<1>1. pc[r] = "occurrence" /\ loc[r].at = 0 /\ UNCHANGED recVars BY DEF ScanPick
<1>5. UNCHANGED <<tmpl, auto>> /\ UNCHANGED <<today, invTmplVars, journalVars, schedVars, unrecorded>>
    BY <1>1 DEF recVars, tmplVars
<1>2. ScanHeld(r) BY DEF RecInv, TemplatesOK
<1>3. CASE End(r)
    <2>1. Moved(r) /\ pc'[r] = "idle" BY <1>3, EndMoves DEF RecInv
    <2>2. TemplatesOK' BY <2>1, <1>5, Frames
    <2> QED BY <2>1, <2>2, <1>1, <1>5, OnlyTemplates
<1>4. CASE ~End(r)
    <2>1. PICK o \in loc[r].todo :
            Goto(r, "occurrence", [on |-> o[1], day |-> loc[r].day, at |-> o[2],
                                   todo |-> loc[r].todo \ {o}])
        BY <1>4 DEF ScanPick
    <2>2. PICK d : d = [on |-> o[1], day |-> loc[r].day, at |-> o[2], todo |-> loc[r].todo \ {o}]
        OBVIOUS
    <2>3. Goto(r, "occurrence", d) BY <2>1, <2>2
    <2>4. Moved(r) /\ pc'[r] = "occurrence" /\ loc'[r] = d
        BY <2>3, GotoMoves DEF RecInv
    <2>5. /\ d.on = o[1] /\ d.day = loc[r].day /\ d.at = o[2] /\ d.todo = loc[r].todo \ {o}
          /\ d = [on |-> d.on, day |-> d.day, at |-> d.at, todo |-> d.todo]
        BY <2>2
    <2>6. \A u, x, y : CursorOK(u, x, y)' <=> CursorOK(u, x, y)
        BY <1>5 DEF CursorOK, Live
    <2>7. /\ loc[r].day \in Days /\ \A c \in loc[r].todo : CursorOK(c[1], c[2], loc[r].day)
        BY <1>1, <1>2 DEF ScanHeld
    <2>8. ScanHeld(r)' BY <2>4, <2>5, <2>6, <2>7 DEF ScanHeld
    <2>9. TemplatesOK' BY <2>4, <2>8, <1>5, ScanGoesOn DEF RecInv
    <2> QED BY <2>4, <2>9, <1>1, <1>5, OnlyTemplates
<1> QED BY <1>3, <1>4

(* The entry goes in only where the cursor is at the template's next date. *)
LEMMA OccurrenceRuns ==
    ASSUME RecInv, NEW r \in Req, RunOccurrence(r)
    PROVE  RecInv'
<1>1. /\ pc[r] = "occurrence" /\ loc[r].at # 0
      /\ UNCHANGED <<today, manual, invTmplVars, journalVars, schedVars, unrecorded>>
    BY DEF RunOccurrence
<1>2. ScanHeld(r) BY DEF RecInv, TemplatesOK
<1>3. PICK t : t = loc[r].on OBVIOUS
<1>4. PICK at : at = loc[r].at OBVIOUS
<1>5. PICK next : next = AdvanceFrequency(at, tmpl[t].freq) OBVIOUS
<1>6. /\ CursorOK(t, at, loc[r].day) /\ loc[r].day \in Days
      /\ \A o \in loc[r].todo : CursorOK(o[1], o[2], loc[r].day)
      /\ loc[r] = [on |-> t, day |-> loc[r].day, at |-> at, todo |-> loc[r].todo]
    BY <1>1, <1>2, <1>3, <1>4 DEF ScanHeld
<1>7. CASE End(r) /\ UNCHANGED <<tmpl, auto>>
    <2>1. Moved(r) /\ pc'[r] = "idle" BY <1>7, EndMoves DEF RecInv
    <2>2. TemplatesOK' BY <2>1, <1>7, <1>1, Frames
    <2> QED BY <2>1, <2>2, <1>1, OnlyTemplates
<1>8. CASE Goto(r, "occurrence", [loc[r] EXCEPT !.at = 0]) /\ UNCHANGED <<tmpl, auto>>
    <2>1. PICK d : d = [on |-> t, day |-> loc[r].day, at |-> 0, todo |-> loc[r].todo] OBVIOUS
    <2>2. [loc[r] EXCEPT !.at = 0] = d BY <2>1, <1>6
    <2>3. Moved(r) /\ pc'[r] = "occurrence" /\ loc'[r] = d
        BY <2>2, <1>8, GotoMoves DEF RecInv
    <2>5. /\ d.on = t /\ d.day = loc[r].day /\ d.at = 0 /\ d.todo = loc[r].todo
          /\ d = [on |-> d.on, day |-> d.day, at |-> d.at, todo |-> d.todo]
        BY <2>1
    <2>6. \A u, x, y : CursorOK(u, x, y)' <=> CursorOK(u, x, y)
        BY <1>8 DEF CursorOK, Live
    <2>8. ScanHeld(r)' BY <2>3, <2>5, <2>6, <1>6 DEF ScanHeld
    <2>9. TemplatesOK' BY <2>3, <2>8, <1>8, ScanGoesOn DEF RecInv
    <2> QED BY <2>3, <2>9, <1>1, OnlyTemplates
<1>9. CASE /\ Postable(t) /\ <<t, at>> \notin auto /\ auto' = auto \cup {<<t, at>>}
           /\ tmpl' = [tmpl EXCEPT ![t].next = next]
           /\ Goto(r, "occurrence", [loc[r] EXCEPT !.at = IF next <= loc[r].day THEN next ELSE 0])
    <2>1. t \in Live(tmpl) BY <1>9 DEF Postable
    <2>2. PICK s \in StartDates : s = tmpl[t].start BY <2>1, LiveTemplate DEF RecInv
    <2>3. PICK f \in Frequencies : f = tmpl[t].freq BY <2>1, LiveTemplate DEF RecInv
    <2>4. /\ t \in Tmpl /\ tmpl[t] \in TmplRow /\ Reached(s, f, tmpl[t].next)
          /\ \A x \in AllDates : <<t, x>> \in auto <=> x \in Chain(s, f) /\ x < tmpl[t].next
        BY <2>1, <2>2, <2>3, LiveTemplate DEF RecInv
    <2>5. at \in Chain(s, f) /\ at <= tmpl[t].next /\ at <= loc[r].day
        BY <1>6, <2>1, <2>2, <2>3 DEF CursorOK
    <2>6. IsDay(tmpl[t].next) /\ at \in AllDates
        BY <2>4, <2>5, ReachedIsIn
    <2>7. at = tmpl[t].next
        <3>1. ~(at < tmpl[t].next) BY <2>4, <2>5, <2>6, <1>9
        <3>2. at \in Int /\ tmpl[t].next \in Int BY <2>6, AllDatesAreDays DEF IsDay
        <3> QED BY <3>1, <3>2, <2>5
    <2>8. /\ Reached(s, f, next) /\ IsDay(next) /\ IsDay(at) /\ at < next
          /\ \A y \in Chain(s, f) : y < next <=> (y < at \/ y = at)
        BY <1>5, <1>6, <2>3, <2>5, ReachedNext
    <2>9. next \in AllDates /\ next # 0 /\ next \in Int /\ next <= next /\ next \in Chain(s, f)
        BY <2>8, ReachedIsIn, DayIsNot
    <2>10. PICK x : x = [tmpl[t] EXCEPT !.next = next] OBVIOUS
    <2>11. x \in TmplRow /\ x.next = next /\ x.start = s /\ x.freq = f
        BY <2>2, <2>3, <2>4, <2>9, <2>10 DEF TmplRow
    <2>12. DOMAIN tmpl' = Tmpl /\ tmpl'[t] = x /\ \A u \in Tmpl \ {t} : tmpl'[u] = tmpl[u]
        BY <1>9, <2>4, <2>10 DEF RecInv, TemplatesOK
    <2>13. TmplAt(t)'
        <3>1. ASSUME NEW y \in AllDates
              PROVE  <<t, y>> \in auto' <=> y \in Chain(s, f) /\ y < next
            BY <1>9, <2>4, <2>5, <2>7, <2>8
        <3> QED BY <3>1, <2>8, <2>11, <2>12 DEF TmplAt
    <2>14. ASSUME NEW u \in Tmpl \ {t} PROVE TmplAt(u)'
        <3>1. TmplAt(u) /\ tmpl'[u] = tmpl[u] BY <2>12 DEF RecInv, TemplatesOK
        <3>2. \A y : <<u, y>> \in auto' <=> <<u, y>> \in auto BY <1>9
        <3> QED BY <3>1, <3>2 DEF TmplAt
    <2>15. x # NoTmpl /\ x # Deleted BY <2>11, RowIsLive
    <2>16. ASSUME NEW u, NEW y, NEW d, CursorOK(u, y, d) PROVE CursorOK(u, y, d)'
        <3>1. CASE u # t BY <3>1, <2>12, <2>16 DEF CursorOK, Live
        <3>2. CASE u = t
            <4>1. y \in Chain(s, f) /\ y <= at /\ y # 0 /\ y <= d
                BY <3>2, <2>16, <2>1, <2>2, <2>3, <2>7 DEF CursorOK
            <4>2. y \in Int BY <4>1, Given, ChainStart DEF IsDay
            <4>3. y <= next BY <4>1, <4>2, <2>8 DEF IsDay
            <4> QED BY <3>2, <4>1, <4>3, <2>4, <2>11, <2>12, <2>15 DEF CursorOK
        <3> QED BY <3>1, <3>2
    <2>17. PICK c : c = IF next <= loc[r].day THEN next ELSE 0 OBVIOUS
    <2>18. PICK d : d = [on |-> t, day |-> loc[r].day, at |-> c, todo |-> loc[r].todo] OBVIOUS
    <2>19. [loc[r] EXCEPT !.at = IF next <= loc[r].day THEN next ELSE 0] = d
        BY <2>17, <2>18, <1>6
    <2>20. Moved(r) /\ pc'[r] = "occurrence" /\ loc'[r] = d
        BY <2>19, <1>9, GotoMoves DEF RecInv
    <2>21. /\ d.on = t /\ d.day = loc[r].day /\ d.at = c /\ d.todo = loc[r].todo
          /\ d = [on |-> d.on, day |-> d.day, at |-> d.at, todo |-> d.todo]
        BY <2>18
    <2>22. c # 0 => CursorOK(t, c, d.day)'
        <3> SUFFICES ASSUME c # 0 PROVE CursorOK(t, c, d.day)'
            OBVIOUS
        <3>1. c = next /\ next <= loc[r].day BY <2>17
        <3> QED BY <3>1, <2>4, <2>9, <2>11, <2>12, <2>15, <2>21 DEF CursorOK
    <2>23. ASSUME NEW q \in Req PROVE ScanHeld(q)'
        <3>1. CASE q = r
            BY <3>1, <2>16, <2>20, <2>21, <2>22, <1>6 DEF ScanHeld
        <3>2. CASE q # r
            <4>1. ScanHeld(q) /\ pc'[q] = pc[q] /\ loc'[q] = loc[q]
                BY <3>2, <2>20 DEF Moved, RecInv, TemplatesOK
            <4> QED BY <4>1, <2>16 DEF ScanHeld
        <3> QED BY <3>1, <3>2
    <2>24. auto' \subseteq Tmpl \X AllDates
        BY <1>9, <2>4, <2>6 DEF RecInv, TemplatesOK
    <2>25. TemplatesOK' BY <2>12, <2>13, <2>14, <2>23, <2>24 DEF TemplatesOK
    <2> QED BY <2>20, <2>25, <1>1, OnlyTemplates
<1> QED BY <1>3, <1>4, <1>5, <1>7, <1>8, <1>9 DEF RunOccurrence

-----------------------------------------------------------------------------
(* Recurring invoices. *)
LEMMA LiveBill ==
    ASSUME BillsOK, NEW t \in Live(invTmpl)
    PROVE  /\ t \in Tmpl /\ invTmpl[t].next \in StartDates /\ invTmpl[t].freq \in Frequencies
    BY DEF BillsOK, Live, InvTmplRow

(* Steps that touch the invoices only. *)
LEMMA OnlyBills ==
    ASSUME RecInv, NEW r \in Req, Moved(r), BillsOK',
           UNCHANGED <<today, tmplVars, journalVars, schedVars, unrecorded>>,
           pc[r] \in {"idle", "issue"}, pc'[r] \in {"idle", "issue"}
    PROVE  RecInv'
<1>1. /\ UNCHANGED today /\ UNCHANGED <<tmpl, auto>> /\ UNCHANGED <<journal, run>>
      /\ UNCHANGED <<stray>> /\ UNCHANGED <<sched, recorded, entries>> /\ unrecorded \subseteq unrecorded'
    BY DEF tmplVars, journalVars, schedVars
<1>2. /\ pc[r] \notin DraftLabels /\ pc'[r] \notin DraftLabels /\ pc'[r] # "occurrence"
      /\ pc'[r] \notin JournalLabels
      /\ pc[r] \notin SweepLabels /\ pc'[r] \notin SweepLabels
    BY DEF JournalLabels, SweepLabels, DraftLabels
<1> QED BY <1>1, <1>2, Frames DEF RecInv

(* What is issued and held stays good while templates are added and        *)
(* invoices are issued.                                                    *)
LEMMA BillableStays ==
    ASSUME NEW t, NEW x, Billable(t, x), issued \subseteq issued',
           \A u \in Live(invTmpl) : u \in Live(invTmpl') /\ invTmpl'[u] = invTmpl[u]
    PROVE  Billable(t, x)'
    BY DEF Billable, BilledBefore, Live

(* Invoices stay billable when others are issued. *)
LEMMA BillsStep ==
    ASSUME BillsOK, NEW r \in Req, Moved(r), issued \subseteq issued',
           \A u \in Live(invTmpl) : u \in Live(invTmpl') /\ invTmpl'[u] = invTmpl[u],
           IssueHeld(r)'
    PROVE  \A q \in Req : IssueHeld(q)'
<1> SUFFICES ASSUME NEW q \in Req, q # r PROVE IssueHeld(q)'
    OBVIOUS
<1>1. IssueHeld(q) /\ pc'[q] = pc[q] /\ loc'[q] = loc[q] BY DEF BillsOK, Moved
<1>2. \A t, x : Billable(t, x) => Billable(t, x)' BY BillableStays
<1> QED BY <1>1, <1>2 DEF IssueHeld

(* A template of invoices appears. *)
LEMMA InvoiceTemplateMade ==
    ASSUME RecInv, NEW t \in Tmpl, InvoiceTemplateAppears(t)
    PROVE  RecInv'
<1>1. PICK f \in Frequencies, d \in StartDates :
        invTmpl' = [invTmpl EXCEPT ![t] = [next |-> d, freq |-> f]]
    BY DEF InvoiceTemplateAppears
<1>2. /\ t \notin Live(invTmpl) /\ UNCHANGED <<pc, loc, raced>>
      /\ UNCHANGED <<today, tmpl, auto, issued, journal, run, stray, sched, recorded, entries, unrecorded>>
    BY DEF InvoiceTemplateAppears, reqVars, tmplVars, journalVars, schedVars
<1>3. PICK x : x = [next |-> d, freq |-> f] OBVIOUS
<1>4. x \in InvTmplRow /\ x # NoTmpl /\ x # Deleted
    <2>1. x \in InvTmplRow BY <1>3 DEF InvTmplRow
    <2>2. x.next = d /\ d # 0 /\ d # -1 BY <1>3, Given, DayIsNot
    <2> QED BY <2>1, <2>2 DEF NoTmpl, Deleted
<1>5. DOMAIN invTmpl' = Tmpl /\ invTmpl'[t] = x /\ \A u \in Tmpl \ {t} : invTmpl'[u] = invTmpl[u]
    BY <1>1, <1>3 DEF RecInv, BillsOK
<1>6. \A u \in Live(invTmpl) : u \in Live(invTmpl') /\ invTmpl'[u] = invTmpl[u]
    BY <1>2, <1>5 DEF Live
<1>7. \A u, y : Billable(u, y) => Billable(u, y)'
    BY <1>2, <1>6, BillableStays
<1>8. ASSUME NEW q \in Req PROVE IssueHeld(q)'
    <2>1. IssueHeld(q) BY DEF RecInv, BillsOK
    <2> QED BY <2>1, <1>2, <1>7 DEF IssueHeld
<1>9. BillsOK'
    <2>1. \A u \in Tmpl : invTmpl'[u] = NoTmpl \/ invTmpl'[u] \in InvTmplRow
        BY <1>4, <1>5 DEF RecInv, BillsOK
    <2>2. \A o \in issued' : Billable(o[1], o[2])'
        BY <1>2, <1>7 DEF RecInv, BillsOK
    <2> QED BY <2>1, <2>2, <1>2, <1>5, <1>8 DEF RecInv, BillsOK
<1>10. /\ Holds({"occurrence"}) /\ Holds(JournalLabels) /\ Same(DraftLabels) /\ Same(SweepLabels)
       /\ raced \subseteq raced' /\ unrecorded \subseteq unrecorded'
    BY <1>2, IdleSame
<1>11. ControlOK' BY <1>2 DEF RecInv, ControlOK
<1>12. TemplatesOK' /\ JournalsOK' BY <1>2, <1>10, TemplatesFrame, JournalsFrame DEF RecInv
<1>13. DraftsOK' /\ AmortizationOK' BY <1>2, <1>10, DraftsFrame, AmortizationFrame DEF RecInv
<1> QED BY <1>9, <1>11, <1>12, <1>13 DEF RecInv

LEMMA InvoiceScanBegins ==
    ASSUME RecInv, NEW r \in Req, InvoiceScan(r)
    PROVE  RecInv'
<1>1. PICK todo : todo = {<<t, invTmpl[t].next>> : t \in {t \in Live(invTmpl) : invTmpl[t].next <= today}}
    OBVIOUS
<1>2. PICK d : d = [on |-> "invoice_scan", day |-> today, at |-> 0, todo |-> todo]
    OBVIOUS
<1>3. Begin(r, "issue", d) /\ UNCHANGED recVars
    BY <1>1, <1>2 DEF InvoiceScan
<1>4. Moved(r) /\ pc[r] = "idle" /\ pc'[r] = "issue" /\ loc'[r] = d
    BY <1>3, BeginMoves DEF RecInv
<1>5. UNCHANGED <<invTmpl, issued>> /\ UNCHANGED <<today, tmplVars, journalVars, schedVars, unrecorded>>
    BY <1>3 DEF recVars, invTmplVars
<1>6. ASSUME NEW o \in todo PROVE Billable(o[1], o[2]) /\ o[2] <= today
    <2>1. PICK t \in Live(invTmpl) : o = <<t, invTmpl[t].next>> /\ invTmpl[t].next <= today
        BY <1>1
    <2>2. /\ invTmpl[t].next \in Chain(invTmpl[t].next, invTmpl[t].freq)
          /\ \A y \in Chain(invTmpl[t].next, invTmpl[t].freq) : ~(y < invTmpl[t].next)
        BY <2>1, LiveBill, ReachedStart DEF RecInv, Reached
    <2>3. o[1] = t /\ o[2] = invTmpl[t].next BY <2>1
    <2> QED BY <2>1, <2>2, <2>3 DEF Billable, BilledBefore
<1>7. \A u, y : Billable(u, y)' <=> Billable(u, y)
    BY <1>5 DEF Billable, BilledBefore, Live
<1>8. IssueHeld(r)'
    <2>1. d.day = today /\ d.at = 0 /\ d.todo = todo
          /\ d = [on |-> d.on, day |-> d.day, at |-> d.at, todo |-> d.todo]
        BY <1>2
    <2>2. today \in Days BY DEF RecInv, ControlOK
    <2> QED BY <1>4, <1>6, <1>7, <2>1, <2>2 DEF IssueHeld
<1>9. \A q \in Req : IssueHeld(q)'
    BY <1>4, <1>5, <1>8, BillsStep DEF RecInv
<1>10. BillsOK'
    BY <1>5, <1>7, <1>9 DEF RecInv, BillsOK
<1> QED BY <1>4, <1>5, <1>10, OnlyBills

LEMMA InvoiceScanPicks ==
    ASSUME RecInv, NEW r \in Req, InvoiceScanPick(r)
    PROVE  RecInv'
<1>1. /\ pc[r] = "issue" /\ loc[r].at = 0 /\ UNCHANGED <<invTmpl, issued>>
      /\ UNCHANGED <<today, tmplVars, journalVars, schedVars, unrecorded>>
    BY DEF InvoiceScanPick
<1>2. IssueHeld(r) BY DEF RecInv, BillsOK
<1>3. CASE End(r)
    <2>1. Moved(r) /\ pc'[r] = "idle" BY <1>3, EndMoves DEF RecInv
    <2>2. BillsOK' BY <2>1, <1>1, Frames
    <2> QED BY <2>1, <2>2, <1>1, OnlyBills
<1>4. CASE ~End(r)
    <2>1. PICK o \in loc[r].todo :
            Goto(r, "issue", [on |-> o[1], day |-> loc[r].day, at |-> o[2],
                              todo |-> loc[r].todo \ {o}])
        BY <1>4 DEF InvoiceScanPick
    <2>2. PICK d : d = [on |-> o[1], day |-> loc[r].day, at |-> o[2], todo |-> loc[r].todo \ {o}]
        OBVIOUS
    <2>3. Goto(r, "issue", d) BY <2>1, <2>2
    <2>4. Moved(r) /\ pc'[r] = "issue" /\ loc'[r] = d
        BY <2>3, GotoMoves DEF RecInv
    <2>5. /\ d.on = o[1] /\ d.day = loc[r].day /\ d.at = o[2] /\ d.todo = loc[r].todo \ {o}
          /\ d = [on |-> d.on, day |-> d.day, at |-> d.at, todo |-> d.todo]
        BY <2>2
    <2>6. \A u, y : Billable(u, y)' <=> Billable(u, y)
        BY <1>1 DEF Billable, BilledBefore, Live
    <2>7. loc[r].day \in Days /\ \A c \in loc[r].todo : Billable(c[1], c[2]) /\ c[2] <= loc[r].day
        BY <1>1, <1>2 DEF IssueHeld
    <2>8. IssueHeld(r)' BY <2>4, <2>5, <2>6, <2>7 DEF IssueHeld
    <2>9. \A q \in Req : IssueHeld(q)' BY <2>4, <2>8, <1>1, BillsStep DEF RecInv
    <2>10. BillsOK' BY <2>6, <2>9, <1>1 DEF RecInv, BillsOK
    <2> QED BY <2>4, <2>10, <1>1, OnlyBills
<1> QED BY <1>3, <1>4

(* An occurrence is issued once everything before it is: the cursor of a   *)
(* scan moves on from what it issued only.                                 *)
LEMMA InvoiceIssued ==
    ASSUME RecInv, NEW r \in Req, IssueOccurrence(r)
    PROVE  RecInv'
<1>1. /\ pc[r] = "issue" /\ loc[r].at # 0 /\ UNCHANGED invTmpl
      /\ UNCHANGED <<today, tmplVars, journalVars, schedVars, unrecorded>>
    BY DEF IssueOccurrence
<1>2. IssueHeld(r) BY DEF RecInv, BillsOK
<1>3. PICK t : t = loc[r].on OBVIOUS
<1>4. PICK at : at = loc[r].at OBVIOUS
<1>5. PICK next : next = AdvanceFrequency(at, invTmpl[t].freq) OBVIOUS
<1>6. /\ Billable(t, at) /\ at <= loc[r].day /\ loc[r].day \in Days
      /\ \A o \in loc[r].todo : Billable(o[1], o[2]) /\ o[2] <= loc[r].day
      /\ loc[r] = [on |-> t, day |-> loc[r].day, at |-> at, todo |-> loc[r].todo]
    BY <1>1, <1>2, <1>3, <1>4 DEF IssueHeld
<1>7. PICK s \in StartDates, f \in Frequencies : s = invTmpl[t].next /\ f = invTmpl[t].freq
    BY <1>6, LiveBill DEF Billable, RecInv
<1>8. /\ t \in Tmpl /\ t \in Live(invTmpl) /\ at \in Chain(s, f)
      /\ \A y \in Chain(s, f) : y < at => <<t, y>> \in issued
    BY <1>6, <1>7 DEF Billable, BilledBefore, Live
<1>9. /\ Reached(s, f, at) /\ Reached(s, f, next) /\ IsDay(next)
      /\ \A y \in Chain(s, f) : y < next <=> (y < at \/ y = at)
    BY <1>5, <1>6, <1>7, <1>8, ReachedNext
<1>10. at \in AllDates /\ next \in Chain(s, f) BY <1>9, ReachedIsIn
<1>11. PICK c : /\ Goto(r, "issue", [loc[r] EXCEPT !.at = c])
                /\ \/ c = 0 /\ UNCHANGED issued
                   \/ issued' = issued \cup {<<t, at>>} /\ (c = 0 \/ (c = next /\ next <= loc[r].day))
    BY <1>3, <1>4, <1>5 DEF IssueOccurrence
<1>12. issued \subseteq issued' /\ issued' \subseteq issued \cup {<<t, at>>} BY <1>11
<1>13. \A u \in Live(invTmpl) : u \in Live(invTmpl') /\ invTmpl'[u] = invTmpl[u]
    BY <1>1 DEF Live
<1>14. \A u, y : Billable(u, y) => Billable(u, y)' BY <1>12, <1>13, BillableStays
<1>15. PICK d : d = [on |-> t, day |-> loc[r].day, at |-> c, todo |-> loc[r].todo] OBVIOUS
<1>16. [loc[r] EXCEPT !.at = c] = d BY <1>15, <1>6
<1>17. Moved(r) /\ pc'[r] = "issue" /\ loc'[r] = d
    BY <1>16, <1>11, GotoMoves DEF RecInv
<1>18. /\ d.on = t /\ d.day = loc[r].day /\ d.at = c /\ d.todo = loc[r].todo
       /\ d = [on |-> d.on, day |-> d.day, at |-> d.at, todo |-> d.todo]
    BY <1>15
<1>19. c # 0 => Billable(t, c)' /\ c <= d.day
    <2> SUFFICES ASSUME c # 0 PROVE Billable(t, c)' /\ c <= d.day
        OBVIOUS
    <2>1. c = next /\ next <= loc[r].day /\ issued' = issued \cup {<<t, at>>} BY <1>11
    <2>2. \A y \in Chain(s, f) : y < next => <<t, y>> \in issued' BY <2>1, <1>8, <1>9
    <2> QED BY <2>1, <2>2, <1>1, <1>7, <1>8, <1>10, <1>13, <1>18 DEF Billable, BilledBefore
<1>20. IssueHeld(r)' BY <1>6, <1>14, <1>17, <1>18, <1>19 DEF IssueHeld
<1>21. \A q \in Req : IssueHeld(q)' BY <1>12, <1>13, <1>17, <1>20, BillsStep DEF RecInv
<1>22. \A o \in issued' : Billable(o[1], o[2])'
    <2>1. Billable(t, at)' BY <1>6, <1>14
    <2>2. \A o \in issued : Billable(o[1], o[2])' BY <1>14 DEF RecInv, BillsOK
    <2>3. <<t, at>>[1] = t /\ <<t, at>>[2] = at OBVIOUS
    <2> QED BY <2>1, <2>2, <2>3, <1>12
<1>23. BillsOK'
    <2>1. issued' \subseteq Tmpl \X AllDates BY <1>8, <1>10, <1>12 DEF RecInv, BillsOK
    <2> QED BY <2>1, <1>1, <1>21, <1>22 DEF RecInv, BillsOK
<1> QED BY <1>1, <1>17, <1>23, OnlyBills

(* A scan or a run is cut off. *)
LEMMA ScanCut ==
    ASSUME RecInv, NEW r \in Req, ScanCutOff(r)
    PROVE  RecInv'
<1>1. /\ pc[r] \in {"run_template", "occurrence", "issue"} /\ End(r) /\ UNCHANGED recVars
    BY DEF ScanCutOff, CutOff
<1>2. Moved(r) /\ pc'[r] = "idle" BY <1>1, EndMoves DEF RecInv
<1>3. /\ UNCHANGED <<tmpl, auto>> /\ UNCHANGED <<invTmpl, issued>> /\ UNCHANGED today
      /\ UNCHANGED <<today, tmplVars, journalVars, schedVars, unrecorded>>
      /\ UNCHANGED <<today, invTmplVars, journalVars, schedVars, unrecorded>>
    BY <1>1 DEF recVars, tmplVars, invTmplVars
<1>4. TemplatesOK' /\ BillsOK' BY <1>2, <1>3, Frames
<1> QED BY <1>1, <1>2, <1>3, <1>4, OnlyTemplates, OnlyBills

-----------------------------------------------------------------------------
(* Recurring journals. *)
LEMMA LiveJournal ==
    ASSUME JournalsOK, NEW t \in Live(journal)
    PROVE  /\ t \in Tmpl /\ journal[t] \in JournalRow
           /\ journal[t].start \in StartDates /\ journal[t].freq \in Frequencies
           /\ Reached(journal[t].start, journal[t].freq, journal[t].next)
           /\ HandledBefore(t, journal[t].next)
<1>1. t \in Tmpl /\ journal[t] # NoTmpl /\ JournalAt(t)
    BY DEF Live, JournalsOK
<1> QED BY <1>1 DEF JournalAt, JournalRow

LEMMA JournalRowIsLive ==
    ASSUME NEW x \in JournalRow
    PROVE  x # NoTmpl /\ x # Deleted
<1>1. x.next \in AllDates BY DEF JournalRow
<1>2. x.next # 0 /\ x.next # -1 BY <1>1, AllDatesAreDays
<1> QED BY <1>2 DEF NoTmpl, Deleted

(* Steps that touch the journals only. *)
LEMMA OnlyJournals ==
    ASSUME RecInv, NEW r \in Req, Moved(r), JournalsOK', DraftsOK',
           UNCHANGED <<today, tmplVars, invTmplVars, schedVars>>, unrecorded \subseteq unrecorded',
           pc[r] \in {"idle"} \cup JournalLabels, pc'[r] \in {"idle"} \cup JournalLabels
    PROVE  RecInv'
<1>1. /\ UNCHANGED today /\ UNCHANGED <<tmpl, auto>> /\ UNCHANGED <<invTmpl, issued>>
      /\ UNCHANGED <<sched, recorded, entries>>
    BY DEF tmplVars, invTmplVars, schedVars
<1>2. /\ pc'[r] # "occurrence" /\ pc'[r] # "issue"
      /\ pc[r] \notin SweepLabels /\ pc'[r] \notin SweepLabels
    BY DEF JournalLabels, SweepLabels, DraftLabels
<1> QED BY <1>1, <1>2, Frames DEF RecInv

(* A journal keeps its dates, a period its run, a run what was posted. *)
JournalsGrow ==
    /\ \A t \in Live(journal) : /\ t \in Live(journal') /\ journal'[t].start = journal[t].start
                                /\ journal'[t].freq = journal[t].freq
    /\ \A o \in Tmpl \X AllDates : /\ run[o].status # "none" => run'[o].status # "none"
                                   /\ run[o].has = "posted" => run'[o].has = "posted"

(* A period a request holds stays one of its journal, with every run it    *)
(* had.                                                                    *)
LEMMA HandledStays ==
    ASSUME JournalsOK, JournalsGrow, NEW t, NEW x, PeriodOK(t, x)
    PROVE  /\ PeriodOK(t, x)' /\ t \in Tmpl /\ x \in AllDates
           /\ HandledBefore(t, x) => HandledBefore(t, x)'
           /\ Handled(t, x) => Handled(t, x)'
<1>1. t \in Live(journal) /\ Reached(journal[t].start, journal[t].freq, x) BY DEF PeriodOK
<1>2. t \in Tmpl /\ journal[t].start \in StartDates /\ journal[t].freq \in Frequencies
    BY <1>1, LiveJournal
<1>3. /\ x \in AllDates
      /\ \A y \in Chain(journal[t].start, journal[t].freq) : y <= x => y \in AllDates
      /\ IsDay(x)
    BY <1>1, <1>2, ReachedIsIn
<1>4. t \in Live(journal') /\ journal'[t].start = journal[t].start /\ journal'[t].freq = journal[t].freq
    BY <1>1 DEF JournalsGrow
<1>5. \A y \in AllDates : Handled(t, y) => Handled(t, y)'
    BY <1>2 DEF Handled, JournalsGrow
<1>6. HandledBefore(t, x) => HandledBefore(t, x)'
    <2> SUFFICES ASSUME HandledBefore(t, x), NEW y \in Chain(journal[t].start, journal[t].freq), y < x
                 PROVE  Handled(t, y)'
        BY <1>4 DEF HandledBefore
    <2>1. IsDay(y) BY <1>2, Given, ChainStart
    <2>2. y <= x BY <2>1, <1>3 DEF IsDay
    <2>3. y \in AllDates /\ Handled(t, y) BY <2>2, <1>3 DEF HandledBefore
    <2> QED BY <2>3, <1>5
<1>7. PeriodOK(t, x)' BY <1>1, <1>4 DEF PeriodOK
<1> QED BY <1>2, <1>3, <1>5, <1>6, <1>7

LEMMA PeriodHeldStays ==
    ASSUME JournalsOK, JournalsGrow, NEW q \in Req, pc'[q] = pc[q], loc'[q] = loc[q]
    PROVE  PeriodHeld(q)'
<1>1. PeriodHeld(q) BY DEF JournalsOK
<1>2. PICK t, x : t = loc[q].on /\ x = loc[q].at OBVIOUS
<1>3. CASE pc[q] \in {"preview", "run_due_end"} \cup DraftLabels
    <2>1. /\ t \in Live(journal) /\ x \in AllDates
          /\ loc[q].due => PeriodOK(t, x) /\ HandledBefore(t, x)
          /\ pc[q] = "preview_lost" => Handled(t, x)
        BY <1>1, <1>2, <1>3 DEF PeriodHeld
    <2>2. loc[q].due => PeriodOK(t, x)' /\ HandledBefore(t, x)' BY <2>1, HandledStays
    <2>3. t = loc'[q].on /\ x = loc'[q].at BY <1>2
    <2>4. t \in Live(journal') /\ t \in Tmpl BY <2>1 DEF JournalsGrow, Live
    <2>5. pc[q] = "preview_lost" => Handled(t, x)' BY <2>1, <2>4 DEF JournalsGrow, Handled
    <2>6. pc[q] \notin {"skip_read", "skip_next", "post_run_end"} BY <1>3 DEF DraftLabels
    <2>7. Live(journal)' = Live(journal') BY DEF Live
    <2> QED BY <2>1, <2>2, <2>3, <2>4, <2>5, <2>6, <2>7, <1>1, <1>3 DEF PeriodHeld
<1>4. CASE pc[q] \in {"skip_read", "skip_next"}
    <2>1. PeriodOK(t, x) /\ Handled(t, x) /\ (pc[q] = "skip_next" => HandledBefore(t, x))
        BY <1>1, <1>2, <1>4 DEF PeriodHeld
    <2>2. PeriodOK(t, x)' /\ Handled(t, x)' /\ (pc[q] = "skip_next" => HandledBefore(t, x)')
        BY <2>1, HandledStays
    <2>3. t = loc'[q].on /\ x = loc'[q].at BY <1>2
    <2> QED BY <2>2, <2>3, <1>1, <1>4 DEF PeriodHeld, DraftLabels
<1>5. CASE pc[q] = "post_run_end"
    BY <1>1, <1>5 DEF PeriodHeld, JournalsGrow, DraftLabels
<1>6. CASE pc[q] \notin JournalLabels
    BY <1>6 DEF PeriodHeld, JournalLabels
<1> QED BY <1>3, <1>4, <1>5, <1>6 DEF JournalLabels

RunsOK ==
    /\ run \in [Tmpl \X AllDates -> RunRow]
    /\ \A o \in Tmpl \X AllDates :
        /\ run[o].status = "posted" => run[o].has = "posted"
        /\ run[o].status = "none" => run[o].has # "posted"

(* A step of r on one journal, or on none. *)
LEMMA JournalsStep ==
    ASSUME JournalsOK, NEW r \in Req, Moved(r), JournalsGrow, RunsOK', PeriodHeld(r)',
           NEW t \in Tmpl, DOMAIN journal' = Tmpl, JournalAt(t)',
           \A u \in Tmpl \ {t} : journal'[u] = journal[u]
    PROVE  JournalsOK'
<1>1. ASSUME NEW q \in Req PROVE PeriodHeld(q)'
    <2>1. CASE q = r BY <2>1
    <2>2. CASE q # r
        <3>1. pc'[q] = pc[q] /\ loc'[q] = loc[q] BY <2>2 DEF Moved
        <3> QED BY <3>1, PeriodHeldStays
    <2> QED BY <2>1, <2>2
<1>2. ASSUME NEW u \in Tmpl \ {t} PROVE JournalAt(u)'
    <2>1. CASE journal[u] = NoTmpl BY <2>1 DEF JournalAt
    <2>2. CASE journal[u] # NoTmpl
        <3>1. JournalAt(u) BY DEF JournalsOK
        <3>2. /\ journal[u] \in JournalRow /\ HandledBefore(u, journal[u].next)
              /\ Reached(journal[u].start, journal[u].freq, journal[u].next)
            BY <2>2, <3>1 DEF JournalAt
        <3>3. u \in Live(journal) BY <3>2, JournalRowIsLive DEF Live
        <3>4. PICK x : x = journal[u].next OBVIOUS
        <3>5. PeriodOK(u, x) /\ HandledBefore(u, x) BY <3>2, <3>3, <3>4 DEF PeriodOK
        <3>6. HandledBefore(u, x)' BY <3>5, HandledStays
        <3>7. journal'[u] = journal[u] OBVIOUS
        <3> QED BY <3>2, <3>4, <3>6, <3>7 DEF JournalAt
    <2> QED BY <2>1, <2>2
<1> QED BY <1>1, <1>2 DEF JournalsOK, RunsOK

LEMMA JournalsHave ==
    ASSUME JournalsOK
    PROVE  RunsOK /\ DOMAIN journal = Tmpl /\ \A t \in Tmpl : JournalAt(t)
    BY DEF JournalsOK, RunsOK

(* The same when nothing but r's place changes. *)
LEMMA JournalsPass ==
    ASSUME JournalsOK, NEW r \in Req, Moved(r), UNCHANGED <<journal, run>>, PeriodHeld(r)'
    PROVE  JournalsOK'
<1>1. JournalsGrow BY DEF JournalsGrow, Live
<1>2. ASSUME NEW q \in Req PROVE PeriodHeld(q)'
    <2>1. CASE q = r BY <2>1
    <2>2. CASE q # r
        <3>1. pc'[q] = pc[q] /\ loc'[q] = loc[q] BY <2>2 DEF Moved
        <3> QED BY <3>1, <1>1, PeriodHeldStays
    <2> QED BY <2>1, <2>2
<1>3. \A t \in Tmpl : JournalAt(t) => JournalAt(t)'
    BY DEF JournalAt, HandledBefore, Handled
<1> QED BY <1>2, <1>3 DEF JournalsOK

(* create: nothing lies before the first period. *)
LEMMA JournalMade ==
    ASSUME RecInv, NEW r \in Req, NEW t \in Tmpl, JournalCreate(r, t)
    PROVE  RecInv'
<1>1. PICK f \in Frequencies, d \in StartDates, cap \in Caps, e \in EndDates \cup {0} :
        journal' = [journal EXCEPT ![t] = [start |-> d, next |-> d, freq |-> f,
                                           end |-> e, cap |-> cap, paused |-> FALSE]]
    BY DEF JournalCreate
<1>2. /\ t \notin Live(journal) /\ Serve(r, t) /\ UNCHANGED <<run, stray, unrecorded>>
      /\ UNCHANGED <<today, tmplVars, invTmplVars, schedVars>>
    BY DEF JournalCreate
<1>3. Moved(r) /\ UNCHANGED <<pc, loc>> /\ pc[r] = "idle" /\ pc'[r] = "idle"
    BY <1>2, ServeMoves DEF RecInv
<1>4. PICK x : x = [start |-> d, next |-> d, freq |-> f, end |-> e, cap |-> cap, paused |-> FALSE]
    OBVIOUS
<1>5. d \in AllDates BY InAllDates
<1>6. x \in JournalRow /\ x.start = d /\ x.next = d /\ x.freq = f
    BY <1>4, <1>5 DEF JournalRow
<1>7. DOMAIN journal' = Tmpl /\ journal'[t] = x /\ \A u \in Tmpl \ {t} : journal'[u] = journal[u]
    BY <1>1, <1>4 DEF RecInv, JournalsOK
<1>8. JournalsGrow
    BY <1>2, <1>7 DEF JournalsGrow, Live
<1>9. JournalAt(t)'
    <2>1. Reached(d, f, d) /\ \A y \in Chain(d, f) : ~(y < d) BY ReachedStart
    <2> QED BY <2>1, <1>6, <1>7 DEF JournalAt, HandledBefore
<1>10. RunsOK' BY <1>2, JournalsHave DEF RecInv, RunsOK
<1>11. PeriodHeld(r)' BY <1>3 DEF PeriodHeld, DraftLabels
<1>12. JournalsOK' BY <1>3, <1>7, <1>8, <1>9, <1>10, <1>11, JournalsStep DEF RecInv
<1>13. DraftsOK' BY <1>2, <1>3, Frames DEF DraftLabels
<1> QED BY <1>2, <1>3, <1>12, <1>13, OnlyJournals

(* set_paused leaves the dates alone. *)
LEMMA JournalPaused ==
    ASSUME RecInv, NEW r \in Req, NEW t \in Tmpl, SetPaused(r, t)
    PROVE  RecInv'
<1>1. PICK b \in BOOLEAN : journal' = [journal EXCEPT ![t].paused = b]
    BY DEF SetPaused
<1>2. /\ t \in Live(journal) /\ Serve(r, t) /\ UNCHANGED <<run, stray, unrecorded>>
      /\ UNCHANGED <<today, tmplVars, invTmplVars, schedVars>>
    BY DEF SetPaused
<1>3. Moved(r) /\ UNCHANGED <<pc, loc>> /\ pc[r] = "idle" /\ pc'[r] = "idle"
    BY <1>2, ServeMoves DEF RecInv
<1>4. PICK x : x = [journal[t] EXCEPT !.paused = b] OBVIOUS
<1>5. /\ journal[t] \in JournalRow /\ Reached(journal[t].start, journal[t].freq, journal[t].next)
      /\ HandledBefore(t, journal[t].next)
    BY <1>2, LiveJournal DEF RecInv
<1>6. /\ x \in JournalRow /\ x.start = journal[t].start /\ x.next = journal[t].next
      /\ x.freq = journal[t].freq
    BY <1>4, <1>5 DEF JournalRow
<1>7. DOMAIN journal' = Tmpl /\ journal'[t] = x /\ \A u \in Tmpl \ {t} : journal'[u] = journal[u]
    BY <1>1, <1>4 DEF RecInv, JournalsOK
<1>8. JournalsGrow
    BY <1>2, <1>6, <1>7, JournalRowIsLive DEF JournalsGrow, Live
<1>9. JournalAt(t)'
    BY <1>2, <1>5, <1>6, <1>7 DEF JournalAt, HandledBefore, Handled
<1>10. RunsOK' BY <1>2, JournalsHave DEF RecInv, RunsOK
<1>11. PeriodHeld(r)' BY <1>3 DEF PeriodHeld, DraftLabels
<1>12. JournalsOK' BY <1>3, <1>7, <1>8, <1>9, <1>10, <1>11, JournalsStep DEF RecInv
<1>13. DraftsOK' BY <1>2, <1>3, Frames DEF DraftLabels
<1> QED BY <1>2, <1>3, <1>12, <1>13, OnlyJournals

(* A preview begins with any date, run_due with the next period. *)
LEMMA PreviewBegins ==
    ASSUME RecInv, NEW r \in Req, NEW t \in Tmpl, PreviewBegin(r, t) \/ RunDueBegin(r, t)
    PROVE  RecInv'
<1>1. t \in Live(journal) /\ UNCHANGED recVars
    BY DEF PreviewBegin, RunDueBegin
<1>2. PICK x : x = journal[t].next OBVIOUS
<1>3. /\ PeriodOK(t, x) /\ HandledBefore(t, x) /\ IsDay(x) /\ x \in AllDates
    BY <1>1, <1>2, LiveJournal, ReachedIsIn DEF RecInv, PeriodOK
<1>4. PICK label, d, y :
        /\ Begin(r, label, d) /\ label \in {"preview", "run_due_end"}
        /\ d.on = t /\ d.at = y /\ y \in AllDates /\ d.due \in BOOLEAN
        /\ d.due => y = x
        /\ label = "run_due_end" => d.due
        /\ d.due /\ label # "run_due_end" => d.day \in Days /\ x <= d.day
    <2>1. CASE PreviewBegin(r, t)
        <3>1. PICK p \in {x} \cup AllDates : Begin(r, "preview", [on |-> t, at |-> p, due |-> FALSE])
            BY <2>1, <1>2 DEF PreviewBegin
        <3>2. PICK d : d = [on |-> t, at |-> p, due |-> FALSE] OBVIOUS
        <3>3. d.on = t /\ d.at = p /\ d.due = FALSE BY <3>2
        <3>4. p \in AllDates BY <1>3
        <3>5. Begin(r, "preview", d) BY <3>1, <3>2
        <3> QED BY <3>3, <3>4, <3>5
    <2>2. CASE RunDueBegin(r, t)
        <3>1. PICK d : d = [on |-> t, at |-> x, due |-> TRUE, day |-> today] OBVIOUS
        <3>2. Begin(r, PeriodStep(t, x, today), d) /\ x <= today
            BY <3>1, <2>2, <1>2 DEF RunDueBegin
        <3>3. d.on = t /\ d.at = x /\ d.due = TRUE /\ d.day = today BY <3>1
        <3>4. PeriodStep(t, x, today) \in {"preview", "run_due_end"} BY DEF PeriodStep
        <3>5. today \in Days BY DEF RecInv, ControlOK
        <3> QED BY <1>3, <3>2, <3>3, <3>4, <3>5
    <2> QED BY <2>1, <2>2
<1>5. Moved(r) /\ pc[r] = "idle" /\ pc'[r] = label /\ loc'[r] = d
    BY <1>4, BeginMoves DEF RecInv
<1>6. /\ UNCHANGED <<journal, run>> /\ UNCHANGED <<stray, unrecorded>>
      /\ UNCHANGED <<today, tmplVars, invTmplVars, schedVars>>
    BY <1>1 DEF recVars, journalVars
<1>7. PeriodOK(t, x)' /\ HandledBefore(t, x)' /\ t \in Live(journal)'
    BY <1>1, <1>3, <1>6 DEF PeriodOK, HandledBefore, Handled, Live
<1>8. PeriodHeld(r)' BY <1>4, <1>5, <1>7 DEF PeriodHeld, DraftLabels
<1>9. JournalsOK' BY <1>5, <1>6, <1>8, JournalsPass DEF RecInv
<1>10. pc[r] \notin DraftLabels /\ pc'[r] \notin DraftLabels BY <1>4, <1>5 DEF DraftLabels
<1>11. DraftsOK' BY <1>5, <1>6, <1>10, Frames
<1> QED BY <1>4, <1>5, <1>6, <1>9, <1>11, OnlyJournals DEF JournalLabels

(* The next period of run_due, or the end of a preview. *)
LEMMA PeriodFollows ==
    ASSUME RecInv, NEW r \in Req, pc[r] \in {"preview"} \cup DraftLabels, NextPeriod(r),
           UNCHANGED journal, JournalsGrow, Handled(loc[r].on, loc[r].at)
              \/ run'[<<loc[r].on, loc[r].at>>].status # "none"
    PROVE  Moved(r) /\ pc'[r] \in {"idle", "preview", "run_due_end"} /\ PeriodHeld(r)'
<1>1. PICK t, x : t = loc[r].on /\ x = loc[r].at OBVIOUS
<1>2. PeriodHeld(r) BY DEF RecInv, JournalsOK
<1>3. /\ loc[r].due \in BOOLEAN
      /\ loc[r].due => /\ PeriodOK(t, x) /\ HandledBefore(t, x)
                       /\ loc[r].day \in Days /\ x <= loc[r].day
    BY <1>1, <1>2 DEF PeriodHeld, DraftLabels
<1>4. CASE ~loc[r].due
    <2>1. End(r) BY <1>4 DEF NextPeriod
    <2>2. Moved(r) /\ pc'[r] = "idle" BY <2>1, EndMoves DEF RecInv
    <2> QED BY <2>2 DEF PeriodHeld, DraftLabels
<1>5. CASE loc[r].due
    <2>1. PICK s \in StartDates, f \in Frequencies : s = journal[t].start /\ f = journal[t].freq
        BY <1>3, <1>5, LiveJournal DEF PeriodOK, RecInv
    <2>2. x \in Chain(s, f) /\ t \in Live(journal) /\ t \in Tmpl
        BY <1>3, <1>5, <2>1, LiveJournal DEF PeriodOK, Reached, RecInv
    <2>3. PICK n : n = AdvanceFrequency(x, f) OBVIOUS
    <2>4. /\ Reached(s, f, n) /\ IsDay(n) /\ \A y \in Chain(s, f) : y < n <=> (y < x \/ y = x)
        BY <1>3, <1>5, <2>1, <2>2, <2>3, ReachedNext
    <2>5. HandledBefore(t, x)' /\ Handled(t, x)'
        BY <1>1, <1>3, <1>5, HandledStays DEF Handled, RecInv
    <2>6. HandledBefore(t, n)' /\ PeriodOK(t, n)' /\ t \in Live(journal)' /\ n \in AllDates
        BY <2>1, <2>2, <2>4, <2>5, ReachedIsIn DEF HandledBefore, PeriodOK, Live
    <2>7. PICK d : d = [on |-> t, at |-> n, due |-> TRUE, day |-> loc[r].day] OBVIOUS
    <2>8. PICK label : label = PeriodStep(t, n, loc[r].day) OBVIOUS
    <2>9. Goto(r, label, d)
        BY <1>1, <1>5, <2>1, <2>3, <2>7, <2>8 DEF NextPeriod
    <2>10. Moved(r) /\ pc'[r] = label /\ loc'[r] = d
        BY <2>9, GotoMoves DEF RecInv
    <2>11. d.on = t /\ d.at = n /\ d.due = TRUE /\ d.day = loc[r].day BY <2>7
    <2>12. label \in {"preview", "run_due_end"} BY <2>8 DEF PeriodStep
    <2>13. label = "preview" => n <= loc[r].day
        <3>1. label = "preview" => ~(n > loc[r].day) BY <2>8 DEF PeriodStep
        <3>2. n \in Int /\ loc[r].day \in Int BY <2>4, <1>3, <1>5, Given DEF IsDay
        <3> QED BY <3>1, <3>2
    <2>14. loc[r].day \in Days BY <1>3, <1>5
    <2>15. PeriodHeld(r)'
        BY <2>6, <2>10, <2>11, <2>12, <2>13, <2>14 DEF PeriodHeld, DraftLabels
    <2> QED BY <2>10, <2>12, <2>15
<1> QED BY <1>3, <1>4, <1>5

(* Who is about to write a run. *)
LEMMA DraftingIsFinite ==
    ASSUME NEW S \in SUBSET Req
    PROVE  /\ IsFiniteSet(S) /\ Cardinality(S) \in Nat
           /\ \A r \in S : Cardinality(S \ {r}) = Cardinality(S) - 1 /\ Cardinality(S) >= 1
           /\ \A r \in Req \ S : Cardinality(S \cup {r}) = Cardinality(S) + 1
<1>1. IsFiniteSet(S) BY Given, FS_Subset
<1>2. Cardinality(S) \in Nat BY <1>1, FS_CardinalityType
<1>3. ASSUME NEW r \in S PROVE Cardinality(S \ {r}) = Cardinality(S) - 1 /\ Cardinality(S) >= 1
    <2>1. IsFiniteSet(S \ {r}) /\ Cardinality(S \ {r}) = Cardinality(S) - 1
        BY <1>1, FS_RemoveElement
    <2>2. Cardinality(S \ {r}) \in Nat BY <2>1, FS_CardinalityType
    <2> QED BY <2>1, <2>2, <1>2
<1>4. ASSUME NEW r \in Req \ S PROVE Cardinality(S \cup {r}) = Cardinality(S) + 1
    BY <1>1, FS_AddElement
<1> QED BY <1>1, <1>2, <1>3, <1>4

(* A request joins, or leaves, those that are about to write the run of a  *)
(* period.                                                                 *)
LEMMA DraftingAdds ==
    ASSUME NEW r \in Req, Moved(r), pc[r] \notin DraftLabels, pc'[r] \in DraftLabels,
           NEW t, NEW x, loc'[r].on = t, loc'[r].at = x
    PROVE  /\ Cardinality(Drafting(t, x)') = Cardinality(Drafting(t, x)) + 1
           /\ \A u, y : u # t \/ y # x => Drafting(u, y)' = Drafting(u, y)
<1>1. Drafting(t, x)' = Drafting(t, x) \cup {r} /\ r \notin Drafting(t, x)
      /\ Drafting(t, x) \subseteq Req
    BY DEF Drafting, Moved
<1>2. \A u, y : u # t \/ y # x => Drafting(u, y)' = Drafting(u, y)
    BY DEF Drafting, Moved
<1> QED BY <1>1, <1>2, DraftingIsFinite

LEMMA DraftingLoses ==
    ASSUME NEW r \in Req, Moved(r), pc[r] \in DraftLabels, pc'[r] \notin DraftLabels,
           NEW t, NEW x, loc[r].on = t, loc[r].at = x
    PROVE  /\ Cardinality(Drafting(t, x)') = Cardinality(Drafting(t, x)) - 1
           /\ Cardinality(Drafting(t, x)) \in Nat /\ Cardinality(Drafting(t, x)) >= 1
           /\ \A u, y : u # t \/ y # x => Drafting(u, y)' = Drafting(u, y)
<1>1. Drafting(t, x)' = Drafting(t, x) \ {r} /\ r \in Drafting(t, x)
      /\ Drafting(t, x) \subseteq Req
    BY DEF Drafting, Moved
<1>2. \A u, y : u # t \/ y # x => Drafting(u, y)' = Drafting(u, y)
    BY DEF Drafting, Moved
<1> QED BY <1>1, <1>2, DraftingIsFinite

(* The draft first ... *)
LEMMA DraftMade ==
    ASSUME RecInv, NEW r \in Req, PreviewDraft(r)
    PROVE  RecInv'
<1>1. /\ pc[r] = "preview" /\ UNCHANGED <<journal, run>> /\ UNCHANGED unrecorded
      /\ UNCHANGED <<today, tmplVars, invTmplVars, schedVars>>
    BY DEF PreviewDraft
<1>2. JournalsGrow BY <1>1 DEF JournalsGrow, Live
<1>3. PICK t, x : t = loc[r].on /\ x = loc[r].at OBVIOUS
<1>4. PeriodHeld(r) BY DEF RecInv, JournalsOK
<1>5. t \in Live(journal) /\ x \in AllDates BY <1>1, <1>3, <1>4 DEF PeriodHeld
<1>6. t \in Tmpl /\ x \in AllDates BY <1>5 DEF Live
<1>10. pc[r] \notin DraftLabels /\ \A l \in {"idle", "preview", "run_due_end"} : l \notin DraftLabels
    BY <1>1 DEF DraftLabels
<1>7. CASE run[<<t, x>>].status # "none" /\ NextPeriod(r) /\ UNCHANGED stray
    <2>1. Moved(r) /\ pc'[r] \in {"idle", "preview", "run_due_end"} /\ PeriodHeld(r)'
        BY <1>1, <1>2, <1>3, <1>7, PeriodFollows
    <2>2. JournalsOK' BY <2>1, <1>1, JournalsPass DEF RecInv
    <2>3. DraftsOK' BY <2>1, <1>1, <1>7, <1>10, Frames
    <2> QED BY <2>1, <2>2, <2>3, <1>1, OnlyJournals DEF JournalLabels
<1>8. CASE End(r) /\ UNCHANGED stray
    <2>1. Moved(r) /\ pc'[r] = "idle" BY <1>8, EndMoves DEF RecInv
    <2>2. PeriodHeld(r)' BY <2>1, <1>10 DEF PeriodHeld
    <2>3. JournalsOK' BY <2>1, <2>2, <1>1, JournalsPass DEF RecInv
    <2>4. DraftsOK' BY <2>1, <1>1, <1>8, <1>10, Frames
    <2> QED BY <2>1, <2>3, <2>4, <1>1, OnlyJournals DEF JournalLabels
<1>9. CASE stray' = [stray EXCEPT ![<<t, x>>] = @ + 1] /\ Goto(r, "preview_run", loc[r])
    <2>1. Moved(r) /\ pc'[r] = "preview_run" /\ loc'[r] = loc[r]
        BY <1>9, GotoMoves DEF RecInv
    <2>2. PeriodHeld(r)'
        BY <2>1, <1>1, <1>4 DEF PeriodHeld, PeriodOK, HandledBefore, Handled, Live, DraftLabels
    <2>3. JournalsOK' BY <2>1, <2>2, <1>1, JournalsPass DEF RecInv
    <2>4. /\ Cardinality(Drafting(t, x)') = Cardinality(Drafting(t, x)) + 1
          /\ \A u, y : u # t \/ y # x => Drafting(u, y)' = Drafting(u, y)
        BY <2>1, <1>3, <1>10, DraftingAdds DEF DraftLabels
    <2>5. /\ stray' \in [Tmpl \X AllDates -> Nat] /\ stray'[<<t, x>>] = stray[<<t, x>>] + 1
          /\ \A u \in Tmpl, y \in AllDates : u # t \/ y # x => stray'[<<u, y>>] = stray[<<u, y>>]
        BY <1>6, <1>9 DEF RecInv, DraftsOK
    <2>6. ASSUME NEW u \in Tmpl, NEW y \in AllDates
          PROVE  /\ Cardinality(Drafting(u, y)') <= stray'[<<u, y>>]
                 /\ u \notin unrecorded' => stray'[<<u, y>>] = Cardinality(Drafting(u, y)')
        <3>1. /\ Cardinality(Drafting(u, y)) <= stray[<<u, y>>] /\ stray[<<u, y>>] \in Nat
              /\ u \notin unrecorded => stray[<<u, y>>] = Cardinality(Drafting(u, y))
            BY DEF RecInv, DraftsOK
        <3>2. Cardinality(Drafting(u, y)) \in Nat
            <4>1. Drafting(u, y) \in SUBSET Req BY DEF Drafting
            <4> QED BY <4>1, DraftingIsFinite
        <3>3. CASE u = t /\ y = x BY <3>1, <3>2, <3>3, <2>4, <2>5, <1>1
        <3>4. CASE u # t \/ y # x BY <3>1, <3>4, <2>4, <2>5, <1>1
        <3> QED BY <3>3, <3>4
    <2>7. DraftsOK' BY <2>5, <2>6 DEF DraftsOK
    <2> QED BY <2>1, <2>3, <2>7, <1>1, OnlyJournals DEF JournalLabels, DraftLabels
<1> QED BY <1>3, <1>7, <1>8, <1>9 DEF PreviewDraft

(* A set of runs after one of them changed. *)
LEMMA RunChanges ==
    ASSUME JournalsOK, UNCHANGED journal, NEW t \in Tmpl, NEW x \in AllDates, NEW v \in RunRow,
           run' = [run EXCEPT ![<<t, x>>] = v],
           v.status = "posted" => v.has = "posted",
           v.status = "none" => v.has # "posted",
           run[<<t, x>>].status # "none" => v.status # "none",
           run[<<t, x>>].has = "posted" => v.has = "posted"
    PROVE  RunsOK' /\ JournalsGrow /\ run'[<<t, x>>] = v
<1>1. <<t, x>> \in Tmpl \X AllDates OBVIOUS
<1>2. RunsOK BY JournalsHave
<1>3. run' \in [Tmpl \X AllDates -> RunRow] /\ run'[<<t, x>>] = v
      /\ \A o \in Tmpl \X AllDates : o # <<t, x>> => run'[o] = run[o]
    BY <1>1, <1>2 DEF RunsOK
<1>4. RunsOK' BY <1>2, <1>3 DEF RunsOK
<1>5. JournalsGrow BY <1>3 DEF JournalsGrow, Live
<1> QED BY <1>3, <1>4, <1>5

LEMMA JournalAtKept ==
    ASSUME JournalsOK, JournalsGrow, UNCHANGED journal, NEW u \in Tmpl
    PROVE  JournalAt(u)'
<1>1. CASE journal[u] = NoTmpl BY <1>1 DEF JournalAt
<1>2. CASE journal[u] # NoTmpl
    <2>1. JournalAt(u) BY DEF JournalsOK
    <2>2. /\ journal[u] \in JournalRow /\ HandledBefore(u, journal[u].next)
          /\ Reached(journal[u].start, journal[u].freq, journal[u].next)
        BY <1>2, <2>1 DEF JournalAt
    <2>3. u \in Live(journal) BY <2>2, JournalRowIsLive DEF Live
    <2>4. PICK x : x = journal[u].next OBVIOUS
    <2>5. PeriodOK(u, x) /\ HandledBefore(u, x) BY <2>2, <2>3, <2>4 DEF PeriodOK
    <2>6. HandledBefore(u, x)' BY <2>5, HandledStays
    <2> QED BY <2>2, <2>4, <2>6 DEF JournalAt
<1> QED BY <1>1, <1>2

LEMMA JournalsKept ==
    ASSUME JournalsOK, NEW r \in Req, Moved(r), JournalsGrow, RunsOK', PeriodHeld(r)',
           UNCHANGED journal
    PROVE  JournalsOK'
<1>1. ASSUME NEW q \in Req PROVE PeriodHeld(q)'
    <2>1. CASE q = r BY <2>1
    <2>2. CASE q # r
        <3>1. pc'[q] = pc[q] /\ loc'[q] = loc[q] BY <2>2 DEF Moved
        <3> QED BY <3>1, PeriodHeldStays
    <2> QED BY <2>1, <2>2
<1>2. \A u \in Tmpl : JournalAt(u)' BY JournalAtKept
<1> QED BY <1>1, <1>2 DEF JournalsOK, RunsOK

(* The draft of r is no longer one without a run: its run names it, or it  *)
(* is deleted.                                                             *)
LEMMA DraftGone ==
    ASSUME RecInv, NEW r \in Req, Moved(r), pc[r] \in DraftLabels, pc'[r] \notin DraftLabels,
           NEW t \in Tmpl, NEW x \in AllDates, loc[r].on = t, loc[r].at = x,
           unrecorded \subseteq unrecorded',
           \/ stray' = [stray EXCEPT ![<<t, x>>] = @ - 1]
           \/ UNCHANGED stray /\ t \in unrecorded'
    PROVE  DraftsOK'
<1>1. /\ Cardinality(Drafting(t, x)') = Cardinality(Drafting(t, x)) - 1
      /\ Cardinality(Drafting(t, x)) \in Nat /\ Cardinality(Drafting(t, x)) >= 1
      /\ \A u, y : u # t \/ y # x => Drafting(u, y)' = Drafting(u, y)
    BY DraftingLoses
<1>2. stray \in [Tmpl \X AllDates -> Nat] /\ Cardinality(Drafting(t, x)) <= stray[<<t, x>>]
    BY DEF RecInv, DraftsOK
<1>3. stray[<<t, x>>] \in Nat /\ stray[<<t, x>>] - 1 \in Nat BY <1>1, <1>2
<1>4. /\ stray' \in [Tmpl \X AllDates -> Nat]
      /\ stray'[<<t, x>>] \in {stray[<<t, x>>], stray[<<t, x>>] - 1}
      /\ t \in unrecorded' \/ stray'[<<t, x>>] = stray[<<t, x>>] - 1
      /\ \A u \in Tmpl, y \in AllDates : u # t \/ y # x => stray'[<<u, y>>] = stray[<<u, y>>]
  <2>1. CASE stray' = [stray EXCEPT ![<<t, x>>] = @ - 1] BY <2>1, <1>2, <1>3
  <2>2. CASE UNCHANGED stray /\ t \in unrecorded' BY <2>2, <1>2
  <2> QED BY <2>1, <2>2
<1>5. ASSUME NEW u \in Tmpl, NEW y \in AllDates
      PROVE  /\ Cardinality(Drafting(u, y)') <= stray'[<<u, y>>]
             /\ u \notin unrecorded' => stray'[<<u, y>>] = Cardinality(Drafting(u, y)')
    <2>1. /\ Cardinality(Drafting(u, y)) <= stray[<<u, y>>] /\ stray[<<u, y>>] \in Nat
          /\ u \notin unrecorded => stray[<<u, y>>] = Cardinality(Drafting(u, y))
        BY DEF RecInv, DraftsOK
    <2>2. CASE u = t /\ y = x BY <2>1, <2>2, <1>1, <1>3, <1>4
    <2>3. CASE u # t \/ y # x BY <2>1, <2>3, <1>1, <1>4
    <2> QED BY <2>2, <2>3
<1> QED BY <1>4, <1>5 DEF DraftsOK

(* ... then the run, which one request writes. *)
LEMMA RunMade ==
    ASSUME RecInv, NEW r \in Req, PreviewRun(r)
    PROVE  RecInv'
<1>1. /\ pc[r] = "preview_run" /\ UNCHANGED journal /\ UNCHANGED unrecorded
      /\ UNCHANGED <<today, tmplVars, invTmplVars, schedVars>>
    BY DEF PreviewRun
<1>2. PICK t, x : t = loc[r].on /\ x = loc[r].at OBVIOUS
<1>3. PeriodHeld(r) BY DEF RecInv, JournalsOK
<1>4. t \in Tmpl /\ x \in AllDates /\ pc[r] \in DraftLabels
    BY <1>1, <1>2, <1>3 DEF PeriodHeld, DraftLabels, Live
<1>5. CASE /\ run[<<t, x>>].status = "none" /\ NextPeriod(r)
           /\ run' = [run EXCEPT ![<<t, x>>] = [status |-> "preview", has |-> "draft"]]
           /\ stray' = [stray EXCEPT ![<<t, x>>] = @ - 1]
    <2>1. PICK v : v = [status |-> "preview", has |-> "draft"] OBVIOUS
    <2>2. v \in RunRow /\ v.status = "preview" /\ v.has = "draft" BY <2>1 DEF RunRow
    <2>3. run' = [run EXCEPT ![<<t, x>>] = v] BY <1>5, <2>1
    <2>4. run[<<t, x>>].has # "posted" BY <1>4, <1>5, JournalsHave DEF RunsOK, RecInv
    <2>5. RunsOK' /\ JournalsGrow /\ run'[<<t, x>>].status # "none"
      <3>1. /\ JournalsOK /\ UNCHANGED journal
            /\ v.status = "posted" => v.has = "posted"
            /\ v.status = "none" => v.has # "posted"
            /\ run[<<t, x>>].status # "none" => v.status # "none"
            /\ run[<<t, x>>].has = "posted" => v.has = "posted"
          BY <1>1, <1>5, <2>2, <2>4 DEF RecInv
      <3>2. RunsOK' /\ JournalsGrow /\ run'[<<t, x>>] = v
          BY ONLY <1>4, <2>2, <2>3, <3>1, RunChanges
      <3> QED BY <2>2, <3>2
    <2>6. Moved(r) /\ pc'[r] \in {"idle", "preview", "run_due_end"} /\ PeriodHeld(r)'
        BY <1>1, <1>2, <1>4, <1>5, <2>5, PeriodFollows
    <2>7. pc'[r] \notin DraftLabels BY <2>6 DEF DraftLabels
    <2>8. JournalsOK' BY <1>1, <2>5, <2>6, JournalsKept DEF RecInv
    <2>9. DraftsOK' BY <1>1, <1>2, <1>4, <1>5, <2>6, <2>7, DraftGone
    <2> QED BY <1>1, <2>6, <2>8, <2>9, OnlyJournals DEF JournalLabels, DraftLabels
<1>6. CASE run[<<t, x>>].status # "none" /\ Goto(r, "preview_lost", loc[r]) /\ UNCHANGED <<run, stray>>
    <2>1. Moved(r) /\ pc'[r] = "preview_lost" /\ loc'[r] = loc[r] BY <1>6, GotoMoves DEF RecInv
    <2>2. Handled(t, x) BY <1>6 DEF Handled
    <2>3. PeriodHeld(r)'
        BY <1>1, <1>2, <1>3, <1>6, <2>1, <2>2
           DEF PeriodHeld, PeriodOK, HandledBefore, Handled, Live, DraftLabels
    <2>4. JournalsOK' BY <1>1, <1>6, <2>1, <2>3, JournalsPass DEF RecInv
    <2>5. \A u, y : Drafting(u, y)' = Drafting(u, y)
        BY <1>4, <2>1 DEF Drafting, Moved, DraftLabels
    <2>6. DraftsOK' BY <1>1, <1>6, <2>5 DEF RecInv, DraftsOK
    <2> QED BY <1>1, <2>1, <2>4, <2>6, OnlyJournals DEF JournalLabels, DraftLabels
<1> QED BY <1>2, <1>5, <1>6 DEF PreviewRun

(* ... and the other deletes its draft, or fails to. *)
LEMMA RunLost ==
    ASSUME RecInv, NEW r \in Req, PreviewLost(r)
    PROVE  RecInv'
<1>1. /\ pc[r] = "preview_lost" /\ UNCHANGED <<journal, run>> /\ NextPeriod(r)
      /\ UNCHANGED <<today, tmplVars, invTmplVars, schedVars>>
    BY DEF PreviewLost
<1>2. PICK t, x : t = loc[r].on /\ x = loc[r].at OBVIOUS
<1>3. PeriodHeld(r) BY DEF RecInv, JournalsOK
<1>4. t \in Tmpl /\ x \in AllDates /\ pc[r] \in DraftLabels /\ Handled(t, x)
    BY <1>1, <1>2, <1>3 DEF PeriodHeld, DraftLabels, Live
<1>5. JournalsGrow BY <1>1 DEF JournalsGrow, Live
<1>6. Moved(r) /\ pc'[r] \in {"idle", "preview", "run_due_end"} /\ PeriodHeld(r)'
    BY <1>1, <1>2, <1>4, <1>5, PeriodFollows
<1>7. pc'[r] \notin DraftLabels BY <1>6 DEF DraftLabels
<1>8. JournalsOK' BY <1>1, <1>6, JournalsPass DEF RecInv
<1>9. /\ unrecorded \subseteq unrecorded'
      /\ \/ stray' = [stray EXCEPT ![<<t, x>>] = @ - 1]
         \/ UNCHANGED stray /\ t \in unrecorded'
    BY <1>2 DEF PreviewLost
<1>10. DraftsOK' BY <1>2, <1>4, <1>6, <1>7, <1>9, DraftGone
<1> QED BY <1>1, <1>6, <1>8, <1>9, <1>10, OnlyJournals DEF JournalLabels, DraftLabels

(* A journal moves on to a period before which nothing is missing. *)
LEMMA JournalMovesOn ==
    ASSUME RecInv, NEW r \in Req, NEW t, NEW x, PeriodOK(t, x), HandledBefore(t, x),
           journal' = [journal EXCEPT ![t].next = x], pc[r] \in JournalLabels \ DraftLabels,
           End(r), UNCHANGED <<today, tmplVars, invTmplVars, run, stray, schedVars, unrecorded>>
    PROVE  RecInv'
<1>1. Moved(r) /\ pc'[r] = "idle" BY EndMoves DEF RecInv
<1>2. t \in Live(journal) /\ Reached(journal[t].start, journal[t].freq, x) BY DEF PeriodOK
<1>3. /\ t \in Tmpl /\ journal[t] \in JournalRow
      /\ journal[t].start \in StartDates /\ journal[t].freq \in Frequencies
    BY <1>2, LiveJournal DEF RecInv
<1>4. x \in AllDates BY <1>2, <1>3, ReachedIsIn
<1>5. PICK v : v = [journal[t] EXCEPT !.next = x] OBVIOUS
<1>6. v \in JournalRow /\ v.start = journal[t].start /\ v.freq = journal[t].freq /\ v.next = x
    BY <1>3, <1>4, <1>5 DEF JournalRow
<1>7. DOMAIN journal' = Tmpl /\ journal'[t] = v /\ \A u \in Tmpl \ {t} : journal'[u] = journal[u]
    BY <1>3, <1>5 DEF RecInv, JournalsOK
<1>8. UNCHANGED run /\ UNCHANGED <<stray, unrecorded>> OBVIOUS
<1>9. JournalsGrow
    BY <1>3, <1>6, <1>7, <1>8, JournalRowIsLive DEF JournalsGrow, Live
<1>10. JournalAt(t)'
    BY <1>2, <1>6, <1>7, <1>8 DEF JournalAt, HandledBefore, Handled
<1>11. RunsOK' BY <1>8, JournalsHave DEF RecInv, RunsOK
<1>15. pc'[r] \notin DraftLabels BY <1>1 DEF DraftLabels
<1>12. PeriodHeld(r)' BY <1>1, <1>15 DEF PeriodHeld
<1>13. JournalsOK' BY <1>1, <1>3, <1>7, <1>9, <1>10, <1>11, <1>12, JournalsStep DEF RecInv
<1>14. DraftsOK' BY <1>1, <1>8, <1>15, Frames
<1> QED BY <1>1, <1>13, <1>14, OnlyJournals

(* run_due writes the first period it has not handled, whatever others     *)
(* wrote meanwhile.                                                        *)
LEMMA RunDueEnds ==
    ASSUME RecInv, NEW r \in Req, RunDueEnd(r)
    PROVE  RecInv'
<1>1. PICK t, x : t = loc[r].on /\ x = loc[r].at OBVIOUS
<1>2. /\ pc[r] = "run_due_end" /\ journal' = [journal EXCEPT ![t].next = x] /\ End(r)
      /\ UNCHANGED <<today, tmplVars, invTmplVars, run, stray, schedVars, unrecorded>>
    BY <1>1 DEF RunDueEnd
<1>3. PeriodHeld(r) BY DEF RecInv, JournalsOK
<1>4. PeriodOK(t, x) /\ HandledBefore(t, x) BY <1>1, <1>2, <1>3 DEF PeriodHeld
<1> QED BY <1>2, <1>4, JournalMovesOn DEF JournalLabels, DraftLabels

(* skip writes the period after the one it has given a run. *)
LEMMA SkipMoves ==
    ASSUME RecInv, NEW r \in Req, SkipNext(r)
    PROVE  RecInv'
<1>1. PICK t, x : t = loc[r].on /\ x = loc[r].at OBVIOUS
<1>2. PICK n : n = AdvanceFrequency(x, journal[t].freq) OBVIOUS
<1>3. /\ pc[r] = "skip_next" /\ journal' = [journal EXCEPT ![t].next = n] /\ End(r)
      /\ UNCHANGED <<today, tmplVars, invTmplVars, run, stray, schedVars, unrecorded>>
    BY <1>1, <1>2 DEF SkipNext
<1>4. PeriodHeld(r) BY DEF RecInv, JournalsOK
<1>5. /\ PeriodOK(t, x) /\ HandledBefore(t, x) /\ Handled(t, x)
      /\ \E d \in Days : x <= d
    BY <1>1, <1>3, <1>4 DEF PeriodHeld
<1>6. PICK s \in StartDates, f \in Frequencies : s = journal[t].start /\ f = journal[t].freq
    BY <1>5, LiveJournal DEF PeriodOK, RecInv
<1>7. t \in Live(journal) /\ x \in Chain(s, f) BY <1>5, <1>6 DEF PeriodOK, Reached
<1>8. Reached(s, f, n) /\ \A y \in Chain(s, f) : y < n <=> (y < x \/ y = x)
    BY <1>2, <1>5, <1>6, <1>7, ReachedNext
<1>9. PeriodOK(t, n) /\ HandledBefore(t, n)
    BY <1>5, <1>6, <1>7, <1>8 DEF PeriodOK, HandledBefore
<1> QED BY <1>3, <1>9, JournalMovesOn DEF JournalLabels, DraftLabels

(* skip goes on only where the journal is at the skipped period, before    *)
(* which nothing is missing.                                               *)
LEMMA SkipReads ==
    ASSUME RecInv, NEW r \in Req, SkipRead(r)
    PROVE  RecInv'
<1>1. pc[r] = "skip_read" /\ UNCHANGED recVars BY DEF SkipRead
<1>2. /\ UNCHANGED <<journal, run>> /\ UNCHANGED <<stray, unrecorded>>
      /\ UNCHANGED <<today, tmplVars, invTmplVars, schedVars>>
    BY <1>1 DEF recVars, journalVars
<1>3. PICK t, x : t = loc[r].on /\ x = loc[r].at OBVIOUS
<1>4. PeriodHeld(r) BY DEF RecInv, JournalsOK
<1>5. Moved(r) /\ pc'[r] \in {"idle", "skip_next"} /\ PeriodHeld(r)'
    <2>1. CASE journal[t].next = x
        <3>1. Goto(r, "skip_next", loc[r]) BY <2>1, <1>3 DEF SkipRead
        <3>2. Moved(r) /\ pc'[r] = "skip_next" /\ loc'[r] = loc[r]
            BY <3>1, GotoMoves DEF RecInv
        <3>3. PeriodOK(t, x) /\ Handled(t, x) /\ \E d \in Days : x <= d
            BY <1>1, <1>3, <1>4 DEF PeriodHeld
        <3>4. HandledBefore(t, x) BY <2>1, <3>3, LiveJournal DEF PeriodOK, RecInv
        <3>5. PeriodOK(t, x)' /\ Handled(t, x)' /\ HandledBefore(t, x)'
            BY <1>2, <3>3, <3>4 DEF PeriodOK, Handled, HandledBefore, Live
        <3> QED BY <1>3, <3>2, <3>3, <3>5 DEF PeriodHeld, DraftLabels
    <2>2. CASE journal[t].next # x
        <3>1. End(r) BY <2>2, <1>3 DEF SkipRead
        <3>2. Moved(r) /\ pc'[r] = "idle" BY <3>1, EndMoves DEF RecInv
        <3> QED BY <3>2 DEF PeriodHeld, DraftLabels
    <2> QED BY <2>1, <2>2
<1>6. JournalsOK' BY <1>2, <1>5, JournalsPass DEF RecInv
<1>7. DraftsOK' BY <1>1, <1>2, <1>5, Frames DEF DraftLabels
<1> QED BY <1>1, <1>2, <1>5, <1>6, <1>7, OnlyJournals DEF JournalLabels

(* skip gives a due period its run. *)
LEMMA SkipBegins ==
    ASSUME RecInv, NEW r \in Req, NEW t \in Tmpl, SkipRun(r, t)
    PROVE  RecInv'
<1>1. /\ t \in Live(journal) /\ UNCHANGED journal /\ UNCHANGED <<stray, unrecorded>>
      /\ UNCHANGED <<today, tmplVars, invTmplVars, schedVars>>
    BY DEF SkipRun
<1>2. PICK x \in Occurrences(journal[t].start, journal[t].freq, today + 1) :
        /\ run[<<t, x>>].status = "none"
        /\ run' = [run EXCEPT ![<<t, x>>] = [status |-> "skipped", has |-> "none"]]
        /\ Begin(r, "skip_read", [on |-> t, at |-> x])
    BY DEF SkipRun
<1>3. PICK s \in StartDates, f \in Frequencies : s = journal[t].start /\ f = journal[t].freq
    BY <1>1, LiveJournal DEF RecInv
<1>4. today \in Days /\ IsDay(today) BY Given DEF RecInv, ControlOK
<1>5. x \in Chain(s, f) /\ x <= today
    <2>1. IsDay(s) /\ f \in Frequency /\ today + 1 \in Int BY <1>4, Given DEF IsDay
    <2>2. x \in Chain(s, f) /\ x < today + 1 BY <1>2, <1>3, <2>1, OccurrencesAre
    <2>3. x \in Int /\ today \in Int BY <1>4, <2>1, <2>2, ChainStart DEF IsDay
    <2> QED BY <2>2, <2>3
<1>6. Reached(s, f, x) BY <1>4, <1>5, ReachedNext
<1>7. x \in AllDates BY <1>6, ReachedIsIn
<1>8. PICK v : v = [status |-> "skipped", has |-> "none"] OBVIOUS
<1>9. v \in RunRow /\ v.status = "skipped" /\ v.has = "none" BY <1>8 DEF RunRow
<1>10. run[<<t, x>>].has # "posted"
    BY <1>2, <1>7, JournalsHave DEF RunsOK, RecInv
<1>11. RunsOK' /\ JournalsGrow /\ run'[<<t, x>>] = v
    BY <1>1, <1>2, <1>7, <1>8, <1>9, <1>10, RunChanges DEF RecInv
<1>12. PICK d : d = [on |-> t, at |-> x] OBVIOUS
<1>13. d.on = t /\ d.at = x /\ Begin(r, "skip_read", d) BY <1>2, <1>12
<1>14. Moved(r) /\ pc[r] = "idle" /\ pc'[r] = "skip_read" /\ loc'[r] = d
    BY <1>13, BeginMoves DEF RecInv
<1>15. PeriodOK(t, x)' /\ Handled(t, x)'
    BY <1>1, <1>3, <1>6, <1>9, <1>11 DEF PeriodOK, Handled, Live
<1>16. PeriodHeld(r)' BY <1>4, <1>5, <1>13, <1>14, <1>15 DEF PeriodHeld, DraftLabels
<1>17. JournalsOK' BY <1>1, <1>11, <1>14, <1>16, JournalsKept DEF RecInv
<1>18. DraftsOK' BY <1>1, <1>14, Frames DEF DraftLabels
<1> QED BY <1>1, <1>14, <1>17, <1>18, OnlyJournals DEF JournalLabels

(* post_run, in its two statements. *)
LEMMA RunPosted ==
    ASSUME RecInv, NEW r \in Req, (\E o \in DOMAIN run : PostRunDraft(r, o)) \/ PostRunEnd(r)
    PROVE  RecInv'
<1>1. /\ UNCHANGED journal /\ UNCHANGED <<stray, unrecorded>>
      /\ UNCHANGED <<today, tmplVars, invTmplVars, schedVars>>
    BY DEF PostRunDraft, PostRunEnd
<1>2. RunsOK /\ DOMAIN run = Tmpl \X AllDates BY JournalsHave DEF RecInv, RunsOK
<1>3. CASE \E o \in DOMAIN run : PostRunDraft(r, o)
    <2>1. PICK o \in Tmpl \X AllDates : PostRunDraft(r, o) BY <1>2, <1>3
    <2>2. PICK t \in Tmpl, x \in AllDates : o = <<t, x>> /\ o[1] = t /\ o[2] = x BY <2>1
    <2>3. PICK v : v = [run[o] EXCEPT !.has = "posted"] OBVIOUS
    <2>4. run[o] \in RunRow /\ run[o].status = "preview" BY <1>2, <2>1 DEF RunsOK, PostRunDraft
    <2>5. v \in RunRow /\ v.has = "posted" /\ v.status = "preview" BY <2>3, <2>4 DEF RunRow
    <2>6. run' = [run EXCEPT ![<<t, x>>] = v] BY <2>1, <2>2, <2>3 DEF PostRunDraft
    <2>7. RunsOK' /\ JournalsGrow /\ run'[<<t, x>>] = v
        BY <2>5, <2>6, <1>1, RunChanges DEF RecInv
    <2>8. PICK d : d = [on |-> t, period |-> x] OBVIOUS
    <2>9. d.on = t /\ d.period = x BY <2>8
    <2>10. Begin(r, "post_run_end", d) BY <2>1, <2>2, <2>8 DEF PostRunDraft
    <2>11. Moved(r) /\ pc[r] = "idle" /\ pc'[r] = "post_run_end" /\ loc'[r] = d
        BY <2>10, BeginMoves DEF RecInv
    <2>12. PeriodHeld(r)' BY <2>5, <2>7, <2>9, <2>11 DEF PeriodHeld, DraftLabels
    <2>13. JournalsOK' BY <2>7, <2>11, <2>12, <1>1, JournalsKept DEF RecInv
    <2>14. DraftsOK' BY <2>11, <1>1, Frames DEF DraftLabels
    <2> QED BY <1>1, <2>11, <2>13, <2>14, OnlyJournals DEF JournalLabels
<1>4. CASE PostRunEnd(r)
    <2>1. pc[r] = "post_run_end" /\ End(r) BY <1>4 DEF PostRunEnd
    <2>2. PeriodHeld(r) BY DEF RecInv, JournalsOK
    <2>3. PICK t \in Tmpl, x \in AllDates : t = loc[r].on /\ x = loc[r].period
        BY <2>1, <2>2 DEF PeriodHeld
    <2>4. run[<<t, x>>].has = "posted" BY <2>1, <2>2, <2>3 DEF PeriodHeld
    <2>5. PICK v : v = [run[<<t, x>>] EXCEPT !.status = "posted"] OBVIOUS
    <2>6. run[<<t, x>>] \in RunRow BY <1>2 DEF RunsOK
    <2>7. v \in RunRow /\ v.status = "posted" /\ v.has = "posted" BY <2>4, <2>5, <2>6 DEF RunRow
    <2>8. run' = [run EXCEPT ![<<t, x>>] = v] BY <1>4, <2>3, <2>5 DEF PostRunEnd
    <2>9. RunsOK' /\ JournalsGrow BY <2>7, <2>8, <1>1, RunChanges DEF RecInv
    <2>10. Moved(r) /\ pc'[r] = "idle" BY <2>1, EndMoves DEF RecInv
    <2>11. PeriodHeld(r)' BY <2>10 DEF PeriodHeld, DraftLabels
    <2>12. JournalsOK' BY <2>9, <2>10, <2>11, <1>1, JournalsKept DEF RecInv
    <2>13. DraftsOK' BY <2>1, <2>10, <1>1, Frames DEF DraftLabels
    <2> QED BY <1>1, <2>1, <2>10, <2>12, <2>13, OnlyJournals DEF JournalLabels
<1> QED BY <1>3, <1>4

(* A draft is discarded on the transactions page. *)
LEMMA DraftDiscarded ==
    ASSUME RecInv, NEW o \in DOMAIN run, RunDraftDiscarded(o)
    PROVE  RecInv'
<1>1. /\ run[o].has = "draft" /\ run' = [run EXCEPT ![o].has = "none"] /\ UNCHANGED <<pc, loc, raced>>
      /\ UNCHANGED <<today, tmpl, auto, invTmpl, issued, journal, stray, sched, recorded, entries, unrecorded>>
    BY DEF RunDraftDiscarded, reqVars, tmplVars, invTmplVars, schedVars
<1>2. RunsOK /\ DOMAIN run = Tmpl \X AllDates BY JournalsHave DEF RecInv, RunsOK
<1>3. PICK t \in Tmpl, x \in AllDates : o = <<t, x>> BY <1>2
<1>4. PICK v : v = [run[o] EXCEPT !.has = "none"] OBVIOUS
<1>5. run[o] \in RunRow /\ run[o].status # "posted" BY <1>1, <1>2 DEF RunsOK
<1>6. v \in RunRow /\ v.has = "none" /\ v.status = run[o].status BY <1>4, <1>5 DEF RunRow
<1>7. run' = [run EXCEPT ![<<t, x>>] = v] BY <1>1, <1>3, <1>4
<1>8. RunsOK' /\ JournalsGrow
    <2>1. /\ UNCHANGED journal /\ run[<<t, x>>].has = "draft" /\ v.has = "none"
          /\ v.status = run[<<t, x>>].status /\ v.status # "posted" /\ JournalsOK
        BY <1>1, <1>3, <1>5, <1>6 DEF RecInv
    <2> QED BY <2>1, <1>6, <1>7, RunChanges
<1>9. \A q \in Req : PeriodHeld(q)' BY <1>1, <1>8, PeriodHeldStays DEF RecInv
<1>10. \A u \in Tmpl : JournalAt(u)' BY <1>1, <1>8, JournalAtKept DEF RecInv
<1>11. JournalsOK' BY <1>1, <1>8, <1>9, <1>10 DEF RecInv, JournalsOK, RunsOK
<1>12. /\ Holds({"occurrence"}) /\ Holds({"issue"}) /\ Same(DraftLabels) /\ Same(SweepLabels)
       /\ raced \subseteq raced' /\ unrecorded \subseteq unrecorded'
    BY <1>1, IdleSame
<1>13. ControlOK' BY <1>1 DEF RecInv, ControlOK
<1>14. TemplatesOK' /\ BillsOK' BY <1>1, <1>12, TemplatesFrame, BillsFrame DEF RecInv
<1>15. DraftsOK' /\ AmortizationOK' BY <1>1, <1>12, DraftsFrame, AmortizationFrame DEF RecInv
<1> QED BY <1>11, <1>13, <1>14, <1>15 DEF RecInv

-----------------------------------------------------------------------------
(* Amortization. *)
LEMMA LiveSchedule ==
    ASSUME AmortizationOK, NEW t \in Live(sched)
    PROVE  /\ t \in Tmpl /\ sched[t] \in SchedRow /\ PostedUpTo(t, sched[t].posted)
           /\ sched[t].periods \in 1..MaxPeriods /\ sched[t].posted \in 0..MaxPeriods
           /\ sched[t].next \in Int /\ IsDate(sched[t].next) /\ sched[t].skipped \in Nat
<1>1. t \in Tmpl /\ sched[t] # NoTmpl /\ SchedAt(t)
    BY DEF Live, AmortizationOK
<1> QED BY <1>1 DEF SchedAt, SchedRow

(* A row of a schedule is neither missing nor deleted. *)
LEMMA SchedRowIsLive ==
    ASSUME NEW x \in SchedRow
    PROVE  x # NoTmpl /\ x # Deleted
<1>1. IsDay(x.next) BY DEF SchedRow, IsDay
<1>2. x.next # 0 /\ x.next # -1 BY <1>1, DayIsNot
<1> QED BY <1>2 DEF NoTmpl, Deleted

(* Steps that touch the schedules only. *)
LEMMA OnlySweeps ==
    ASSUME RecInv, NEW r \in Req, Moved(r), AmortizationOK',
           UNCHANGED <<today, tmplVars, invTmplVars, journalVars>>, unrecorded \subseteq unrecorded',
           pc[r] \in {"idle"} \cup SweepLabels, pc'[r] \in {"idle"} \cup SweepLabels
    PROVE  RecInv'
<1>1. /\ UNCHANGED today /\ UNCHANGED <<tmpl, auto>> /\ UNCHANGED <<invTmpl, issued>>
      /\ UNCHANGED <<journal, run>> /\ UNCHANGED <<stray>>
    BY DEF tmplVars, invTmplVars, journalVars
<1>2. /\ pc'[r] # "occurrence" /\ pc'[r] # "issue" /\ pc'[r] \notin JournalLabels
      /\ pc[r] \notin DraftLabels /\ pc'[r] \notin DraftLabels
    BY DEF JournalLabels, SweepLabels, DraftLabels
<1> QED BY <1>1, <1>2, Frames DEF RecInv

(* A schedule keeps its number of periods, a period its entries. *)
SweepsGrow ==
    /\ \A t \in Live(sched) : t \in Live(sched') /\ sched'[t].periods = sched[t].periods
    /\ \A o \in Tmpl \X (1..MaxPeriods) : entries[o] # <<>> => entries'[o] # <<>>
    /\ raced \subseteq raced'

(* What was posted stays so. *)
LEMMA PostedStays ==
    ASSUME SweepsGrow, NEW t \in Tmpl, NEW n \in Int, n <= MaxPeriods, PostedUpTo(t, n)
    PROVE  PostedUpTo(t, n)'
<1> SUFFICES ASSUME NEW k \in 1..n PROVE entries'[<<t, k>>] # <<>>
    BY DEF PostedUpTo
<1>1. k \in 1..MaxPeriods BY Given
<1>2. <<t, k>> \in Tmpl \X (1..MaxPeriods) BY <1>1
<1>3. entries[<<t, k>>] # <<>> BY DEF PostedUpTo
<1> QED BY <1>2, <1>3 DEF SweepsGrow

(* What a sweep holds survives the step of another one, unless that        *)
(* records the same period, and then they overlap.                         *)
LEMMA SweepHeldStays ==
    ASSUME AmortizationOK, SweepsGrow, NEW q \in Req, pc'[q] = pc[q], loc'[q] = loc[q],
           pc[q] = "amortize_create" /\ <<loc[q].on, loc[q].period>> \in recorded' =>
              <<loc[q].on, loc[q].period>> \in recorded \/ loc[q].on \in raced'
    PROVE  SweepHeld(q)'
<1> SUFFICES ASSUME pc[q] \in SweepLabels PROVE SweepHeld(q)'
    BY DEF SweepHeld
<1>1. PICK t, n : t = loc[q].on /\ n = loc[q].period OBVIOUS
<1>2. SweepHeld(q) BY DEF AmortizationOK
<1>3. /\ t \in Live(sched) /\ n \in 1..sched[t].periods /\ PostedUpTo(t, n - 1)
      /\ pc[q] # "amortize_check" => loc[q].at \in Int /\ IsDate(loc[q].at)
      /\ pc[q] = "amortize_create" => t \in raced \/ <<t, n>> \notin recorded
      /\ pc[q] = "amortize_record" => entries[<<t, n>>] # <<>>
    BY <1>1, <1>2 DEF SweepHeld
<1>4. t \in Tmpl /\ sched[t].periods \in 1..MaxPeriods BY <1>3, LiveSchedule
<1>5. n - 1 \in Int /\ n - 1 <= MaxPeriods /\ n \in 1..MaxPeriods BY <1>3, <1>4, Given
<1>6. PostedUpTo(t, n - 1)' BY <1>3, <1>4, <1>5, PostedStays
<1>7. t \in Live(sched') /\ n \in 1..sched'[t].periods BY <1>3 DEF SweepsGrow
<1>8. pc[q] = "amortize_create" => t \in raced' \/ <<t, n>> \notin recorded'
    BY <1>1, <1>3 DEF SweepsGrow
<1>9. pc[q] = "amortize_record" => entries'[<<t, n>>] # <<>>
    <2>1. <<t, n>> \in Tmpl \X (1..MaxPeriods) BY <1>4, <1>5
    <2> QED BY <2>1, <1>3 DEF SweepsGrow
<1> QED BY <1>1, <1>3, <1>6, <1>7, <1>8, <1>9 DEF SweepHeld

(* Two sweeps of one schedule overlap, which the second of them notes when *)
(* it begins.                                                              *)
LEMMA SweepsApartStays ==
    ASSUME SweepsApart, NEW r \in Req, Moved(r),
           pc'[r] \in SweepLabels =>
              \/ pc[r] \in SweepLabels /\ loc'[r].on = loc[r].on
              \/ WorkingOn(loc'[r].on) # {} => loc'[r].on \in raced'
    PROVE  SweepsApart'
<1> SUFFICES ASSUME NEW p \in Req, NEW q \in Req, p # q, pc'[p] \in SweepLabels,
                    pc'[q] \in SweepLabels, loc'[p].on = loc'[q].on
             PROVE  loc'[p].on \in raced'
    BY DEF SweepsApart
<1>1. ASSUME NEW k \in Req \ {r}, pc'[k] \in SweepLabels, pc'[r] \in SweepLabels, loc'[k].on = loc'[r].on
      PROVE  loc'[r].on \in raced'
    <2>1. pc[k] = pc'[k] /\ loc[k] = loc'[k] /\ raced \subseteq raced' BY DEF Moved
    <2>2. CASE pc[r] \in SweepLabels /\ loc'[r].on = loc[r].on
        BY <2>1, <2>2, <1>1 DEF SweepsApart
    <2>3. CASE WorkingOn(loc'[r].on) # {} => loc'[r].on \in raced'
        <3>1. k \in WorkingOn(loc'[r].on) BY <2>1, <1>1 DEF WorkingOn, Busy, SweepLabels
        <3> QED BY <3>1, <2>3
    <2> QED BY <2>2, <2>3, <1>1
<1>2. CASE p = r BY <1>1, <1>2
<1>3. CASE q = r BY <1>1, <1>3
<1>4. CASE p # r /\ q # r
    BY <1>4 DEF SweepsApart, Moved
<1> QED BY <1>2, <1>3, <1>4

(* A schedule that a step does not touch. *)
LEMMA SchedAtStays ==
    ASSUME NEW u \in Tmpl, SchedAt(u), sched'[u] = sched[u],
           \A n \in 1..MaxPeriods : entries'[<<u, n>>] = entries[<<u, n>>],
           raced \subseteq raced', unrecorded \subseteq unrecorded',
           u \notin raced' \cup unrecorded' =>
              \A n \in 1..MaxPeriods : Recording(u, n) => Recording(u, n)'
    PROVE  SchedAt(u)'
<1>1. CASE sched[u] = NoTmpl /\ \A n \in 1..MaxPeriods : entries[<<u, n>>] = <<>>
    BY <1>1 DEF SchedAt
<1>2. CASE ~(sched[u] = NoTmpl /\ \A n \in 1..MaxPeriods : entries[<<u, n>>] = <<>>)
    <2>1. sched[u] \in SchedRow /\ PostedUpTo(u, sched[u].posted) BY <1>2 DEF SchedAt
    <2>2. sched[u].posted \in 0..MaxPeriods BY <2>1 DEF SchedRow
    <2>3. PostedUpTo(u, sched[u].posted)'
        <3> SUFFICES ASSUME NEW k \in 1..sched[u].posted PROVE entries'[<<u, k>>] # <<>>
            BY DEF PostedUpTo
        <3>1. k \in 1..MaxPeriods BY <2>2, Given
        <3> QED BY <3>1, <2>1 DEF PostedUpTo
    <2> HIDE DEF PostedUpTo
    <2> QED BY <1>2, <2>1, <2>3 DEF SchedAt
<1> QED BY <1>1, <1>2

(* The records of periods that were posted stay so. *)
LEMMA RecordedStays ==
    ASSUME AmortizationOK, SweepsGrow, NEW o \in recorded
    PROVE  PostedUpTo(o[1], o[2])'
<1>1. o \in Tmpl \X (1..MaxPeriods) /\ PostedUpTo(o[1], o[2]) BY DEF AmortizationOK
<1>2. PICK t \in Tmpl, n \in 1..MaxPeriods : o[1] = t /\ o[2] = n BY <1>1
<1>3. PostedUpTo(t, n) BY <1>1, <1>2
<1>4. n \in Int /\ n <= MaxPeriods BY Given
<1>5. PostedUpTo(t, n)' BY <1>3, <1>4, PostedStays
<1> QED BY <1>2, <1>5

(* A period that has a record, or a request about to write one, keeps      *)
(* either, unless that request is the one that moves.                      *)
LEMMA RecordingStays ==
    ASSUME NEW r \in Req, Moved(r), recorded \subseteq recorded', NEW t, NEW n, Recording(t, n),
           pc[r] = "amortize_record" => t # loc[r].on \/ n # loc[r].period \/ <<t, n>> \in recorded'
    PROVE  Recording(t, n)'
<1>1. CASE <<t, n>> \in recorded \/ <<t, n>> \in recorded'
    BY <1>1 DEF Recording
<1>2. CASE <<t, n>> \notin recorded /\ <<t, n>> \notin recorded'
    <2>1. PICK q \in Req : pc[q] = "amortize_record" /\ loc[q].on = t /\ loc[q].period = n
        BY <1>2 DEF Recording
    <2>2. q # r BY <1>2, <2>1
    <2>3. pc'[q] = pc[q] /\ loc'[q] = loc[q] BY <2>2 DEF Moved
    <2> QED BY <2>1, <2>3 DEF Recording
<1> QED BY <1>1, <1>2

(* A schedule is agreed on, or put off by a month. *)
LEMMA ScheduleMade ==
    ASSUME RecInv, NEW r \in Req, NEW t \in Tmpl, ScheduleCreate(r, t) \/ ScheduleSkip(r, t)
    PROVE  RecInv'
<1>1. /\ Serve(r, t) /\ UNCHANGED <<recorded, entries>> /\ UNCHANGED unrecorded
      /\ UNCHANGED <<today, tmplVars, invTmplVars, journalVars>>
    BY DEF ScheduleCreate, ScheduleSkip
<1>2. Moved(r) /\ UNCHANGED <<pc, loc>> /\ pc[r] = "idle" /\ pc'[r] = "idle"
    BY <1>1, ServeMoves DEF RecInv
<1>3. AmortizationOK /\ DOMAIN sched = Tmpl /\ SchedAt(t) BY DEF RecInv, AmortizationOK
<1>4. PICK v \in SchedRow :
        /\ sched' = [sched EXCEPT ![t] = v]
        /\ \/ sched[t] = NoTmpl /\ v.posted = 0 /\ \A n \in 1..MaxPeriods : entries[<<t, n>>] = <<>>
           \/ t \in Live(sched) /\ v.posted = sched[t].posted /\ v.periods = sched[t].periods
    <2>1. CASE ScheduleCreate(r, t)
        <3>1. PICK unit \in Frequencies, d \in StartDates, n \in 1..MaxPeriods :
                sched' = [sched EXCEPT ![t] = [start |-> d, next |-> d, unit |-> unit,
                                               periods |-> n, posted |-> 0, skipped |-> 0]]
            BY <2>1 DEF ScheduleCreate
        <3>2. PICK v : v = [start |-> d, next |-> d, unit |-> unit,
                            periods |-> n, posted |-> 0, skipped |-> 0]
            OBVIOUS
        <3>3. d \in Int /\ IsDate(d) /\ 0 \in 0..MaxPeriods BY Given DEF IsDay
        <3>4. v \in SchedRow /\ v.posted = 0 BY <3>2, <3>3 DEF SchedRow
        <3>5. t \notin Live(sched) BY <2>1 DEF ScheduleCreate
        <3>6. sched[t] \notin SchedRow BY <3>5, SchedRowIsLive DEF Live
        <3>7. sched[t] = NoTmpl /\ \A k \in 1..MaxPeriods : entries[<<t, k>>] = <<>>
            BY <1>3, <3>6 DEF SchedAt
        <3>8. sched' = [sched EXCEPT ![t] = v] BY <3>1, <3>2
        <3> QED BY <3>4, <3>7, <3>8
    <2>2. CASE ScheduleSkip(r, t)
        <3>1. t \in Live(sched) BY <2>2 DEF ScheduleSkip
        <3>2. PICK s : s = sched[t] OBVIOUS
        <3>3. PICK v : v = [start |-> s.start, next |-> AddMonths(s.next, 1),
                        unit |-> s.unit, periods |-> s.periods, posted |-> s.posted,
                        skipped |-> s.skipped + 1]
            OBVIOUS
        <3>4. sched' = [sched EXCEPT ![t] = v] BY <2>2, <3>2, <3>3 DEF ScheduleSkip
        <3>5. s \in SchedRow BY <1>3, <3>1, <3>2, LiveSchedule
        <3>6. IsDay(s.next) BY <3>5 DEF SchedRow, IsDay
        <3>7. IsDay(AddMonths(s.next, 1)) BY <3>6, AddMonthsDay
        <3>8. AddMonths(s.next, 1) \in {d \in Int : IsDate(d)} BY <3>7 DEF IsDay
        <3>9. s.skipped + 1 \in Nat BY <3>5 DEF SchedRow
        <3>10. v \in SchedRow /\ v.posted = s.posted /\ v.periods = s.periods
            BY <3>3, <3>5, <3>8, <3>9 DEF SchedRow
        <3> QED BY <3>1, <3>2, <3>4, <3>10
    <2> QED BY <2>1, <2>2
<1>5. DOMAIN sched' = Tmpl /\ sched'[t] = v /\ \A u \in Tmpl \ {t} : sched'[u] = sched[u]
    BY <1>3, <1>4
<1>6. v # NoTmpl /\ v # Deleted BY SchedRowIsLive
<1>7. raced \subseteq raced' BY <1>2 DEF Moved
<1>8. SweepsGrow
    <2>1. ASSUME NEW u \in Live(sched)
          PROVE  u \in Live(sched') /\ sched'[u].periods = sched[u].periods
        <3>1. CASE u = t BY <3>1, <1>4, <1>5, <1>6 DEF Live
        <3>2. CASE u # t BY <3>2, <1>5 DEF Live
        <3> QED BY <3>1, <3>2
    <2> QED BY <2>1, <1>1, <1>7 DEF SweepsGrow
<1>9. ASSUME NEW n \in 1..MaxPeriods, NEW u, Recording(u, n) PROVE Recording(u, n)'
    BY <1>1, <1>2, <1>9 DEF Recording
<1>10. SchedAt(t)'
    <2>1. v.posted \in 0..MaxPeriods /\ v.periods \in 1..MaxPeriods BY DEF SchedRow
    <2>2. CASE sched[t] = NoTmpl /\ v.posted = 0 /\ \A n \in 1..MaxPeriods : entries[<<t, n>>] = <<>>
        <3>1. PostedUpTo(t, 0)' BY DEF PostedUpTo
        <3>2. \A n \in 1..MaxPeriods : entries'[<<t, n>>] = <<>> /\ Len(entries'[<<t, n>>]) <= 1
            BY <1>1, <2>2
        <3> QED BY <2>2, <3>1, <3>2, <1>5 DEF SchedAt
    <2>3. CASE t \in Live(sched) /\ v.posted = sched[t].posted /\ v.periods = sched[t].periods
        <3>1. PostedUpTo(t, v.posted) BY <1>3, <2>3, LiveSchedule
        <3>2. PostedUpTo(t, v.posted)' BY <2>1, <3>1, <1>8, PostedStays
        <3>3. sched[t] # NoTmpl BY <2>3 DEF Live
        <3>4. \A n \in 1..MaxPeriods : entries[<<t, n>>] # <<>> => n <= v.periods
            BY <1>3, <2>3, <3>3 DEF SchedAt
        <3>5. t \notin raced' \cup unrecorded' =>
                \A n \in 1..MaxPeriods : /\ Len(entries[<<t, n>>]) <= 1
                                         /\ entries[<<t, n>>] # <<>> => Recording(t, n)
            BY <1>1, <1>3, <1>7, <3>3 DEF SchedAt
        <3> QED BY <1>1, <1>5, <1>9, <3>2, <3>4, <3>5 DEF SchedAt
    <2> QED BY <1>4, <2>2, <2>3
<1>11. ASSUME NEW u \in Tmpl \ {t} PROVE SchedAt(u)'
    <2>1. SchedAt(u) BY <1>3 DEF AmortizationOK
    <2> QED BY <2>1, <1>1, <1>5, <1>7, <1>9, SchedAtStays
<1>12. \A q \in Req : SweepHeld(q)' BY <1>1, <1>2, <1>3, <1>8, SweepHeldStays
<1>13. SweepsApart' BY <1>2, <1>3, SweepsApartStays DEF AmortizationOK, SweepLabels
<1>14. \A o \in recorded' : PostedUpTo(o[1], o[2])' BY <1>1, <1>3, <1>8, RecordedStays
<1>15. AmortizationOK'
    BY <1>1, <1>3, <1>5, <1>10, <1>11, <1>12, <1>13, <1>14 DEF AmortizationOK
<1> QED BY <1>1, <1>2, <1>15, OnlySweeps

(* A step of a sweep that writes nothing. *)
LEMMA SweepPasses ==
    ASSUME RecInv, NEW r \in Req, Moved(r), UNCHANGED recVars, SweepHeld(r)',
           pc[r] \in {"idle", "amortize_check", "amortize_create"}, 
           pc'[r] \in {"idle"} \cup SweepLabels,
           pc'[r] \in SweepLabels =>
              \/ pc[r] \in SweepLabels /\ loc'[r].on = loc[r].on
              \/ WorkingOn(loc'[r].on) # {} => loc'[r].on \in raced'
    PROVE  RecInv'
<1>1. /\ UNCHANGED <<recorded, entries>> /\ UNCHANGED <<sched, unrecorded>>
      /\ UNCHANGED <<today, tmplVars, invTmplVars, journalVars>>
    BY DEF recVars, schedVars
<1>2. AmortizationOK /\ raced \subseteq raced' BY DEF RecInv, Moved
<1>3. SweepsGrow BY <1>1, <1>2 DEF SweepsGrow
<1>4. ASSUME NEW u \in Tmpl PROVE SchedAt(u)'
    <2>1. SchedAt(u) BY <1>2 DEF AmortizationOK
    <2>2. \A n \in 1..MaxPeriods : Recording(u, n) => Recording(u, n)'
        BY <1>1, RecordingStays
    <2> QED BY <2>1, <2>2, <1>1, <1>2, SchedAtStays
<1>5. ASSUME NEW q \in Req PROVE SweepHeld(q)'
    <2>1. CASE q = r BY <2>1
    <2>2. CASE q # r
        <3>1. pc'[q] = pc[q] /\ loc'[q] = loc[q] BY <2>2 DEF Moved
        <3> QED BY <3>1, <1>1, <1>2, <1>3, SweepHeldStays
    <2> QED BY <2>1, <2>2
<1>6. SweepsApart' BY <1>2, SweepsApartStays DEF AmortizationOK
<1>7. \A o \in recorded' : PostedUpTo(o[1], o[2])' BY <1>1, <1>2, <1>3, RecordedStays
<1>8. AmortizationOK' BY <1>1, <1>2, <1>4, <1>5, <1>6, <1>7 DEF AmortizationOK
<1> QED BY <1>1, <1>8, OnlySweeps DEF SweepLabels

(* run_sweep: the period after the last one posted is one of those agreed  *)
(* on.                                                                     *)
LEMMA SweepReads ==
    ASSUME RecInv, NEW r \in Req, NEW t \in Tmpl, SweepRead(r, t)
    PROVE  RecInv'
<1>1. PICK n : n = sched[t].posted + 1 OBVIOUS
<1>2. PICK d : d = [on |-> t, period |-> n] OBVIOUS
<1>3. /\ d.on = t /\ d.period = n /\ Begin(r, "amortize_check", d) /\ UNCHANGED recVars
      /\ t \in Live(sched) /\ sched[t].posted + sched[t].skipped < sched[t].periods
    BY <1>1, <1>2 DEF SweepRead
<1>4. /\ Moved(r) /\ pc[r] = "idle" /\ pc'[r] = "amortize_check" /\ loc'[r] = d
      /\ WorkingOn(t) # {} => t \in raced'
    BY <1>3, BeginMoves DEF RecInv
<1>5. UNCHANGED <<sched, entries>> BY <1>3 DEF recVars, schedVars
<1>6. /\ sched[t].posted \in 0..MaxPeriods /\ sched[t].skipped \in Nat
      /\ sched[t].periods \in 1..MaxPeriods /\ PostedUpTo(t, sched[t].posted)
    BY <1>3, LiveSchedule DEF RecInv
<1>7. n \in 1..sched[t].periods /\ n - 1 = sched[t].posted BY <1>1, <1>3, <1>6, Given
<1>8. PostedUpTo(t, n - 1)' BY <1>5, <1>6, <1>7 DEF PostedUpTo
<1>9. t \in Live(sched') /\ n \in 1..sched'[t].periods BY <1>3, <1>5, <1>7
<1>10. SweepHeld(r)' BY <1>3, <1>4, <1>8, <1>9 DEF SweepHeld
<1> QED BY <1>3, <1>4, <1>10, SweepPasses DEF SweepLabels

(* post_one looks for the record. *)
LEMMA SweepChecks ==
    ASSUME RecInv, NEW r \in Req, AmortizeCheck(r)
    PROVE  RecInv'
<1>1. pc[r] = "amortize_check" /\ UNCHANGED recVars BY DEF AmortizeCheck
<1>2. UNCHANGED <<sched, recorded, entries>> BY <1>1 DEF recVars, schedVars
<1>3. PICK t, n : t = loc[r].on /\ n = loc[r].period OBVIOUS
<1>4. SweepHeld(r) BY DEF RecInv, AmortizationOK
<1>5. t \in Live(sched) /\ n \in 1..sched[t].periods /\ PostedUpTo(t, n - 1)
    BY <1>1, <1>3, <1>4 DEF SweepHeld, SweepLabels
<1>6. CASE <<t, n>> \in recorded
    <2>1. End(r) BY <1>3, <1>6 DEF AmortizeCheck
    <2>2. Moved(r) /\ pc'[r] = "idle" BY <2>1, EndMoves DEF RecInv
    <2>3. SweepHeld(r)' BY <2>2 DEF SweepHeld, SweepLabels
    <2> QED BY <1>1, <2>2, <2>3, SweepPasses DEF SweepLabels
<1>7. CASE <<t, n>> \notin recorded
    <2>1. PICK at : at = sched[t].next OBVIOUS
    <2>2. PICK d : d = [on |-> t, period |-> n, at |-> at] OBVIOUS
    <2>3. d.on = t /\ d.period = n /\ d.at = at BY <2>2
    <2>4. Goto(r, "amortize_create", d) BY <1>3, <1>7, <2>1, <2>2 DEF AmortizeCheck
    <2>5. Moved(r) /\ pc'[r] = "amortize_create" /\ loc'[r] = d BY <2>4, GotoMoves DEF RecInv
    <2>6. at \in Int /\ IsDate(at) BY <1>5, <2>1, LiveSchedule DEF RecInv
    <2>7. PostedUpTo(t, n - 1)' BY <1>2, <1>5 DEF PostedUpTo
    <2>8. t \in Live(sched') /\ n \in 1..sched'[t].periods /\ <<t, n>> \notin recorded'
        BY <1>2, <1>5, <1>7
    <2>9. SweepHeld(r)' BY <2>3, <2>5, <2>6, <2>7, <2>8 DEF SweepHeld
    <2>10. pc[r] \in SweepLabels /\ loc'[r].on = loc[r].on
        BY <1>1, <1>3, <2>3, <2>5 DEF SweepLabels
    <2>11. pc'[r] \in SweepLabels BY <2>5 DEF SweepLabels
    <2> QED BY <1>1, <2>5, <2>9, <2>10, <2>11, SweepPasses
<1> QED BY <1>6, <1>7

(* post_one posts the entry.  Had the period one already, it would have a  *)
(* record, which the check excludes, or a request that is about to record  *)
(* it, with which this one overlaps.                                       *)
LEMMA SweepPosts ==
    ASSUME RecInv, NEW r \in Req, AmortizeCreate(r)
    PROVE  RecInv'
<1>1. /\ pc[r] = "amortize_create" /\ UNCHANGED <<sched, recorded>> /\ UNCHANGED unrecorded
      /\ UNCHANGED <<today, tmplVars, invTmplVars, journalVars>>
    BY DEF AmortizeCreate
<1>2. PICK t, n, x : t = loc[r].on /\ n = loc[r].period /\ x = loc[r].at OBVIOUS
<1>3. PICK o : o = <<t, n>> OBVIOUS
<1>4. AmortizationOK /\ SweepHeld(r) /\ SweepsApart BY DEF RecInv, AmortizationOK
<1>5. /\ t \in Live(sched) /\ n \in 1..sched[t].periods /\ PostedUpTo(t, n - 1)
      /\ x \in Int /\ IsDate(x) /\ (t \in raced \/ o \notin recorded)
    BY <1>1, <1>2, <1>3, <1>4 DEF SweepHeld, SweepLabels
<1>6. CASE End(r) /\ UNCHANGED entries
    <2>1. Moved(r) /\ pc'[r] = "idle" BY <1>6, EndMoves DEF RecInv
    <2>2. SweepHeld(r)' BY <2>1 DEF SweepHeld, SweepLabels
    <2>3. UNCHANGED recVars BY <1>1, <1>6 DEF recVars, schedVars
    <2>4. pc'[r] \notin SweepLabels BY <2>1 DEF SweepLabels
    <2> QED BY <1>1, <2>1, <2>2, <2>3, <2>4, SweepPasses
<1>7. CASE ~(End(r) /\ UNCHANGED entries)
    <2>1. entries' = [entries EXCEPT ![o] = Append(@, x)] /\ Goto(r, "amortize_record", loc[r])
        BY <1>2, <1>3, <1>7 DEF AmortizeCreate
    <2>2. Moved(r) /\ pc'[r] = "amortize_record" /\ loc'[r] = loc[r]
        BY <2>1, GotoMoves DEF RecInv
    <2>3. UNCHANGED raced BY <2>1 DEF Goto
    <2>4. t \in Tmpl /\ sched[t] \in SchedRow /\ PostedUpTo(t, sched[t].posted)
          /\ sched[t].posted \in 0..MaxPeriods /\ sched[t].periods \in 1..MaxPeriods
        BY <1>4, <1>5, LiveSchedule
    <2>5. n \in 1..MaxPeriods /\ n - 1 \in Int /\ n - 1 <= MaxPeriods BY <1>5, <2>4, Given
    <2>6. o \in Tmpl \X (1..MaxPeriods) BY <1>3, <2>4, <2>5
    <2>7. entries \in [Tmpl \X (1..MaxPeriods) -> Seq(Int)] BY <1>4 DEF AmortizationOK
    <2>8. entries[o] \in Seq(Int) BY <2>6, <2>7
    <2>9. /\ Append(entries[o], x) \in Seq(Int) /\ Append(entries[o], x) # <<>>
          /\ Len(Append(entries[o], x)) = Len(entries[o]) + 1
        BY <2>8, <1>5
    <2>10. /\ entries' \in [Tmpl \X (1..MaxPeriods) -> Seq(Int)]
           /\ entries'[o] = Append(entries[o], x)
           /\ \A p \in Tmpl \X (1..MaxPeriods) : p # o => entries'[p] = entries[p]
        BY <2>1, <2>6, <2>7, <2>9
    <2>11. SweepsGrow BY <1>1, <2>3, <2>9, <2>10 DEF SweepsGrow
    <2>12. ASSUME NEW u, NEW k, Recording(u, k) PROVE Recording(u, k)'
        BY <1>1, <2>2, <2>12, RecordingStays
    <2>13. Recording(t, n)' BY <1>2, <2>2 DEF Recording
    <2>14. t \notin raced \cup unrecorded => entries[o] = <<>>
        <3> SUFFICES ASSUME t \notin raced \cup unrecorded, entries[o] # <<>> PROVE FALSE
            OBVIOUS
        <3>1. SchedAt(t) /\ sched[t] # NoTmpl BY <1>4, <1>5, <2>4 DEF AmortizationOK, Live
        <3>2. Recording(t, n) BY <1>3, <2>5, <3>1 DEF SchedAt
        <3>3. PICK q \in Req : pc[q] = "amortize_record" /\ loc[q].on = t
            BY <1>3, <1>5, <3>2 DEF Recording
        <3>4. q # r BY <3>3, <1>1
        <3> QED BY <3>3, <3>4, <1>1, <1>2, <1>4 DEF SweepsApart, SweepLabels
    <2>15. SchedAt(t)'
        <3>1. SchedAt(t) /\ sched[t] # NoTmpl BY <1>4, <1>5, <2>4 DEF AmortizationOK, Live
        <3>2. PostedUpTo(t, sched[t].posted)'
            <4>1. PICK m : m = sched[t].posted OBVIOUS
            <4>2. m \in Int /\ m <= MaxPeriods /\ PostedUpTo(t, m) BY <4>1, <2>4, Given
            <4>3. PostedUpTo(t, m)' BY <4>2, <2>4, <2>11, PostedStays
            <4> QED BY <1>1, <4>1, <4>3
        <3>3. ASSUME NEW k \in 1..MaxPeriods, entries'[<<t, k>>] # <<>> PROVE k <= sched[t].periods
            <4>1. CASE k = n BY <4>1, <1>5, <2>4
            <4>2. CASE k # n
                <5>1. <<t, k>> \in Tmpl \X (1..MaxPeriods) /\ <<t, k>> # o BY <1>3, <2>4, <4>2
                <5>2. entries[<<t, k>>] # <<>> BY <5>1, <2>10, <3>3
                <5> QED BY <5>2, <3>1 DEF SchedAt
            <4> QED BY <4>1, <4>2
        <3>4. ASSUME t \notin raced \cup unrecorded, NEW k \in 1..MaxPeriods
              PROVE  /\ Len(entries'[<<t, k>>]) <= 1
                     /\ entries'[<<t, k>>] # <<>> => Recording(t, k)'
            <4>1. CASE k = n
                <5>1. entries[o] = <<>> BY <2>14, <3>4
                <5>2. Len(entries'[o]) = 1 BY <5>1, <2>9, <2>10
                <5> QED BY <4>1, <5>2, <1>3, <2>13
            <4>2. CASE k # n
                <5>1. <<t, k>> \in Tmpl \X (1..MaxPeriods) /\ <<t, k>> # o BY <1>3, <2>4, <4>2
                <5>2. entries'[<<t, k>>] = entries[<<t, k>>] BY <5>1, <2>10
                <5>3. Len(entries[<<t, k>>]) <= 1 /\ (entries[<<t, k>>] # <<>> => Recording(t, k))
                    BY <3>1, <3>4 DEF SchedAt
                <5> QED BY <5>2, <5>3, <2>12
            <4> QED BY <4>1, <4>2
        <3> QED BY <1>1, <2>3, <2>4, <3>2, <3>3, <3>4 DEF SchedAt
    <2>16. ASSUME NEW u \in Tmpl \ {t} PROVE SchedAt(u)'
        <3>1. SchedAt(u) BY <1>4 DEF AmortizationOK
        <3>2. \A k \in 1..MaxPeriods : entries'[<<u, k>>] = entries[<<u, k>>]
            BY <1>3, <2>10
        <3> QED BY <3>1, <3>2, <1>1, <2>3, <2>12, SchedAtStays
    <2>17. SweepHeld(r)'
        <3>1. PostedUpTo(t, n - 1)' BY <1>5, <2>4, <2>5, <2>11, PostedStays
        <3>2. t \in Live(sched') /\ n \in 1..sched'[t].periods BY <1>1, <1>5
        <3>3. entries'[<<t, n>>] # <<>> BY <1>3, <2>9, <2>10
        <3> QED BY <3>1, <3>2, <3>3, <1>2, <1>5, <2>2 DEF SweepHeld
    <2>18. ASSUME NEW q \in Req PROVE SweepHeld(q)'
        <3>1. CASE q = r BY <3>1, <2>17
        <3>2. CASE q # r
            <4>1. pc'[q] = pc[q] /\ loc'[q] = loc[q] BY <3>2, <2>2 DEF Moved
            <4> QED BY <4>1, <1>1, <1>4, <2>11, SweepHeldStays
        <3> QED BY <3>1, <3>2
    <2>19. SweepsApart' BY <1>1, <1>4, <2>2, SweepsApartStays DEF SweepLabels
    <2>20. \A p \in recorded' : PostedUpTo(p[1], p[2])' BY <1>1, <1>4, <2>11, RecordedStays
    <2>21. AmortizationOK'
        BY <1>1, <1>4, <2>10, <2>15, <2>16, <2>18, <2>19, <2>20 DEF AmortizationOK
    <2> QED BY <1>1, <2>2, <2>21, OnlySweeps DEF SweepLabels
<1> QED BY <1>6, <1>7

(* The next date of the amortization worker is a date. *)
LEMMA StayDay ==
    ASSUME NEW d, IsDay(d)
    PROVE  IsDay(AddMonthsOrStay(d, 1))
<1>1. MonthOf(d) \in Int /\ DayOf(d) \in 1..31 BY DayHasParts
<1>2. CASE DayOf(d) <= DaysInMonth(MonthOf(d) + 1)
    <2>1. PICK m \in Int : m = MonthOf(d) + 1 BY <1>1
    <2>2. PICK y \in 1..31 : y = DayOf(d) BY <1>1
    <2>3. PICK e \in Int : e = 100 * m + y OBVIOUS
    <2>4. e \in Int /\ MonthOf(e) = m /\ DayOf(e) = y BY <2>3 DEF MonthOf, DayOf
    <2>6. AddMonthsOrStay(d, 1) = e BY <1>2, <2>1, <2>2, <2>3 DEF AddMonthsOrStay
    <2>5. DaysInMonth(m) \in 28..31 BY <2>1, MonthLength
    <2> QED BY <1>1, <1>2, <2>1, <2>2, <2>4, <2>5, <2>6 DEF IsDay, IsDate
<1>3. CASE ~(DayOf(d) <= DaysInMonth(MonthOf(d) + 1))
    BY <1>3 DEF AddMonthsOrStay
<1> QED BY <1>2, <1>3

(* post_one records the period and moves the schedule. *)
LEMMA SweepRecords ==
    ASSUME RecInv, NEW r \in Req, AmortizeRecord(r)
    PROVE  RecInv'
<1>1. /\ pc[r] = "amortize_record" /\ UNCHANGED entries /\ UNCHANGED unrecorded /\ End(r)
      /\ UNCHANGED <<today, tmplVars, invTmplVars, journalVars>>
    BY DEF AmortizeRecord
<1>2. PICK t, n, x : t = loc[r].on /\ n = loc[r].period /\ x = loc[r].at OBVIOUS
<1>3. PICK o : o = <<t, n>> OBVIOUS
<1>4. AmortizationOK /\ SweepHeld(r) /\ SweepsApart BY DEF RecInv, AmortizationOK
<1>5. /\ t \in Live(sched) /\ n \in 1..sched[t].periods /\ PostedUpTo(t, n - 1)
      /\ IsDay(x) /\ entries[o] # <<>>
    BY <1>1, <1>2, <1>3, <1>4 DEF SweepHeld, SweepLabels, IsDay
<1>6. PICK s : s = sched[t] OBVIOUS
<1>7. PICK v : v = [start |-> s.start, next |-> AddMonthsOrStay(x, 1), unit |-> s.unit,
                    periods |-> s.periods, posted |-> n, skipped |-> s.skipped]
    OBVIOUS
<1>8. recorded' = recorded \cup {o} /\ sched' = [sched EXCEPT ![t] = v]
    BY <1>2, <1>3, <1>6, <1>7 DEF AmortizeRecord
<1>9. Moved(r) /\ pc'[r] = "idle" BY <1>1, EndMoves DEF RecInv
<1>10. UNCHANGED raced BY <1>1 DEF End
<1>11. t \in Tmpl /\ s \in SchedRow /\ s.periods \in 1..MaxPeriods
    BY <1>4, <1>5, <1>6, LiveSchedule
<1>12. n \in 1..MaxPeriods /\ n \in 0..MaxPeriods /\ n \in Int /\ n <= MaxPeriods
    BY <1>5, <1>6, <1>11, Given
<1>13. AddMonthsOrStay(x, 1) \in {d \in Int : IsDate(d)} BY <1>5, StayDay DEF IsDay
<1>14. v \in SchedRow /\ v.periods = s.periods /\ v.posted = n
    BY <1>7, <1>11, <1>12, <1>13 DEF SchedRow
<1>15. v # NoTmpl /\ v # Deleted BY <1>14, SchedRowIsLive
<1>16. DOMAIN sched' = Tmpl /\ sched'[t] = v /\ \A u \in Tmpl \ {t} : sched'[u] = sched[u]
    BY <1>4, <1>8, <1>11 DEF AmortizationOK
<1>17. SweepsGrow
    <2>1. ASSUME NEW u \in Live(sched)
          PROVE  u \in Live(sched') /\ sched'[u].periods = sched[u].periods
        <3>1. CASE u = t BY <3>1, <1>6, <1>11, <1>14, <1>15, <1>16 DEF Live
        <3>2. CASE u # t BY <3>2, <1>16 DEF Live
        <3> QED BY <3>1, <3>2
    <2> QED BY <2>1, <1>1, <1>10 DEF SweepsGrow
<1>18. PostedUpTo(t, n)
    <2> SUFFICES ASSUME NEW k \in 1..n PROVE entries[<<t, k>>] # <<>>
        BY DEF PostedUpTo
    <2>1. CASE k = n BY <2>1, <1>3, <1>5
    <2>2. CASE k # n
        <3>1. k \in 1..(n - 1) BY <2>2, <1>12
        <3> QED BY <3>1, <1>5 DEF PostedUpTo
    <2> QED BY <2>1, <2>2
<1>19. PostedUpTo(t, n)' BY <1>11, <1>12, <1>17, <1>18, PostedStays
<1>20. ASSUME NEW u, NEW k, Recording(u, k) PROVE Recording(u, k)'
    BY <1>2, <1>3, <1>8, <1>9, <1>20, RecordingStays
<1>21. SchedAt(t)'
    <2>1. SchedAt(t) /\ sched[t] # NoTmpl BY <1>4, <1>5, <1>11 DEF AmortizationOK, Live
    <2>2. /\ \A k \in 1..MaxPeriods : entries[<<t, k>>] # <<>> => k <= s.periods
          /\ t \notin raced \cup unrecorded =>
                \A k \in 1..MaxPeriods : /\ Len(entries[<<t, k>>]) <= 1
                                         /\ entries[<<t, k>>] # <<>> => Recording(t, k)
        BY <2>1, <1>6 DEF SchedAt
    <2> QED BY <2>2, <1>1, <1>10, <1>14, <1>16, <1>19, <1>20 DEF SchedAt
<1>22. ASSUME NEW u \in Tmpl \ {t} PROVE SchedAt(u)'
    <2>1. SchedAt(u) BY <1>4 DEF AmortizationOK
    <2> QED BY <2>1, <1>1, <1>10, <1>16, <1>20, SchedAtStays
<1>23. ASSUME NEW q \in Req PROVE SweepHeld(q)'
    <2>1. CASE q = r BY <2>1, <1>9 DEF SweepHeld, SweepLabels
    <2>2. CASE q # r
        <3>1. pc'[q] = pc[q] /\ loc'[q] = loc[q] BY <2>2, <1>9 DEF Moved
        <3>2. ASSUME pc[q] = "amortize_create", <<loc[q].on, loc[q].period>> \in recorded'
              PROVE  <<loc[q].on, loc[q].period>> \in recorded \/ loc[q].on \in raced'
            <4> SUFFICES ASSUME <<loc[q].on, loc[q].period>> = o PROVE loc[q].on \in raced
                BY <1>8, <1>10, <3>2
            <4>1. loc[q].on = loc[r].on BY <1>2, <1>3
            <4> QED BY <4>1, <2>2, <3>2, <1>1, <1>4 DEF SweepsApart, SweepLabels
        <3> QED BY <3>1, <3>2, <1>4, <1>17, SweepHeldStays
    <2> QED BY <2>1, <2>2
<1>24. SweepsApart' BY <1>4, <1>9, SweepsApartStays DEF SweepLabels
<1>25. ASSUME NEW p \in recorded' PROVE PostedUpTo(p[1], p[2])'
    <2>1. CASE p \in recorded BY <2>1, <1>4, <1>17, RecordedStays
    <2>2. CASE p = o BY <2>2, <1>3, <1>19
    <2> QED BY <2>1, <2>2, <1>8
<1>26. recorded' \subseteq Tmpl \X (1..MaxPeriods)
    BY <1>3, <1>4, <1>8, <1>11, <1>12 DEF AmortizationOK
<1>27. AmortizationOK'
    BY <1>1, <1>4, <1>16, <1>21, <1>22, <1>23, <1>24, <1>25, <1>26 DEF AmortizationOK
<1> QED BY <1>1, <1>9, <1>27, OnlySweeps DEF SweepLabels

(* A request is cut off: the row it was about may miss a record. *)
LEMMA RequestCut ==
    ASSUME RecInv, NEW r \in Req, RecurringCutOff(r)
    PROVE  RecInv'
<1>1. PICK t : t = loc[r].on OBVIOUS
<1>2. End(r) /\ unrecorded' = unrecorded \cup {t} BY <1>1 DEF RecurringCutOff, CutOff
<1>3. /\ UNCHANGED today /\ UNCHANGED <<tmpl, auto>> /\ UNCHANGED <<invTmpl, issued>>
      /\ UNCHANGED <<journal, run>> /\ UNCHANGED <<stray>> /\ UNCHANGED <<sched, recorded, entries>>
    BY DEF RecurringCutOff, tmplVars, invTmplVars, journalVars, schedVars
<1>4. Moved(r) /\ pc'[r] = "idle" BY <1>2, EndMoves DEF RecInv
<1>5. /\ pc'[r] # "occurrence" /\ pc'[r] # "issue" /\ pc'[r] \notin JournalLabels
      /\ pc'[r] \notin DraftLabels /\ pc'[r] \notin SweepLabels /\ unrecorded \subseteq unrecorded'
    BY <1>2, <1>4 DEF JournalLabels, DraftLabels, SweepLabels
<1>6. ControlOK' /\ TemplatesOK' /\ BillsOK' /\ JournalsOK' BY <1>3, <1>4, <1>5, Frames
<1>7. DraftsOK'
    <2>1. CASE pc[r] \notin DraftLabels BY <2>1, <1>3, <1>4, <1>5, Frames
    <2>2. CASE pc[r] \in DraftLabels
        <3>1. PICK x : x = loc[r].at OBVIOUS
        <3>2. /\ Cardinality(Drafting(t, x)') = Cardinality(Drafting(t, x)) - 1
              /\ Cardinality(Drafting(t, x)) \in Nat
              /\ \A u, y : u # t \/ y # x => Drafting(u, y)' = Drafting(u, y)
            BY <1>1, <1>4, <1>5, <2>2, <3>1, DraftingLoses
        <3>3. DraftsOK BY DEF RecInv
        <3>4. ASSUME NEW u \in Tmpl, NEW y \in AllDates
              PROVE  /\ Cardinality(Drafting(u, y)') <= stray'[<<u, y>>]
                     /\ u \notin unrecorded' => stray'[<<u, y>>] = Cardinality(Drafting(u, y)')
            <4>1. /\ Cardinality(Drafting(u, y)) <= stray[<<u, y>>] /\ stray[<<u, y>>] \in Nat
                  /\ u \notin unrecorded => stray[<<u, y>>] = Cardinality(Drafting(u, y))
                BY <3>3 DEF DraftsOK
            <4>2. CASE u = t /\ y = x
                BY <4>1, <4>2, <3>2, <1>2, <1>3
            <4>3. CASE u # t \/ y # x
                <5>1. Drafting(u, y)' = Drafting(u, y) BY <4>3, <3>2
                <5> QED BY <4>1, <5>1, <1>2, <1>3
            <4> QED BY <4>2, <4>3
        <3> QED BY <3>3, <3>4, <1>3 DEF DraftsOK
    <2> QED BY <2>1, <2>2
<1>8. AmortizationOK'
    <2>1. CASE pc[r] \notin SweepLabels BY <2>1, <1>3, <1>4, <1>5, Frames
    <2>2. CASE pc[r] \in SweepLabels
        <3>1. AmortizationOK /\ SweepsApart BY DEF RecInv, AmortizationOK
        <3>2. raced \subseteq raced' BY <1>4 DEF Moved
        <3>3. SweepsGrow BY <1>3, <3>2 DEF SweepsGrow
        <3>4. ASSUME NEW u \in Tmpl PROVE SchedAt(u)'
            <4>1. SchedAt(u) BY <3>1 DEF AmortizationOK
            <4>2. u \notin raced' \cup unrecorded' =>
                    \A n \in 1..MaxPeriods : Recording(u, n) => Recording(u, n)'
                BY <1>1, <1>2, <1>3, <1>4, RecordingStays
            <4> QED BY <4>1, <4>2, <1>3, <1>5, <3>2, SchedAtStays
        <3>5. ASSUME NEW q \in Req PROVE SweepHeld(q)'
            <4>1. CASE q = r BY <4>1, <1>5 DEF SweepHeld
            <4>2. CASE q # r
                <5>1. pc'[q] = pc[q] /\ loc'[q] = loc[q] BY <4>2, <1>4 DEF Moved
                <5> QED BY <5>1, <1>3, <3>1, <3>3, SweepHeldStays
            <4> QED BY <4>1, <4>2
        <3>6. SweepsApart' BY <1>4, <1>5, <3>1, SweepsApartStays
        <3>7. \A o \in recorded' : PostedUpTo(o[1], o[2])' BY <1>3, <3>1, <3>3, RecordedStays
        <3> QED BY <1>3, <3>1, <3>4, <3>5, <3>6, <3>7 DEF AmortizationOK
    <2> QED BY <2>1, <2>2
<1> QED BY <1>6, <1>7, <1>8 DEF RecInv

-----------------------------------------------------------------------------
(* The empty database. *)
LEMMA RecStarts == InitRequests /\ InitRecurring => RecInv
<1> SUFFICES ASSUME InitRequests, InitRecurring PROVE RecInv
    OBVIOUS
<1>1. \A q \in Req : pc[q] = "idle" BY DEF InitRequests
<1>2. ControlOK BY DEF InitRequests, InitRecurring, ControlOK
<1>3. TemplatesOK
    BY <1>1 DEF InitRecurring, TemplatesOK, TmplAt, ScanHeld
<1>4. BillsOK
    BY <1>1 DEF InitRecurring, BillsOK, IssueHeld
<1>5. JournalsOK
    <2>1. NoRun \in RunRow /\ NoRun.status = "none" /\ NoRun.has = "none" BY DEF NoRun, RunRow
    <2>2. \A q \in Req : PeriodHeld(q) BY <1>1 DEF PeriodHeld, DraftLabels
    <2>3. \A t \in Tmpl : JournalAt(t) BY DEF InitRecurring, JournalAt
    <2>4. run = [o \in Tmpl \X AllDates |-> NoRun] /\ DOMAIN journal = Tmpl BY DEF InitRecurring
    <2>5. run \in [Tmpl \X AllDates -> RunRow] /\ \A o \in Tmpl \X AllDates : run[o] = NoRun
        BY <2>1, <2>4
    <2> QED BY <2>1, <2>2, <2>3, <2>4, <2>5 DEF JournalsOK
<1>6. DraftsOK
    <2>1. \A t, x : Drafting(t, x) = {} BY <1>1 DEF Drafting, DraftLabels
    <2>2. Cardinality({}) = 0 BY FS_EmptySet
    <2>3. stray = [o \in Tmpl \X AllDates |-> 0] BY DEF InitRecurring
    <2> QED BY <2>1, <2>2, <2>3 DEF DraftsOK
<1>7. AmortizationOK
    <2>1. \A q \in Req : SweepHeld(q) /\ pc[q] \notin SweepLabels BY <1>1 DEF SweepHeld, SweepLabels
    <2>2. SweepsApart BY <2>1 DEF SweepsApart
    <2>3. entries = [o \in Tmpl \X (1..MaxPeriods) |-> <<>>] BY DEF InitRecurring
    <2>4. entries \in [Tmpl \X (1..MaxPeriods) -> Seq(Int)]
        <3>1. <<>> \in Seq(Int) OBVIOUS
        <3> QED BY <2>3, <3>1
    <2>5. \A t \in Tmpl : SchedAt(t) BY <2>3 DEF InitRecurring, SchedAt
    <2>6. recorded = {} /\ DOMAIN sched = Tmpl BY DEF InitRecurring
    <2> QED BY <2>1, <2>2, <2>4, <2>5, <2>6 DEF AmortizationOK
<1> QED BY <1>2, <1>3, <1>4, <1>5, <1>6, <1>7 DEF RecInv

(* Every step of the four parts keeps the invariant. *)
LEMMA RecSteps ==
    ASSUME RecInv, [RecurringNext]_<<reqVars, recVars>>
    PROVE  RecInv'
<1>1. CASE UNCHANGED <<reqVars, recVars>>
    <2>1. UNCHANGED <<pc, loc, raced>> BY <1>1 DEF reqVars
    <2>2. /\ UNCHANGED <<tmpl, auto>> /\ UNCHANGED <<invTmpl, issued>> /\ UNCHANGED <<journal, run>>
          /\ UNCHANGED stray /\ UNCHANGED <<sched, recorded, entries>> /\ UNCHANGED today
          /\ unrecorded \subseteq unrecorded' /\ raced \subseteq raced'
        BY <1>1, <2>1 DEF recVars, tmplVars, invTmplVars, journalVars, schedVars
    <2>3. ControlOK' BY <2>1, <2>2 DEF RecInv, ControlOK
    <2>4. Holds({"occurrence"}) /\ Holds({"issue"}) /\ Holds(JournalLabels) /\ Same(DraftLabels)
          /\ Same(SweepLabels)
        BY <2>1, IdleSame
    <2> QED BY <2>2, <2>3, <2>4, TemplatesFrame, BillsFrame, JournalsFrame,
               DraftsFrame, AmortizationFrame DEF RecInv
<1>2. CASE TemplatesNext
    <2>1. CASE NextDay BY <2>1, ClockMoves
    <2>2. ASSUME NEW r \in Req, RunTemplate(r) \/ TemplateScan(r) \/ ScanPick(r) \/ RunOccurrence(r)
                                 \/ ScanCutOff(r)
          PROVE  RecInv'
        BY <2>2, TemplateRuns, ScanBegins, ScanPicks, OccurrenceRuns, ScanCut
    <2>3. ASSUME NEW r \in Req, NEW t \in Tmpl,
                 \/ TemplateCreate(r, t) \/ RecognitionCreate(r, t) \/ TemplateToggle(r, t)
                 \/ TemplateDelete(r, t) \/ TemplateRunRead(r, t)
          PROVE  RecInv'
        BY <2>3, TemplateMade, TemplateGone, TemplateRuns
    <2> QED BY <1>2, <2>1, <2>2, <2>3 DEF TemplatesNext
<1>3. CASE RecurringInvoicesNext
    BY <1>3, ClockMoves, InvoiceTemplateMade, InvoiceScanBegins, InvoiceScanPicks, InvoiceIssued,
       ScanCut DEF RecurringInvoicesNext
<1>4. CASE RecurringJournalsNext
    <2>1. CASE NextDay BY <2>1, ClockMoves
    <2>2. ASSUME NEW r \in Req, PreviewDraft(r) \/ PreviewRun(r) \/ PreviewLost(r) \/ RunDueEnd(r) \/ SkipRead(r)
                                 \/ SkipNext(r) \/ PostRunEnd(r) \/ RecurringCutOff(r)
          PROVE  RecInv'
        BY <2>2, DraftMade, RunMade, RunLost, RunDueEnds, SkipReads, SkipMoves, RunPosted, RequestCut
    <2>3. ASSUME NEW r \in Req, NEW t \in Tmpl,
                 \/ JournalCreate(r, t) \/ SetPaused(r, t) \/ SkipRun(r, t)
                 \/ PreviewBegin(r, t) \/ RunDueBegin(r, t)
          PROVE  RecInv'
        BY <2>3, JournalMade, JournalPaused, SkipBegins, PreviewBegins
    <2>4. ASSUME NEW r \in Req, \E o \in DOMAIN run : PostRunDraft(r, o) PROVE RecInv'
        BY <2>4, RunPosted
    <2>5. ASSUME NEW o \in DOMAIN run, RunDraftDiscarded(o) PROVE RecInv'
        BY <2>5, DraftDiscarded
    <2> QED BY <1>4, <2>1, <2>2, <2>3, <2>4, <2>5 DEF RecurringJournalsNext
<1>5. CASE AmortizationNext
    BY <1>5, ClockMoves, SweepChecks, SweepPosts, SweepRecords, RequestCut, ScheduleMade, SweepReads
       DEF AmortizationNext
<1> QED BY <1>1, <1>2, <1>3, <1>4, <1>5 DEF RecurringNext

-----------------------------------------------------------------------------
(* What the invariant says of each part, in the words of the properties. *)
LEMMA OccurrencesFollow ==
    ASSUME RecInv
    PROVE  OccurrencesInOrder
<1> SUFFICES ASSUME NEW t \in Live(tmpl)
             PROVE  {o[2] : o \in {o \in auto : o[1] = t}} =
                        Occurrences(tmpl[t].start, tmpl[t].freq, tmpl[t].next)
    BY DEF OccurrencesInOrder
<1>1. PICK s, f, n : s = tmpl[t].start /\ f = tmpl[t].freq /\ n = tmpl[t].next OBVIOUS
<1>2. /\ t \in Tmpl /\ s \in StartDates /\ f \in Frequencies /\ Reached(s, f, n)
      /\ \A x \in AllDates : <<t, x>> \in auto <=> x \in Chain(s, f) /\ x < n
    BY <1>1, LiveTemplate DEF RecInv
<1>3. IsDay(s) /\ f \in Frequency /\ IsDay(n) /\ n \in Int /\ \A y \in Chain(s, f) : y <= n => y \in AllDates
    BY <1>2, Given, ReachedIsIn DEF IsDay
<1>4. Occurrences(s, f, n) = {x \in Chain(s, f) : x < n} BY <1>3, OccurrencesAre
<1>5. \A x \in Chain(s, f) : x \in Int BY <1>3, ChainStart DEF IsDay
<1>6. ASSUME NEW x \in Chain(s, f), x < n PROVE <<t, x>> \in auto
    BY <1>2, <1>3, <1>5, <1>6
<1>7. ASSUME NEW o \in auto, o[1] = t PROVE o[2] \in Chain(s, f) /\ o[2] < n
    <2>1. o \in Tmpl \X AllDates BY DEF RecInv, TemplatesOK
    <2>2. o = <<t, o[2]>> /\ o[2] \in AllDates BY <2>1, <1>7
    <2>3. <<t, o[2]>> \in auto BY <2>2
    <2> QED BY <2>2, <2>3, <1>2
<1>8. ASSUME NEW x \in Chain(s, f), x < n PROVE x \in {o[2] : o \in {o \in auto : o[1] = t}}
    <2>1. <<t, x>> \in {o \in auto : o[1] = t} BY <1>6, <1>8
    <2> QED BY <2>1
<1> QED BY <1>1, <1>4, <1>7, <1>8

LEMMA BillsFollow ==
    ASSUME RecInv
    PROVE  InvoicesInOrder
<1> SUFFICES ASSUME NEW o \in issued,
                    NEW d \in Occurrences(invTmpl[o[1]].next, invTmpl[o[1]].freq, o[2])
             PROVE  <<o[1], d>> \in issued
    BY DEF InvoicesInOrder
<1>1. BillsOK /\ Billable(o[1], o[2]) /\ o \in Tmpl \X AllDates BY DEF RecInv, BillsOK
<1>2. PICK t \in Tmpl, x \in AllDates : t = o[1] /\ x = o[2] BY <1>1
<1>3. PICK s, f : s = invTmpl[t].next /\ f = invTmpl[t].freq OBVIOUS
<1>4. t \in Live(invTmpl) /\ BilledBefore(t, x) BY <1>1, <1>2 DEF Billable
<1>5. invTmpl[t] \in InvTmplRow BY <1>1, <1>4 DEF BillsOK, Live
<1>6. s \in StartDates /\ f \in Frequencies BY <1>3, <1>5 DEF InvTmplRow
<1>7. IsDay(s) /\ f \in Frequency /\ x \in Int BY <1>6, Given, AllDatesAreDays
<1>8. d \in Chain(s, f) /\ d < x BY <1>2, <1>3, <1>7, OccurrencesAre
<1> QED BY <1>2, <1>3, <1>4, <1>8 DEF BilledBefore

LEMMA PeriodsFollow ==
    ASSUME RecInv
    PROVE  NoPeriodLost
<1> SUFFICES ASSUME NEW t \in Live(journal),
                    NEW p \in Occurrences(journal[t].start, journal[t].freq, journal[t].next)
             PROVE  run[<<t, p>>].status # "none"
    BY DEF NoPeriodLost
<1>1. PICK s, f, n : s = journal[t].start /\ f = journal[t].freq /\ n = journal[t].next OBVIOUS
<1>2. s \in StartDates /\ f \in Frequencies /\ Reached(s, f, n) /\ HandledBefore(t, n)
    BY <1>1, LiveJournal DEF RecInv
<1>3. IsDay(s) /\ f \in Frequency /\ n \in Int BY <1>2, Given, ReachedIsIn DEF IsDay
<1>4. p \in Chain(s, f) /\ p < n BY <1>1, <1>3, OccurrencesAre
<1> QED BY <1>1, <1>2, <1>4 DEF HandledBefore, Handled

LEMMA DraftsFollow ==
    ASSUME RecInv
    PROVE  PeriodDraftedOnce
<1> SUFFICES ASSUME NEW o \in DOMAIN stray
             PROVE  /\ run[o].status = "posted" => run[o].has = "posted"
                    /\ \/ o[1] \in unrecorded
                       \/ stray[o] = Cardinality({r \in WorkingOn(o[1]) :
                                                    /\ pc[r] \in DraftLabels
                                                    /\ loc[r].at = o[2]})
    BY DEF PeriodDraftedOnce, DraftLabels
<1>1. o \in Tmpl \X AllDates BY DEF RecInv, DraftsOK
<1>2. PICK t \in Tmpl, x \in AllDates : o = <<t, x>> /\ t = o[1] /\ x = o[2] BY <1>1
<1>3. {r \in WorkingOn(t) : pc[r] \in DraftLabels /\ loc[r].at = x} = Drafting(t, x)
    BY DEF Drafting, WorkingOn, Busy, DraftLabels
<1>4. t \notin unrecorded => stray[o] = Cardinality(Drafting(t, x))
    BY <1>2 DEF RecInv, DraftsOK
<1>5. run[o].status = "posted" => run[o].has = "posted" BY <1>1 DEF RecInv, JournalsOK
<1> QED BY <1>2, <1>3, <1>4, <1>5

LEMMA SweepsFollow ==
    ASSUME RecInv
    PROVE  AmortizedOnce /\ RecordedIsPosted
<1>1. AmortizationOK BY DEF RecInv
<1>2. ASSUME NEW t \in Live(sched), NEW n \in 1..MaxPeriods
      PROVE  /\ entries[<<t, n>>] # <<>> => n <= sched[t].periods
             /\ t \notin raced \cup unrecorded => Len(entries[<<t, n>>]) <= 1
    <2>1. t \in Tmpl /\ SchedAt(t) /\ sched[t] # NoTmpl BY <1>1 DEF AmortizationOK, Live
    <2> QED BY <2>1 DEF SchedAt
<1>3. RecordedIsPosted BY <1>1 DEF AmortizationOK, PostedUpTo, RecordedIsPosted
<1> QED BY <1>2, <1>3 DEF AmortizedOnce

LEMMA RecordsAreTyped ==
    ASSUME RecInv
    PROVE  RecurringTypeOK
<1>1. ASSUME NEW t \in Live(tmpl) PROVE IsDate(tmpl[t].next)
    <2>1. tmpl[t].next \in AllDates BY LiveTemplate DEF RecInv, TmplRow
    <2> QED BY <2>1, AllDatesAreDays DEF IsDay
<1>2. ASSUME NEW t \in Live(sched) PROVE IsDate(sched[t].next)
    BY LiveSchedule DEF RecInv
<1>3. auto \cup issued \subseteq Tmpl \X AllDates BY DEF RecInv, TemplatesOK, BillsOK
<1>4. recorded \subseteq Tmpl \X (1..MaxPeriods) BY DEF RecInv, AmortizationOK
<1>5. \A o \in DOMAIN run : run[o].status \in {"none", "preview", "posted", "skipped"}
    BY DEF RecInv, JournalsOK, RunRow
<1>6. \A o \in DOMAIN stray : stray[o] \in Nat BY DEF RecInv, DraftsOK
<1>7. today \in Days BY DEF RecInv, ControlOK
<1> QED BY <1>1, <1>2, <1>3, <1>4, <1>5, <1>6, <1>7 DEF RecurringTypeOK

(* For any requests, templates, dates, frequencies and bounds: the         *)
(* inductive invariant of templates, recurring invoices, recurring         *)
(* journals and amortization schedules holds in every state, whatever      *)
(* scans, users and cut-off requests do.                                   *)
THEOREM RecurringInvariant == RecurringSpec => []RecInv
<1>1. InitRequests /\ InitRecurring => RecInv BY RecStarts
<1>2. RecInv /\ [RecurringNext]_<<reqVars, recVars>> => RecInv' BY RecSteps
<1> QED BY <1>1, <1>2, PTL DEF RecurringSpec

(* The scan of jobs/template_run.rs posts the occurrences of a template in *)
(* order and without a hole, recurring invoices are issued so, no period   *)
(* of a recurring journal is left without its run, a period has one draft  *)
(* unless a request was cut off, and amortization posts a period once      *)
(* unless sweeps overlap or one is cut off: for any number of requests,    *)
(* any dates and any frequencies.                                          *)
THEOREM SchedulesAreSound == RecurringSpec => []SchedulesSound
<1>1. RecInv => SchedulesSound
    BY OccurrencesFollow, BillsFollow, PeriodsFollow, DraftsFollow, SweepsFollow, RecordsAreTyped
       DEF SchedulesSound
<1> QED BY <1>1, RecurringInvariant, PTL
=============================================================================
