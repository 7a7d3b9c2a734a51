----------------------------- MODULE Automation -----------------------------
(***************************************************************************)
(* Automation rules (handlers/automations.rs, jobs/automation.rs) from the *)
(* event that matches them to the action of the job, with the cost centres *)
(* that a rule assigns, and the scheduler's daily housekeeping             *)
(* (workers/scheduler.rs) with the weekly digest (jobs/digest.rs).         *)
(*                                                                         *)
(* JobQueue has the queue itself; here a job is what automation makes of   *)
(* it: pending, running, done or dead, with the effects it has had.  The   *)
(* schedulers of several server processes are requests, each with the day  *)
(* marker its process keeps in memory.                                     *)
(***************************************************************************)
EXTENDS Requests, Sequences

CONSTANTS
    Rule,           \* rules a ledger may have
    RuleConditions, \* rule -> its conditions, each a key with a value
    RuleAction,     \* rule -> "webhook_post", "email_notify" or the centre it assigns
    EventData,      \* data of events: the fields they have
    Posting,        \* the postings of the transaction that events are about
    ByHand,         \* those of them that came with the centre "manual"
    ActionBudget,   \* LEDGER_ACTION_BUDGET_PER_HOUR
    MaxAttempts,    \* max_attempts of a job
    MaxAct, MaxId,  \* bounds: action jobs; cost centres ever made
    LastDay,        \* bound: days the scheduler runs, 1 being a Monday
    MaxFault        \* bound: failures and restarts of schedulers

ASSUME AutomationBounds ==
    /\ IsFiniteSet(Req) /\ IsFiniteSet(Rule)
    /\ {ActionBudget, MaxAttempts, MaxId, LastDay} \subseteq Nat \ {0}

VARIABLES
    rule,           \* state of each rule: "absent", "off" or "on"
    acts,           \* automation_action jobs, oldest first
    recent,         \* how many of them were made within the last hour
    uncounted,      \* history: jobs due to events whose count of them failed
    centre,         \* id of the centre of each name, 0 for none
    lastId,         \* the id that was given out last
    tag,            \* cost_center_id of each posting, 0 for NULL
    hday,           \* the day
    marker,         \* last_day of each scheduler, 0 for none
    queued,         \* <<kind, day>> -> jobs queued by housekeeping
    digests,        \* Monday -> digest jobs queued on it, by what became of them
    faulted         \* history: failures and restarts so far

ruleVars == <<rule, acts, recent, uncounted, centre, lastId, tag>>
hkVars == <<hday, marker, queued, digests, faulted>>
autoVars == <<ruleVars, hkVars>>

Mondays == {d \in 1..LastDay : d % 7 = 1}

(* The kinds of jobs housekeeping queues on a day, in this order; one user *)
(* stands for all.                                                         *)
Kinds(d) ==
    LET daily == <<"template_scan", "invoice_reminder_scan", "recurring_invoice_scan",
                   "restore_verify">>
    IN  IF d \in Mondays THEN Append(daily, "weekly_digest") ELSE daily

KindDays == UNION {{<<Kinds(d)[i], d>> : i \in DOMAIN Kinds(d)} : d \in 1..LastDay}

CentreNames ==
    {"manual"} \cup ({RuleAction[x] : x \in Rule} \ {"webhook_post", "email_notify"})

InitAutomation ==
    /\ rule = [x \in Rule |-> "absent"]
    /\ acts = <<>> /\ recent = 0 /\ uncounted = 0
    /\ centre = [c \in CentreNames |-> IF c = "manual" THEN 1 ELSE 0] /\ lastId = 1
    /\ tag = [p \in Posting |-> IF p \in ByHand THEN 1 ELSE 0]
    /\ hday = 1 /\ marker = [r \in Req |-> 0]
    /\ queued = [kd \in KindDays |-> 0]
    /\ digests = [d \in Mondays |-> [pending |-> 0, sent |-> 0, inApp |-> 0, unsaved |-> 0,
                                     declined |-> 0, stuck |-> 0,
                                     dead |-> 0]]
    /\ faulted = 0

-----------------------------------------------------------------------------
(* The owner's page. *)
RuleCreate(r, x) ==
    /\ rule[x] = "absent"
    /\ Serve(r, x)
    /\ rule' = [rule EXCEPT ![x] = "on"]
    /\ UNCHANGED <<acts, recent, uncounted, centre, lastId, tag, hkVars>>

(* One UPDATE, NOT is_enabled. *)
RuleToggle(r, x) ==
    /\ rule[x] # "absent"
    /\ Serve(r, x)
    /\ rule' = [rule EXCEPT ![x] = IF @ = "on" THEN "off" ELSE "on"]
    /\ UNCHANGED <<acts, recent, uncounted, centre, lastId, tag, hkVars>>

RuleDelete(r, x) ==
    /\ rule[x] # "absent"
    /\ Serve(r, x)
    /\ rule' = [rule EXCEPT ![x] = "absent"]
    /\ UNCHANGED <<acts, recent, uncounted, centre, lastId, tag, hkVars>>

(* All conditions hold; one about a field the event has not, or one with   *)
(* an unknown key, does not.                                               *)
ConditionHolds(c, data) ==
    \/ /\ c.key = "description_contains" /\ "description" \in DOMAIN data
       /\ c.value \in data.description
    \/ c.key = "amount_gte" /\ "amount" \in DOMAIN data /\ data.amount >= c.value
    \/ c.key = "amount_lte" /\ "amount" \in DOMAIN data /\ data.amount <= c.value
    \/ c.key = "days_past_due_gte" /\ "late" \in DOMAIN data /\ data.late >= c.value

ConditionsMatch(x, data) == \A c \in RuleConditions[x] : ConditionHolds(c, data)

(* match_and_enqueue, for an event of the ledger or one that intake has    *)
(* verified: the enabled rules, ...                                        *)
MatchRules(r, data) ==
    /\ \E x \in Rule : rule[x] = "on"
    /\ Begin(r, "budget", [on |-> "budget", data |-> data, todo |-> {x \in Rule : rule[x] = "on"}])
    /\ UNCHANGED autoVars

MatchTodo(r) == {x \in loc[r].todo : ConditionsMatch(x, loc[r].data)}

(* ... the jobs of the last hour, counted once; a count that fails is 0    *)
(* (unwrap_or), ...                                                        *)
MatchBudget(r) ==
    /\ pc[r] = "budget"
    /\ \/ recent >= ActionBudget /\ End(r) /\ UNCHANGED uncounted
       \/ /\ recent < ActionBudget
          /\ Goto(r, "fan", [loc[r] EXCEPT !.todo = MatchTodo(r)])
          /\ UNCHANGED uncounted
       \/ /\ uncounted < MaxFault
          /\ uncounted' = uncounted + Cardinality(MatchTodo(r))
          /\ Goto(r, "fan", [loc[r] EXCEPT !.todo = MatchTodo(r)])
    /\ UNCHANGED <<rule, acts, recent, centre, lastId, tag, hkVars>>

NewAct(x) ==
    [rule |-> x, status |-> "pending", tries |-> 0, effects |-> 0, skipped |-> FALSE]

(* ... and one job for each that matches; a failing INSERT is passed over. *)
MatchEnqueue(r) ==
    /\ pc[r] = "fan"
    /\ \/ loc[r].todo = {} /\ End(r) /\ UNCHANGED <<acts, recent>>
       \/ \E x \in loc[r].todo :
            /\ Goto(r, "fan", [loc[r] EXCEPT !.todo = @ \ {x}])
            /\ \/ /\ Len(acts) < MaxAct
                  /\ acts' = Append(acts, NewAct(x)) /\ recent' = recent + 1
               \/ UNCHANGED <<acts, recent>>
    /\ UNCHANGED <<rule, uncounted, centre, lastId, tag, hkVars>>

EventCutOff(r) == pc[r] \in {"budget", "fan"} /\ CutOff(r) /\ UNCHANGED autoVars

(* A job leaves the last hour. *)
AgeOut ==
    /\ recent > 0
    /\ recent' = recent - 1
    /\ UNCHANGED <<reqVars, rule, acts, uncounted, centre, lastId, tag, hkVars>>

-----------------------------------------------------------------------------
ActLabels == {"check", "webhook_post", "queue", "email_notify", "centre", "tag", "actor"}

ActClaim(r) ==
    \E j \in DOMAIN acts :
        /\ acts[j].status = "pending"
        /\ Begin(r, "check", [on |-> acts[j].rule, job |-> j, cc |-> 0])
        /\ acts' = [acts EXCEPT ![j].status = "running"]
        /\ UNCHANGED <<rule, recent, uncounted, centre, lastId, tag, hkVars>>

ActStep(r) == IF RuleAction[loc[r].on] \in CentreNames THEN "centre" ELSE RuleAction[loc[r].on]

(* "Re-check the rule is still enabled before acting." *)
ActCheck(r) ==
    /\ pc[r] = "check"
    /\ IF rule[loc[r].on] = "on" THEN Goto(r, ActStep(r), loc[r]) /\ UNCHANGED acts
       ELSE /\ End(r)
            /\ acts' = [acts EXCEPT ![loc[r].job].status = "done", ![loc[r].job].skipped = TRUE]
    /\ UNCHANGED <<rule, recent, uncounted, centre, lastId, tag, hkVars>>

(* webhook_post inserts the delivery row before it queues its job. *)
ActWebhookRow(r) ==
    /\ pc[r] = "webhook_post"
    /\ Goto(r, "queue", loc[r])
    /\ UNCHANGED autoVars

(* The job of the delivery, or of the e-mail. *)
ActQueue(r) ==
    /\ pc[r] \in {"queue", "email_notify"}
    /\ Goto(r, "actor", loc[r])
    /\ acts' = [acts EXCEPT ![loc[r].job].effects = @ + 1]
    /\ UNCHANGED <<rule, recent, uncounted, centre, lastId, tag, hkVars>>

(* categorize_transaction: upsert of the centre by its name, ... *)
ActCentre(r) ==
    /\ pc[r] = "centre"
    /\ LET name == RuleAction[loc[r].on]
           id == IF centre[name] # 0 THEN centre[name] ELSE lastId + 1
       IN  /\ id <= MaxId
           /\ centre' = [centre EXCEPT ![name] = id]
           /\ lastId' = IF id > lastId THEN id ELSE lastId
           /\ Goto(r, "tag", [loc[r] EXCEPT !.cc = id])
    /\ UNCHANGED <<rule, acts, recent, uncounted, tag, hkVars>>

Alive(id) == \E c \in CentreNames : centre[c] = id

(* Fault: postings that have a centre are given the rule's. *)
ActTagOver(r) ==
    /\ pc[r] = "tag" /\ Alive(loc[r].cc)
    /\ tag' = [p \in Posting |-> loc[r].cc]
    /\ acts' = [acts EXCEPT ![loc[r].job].effects = @ + 1]
    /\ Goto(r, "actor", loc[r])
    /\ UNCHANGED <<rule, recent, uncounted, centre, lastId, hkVars>>

(* ... then the postings that have none.  The foreign key refuses a centre *)
(* that was deleted meanwhile.                                             *)
ActTag(r) ==
    /\ pc[r] = "tag" /\ Alive(loc[r].cc)
    /\ tag' = [p \in Posting |-> IF tag[p] = 0 THEN loc[r].cc ELSE tag[p]]
    /\ acts' = [acts EXCEPT ![loc[r].job].effects = @ + 1]
    /\ Goto(r, "actor", loc[r])
    /\ UNCHANGED <<rule, recent, uncounted, centre, lastId, hkVars>>

(* created_by is read for the audit row; then the job is done. *)
ActDone(r) ==
    /\ pc[r] = "actor"
    /\ End(r)
    /\ acts' = [acts EXCEPT ![loc[r].job].status = "done"]
    /\ UNCHANGED <<rule, recent, uncounted, centre, lastId, tag, hkVars>>

(* Any statement of run may fail: another attempt, or dead. *)
ActFails(r) ==
    /\ pc[r] \in ActLabels
    /\ End(r)
    /\ LET j == loc[r].job
           tries == acts[j].tries + 1
       IN  acts' = [acts EXCEPT ![j].tries = tries,
                       ![j].status = IF tries >= MaxAttempts THEN "dead" ELSE "pending"]
    /\ UNCHANGED <<rule, recent, uncounted, centre, lastId, tag, hkVars>>

(* The job stays 'running'. *)
ActCutOff(r) == pc[r] \in ActLabels /\ CutOff(r) /\ UNCHANGED autoVars

(* handlers/dimensions.rs: a name is taken once. *)
CreateCostCentre(r, name) ==
    /\ centre[name] = 0 /\ lastId < MaxId
    /\ Serve(r, "centres")
    /\ centre' = [centre EXCEPT ![name] = lastId + 1] /\ lastId' = lastId + 1
    /\ UNCHANGED <<rule, acts, recent, uncounted, tag, hkVars>>

(* ON DELETE SET NULL *)
DeleteCostCentre(r, name) ==
    /\ centre[name] # 0
    /\ Serve(r, "centres")
    /\ centre' = [centre EXCEPT ![name] = 0]
    /\ tag' = [p \in Posting |-> IF tag[p] = centre[name] THEN 0 ELSE tag[p]]
    /\ UNCHANGED <<rule, acts, recent, uncounted, lastId, hkVars>>

OwnerNext ==
    \E r \in Req, x \in Rule : RuleCreate(r, x) \/ RuleToggle(r, x) \/ RuleDelete(r, x)

EventsNext ==
    \/ AgeOut
    \/ \E r \in Req :
        \/ \E data \in EventData : MatchRules(r, data)
        \/ MatchBudget(r) \/ MatchEnqueue(r) \/ EventCutOff(r)

ActionsNext ==
    \E r \in Req :
        \/ ActClaim(r) \/ ActCheck(r) \/ ActWebhookRow(r) \/ ActQueue(r)
        \/ ActCentre(r) \/ ActTag(r) \/ ActDone(r) \/ ActFails(r) \/ ActCutOff(r)
        \/ \E name \in CentreNames : CreateCostCentre(r, name) \/ DeleteCostCentre(r, name)

-----------------------------------------------------------------------------
(* The scheduler wakes up with a marker of another day. *)
HkStart(r) ==
    /\ marker[r] # hday
    /\ Begin(r, "hk", [on |-> "hk", next |-> 1, day |-> hday])
    /\ UNCHANGED autoVars

(* Fault: the marker is set when the first job is queued. *)
HkEnqueueMarksFirst(r) ==
    /\ pc[r] = "hk" /\ loc[r].next <= Len(Kinds(loc[r].day))
    /\ LET kind == Kinds(loc[r].day)[loc[r].next]
       IN  /\ queued' = [queued EXCEPT ![<<kind, loc[r].day>>] = @ + 1]
           /\ digests' = IF kind # "weekly_digest" THEN digests
                         ELSE [digests EXCEPT ![loc[r].day].pending = @ + 1]
    /\ marker' = [marker EXCEPT ![r] = loc[r].day]
    /\ Goto(r, "hk", [loc[r] EXCEPT !.next = @ + 1])
    /\ UNCHANGED <<ruleVars, hday, faulted>>

(* It queues the jobs of the day one by one, ... *)
HkEnqueue(r) ==
    /\ pc[r] = "hk" /\ loc[r].next <= Len(Kinds(loc[r].day))
    /\ LET kind == Kinds(loc[r].day)[loc[r].next]
       IN  /\ queued' = [queued EXCEPT ![<<kind, loc[r].day>>] = @ + 1]
           /\ digests' = IF kind # "weekly_digest" THEN digests
                         ELSE [digests EXCEPT ![loc[r].day].pending = @ + 1]
    /\ Goto(r, "hk", [loc[r] EXCEPT !.next = @ + 1])
    /\ UNCHANGED <<ruleVars, hday, marker, faulted>>

(* ... purges what is old, and sets its marker last. *)
HkMark(r) ==
    /\ pc[r] = "hk" /\ loc[r].next > Len(Kinds(loc[r].day))
    /\ marker' = [marker EXCEPT ![r] = loc[r].day]
    /\ End(r)
    /\ UNCHANGED <<ruleVars, hday, queued, digests, faulted>>

(* A statement of it fails: the next tick starts over. *)
HkFails(r) ==
    /\ pc[r] = "hk" /\ faulted < MaxFault
    /\ End(r) /\ faulted' = faulted + 1
    /\ UNCHANGED <<ruleVars, hday, marker, queued, digests>>

(* The process restarts: the marker is gone, and a digest it was working   *)
(* on stays 'running'.                                                     *)
HkRestart(r) ==
    /\ faulted < MaxFault
    /\ IF Busy(r) THEN End(r) ELSE UNCHANGED reqVars
    /\ marker' = [marker EXCEPT ![r] = 0] /\ faulted' = faulted + 1
    /\ digests' = IF pc[r] # "digest" THEN digests
                  ELSE [digests EXCEPT ![loc[r].day].stuck = @ + 1]
    /\ UNCHANGED <<ruleVars, hday, queued>>

HkNextDay ==
    /\ hday < LastDay
    /\ hday' = hday + 1
    /\ UNCHANGED <<reqVars, ruleVars, marker, queued, digests, faulted>>

(* A digest job is claimed and its sections are built. *)
DigestBuild(r) ==
    /\ \E d \in Mondays :
          /\ digests[d].pending > 0
          /\ Begin(r, "digest", [on |-> "digest", next |-> 0, day |-> d])
          /\ digests' = [digests EXCEPT ![d].pending = @ - 1]
    /\ UNCHANGED <<ruleVars, hday, marker, queued, faulted>>

(* The preference is read after the sections: declined; else sent by       *)
(* e-mail; or recorded in-app, where a failing INSERT is passed over.  A   *)
(* failing read or e-mail is tried again until execute in jobs/mod.rs has  *)
(* counted max_attempts (JobQueue's business), and is dead then.           *)
DigestSend(r) ==
    /\ pc[r] = "digest" /\ End(r)
    /\ \/ /\ \E how \in {"declined", "sent", "inApp", "unsaved"} :
                digests' = [digests EXCEPT ![loc[r].day][how] = @ + 1]
          /\ UNCHANGED faulted
       \/ /\ faulted < MaxFault /\ faulted' = faulted + 1
          /\ \E how \in {"pending", "dead"} :
                digests' = [digests EXCEPT ![loc[r].day][how] = @ + 1]
    /\ UNCHANGED <<ruleVars, hday, marker, queued>>

HousekeepingNext ==
    \/ HkNextDay
    \/ \E r \in Req :
        \/ HkStart(r) \/ HkEnqueue(r) \/ HkMark(r) \/ HkFails(r) \/ HkRestart(r)
        \/ DigestBuild(r) \/ DigestSend(r)

AutomationSpec ==
    /\ InitRequests /\ InitAutomation
    /\ [][OwnerNext \/ EventsNext \/ ActionsNext \/ HousekeepingNext]_<<reqVars, autoVars>>

-----------------------------------------------------------------------------
(* The rules, jobs, tags and markers have their types; a tag is the id of  *)
(* a centre that exists (postings.cost_center_id references cost_centers). *)
AutomationTypeOK ==
    /\ rule \in [Rule -> {"absent", "off", "on"}]
    /\ \A j \in DOMAIN acts :
          acts[j].rule \in Rule /\ acts[j].status \in {"pending", "running", "done", "dead"}
    /\ recent \in 0..Len(acts) /\ lastId \in 0..MaxId
    /\ \A p \in Posting : tag[p] = 0 \/ Alive(tag[p])
    /\ marker \in [Req -> 0..LastDay]

(* LEDGER_ACTION_BUDGET_PER_HOUR: with events that do not overlap, the     *)
(* budget is exceeded by less than the number of rules, since it is looked *)
(* at once for each event (match_and_enqueue), and by no more than the     *)
(* matches of events whose count failed and was taken for 0.               *)
BudgetBounded ==
    "budget" \notin raced => recent < ActionBudget + Cardinality(Rule) + uncounted

(* A job that is done has acted, or found its rule disabled; it has acted  *)
(* at most once per attempt (run, and execute in jobs/mod.rs).             *)
ActionsAccounted ==
    \A j \in DOMAIN acts :
        /\ acts[j].effects <= acts[j].tries + 1
        /\ acts[j].status = "done" => acts[j].skipped \/ acts[j].effects > 0

(* A rule that is disabled or deleted has no effect any more, unless that  *)
(* happens while a job of it runs (the re-check in run).                   *)
DisabledDoesNothing ==
    [][\A j \in DOMAIN acts :
          acts'[j].effects > acts[j].effects =>
              rule[acts[j].rule] = "on" \/ acts[j].rule \in raced]_autoVars

(* A posting keeps the centre it was given, by hand or by a rule, until    *)
(* the centre is deleted: no rule and no retry of one takes it over        *)
(* (the IS NULL of categorize_transaction).                                *)
CentreKept ==
    [][\A p \in Posting :
          tag[p] # 0 /\ tag'[p] # tag[p] =>
              tag'[p] = 0 /\ \A c \in CentreNames : centre'[c] # tag[p]]_autoVars

(* "Enqueue the periodic jobs once per day": a scheduler that counts a day *)
(* as done has queued every job of that day, although any of the inserts   *)
(* may have failed in between (housekeeping sets last_day last).           *)
MarkedDayComplete ==
    \A r \in Req : marker[r] # 0 =>
        \A i \in DOMAIN Kinds(marker[r]) : queued[<<Kinds(marker[r])[i], marker[r]>>] > 0

(* ... and queues a job of a day again only after a failure or a restart:  *)
(* every scheduler once, and once more for each of those.                  *)
HousekeptOnceEach == \A kd \in KindDays : queued[kd] <= Cardinality(Req) + faulted

(* Where the digests go: every digest queued on a Monday is pending, being *)
(* built, sent, recorded in-app or declined by the user, and is lost only  *)
(* by a restart that left it running, by in-app INSERTs that failed, or by *)
(* its last attempt (send_for_user; its "never silently lost" leaves these *)
(* three out).                                                             *)
DigestsAccounted ==
    \A d \in Mondays :
        digests[d].pending + digests[d].sent + digests[d].inApp + digests[d].unsaved
            + digests[d].declined + digests[d].stuck + digests[d].dead
            + Cardinality({r \in Req : pc[r] = "digest" /\ loc[r].day = d})
          = queued[<<"weekly_digest", d>>]

(* Every action, periodic job and digest is accounted for, within the      *)
(* budget of the hour.                                                     *)
AutomationSound ==
    /\ AutomationTypeOK
    /\ BudgetBounded
    /\ ActionsAccounted
    /\ MarkedDayComplete
    /\ HousekeptOnceEach
    /\ DigestsAccounted

(* A rule does nothing it was not asked for: none while it is disabled,    *)
(* and nothing over what a posting was already given.                      *)
RulesRestrained == DisabledDoesNothing /\ CentreKept
=============================================================================
