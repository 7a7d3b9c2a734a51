---------------------------- MODULE MCSchedules ----------------------------
(***************************************************************************)
(* What runs on a clock, what comes from the bank, the audit log, the      *)
(* access rules, automation and plain-text interchange, for TLC.  As in    *)
(* MCOffice, a behaviour is one of a single component, which part names:   *)
(* they share no table that one writes and another reads.                  *)
(***************************************************************************)
EXTENDS Recurring, Banking, AuditChain, Access, Automation, Interchange, TLC

VARIABLE part

MCDays == {Date(2026, 1, 31), Date(2026, 2, 28)}
MCStartDates == {Date(2026, 1, 28), Date(2026, 1, 31)}
MCEndDates == {Date(2026, 1, 31)}

(* Recurring journals, the largest part, start on the last of a month and  *)
(* have one limit at a time: an end date, a cap or a pause before the      *)
(* first run.  A preview is of one of the first two periods.              *)
JournalsStep ==
    /\ RecurringJournalsNext
    /\ \A t \in Live(journal') :
        LET j == journal'[t] IN
        /\ j.start = Date(2026, 1, 31)
        /\ <<j.end # 0, j.cap # 0, j.paused>> \in
              {<<FALSE, FALSE, FALSE>>, <<TRUE, FALSE, FALSE>>, <<FALSE, TRUE, FALSE>>,
               <<FALSE, FALSE, TRUE>>}
        /\ j.paused => j.next = j.start
    /\ \A r \in Req :
        pc'[r] = "preview" /\ pc[r] = "idle" =>
            loc'[r].at \in {Date(2026, 1, 31), Date(2026, 2, 28)}

MCRowAmount == [x1 |-> 1, x2 |-> 2]
MCCloseDate == [s1 |-> 1, s2 |-> 2]
MCTxnDate == [b1 |-> 1, b2 |-> 3]
MCUuid == CHOOSE f \in [Entry -> 1..LastUuid] : \A a, b \in Entry : f[a] = f[b] => a = b

MCRuleConditions ==
    [hook |-> {[key |-> "amount_gte", value |-> 2]},
     food |-> {[key |-> "description_contains", value |-> "lunch"]}]
MCRuleAction == [hook |-> "webhook_post", food |-> "food"]
MCEventData == {[description |-> {"lunch"}, amount |-> 2], [description |-> {"lunch"}]}

PlainChart == {<<"Cash">>, <<"Petty", " ", "Cash">>}
MCAcctNames == {<<"Cash">>, <<"Petty", " ", "Cash">>, <<"Petty", "-", "Cash">>}
MCTargetCharts == {PlainChart, MCAcctNames, MCAcctNames \cup {<<"Petty", "_", "Cash">>}}

(* Accounts are entered in one order and money leaves one of them, the     *)
(* first time in a foreign currency; one entry is refused, exports do not  *)
(* overlap, and nothing follows on imports that did.                       *)
InterchangeStep ==
    /\ InterchangeNext
    /\ names' # names => names' \in {{<<"Cash">>}, PlainChart, MCAcctNames}
    /\ \A i \in DOMAIN source' :
          /\ source'[i].legs[2].name = <<"Cash">>
          /\ source'[i].currency = IF i = 1 THEN "EUR" ELSE "USD"
    /\ Cardinality(refused') <= 1 /\ "export" \notin raced' /\ "import" \notin raced

(* Requests overlap on one session at most. *)
ReconcileStep == ReconcileNext /\ raced' # StmtSession

(* A single job runs against its owner's changes and the cost centres. *)
ActionsStep ==
    \/ OwnerNext \/ ActionsNext
    \/ EventsNext /\ acts = <<>> /\ Len(acts') <= 1
    \/ acts # <<>> /\ \E r \in Req : EventCutOff(r)

Init ==
    /\ part \in {"templates", "invoices", "journals", "amortization",
                 "feed", "statement", "reconcile", "rules", "audit",
                 "login", "factor", "session", "token", "admin", "sharing",
                 "matching", "actions", "housekeeping", "interchange"}
    /\ InitRequests /\ InitRecurring /\ InitBanking /\ InitAudit /\ InitAccess
    /\ InitAutomation /\ InitInterchange
    /\ part = "interchange" \/ targetChart = PlainChart
    /\ \/ part \in {"templates", "invoices", "journals", "amortization"}
       \/ today = Date(2026, 1, 31)
    /\ part = "rules" \/ category = [t \in BankTxn |-> "rent"]

RecurringPart ==
    \/ part = "templates" /\ TemplatesNext
    \/ part = "invoices" /\ RecurringInvoicesNext
    \/ part = "journals" /\ JournalsStep
    \/ part = "amortization" /\ AmortizationNext
BankingPart ==
    \/ part = "feed" /\ FeedNext
    \/ part = "statement" /\ StatementNext
    \/ part = "reconcile" /\ ReconcileStep
    \/ part = "rules" /\ RulesNext
(* Only sessions need the time for their absolute window to go by. *)
AccessPart ==
    \/ part = "login" /\ LoginNext /\ now' <= 4
    \/ part = "factor" /\ SecondFactorNext /\ now' <= 4
    \/ part = "session" /\ SessionNext
    \/ part = "token" /\ TokenNext /\ now' <= 4
    \/ part = "admin" /\ AdminNext
    \/ part = "sharing" /\ SharingNext

AutomationPart ==
    \/ part = "matching" /\ (OwnerNext \/ EventsNext)
    \/ part = "actions" /\ ActionsStep
    \/ part = "housekeeping" /\ HousekeepingNext

Next ==
    /\ UNCHANGED part
    /\ \/ RecurringPart /\ UNCHANGED <<bankVars, auditVars, accessVars, autoVars, ixVars>>
       \/ BankingPart /\ UNCHANGED <<recVars, auditVars, accessVars, autoVars, ixVars>>
       \/ /\ part = "audit" /\ AuditNext
          /\ UNCHANGED <<recVars, bankVars, accessVars, autoVars, ixVars>>
       \/ AccessPart /\ UNCHANGED <<recVars, bankVars, auditVars, autoVars, ixVars>>
       \/ AutomationPart /\ UNCHANGED <<recVars, bankVars, auditVars, accessVars, ixVars>>
       \/ /\ part = "interchange" /\ InterchangeStep
          /\ UNCHANGED <<recVars, bankVars, auditVars, accessVars, autoVars>>

Spec ==
    Init /\ [][Next]_<<part, reqVars, recVars, bankVars, auditVars, accessVars, autoVars,
                  ixVars>>

Symmetry == Permutations(Req)
=============================================================================
