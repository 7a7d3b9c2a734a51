------------------------------ MODULE Accounts ------------------------------
(***************************************************************************)
(* The chart of accounts of one ledger (handlers/accounts.rs,              *)
(* api/accounts.rs), the ledger row itself (handlers/ledgers.rs,           *)
(* api/ledgers.rs), opening balances, and budgets with their alerts        *)
(* (handlers/budgets.rs, api/budgets.rs).                                  *)
(*                                                                         *)
(* update, toggle_archive, opening_balances_create and check_alerts read   *)
(* on the pool and write afterwards what they decided from it.             *)
(***************************************************************************)
EXTENDS Requests, Legs

CONSTANTS
    AcctId,         \* ids of accounts, "equity" the seeded contra account
    AcctName,       \* names users type
    Classes,        \* type and subtype that users submit
    OpeningForms,   \* forms of opening balances: account -> balance typed
    BudgetId,       \* ids of budgets
    BudgetTerms,    \* amount, and the part of it that raises the alert
    MaxPosted       \* bound: transactions of the ledger

(* "none" stands for no row. *)
ASSUME AccountsAssumption == "none" \notin AcctName

VARIABLES
    ledgerRow,      \* the ledger: its basis and append_only
    chart,          \* accounts
    posted,         \* transactions with their postings, drafts included
    budget,         \* budgets
    alerts,         \* budget_alerts of each budget (nothing acknowledges one)
    alertEvents     \* history: budget.threshold_crossed emitted for each

acctVars == <<ledgerRow, chart, posted, budget, alerts, alertEvents>>

NoLedger == [basis |-> "none", appendOnly |-> FALSE]
NoAccount == [name |-> "none"]
NoBudget == [at |-> 0]
Contra == "Opening Balances"

Chart == {a \in AcctId : chart[a].name # "none"}
Budgets == {b \in BudgetId : budget[b] # NoBudget}

InitAccounts ==
    /\ ledgerRow = NoLedger
    /\ chart = [a \in AcctId |-> NoAccount]
    /\ posted = <<>>
    /\ budget = [b \in BudgetId |-> NoBudget]
    /\ alerts = [b \in BudgetId |-> 0]
    /\ alertEvents = [b \in BudgetId |-> 0]

(* The rows of ids that another request is working on. *)
Met(ids) == {x \in ids : WorkingOn(x) # {}}

-----------------------------------------------------------------------------
(* The ledger. *)

DefaultChart ==
    [a \in AcctId |->
        IF a = "equity"
        THEN [name |-> Contra, type |-> "EQUITY", sub |-> "EQUITY", archived |-> FALSE]
        ELSE NoAccount]

(* create in handlers/ledgers.rs: the ledger and its default chart in one  *)
(* transaction, of which the contra account matters here; any basis but    *)
(* cash is accrual.                                                        *)
LedgerCreate(r, basis) ==
    /\ ledgerRow = NoLedger
    /\ Serve(r, "ledger")
    /\ ledgerRow' = [basis |-> IF basis = "cash" THEN "cash" ELSE "accrual",
                     appendOnly |-> FALSE]
    /\ chart' = DefaultChart
    /\ UNCHANGED <<posted, budget, alerts, alertEvents>>

(* create in api/ledgers.rs: the row alone, without a chart. *)
ApiLedgerCreate(r, basis) ==
    /\ ledgerRow = NoLedger /\ basis \in {"cash", "accrual"}
    /\ Serve(r, "ledger")
    /\ ledgerRow' = [basis |-> basis, appendOnly |-> FALSE]
    /\ UNCHANGED <<chart, posted, budget, alerts, alertEvents>>

(* update in api/ledgers.rs, with a basis it knows. *)
ApiLedgerUpdate(r, basis) ==
    /\ ledgerRow # NoLedger /\ basis \in {"cash", "accrual"}
    /\ Serve(r, "basis")
    /\ ledgerRow' = [ledgerRow EXCEPT !.basis = basis]
    /\ UNCHANGED <<chart, posted, budget, alerts, alertEvents>>

(* toggle_append_only: nothing to write when it is as asked. *)
ToggleAppendOnly(r, enabled) ==
    /\ ledgerRow # NoLedger /\ ledgerRow.appendOnly # enabled
    /\ Serve(r, "basis")
    /\ ledgerRow' = [ledgerRow EXCEPT !.appendOnly = enabled]
    /\ UNCHANGED <<chart, posted, budget, alerts, alertEvents>>

-----------------------------------------------------------------------------
(* Accounts. *)

(* AccountType::valid_subtypes, of the subtypes in use here. *)
ValidSubtypes ==
    [ASSET |-> {"CURRENT_ASSET", "FIXED_ASSET"}, LIABILITY |-> {"CURRENT_LIABILITY"},
     EQUITY |-> {"EQUITY"}, INCOME |-> {"OPERATING_INCOME"},
     EXPENSE |-> {"OPERATING_EXPENSE"}]

ValidClass(c) == c.type \in DOMAIN ValidSubtypes /\ c.sub \in ValidSubtypes[c.type]
NameFree(a, n) == \A x \in Chart \ {a} : chart[x].name # n

NewAccount(n, c, web) ==
    [name |-> n, type |-> c.type, sub |-> c.sub, archived |-> FALSE, web |-> web]

(* create: a known type with one of its subtypes; UNIQUE (ledger_id, name). *)
AccountCreate(r, a, n, c) ==
    /\ ledgerRow # NoLedger /\ a \notin Chart /\ ValidClass(c) /\ NameFree(a, n)
    /\ Serve(r, a)
    /\ chart' = [chart EXCEPT ![a] = NewAccount(n, c, TRUE)]
    /\ UNCHANGED <<ledgerRow, posted, budget, alerts, alertEvents>>

(* create in api/accounts.rs inserts the type and subtype of the body; the *)
(* table's CHECKs know each, not which go together.                        *)
ApiAccountCreate(r, a, n, c) ==
    /\ ledgerRow # NoLedger /\ a \notin Chart /\ NameFree(a, n)
    /\ Serve(r, a)
    /\ chart' = [chart EXCEPT ![a] = NewAccount(n, c, FALSE)]
    /\ UNCHANGED <<ledgerRow, posted, budget, alerts, alertEvents>>

HasPostings(a) == \E i \in DOMAIN posted : \E k \in DOMAIN posted[i].legs :
                      posted[i].legs[k].account = a

(* update: load_account first. *)
UpdateLoad(r, a, n, c) ==
    /\ a \in Chart
    /\ Begin(r, "update count",
             [on |-> a, name |-> n, asked |-> c, type |-> chart[a].type, sub |-> chart[a].sub])
    /\ UNCHANGED acctVars

(* posting_count: the type and subtype of the form count only while the    *)
(* account has no postings, and then must go together.                     *)
UpdateCount(r) ==
    /\ pc[r] = "update count"
    /\ LET d == loc[r]
           class == IF HasPostings(d.on) THEN [type |-> d.type, sub |-> d.sub] ELSE d.asked
       IN  IF HasPostings(d.on) \/ ValidClass(d.asked)
           THEN Goto(r, "update write", [on |-> d.on, name |-> d.name,
                                         type |-> class.type, sub |-> class.sub])
           ELSE End(r)
    /\ UNCHANGED acctVars

(* One UPDATE; UNIQUE (ledger_id, name) refuses a name in use. *)
UpdateWrite(r) ==
    /\ pc[r] = "update write"
    /\ LET d == loc[r]
       IN  IF NameFree(d.on, d.name)
           THEN chart' = [chart EXCEPT ![d.on].name = d.name, ![d.on].type = d.type,
                                       ![d.on].sub = d.sub]
           ELSE UNCHANGED chart
    /\ End(r)
    /\ UNCHANGED <<ledgerRow, posted, budget, alerts, alertEvents>>

(* update in api/accounts.rs: one UPDATE of the fields the body has. *)
ApiAccountUpdate(r, a, n, archived) ==
    /\ a \in Chart /\ NameFree(a, n)
    /\ Serve(r, a)
    /\ chart' = [chart EXCEPT ![a].name = n, ![a].archived = archived]
    /\ UNCHANGED <<ledgerRow, posted, budget, alerts, alertEvents>>

(* toggle_archive: SELECT, then UPDATE to the opposite of what was read. *)
ToggleRead(r, a) ==
    /\ a \in Chart
    /\ Begin(r, "toggle", [on |-> a, archived |-> ~chart[a].archived])
    /\ UNCHANGED acctVars

ToggleWrite(r) ==
    /\ pc[r] = "toggle"
    /\ chart' = [chart EXCEPT ![loc[r].on].archived = loc[r].archived]
    /\ End(r)
    /\ UNCHANGED <<ledgerRow, posted, budget, alerts, alertEvents>>

(* A row of transactions; held: it has waited for a second user. *)
Entry(kind, opening, legs) ==
    [kind |-> kind, opening |-> opening, held |-> kind = "pending", legs |-> legs]

(* PostingService::create and the draft writers, as the chart sees them: a *)
(* balanced transaction of two accounts, of any kind.                      *)
PostTwo(r, from, to, kind) ==
    /\ Len(posted) < MaxPosted /\ from # to /\ {from, to} \subseteq Chart /\ ~Busy(r)
    /\ posted' = Append(posted, Entry(kind, FALSE, <<Debit(to, 1), Credit(from, 1)>>))
    /\ raced' = raced \cup Met({from, to, "ledger"})
    /\ UNCHANGED <<pc, loc, ledgerRow, chart, budget, alerts, alertEvents>>

-----------------------------------------------------------------------------
(* Opening balances. *)

AllLegs(txns) == FoldLeft(LAMBDA legs, t : legs \o t.legs, <<>>, txns)

(* Fault: a liability is shown with the sign of an asset. *)
ComputeBalancesRaw(types, txns) ==
    [a \in DOMAIN types |-> Net(AllLegs(txns), a)]

(* compute_balances: every posting of the account, drafts too, in the      *)
(* account's normal direction.                                             *)
ComputeBalances(types, txns) ==
    [a \in DOMAIN types |->
        IF types[a] \in {"ASSET", "EXPENSE"} THEN Net(AllLegs(txns), a)
        ELSE -Net(AllLegs(txns), a)]

BalanceSheetAccounts ==
    {a \in Chart : chart[a].type \in {"ASSET", "LIABILITY", "EQUITY"}}

(* Fault: a draft of opening balances is taken for one; the posted are not. *)
OpeningExistsNever == \E i \in DOMAIN posted : posted[i].opening /\ posted[i].kind = "draft"

(* opening_balances_exist; a reversed entry is still one, an entry that    *)
(* waits for its second user, or was rejected, is none.                    *)
OpeningExists ==
    \E i \in DOMAIN posted : posted[i].opening /\ posted[i].kind \notin {"draft", "pending"}

(* opening_balances_create: the accounts, ... *)
OpeningRows(r, form) ==
    /\ ledgerRow # NoLedger
    /\ Begin(r, "opening balances",
             [on |-> "ledger", form |-> form,
              types |-> [a \in BalanceSheetAccounts |-> chart[a].type]])
    /\ UNCHANGED acctVars

(* ... their balances, ... *)
OpeningBalances(r) ==
    /\ pc[r] = "opening balances"
    /\ Goto(r, "opening exists", [on |-> "ledger", form |-> loc[r].form, types |-> loc[r].types,
                                  now |-> ComputeBalances(loc[r].types, posted)])
    /\ UNCHANGED acctVars

(* One leg for each typed balance that differs, in the normal direction. *)
OpeningLegs(d) ==
    LET typed == SetToSeq({a \in DOMAIN d.form \cap DOMAIN d.types : d.form[a] # d.now[a]})
        signed(a) == IF d.types[a] = "ASSET" THEN d.form[a] - d.now[a]
                     ELSE d.now[a] - d.form[a]
    IN  [i \in DOMAIN typed |->
            IF signed(typed[i]) > 0 THEN Debit(typed[i], signed(typed[i]))
            ELSE Credit(typed[i], -signed(typed[i]))]

(* ... and whether there is an entry; a form whose legs cancel out is      *)
(* refused like one without legs.                                          *)
OpeningCheck(r) ==
    /\ pc[r] = "opening exists"
    /\ LET legs == OpeningLegs(loc[r])
       IN  IF OpeningExists \/ Balanced(legs) THEN End(r)
           ELSE Goto(r, "opening contra", [on |-> "ledger", form |-> loc[r].form,
                                           types |-> loc[r].types, legs |-> legs])
    /\ UNCHANGED acctVars

(* The account of that name, or a new one; when another request has just   *)
(* inserted it, UNIQUE (ledger_id, name) ends this one.                    *)
OpeningContra(r) ==
    /\ pc[r] = "opening contra"
    /\ LET found == {a \in Chart : chart[a].name = Contra}
           legs == loc[r].legs
           net == Total(legs, "DEBIT") - Total(legs, "CREDIT")
           with(a) == [on |-> "ledger", form |-> loc[r].form, types |-> loc[r].types, contra |-> a,
                       legs |-> Append(legs, IF net > 0 THEN Credit(a, net) ELSE Debit(a, -net))]
       IN  IF found # {}
           THEN /\ \E a \in found : Goto(r, "opening post", with(a))
                /\ UNCHANGED chart
           ELSE \E a \in AcctId \ Chart :
                  /\ chart' = [chart EXCEPT ![a] =
                        NewAccount(Contra, [type |-> "EQUITY", sub |-> "EQUITY"], TRUE)]
                  /\ Goto(r, "opening post", with(a))
    /\ UNCHANGED <<ledgerRow, posted, budget, alerts, alertEvents>>

(* PostingService::create, in an open period; the entry is held when it    *)
(* reaches the approval threshold, which an owner may set at any time.     *)
OpeningPost(r) ==
    /\ pc[r] = "opening post" /\ Len(posted) < MaxPosted
    /\ \E kind \in {"standard", "pending"} :
          posted' = Append(posted, Entry(kind, TRUE, loc[r].legs))
    /\ pc' = [pc EXCEPT ![r] = "idle"]
    /\ loc' = [loc EXCEPT ![r] = Nothing]
    /\ raced' = raced \cup Met(AcctId)
    /\ UNCHANGED <<ledgerRow, chart, budget, alerts, alertEvents>>

(* approve_journal makes a held entry standard, reject_journal a draft. *)
DecideHeld(r, i, kind) ==
    /\ i \in DOMAIN posted /\ posted[i].kind = "pending" /\ ~Busy(r)
    /\ posted' = [posted EXCEPT ![i].kind = kind]
    /\ UNCHANGED <<reqVars, ledgerRow, chart, budget, alerts, alertEvents>>

-----------------------------------------------------------------------------
(* Budgets. *)

(* create of handlers/budgets.rs takes any amount, ... *)
BudgetCreate(r, b, a, t) ==
    /\ b \notin Budgets /\ alerts[b] = 0 /\ a \in Chart
    /\ Serve(r, b)
    /\ budget' = [budget EXCEPT ![b] = [acct |-> a, amount |-> t.amount, at |-> t.at]]
    /\ UNCHANGED <<ledgerRow, chart, posted, alerts, alertEvents>>

(* ... that of the API a positive one. *)
ApiBudgetCreate(r, b, a, t) == t.amount > 0 /\ BudgetCreate(r, b, a, t)

(* delete and the API's remove; the alerts go with the budget. *)
BudgetDelete(r, b) ==
    /\ b \in Budgets
    /\ Serve(r, b)
    /\ budget' = [budget EXCEPT ![b] = NoBudget]
    /\ alerts' = [alerts EXCEPT ![b] = 0]
    /\ alertEvents' = [alertEvents EXCEPT ![b] = 0]
    /\ UNCHANGED <<ledgerRow, chart, posted>>

(* The debits of the account in the last thirty days, drafts included. *)
Actual(a) ==
    Total(SelectSeq(AllLegs(posted), LAMBDA l : l.account = a), "DEBIT")

(* check_alerts for one budget: the sum against the threshold, ... *)
AlertActual(r, b) ==
    /\ b \in Budgets /\ budget[b].amount > 0 /\ Actual(budget[b].acct) >= budget[b].at
    /\ Begin(r, "alert exists", [on |-> b])
    /\ UNCHANGED acctVars

(* ... then whether an unacknowledged alert is there, ... *)
AlertExists(r) ==
    /\ pc[r] = "alert exists"
    /\ IF alerts[loc[r].on] > 0 THEN End(r) ELSE Goto(r, "alert insert", loc[r])
    /\ UNCHANGED acctVars

(* ... the INSERT, which fails when the budget is gone, ... *)
AlertInsert(r) ==
    /\ pc[r] = "alert insert"
    /\ LET b == loc[r].on
       IN  IF b \in Budgets
           THEN alerts' = [alerts EXCEPT ![b] = @ + 1] /\ Goto(r, "alert emit", loc[r])
           ELSE End(r) /\ UNCHANGED alerts
    /\ UNCHANGED <<ledgerRow, chart, posted, budget, alertEvents>>

(* ... and the event, which is never tried again. *)
AlertEmit(r) ==
    /\ pc[r] = "alert emit"
    /\ alertEvents' = [alertEvents EXCEPT ![loc[r].on] =
                          IF loc[r].on \in Budgets THEN @ + 1 ELSE @]
    /\ End(r)
    /\ UNCHANGED <<ledgerRow, chart, posted, budget, alerts>>

-----------------------------------------------------------------------------
AccountCutOff(r) == CutOff(r) /\ UNCHANGED acctVars

LedgerNext ==
    \E r \in Req :
        \/ \E basis \in {"cash", "accrual", "other"} :
              \/ LedgerCreate(r, basis) \/ ApiLedgerCreate(r, basis)
              \/ ApiLedgerUpdate(r, basis)
        \/ \E on \in BOOLEAN : ToggleAppendOnly(r, on)

ChartNext ==
    \E r \in Req :
        \/ LedgerCreate(r, "accrual")
        \/ UpdateCount(r) \/ UpdateWrite(r) \/ ToggleWrite(r) \/ AccountCutOff(r)
        \/ \E a \in AcctId :
              \/ ToggleRead(r, a)
              \/ \E b \in AcctId : PostTwo(r, a, b, "standard")
              \/ \E n \in AcctName :
                    \/ \E on \in BOOLEAN : ApiAccountUpdate(r, a, n, on)
                    \/ \E c \in Classes : \/ AccountCreate(r, a, n, c)
                                          \/ UpdateLoad(r, a, n, c)

OpeningNext ==
    \E r \in Req :
        \/ LedgerCreate(r, "other") \/ ApiLedgerCreate(r, "accrual")
        \/ OpeningBalances(r) \/ OpeningCheck(r) \/ OpeningContra(r) \/ OpeningPost(r)
        \/ AccountCutOff(r)
        \/ \E form \in OpeningForms : OpeningRows(r, form)
        \/ \E a \in AcctId :
              \/ \E n \in AcctName, c \in Classes : ApiAccountCreate(r, a, n, c)
              \/ \E b \in AcctId : PostTwo(r, a, b, "draft")
        \/ \E i \in DOMAIN posted, kind \in {"standard", "draft"} : DecideHeld(r, i, kind)

BudgetsNext ==
    \E r \in Req :
        \/ LedgerCreate(r, "cash")
        \/ AlertExists(r) \/ AlertInsert(r) \/ AlertEmit(r) \/ AccountCutOff(r)
        \/ \E a \in AcctId :
              \/ \E n \in AcctName, c \in Classes : Chart = {"equity"} /\ AccountCreate(r, a, n, c)
              \/ \E b \in AcctId, kind \in {"standard", "draft"} : PostTwo(r, a, b, kind)
              \/ \E b \in BudgetId, t \in BudgetTerms :
                    BudgetCreate(r, b, a, t) \/ ApiBudgetCreate(r, b, a, t)
        \/ \E b \in BudgetId : BudgetDelete(r, b) \/ AlertActual(r, b)

AccountsNext == LedgerNext \/ ChartNext \/ OpeningNext \/ BudgetsNext

AccountsSpec == InitRequests /\ InitAccounts /\ [][AccountsNext]_<<reqVars, acctVars>>

-----------------------------------------------------------------------------
(* The rows of the chart: names are unique, and an account entered or      *)
(* edited on the pages has a subtype of its type (create and update).      *)
AccountsTypeOK ==
    /\ ledgerRow.basis \in {"none", "cash", "accrual"}
    /\ \A a, b \in Chart : chart[a].name = chart[b].name => a = b
    /\ \A a \in Chart : (a # "equity" /\ chart[a].web) => ValidClass(chart[a])
    /\ \A b \in BudgetId : alerts[b] \in Nat

(* An account with postings keeps its type, so that no recorded balance    *)
(* changes sides, unless a posting to it overlapped the edit (update reads *)
(* posting_count before it writes).                                        *)
TypeKeptWithPostings ==
    [][\A a \in Chart \ raced' :
        HasPostings(a) => chart'[a].type = chart[a].type]_<<reqVars, acctVars>>

(* Posting opening balances leaves every typed account, other than the     *)
(* contra account, at the balance that was typed, whatever drafts and      *)
(* earlier entries it had and on whichever side it stands, unless another  *)
(* request met this one (opening_balances_create).                         *)
OpeningReached ==
    [][\A r \in Req :
        (pc[r] = "opening post" /\ posted' # posted /\ pc'[r] = "idle"
            /\ "ledger" \notin raced) =>
            LET d == loc[r]
                now == ComputeBalances(d.types, posted')
            IN  \A a \in (DOMAIN d.form \cap DOMAIN d.types) \ {d.contra} :
                    now[a] = d.form[a]]_<<reqVars, acctVars>>

(* "Opening balances have already been recorded" (accounts.rs): a ledger   *)
(* takes no second entry of them unless two forms overlapped, or every     *)
(* earlier one was held for approval, which opening_balances_exist passes  *)
(* over even though it may be approved later.                              *)
OpeningOnce ==
    "ledger" \notin raced =>
        \A i, j \in DOMAIN posted :
            (posted[i].opening /\ posted[j].opening /\ i < j) => posted[i].held

(* A budget raises one alert and one event, however often the page is      *)
(* visited, unless two visits overlapped (check_alerts).                   *)
AlertOnce ==
    \A b \in BudgetId \ raced : alerts[b] <= 1 /\ alertEvents[b] <= alerts[b]

(* The chart is well-formed, and what a ledger or a budget does once it    *)
(* does once.                                                              *)
AccountsSound ==
    /\ AccountsTypeOK
    /\ OpeningOnce
    /\ AlertOnce

(* Balances stand where the forms put them: an opening balance is reached, *)
(* and no recorded balance changes sides.                                  *)
BalancesKept == OpeningReached /\ TypeKeptWithPostings
=============================================================================
