------------------------------ MODULE Reports ------------------------------
(***************************************************************************)
(* The financial statements (reports/*.rs), their pages                    *)
(* (handlers/reports.rs) and their JSON (api/reports.rs), as functions of  *)
(* the transactions of a ledger, and the cash flow forecast against the    *)
(* templates it looks ahead at.                                            *)
(*                                                                         *)
(* The statements do not select the same postings: the ones that LEFT JOIN *)
(* transactions still sum the postings of drafts and of later days; the    *)
(* others leave them out.  The page of the balance sheet takes its income  *)
(* and its balances with two reads.                                        *)
(***************************************************************************)
EXTENDS Requests, Sequences, FiniteSetsExt

CONSTANTS
    RepAccount,     \* account -> type, subtype, whether its name says cash or bank,
                    \* and whether its code begins with 1
    Shapes,         \* legs that transactions come with, each with its cost centre
    Centers,        \* cost centres
    RepDays,        \* days, 1 being the first
    FirstOfYear,    \* the first day of this year
    Today,          \* the last day that a page is read on
    MaxBooks,       \* bound: transactions
    Every,          \* days between two occurrences of the template
    Horizon,        \* days a forecast looks ahead
    TemplateLegs    \* what the template posts

ASSUME ReportDays == RepDays \subseteq Nat /\ Today \in RepDays /\ Every > 0

VARIABLES
    books,          \* transactions with their postings
    page,           \* the last balance sheet shown
    now, due,       \* the day; next_date of the template
    forecast,       \* a forecast somebody has read: the balance it shows for each day
    disturbed       \* history: something the forecast could not know has happened since

repVars == <<books, page, now, due, forecast, disturbed>>

NoPage == [fits |-> FALSE, ties |-> FALSE, shown |-> FALSE]

InitReports ==
    /\ books = {} /\ page = NoPage
    /\ now = 1 /\ due \in {1, 2}
    /\ forecast = <<>> /\ disturbed = FALSE

-----------------------------------------------------------------------------
Postings == UNION {{[txn |-> t, leg |-> t.legs[i], n |-> i] : i \in DOMAIN t.legs} : t \in books}

Counts(t) == t.kind \notin {"draft", "pending"}
Within(t, from, to) == Counts(t) /\ from <= t.date /\ t.date <= to

Amount(p, dir) == IF p.leg.dir = dir THEN p.leg.amount ELSE 0
Debits(ps) == MapThenSumSet(LAMBDA p : Amount(p, "DEBIT"), ps)
Credits(ps) == MapThenSumSet(LAMBDA p : Amount(p, "CREDIT"), ps)
NetOf(ps) == Debits(ps) - Credits(ps)

On(a) == {p \in Postings : p.leg.account = a}
OfType(type) == {a \in DOMAIN RepAccount : RepAccount[a].type = type}
OnType(type) == {p \in Postings : RepAccount[p.leg.account].type = type}
OnSub(subs) == {p \in Postings : RepAccount[p.leg.account].sub \in subs}
Positive(x) == IF x > 0 THEN x ELSE 0
DebitNormal(a) == RepAccount[a].type \in {"ASSET", "EXPENSE"}

(* The filter of a report: no cost centre, or one. *)
Sliced(ps, center) == IF center = "all" THEN ps ELSE {p \in ps : p.leg.center = center}
Untagged(ps) == {p \in ps : p.leg.center = "none"}

(* build_trial_balance_filtered: the LEFT JOIN keeps every posting of the  *)
(* account; a balance on the wrong side is shown as zero.                  *)
TrialBalance(center) ==
    LET net(a) == NetOf(Sliced(On(a), center))
    IN  [debit |-> MapThenSumSet(LAMBDA a : Positive(net(a)), OfType("ASSET") \cup OfType("EXPENSE")),
         credit |-> MapThenSumSet(LAMBDA a : Positive(-net(a)),
                        OfType("LIABILITY") \cup OfType("EQUITY") \cup OfType("INCOME"))]

(* build_balance_sheet: the sections list these subtypes only, so advances *)
(* to and payables of employees are in none.  Each subtype is of one type. *)
BalanceSheet(netIncome) ==
    LET assets == NetOf(OnSub({"CURRENT_ASSET", "FIXED_ASSET", "INTANGIBLE_ASSET", "OTHER_ASSET"}))
        owed == -NetOf(OnSub({"CURRENT_LIABILITY", "LONG_TERM_LIABILITY"}))
        equity == -NetOf(OnType("EQUITY"))
    IN  [assets |-> assets, liabEquity |-> owed + equity + netIncome]

(* A posting counts on the cash basis when another leg of its transaction  *)
(* is on an account named cash or bank.                                    *)
PeerIsCash(p) ==
    \E i \in DOMAIN p.txn.legs : i # p.n /\ RepAccount[p.txn.legs[i].account].cash

InBasis(ps, basis) == IF basis = "cash" THEN {p \in ps : PeerIsCash(p)} ELSE ps

(* unassigned_totals *)
UnassignedTotals(from, to, basis) ==
    LET scope == {p \in InBasis(Untagged(Postings), basis) : Within(p.txn, from, to)}
        of(type) == {p \in scope : RepAccount[p.leg.account].type = type}
    IN  [revenue |-> -NetOf(of("INCOME")), expense |-> NetOf(of("EXPENSE"))]

(* build_income_statement_filtered *)
IncomeStatement(from, to, basis, center) ==
    LET inScope == {p \in InBasis(Sliced(Postings, center), basis) : Within(p.txn, from, to)}
        scope(type, sub) == {p \in inScope : RepAccount[p.leg.account].type = type
                                                /\ RepAccount[p.leg.account].sub = sub}
        revenue == -NetOf(scope("INCOME", "OPERATING_INCOME"))
        cogs == NetOf(scope("EXPENSE", "COST_OF_GOODS_SOLD"))
        opex == NetOf(scope("EXPENSE", "OPERATING_EXPENSE"))
        nonOperating == -NetOf(scope("INCOME", "NON_OPERATING_INCOME"))
                            - NetOf(scope("EXPENSE", "NON_OPERATING_EXPENSE"))
        tax == NetOf(scope("EXPENSE", "TAX_EXPENSE"))
    IN  [revenue |-> revenue, operating |-> revenue - cogs - opex,
         net |-> revenue - cogs - opex + nonOperating - tax]

NetIncome(from, to) == IncomeStatement(from, to, "accrual", "all").net

(* Fault: the prior window ends on the first day of this one. *)
PriorWindowOverlaps(from, to) == <<from - (to - from), from>>

(* income_statement shows the window of equal length before this one. *)
PriorWindow(from, to) == <<from - (to - from) - 1, from - 1>>

(* cash_ids: here, and only here, an asset whose code begins with 1 is     *)
(* cash too.                                                               *)
CashIds == {a \in OfType("ASSET") : RepAccount[a].cash \/ RepAccount[a].code1}
CashPostings == {p \in Postings : p.leg.account \in CashIds}

(* The movement on one cash account in the window. *)
CashFlows(a, from, to) == NetOf({p \in On(a) : Within(p.txn, from, to)})

(* build_cash_flow: the opening balance includes the first day. *)
CashFlow(from, to) ==
    LET until(day) == NetOf({p \in CashPostings : Counts(p.txn) /\ p.txn.date <= day})
        flow(a) == CashFlows(a, from, to)
    IN  [movement |-> until(to) - until(from),
         inflows |-> MapThenSumSet(LAMBDA a : Positive(flow(a)), CashIds),
         outflows |-> MapThenSumSet(LAMBDA a : Positive(-flow(a)), CashIds)]

(* build_general_ledger: the entries of the window ... *)
LedgerEntries(a, from, to) == {p \in On(a) : Within(p.txn, from, to)}

(* ... and the balance of each account, of every posting it has. *)
LedgerBalance(a) == IF DebitNormal(a) THEN NetOf(On(a)) ELSE -NetOf(On(a))

(* api/reports.rs: sums by type of all postings, drafts included. *)
ApiTrialBalance == [debit |-> Debits(Postings), credit |-> Credits(Postings)]
ApiBalanceSheet ==
    [assets |-> NetOf(OnType("ASSET")), liabilities |-> -NetOf(OnType("LIABILITY")),
     equity |-> -NetOf(OnType("EQUITY"))]

(* Both as credits less debits, so that expense is negative. *)
ApiIncomeStatement ==
    [income |-> -NetOf(OnType("INCOME")), expense |-> -NetOf(OnType("EXPENSE"))]

-----------------------------------------------------------------------------
(* Whoever writes transactions, as the reports see them. *)
WriteTransaction(r, legs, kind, date) ==
    /\ Cardinality(books) < MaxBooks
    /\ Serve(r, "books")
    /\ books' = books \cup {[legs |-> legs, kind |-> kind, date |-> date]}
    /\ disturbed' = TRUE
    /\ UNCHANGED <<page, now, due, forecast>>

(* The page of the balance sheet: the income of the year of today, ... *)
SheetIncome(r, asOf) ==
    /\ Begin(r, "sheet", [on |-> "books", asOf |-> asOf, net |-> NetIncome(FirstOfYear, asOf)])
    /\ UNCHANGED repVars

(* What the page can tie with: entries that count, of this year, up to the *)
(* day of the page, and nothing with employees.                            *)
Fits(asOf) ==
    \A t \in books :
        /\ Within(t, FirstOfYear, asOf)
        /\ \A i \in DOMAIN t.legs : RepAccount[t.legs[i].account].sub # "EMPLOYEE_ADVANCE"

(* ... then the balances. *)
SheetShow(r) ==
    /\ pc[r] = "sheet"
    /\ LET s == BalanceSheet(loc[r].net)
       IN  page' = [fits |-> Fits(loc[r].asOf), ties |-> s.assets = s.liabEquity, shown |-> TRUE]
    /\ End(r)
    /\ UNCHANGED <<books, now, due, forecast, disturbed>>

StatementsNext ==
    \E r \in Req, legs \in Shapes, kind \in {"standard", "draft"}, date \in RepDays :
        WriteTransaction(r, legs, kind, date)

SheetNext ==
    \/ StatementsNext
    \/ \E r \in Req :
        \/ \E asOf \in RepDays : asOf <= Today /\ SheetIncome(r, asOf)
        \/ SheetShow(r)
        \/ CutOff(r) /\ UNCHANGED repVars

-----------------------------------------------------------------------------
(* today_cash_balance: whatever day the entries are of. *)
TodayCashBalance ==
    NetOf({p \in Postings : RepAccount[p.leg.account].cash /\ Counts(p.txn)})

(* load_active_templates: the cash legs of the template, signed. *)
TemplateCash ==
    LET cash == {i \in DOMAIN TemplateLegs : RepAccount[TemplateLegs[i].account].cash}
        signed(i) == IF TemplateLegs[i].dir = "DEBIT" THEN TemplateLegs[i].amount
                     ELSE -TemplateLegs[i].amount
    IN  MapThenSumSet(signed, cash)

(* materialize_forecast: the occurrences from today on, none before. *)
MaterializeForecast(from, day) ==
    {d \in from..day : d >= due /\ (d - due) % Every = 0}

(* build_forecast: today and the cash balance are read, ... *)
ForecastBalance(r) ==
    /\ forecast = <<>>
    /\ Begin(r, "forecast", [on |-> "forecast", today |-> now, cash |-> TodayCashBalance])
    /\ UNCHANGED repVars

(* ... then the templates; project adds up each day to the horizon.  What  *)
(* was posted between the two reads is in neither the balance nor, if the  *)
(* template made it, the occurrences.                                      *)
ForecastShow(r) ==
    /\ pc[r] = "forecast"
    /\ LET from == loc[r].today
       IN  /\ forecast' = [day \in from..(from + Horizon) |->
                  loc[r].cash + TemplateCash * Cardinality(MaterializeForecast(from, day))]
           /\ disturbed' = (due < from \/ TodayCashBalance # loc[r].cash)
    /\ End(r)
    /\ UNCHANGED <<books, page, now, due>>

(* The template engine posts the occurrence that is due and moves on. *)
TemplateFires ==
    /\ due <= now /\ Cardinality(books) < MaxBooks
    /\ books' = books \cup {[legs |-> TemplateLegs, kind |-> "standard", date |-> due]}
    /\ due' = due + Every
    /\ UNCHANGED <<reqVars, page, now, forecast, disturbed>>

DayGoesBy ==
    /\ now + 1 \in RepDays
    /\ now' = now + 1
    /\ UNCHANGED <<reqVars, books, page, due, forecast, disturbed>>

ForecastNext ==
    \/ TemplateFires \/ DayGoesBy
    \/ \E r \in Req :
        ForecastBalance(r) \/ ForecastShow(r) \/ (CutOff(r) /\ UNCHANGED repVars)
    \/ \E r \in Req, legs \in Shapes, date \in RepDays :
          forecast = <<>> /\ WriteTransaction(r, legs, "standard", date)

-----------------------------------------------------------------------------
(* Windows of days, for books that have something to report. *)
Windows == IF books = {} THEN {} ELSE {w \in RepDays \X RepDays : w[1] <= w[2]}

(* The books, the clock and the forecast have their types; the template is *)
(* never more than one occurrence ahead of the clock.                      *)
ReportsTypeOK ==
    /\ \A t \in books : t.date \in Nat /\ t.kind \in {"standard", "draft"}
    /\ now \in RepDays /\ due \in 1..(now + Every)
    /\ \A day \in DOMAIN forecast : forecast[day] \in Int

(* "Assets = Liabilities + Equity" on the page of the balance sheet, which *)
(* adds the year's income to equity: it holds for entries of this year up  *)
(* to the day of the page, unless one was written between the two reads.   *)
PageTies == (page.shown /\ page.fits /\ "books" \notin raced) => page.ties

(* The slices of all cost centres and the unassigned share add up to the   *)
(* whole net income, for every window and both bases                       *)
(* (build_income_statement_filtered and unassigned_totals).                *)
SlicesAddUp ==
    \A w \in Windows, basis \in {"accrual", "cash"} :
        LET from == w[1]  to == w[2]
            rest == UnassignedTotals(from, to, basis)
        IN  IncomeStatement(from, to, basis, "all").net =
              MapThenSumSet(LAMBDA c : IncomeStatement(from, to, basis, c).net, Centers)
                  + rest.revenue - rest.expense

(* The prior period and the period of an income statement have no gap and  *)
(* share no day: together they show the income of both (income_statement). *)
PriorAdjoins ==
    \A w \in Windows :
        LET prior == PriorWindow(w[1], w[2])
        IN  NetIncome(prior[1], prior[2]) + NetIncome(w[1], w[2]) = NetIncome(prior[1], w[2])

(* The movement of a cash flow statement is its inflows less its outflows, *)
(* except for what cash did on the first day: the flows have it and the    *)
(* movement does not, as the opening balance is that of the evening of     *)
(* from (build_cash_flow; reports/spec.md means the day before).           *)
CashFlowTies ==
    \A w \in Windows :
        LET f == CashFlow(w[1], w[2])
            firstDay == CashFlow(w[1], w[1])
        IN  f.movement + firstDay.inflows - firstDay.outflows = f.inflows - f.outflows

(* The general ledger and the trial balance agree for entries that count:  *)
(* an account's balance is the sum of its entries, in its normal           *)
(* direction, and with no account on the wrong side the columns are equal. *)
LedgersTie ==
    books # {} /\ (\A t \in books : Counts(t)) =>
        /\ \A a \in DOMAIN RepAccount :
            LedgerBalance(a) = IF DebitNormal(a) THEN NetOf(LedgerEntries(a, 0, Max(RepDays)))
                               ELSE -NetOf(LedgerEntries(a, 0, Max(RepDays)))
        /\ (\A a \in DOMAIN RepAccount : LedgerBalance(a) >= 0) =>
              TrialBalance("all").debit = TrialBalance("all").credit

(* The JSON statements agree with one another over any entries: debits and *)
(* credits are equal, and the assets are the rest with the income and the  *)
(* (negative) expense.                                                     *)
JsonTies ==
    books # {} =>
        /\ ApiTrialBalance.debit = ApiTrialBalance.credit
        /\ ApiBalanceSheet.assets =
               ApiBalanceSheet.liabilities + ApiBalanceSheet.equity
                   + ApiIncomeStatement.income + ApiIncomeStatement.expense

(* A forecast comes true: when the template engine has caught up and       *)
(* nothing else was written, the cash balance of a day is the one that was *)
(* forecast for it, unless an occurrence was overdue when it was read or   *)
(* cash moved between its two reads (materialize_forecast and project      *)
(* against run_due of the templates).                                      *)
ForecastComesTrue ==
    (~disturbed /\ due > now /\ now \in DOMAIN forecast) =>
        TodayCashBalance = forecast[now]

(* The reports agree with one another and with the books, for every window *)
(* of days and every choice of entries.                                    *)
ReportsTie ==
    /\ ReportsTypeOK
    /\ PageTies
    /\ SlicesAddUp
    /\ PriorAdjoins
    /\ CashFlowTies
    /\ LedgersTie
    /\ JsonTies
    /\ ForecastComesTrue
=============================================================================
