------------------------------ MODULE MCOffice ------------------------------
(***************************************************************************)
(* Claims, invoices, stock and assets, and the chart of accounts for TLC.  *)
(* They share no table that one writes and another reads, so a behaviour   *)
(* is one of a single component: part says which, and the state spaces add *)
(* up instead of multiplying.                                              *)
(***************************************************************************)
EXTENDS Reimbursements, Invoicing, Stock, Accounts, TLC

VARIABLE part

MCAccess == [own |-> "owner", ed |-> "editor", view |-> "viewer"]
MCLine == {[acct |-> "travel", day |-> 1, amount |-> 3, tax |-> 1, advance |-> 1]}
MCOcrLine == {[acct |-> "other", day |-> 1, amount |-> 2, tax |-> 0, advance |-> 0]}
MCLevels == {[level |-> 1, min |-> 0, role |-> "Accountant"],
             [level |-> 2, min |-> 3, role |-> "Admin"]}
MCRules == {[kind |-> "category_cap", acct |-> "other", limit |-> 3, hard |-> TRUE]}

MCPurchases == {[n |-> 2, cost |-> 3], [n |-> 1, cost |-> 5]}
MCAdjustments == {-1, -3, 1}
MCAssetTerms ==
    {[cost |-> 10, salvage |-> 3, months |-> 3, method |-> "straight_line"],
     [cost |-> 10, salvage |-> 4, months |-> 4, method |-> "declining_balance"],
     [cost |-> 3, salvage |-> 4, months |-> 4, method |-> "declining_balance"]}

MCClasses ==
    {[type |-> "ASSET", sub |-> "CURRENT_ASSET"],
     [type |-> "LIABILITY", sub |-> "CURRENT_LIABILITY"],
     [type |-> "LIABILITY", sub |-> "FIXED_ASSET"]}
MCOpeningForms ==
    {[cash |-> 1, loan |-> 1], [cash |-> 2, loan |-> 3, equity |-> 1]}
MCBudgetTerms == {[amount |-> 2, at |-> 1], [amount |-> 0, at |-> 0]}

(* The second level is configured only beside the first, the operator's     *)
(* rule before anything is submitted.                                       *)
ClaimsStep ==
    /\ ClaimsNext
    /\ levels' = MCLevels \/ \A p \in levels' : p.level = 1
    /\ rules' # rules => \A c \in Claim : claim[c] = NoClaim \/ claim[c].status = "draft"

(* The chart is edited at one account beside the contra account. *)
ChartStep ==
    /\ ChartNext
    /\ chart'["loan"] = NoAccount
    /\ chart'["equity"] \in {NoAccount, DefaultChart["equity"]}

(* Opening balances meet an asset, a liability whose subtype is not one of *)
(* liabilities (as the API takes it) and drafts of the asset;              *)
(* the asset, perhaps the liability and a draft are entered before the     *)
(* first form, and held entries are decided between forms.                 *)
OpeningStep ==
    /\ OpeningNext
    /\ \A a \in {"cash", "loan"} :
        /\ chart'[a].name \in {"none", a, Contra}
        /\ chart'[a].name = a =>
              /\ chart'[a].type = IF a = "cash" THEN "ASSET" ELSE "LIABILITY"
              /\ chart'[a].sub # "CURRENT_LIABILITY"
    /\ \A i \in DOMAIN posted' : posted'[i].opening \/ posted'[i].legs[1].account = "cash"
    /\ (posted # <<>> \/ \E r \in Req : pc[r] # "idle") =>
          \A a \in {"cash", "loan"} : chart'[a].name \in {chart[a].name, Contra}
    /\ posted # <<>> => posted'[Len(posted')].opening
    /\ pc' # pc => chart["cash"] # NoAccount
    /\ posted' # posted => pc' # pc \/ \A r \in Req : pc[r] = "idle"

Init ==
    /\ part \in {"claims", "numbers", "estimates", "settlement", "reminders",
                 "stock", "assets", "lots", "ledger", "chart", "opening", "budgets"}
    /\ InitRequests /\ InitClaims /\ InitInvoicing /\ InitStock /\ InitAccounts
    /\ levels = {}
    /\ part = "claims" \/ (staff = ClaimUser /\ balanceTrigger)
    /\ part = "claims" => (balanceTrigger <=> staff # ClaimUser)
    /\ part = "stock" \/ method = "average"

ClaimsPart == part = "claims" /\ ClaimsStep
InvoicingPart ==
    \/ part = "numbers" /\ NumberingNext
    \/ part = "estimates" /\ EstimatesNext
    \/ part = "settlement" /\ SettlementNext
    \/ part = "reminders" /\ RemindersNext
StockPart ==
    \/ part = "stock" /\ StockNext
    \/ part = "assets" /\ AssetsNext
    \/ part = "lots" /\ LotsNext
AccountsPart ==
    \/ part = "ledger" /\ LedgerNext
    \/ part = "chart" /\ ChartStep
    \/ part = "opening" /\ OpeningStep
    \/ part = "budgets" /\ BudgetsNext

Next ==
    /\ UNCHANGED part
    /\ \/ ClaimsPart /\ UNCHANGED <<invVars, stockVars, acctVars>>
       \/ InvoicingPart /\ UNCHANGED <<claimVars, stockVars, acctVars>>
       \/ StockPart /\ UNCHANGED <<claimVars, invVars, acctVars>>
       \/ AccountsPart /\ UNCHANGED <<claimVars, invVars, stockVars>>

Spec == Init /\ [][Next]_<<part, reqVars, claimVars, invVars, stockVars, acctVars>>

Symmetry == Permutations(Req)
=============================================================================
