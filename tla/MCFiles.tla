------------------------------ MODULE MCFiles ------------------------------
(***************************************************************************)
(* Imports, exchange rates and transfers, documents and backups, the       *)
(* conventions of the REST interface, the reports, and the web form of     *)
(* transactions with taxes and bulk actions, for TLC.  As in MCOffice, a   *)
(* behaviour is one of a single component, which part names; backups run   *)
(* over the documents.                                                     *)
(***************************************************************************)
EXTENDS Imports, Exchange, Backups, RestApi, Reports, TransactionForm

VARIABLE part

BillRow(day, payee, side, note, settled, amount) ==
    [day |-> day, payee |-> payee, side |-> side, note |-> note, settled |-> settled,
     amount |-> amount]
MCBill ==
    {[kind |-> "alipay",
      rows |-> <<BillRow("recent", "acme", "out", "else", TRUE, 2),
                 BillRow("recent", "acme", "other", "refund", TRUE, 1)>>],
     [kind |-> "wechat",
      rows |-> <<BillRow("recent", "wx acme", "out", "else", TRUE, 2),
                 BillRow("old", "acme", "in", "else", FALSE, 0)>>]}
MCBillOption == {[pending |-> b, other |-> b] : b \in BOOLEAN}
MCStatement7 ==
    {[kind |-> "ofx",
      rows |-> <<[day |-> "old", payee |-> "acme", amount |-> 1],
                 [day |-> "recent", payee |-> "acme", amount |-> Blank]>>]}
PlainText(text, legs) ==
    [text |-> text, payee |-> "acme", legs |-> legs, resolves |-> TRUE, day |-> "recent"]
MCPlain ==
    {<<PlainText("pay", <<Debit("food", 1), Debit("fee", 1), Credit("cash", 2)>>),
       PlainText("pay", <<Debit("food", 1), Credit("cash", 2)>>),
       PlainText("note", <<>>),
       PlainText("row", <<Debit("food", 2), Credit("cash", 2)>>)>>}
MCWizardFile ==
    {[columns |-> {"amount"},
      lines |-> <<[day |-> "recent", payee |-> "wx acme", amount |-> -2,
                   debit |-> 0, credit |-> 0]>>]}
MCNormal == [p \in {"acme", "wx acme"} |-> "acme"]

MCKeyDay == [d1 |-> 1, i1 |-> 1, d2 |-> 2]
MCKeyDirect == [d1 |-> TRUE, i1 |-> FALSE, d2 |-> TRUE]
MCFxMonth == [d \in 1..2 |-> 1]

MCUpload ==
    {[declared |-> "image", found |-> "image", ext |-> "png"],
     [declared |-> "image", found |-> "html", ext |-> "xlsx"],
     [declared |-> "plain", found |-> "sheet", ext |-> "xlsx"],
     [declared |-> "sheet", found |-> "sheet", ext |-> "xlsx"],
     [declared |-> "csv", found |-> "unknown", ext |-> "csv"]}
MCExtensionWins == [xlsx |-> "sheet"]

RepAcc(type, sub, cash) ==
    [type |-> type, sub |-> sub, cash |-> cash, code1 |-> sub = "OTHER_ASSET"]
MCRepAccount ==
    [cash |-> RepAcc("ASSET", "CURRENT_ASSET", TRUE),
     due |-> RepAcc("ASSET", "OTHER_ASSET", FALSE),
     staff |-> RepAcc("ASSET", "EMPLOYEE_ADVANCE", FALSE),
     loan |-> RepAcc("LIABILITY", "LONG_TERM_LIABILITY", FALSE),
     capital |-> RepAcc("EQUITY", "EQUITY", FALSE),
     sales |-> RepAcc("INCOME", "OPERATING_INCOME", FALSE),
     rent |-> RepAcc("EXPENSE", "OPERATING_EXPENSE", FALSE),
     interest |-> RepAcc("EXPENSE", "NON_OPERATING_EXPENSE", FALSE)]
RepLeg(account, side, amount, center) ==
    [account |-> account, dir |-> side, amount |-> amount, center |-> center]
Pair(dr, cr, amount, center) ==
    <<RepLeg(dr, "DEBIT", amount, center), RepLeg(cr, "CREDIT", amount, center)>>
SheetShapes ==
    {Pair("cash", "sales", 3, "c1"), Pair("staff", "cash", 1, "none"),
     Pair("interest", "loan", 1, "none")}
MCShapes ==
    SheetShapes \cup
    {Pair("due", "sales", 2, "none"), Pair("rent", "cash", 1, "c2"),
     Pair("cash", "capital", 2, "none"),
     <<RepLeg("cash", "DEBIT", 1, "none"), RepLeg("due", "DEBIT", 1, "none"),
       RepLeg("sales", "CREDIT", 2, "c1")>>}
MCTemplateLegs == <<RepLeg("rent", "DEBIT", 2, "c1"), RepLeg("cash", "CREDIT", 2, "none")>>

FormLine(leg, tax) == [tax |-> tax] @@ leg
PlainForm == <<FormLine(Debit("rent", 1), NoName), FormLine(Credit("bank", 1), NoName)>>
Taxed(amount, total) ==
    <<FormLine(Debit("rent", amount), "v1"), FormLine(Credit("bank", total), NoName)>>
MCTxnForms ==
    {PlainForm, Taxed(15, 17), Taxed(15, 15), Taxed(15, 16), Taxed(25, 27),
     Taxed(5, 5),
     <<FormLine(Credit("fees", 15), "v1"), FormLine(Credit("fees", 25), "v2"),
       FormLine(Debit("bank", 49), NoName)>>,
     <<FormLine(Debit("bank", 1), NoName), FormLine(Credit("bank", 1), NoName)>>,
     <<FormLine(Debit("rent", 1), NoName)>>}
MCRateTerms == {[num |-> 1, account |-> "vat"], [num |-> 2, account |-> "vat"],
                [num |-> 11, account |-> "vat"]}

(* No period but that of the plain-text entries is closed. *)
BillsStep == FilesNext /\ shut' \subseteq {"recent"}

(* One page of a bill is open beside the wizard. *)
WizardStep ==
    /\ WizardNext
    /\ Cardinality({r \in Req : loc'[r].on = "import" /\ loc'[r].kind = "bill"}) <= 1

(* The trail is kept for each pair alike: two days of one are enough. *)
RatesStep == RatesNext /\ \A r \in Req : loc'[r].on # "i1"

(* The feed brings one rate and overrides another. *)
PostingStep ==
    /\ PostingNext
    /\ \A k \in RateKey :
          rates'[k] # NoRate => rates'[k].rate = IF rates'[k].source = "ecb" THEN 1 ELSE 2

(* The foreign posting is of the first day; one revaluation is held. *)
RevaluationStep ==
    /\ RevaluationNext
    /\ \A r \in Req : loc'[r].on \in FxAccount => loc'[r].day = 1
    /\ Cardinality({i \in DOMAIN fxBook' : fxBook'[i].kind = "reval" /\ fxBook'[i].held}) <= 1

(* The ledger of a form is kept and not looked at again. *)
TransfersStep == TransfersNext /\ \A r \in Req : pc'[r] = "reverse" => loc'[r].ledger = "from"

(* Each rate has terms of its own; bulk actions meet what is held. *)
FormsStep ==
    /\ FormsNext
    /\ \A i \in DOMAIN entries' : entries'[i].kind = "standard"
    /\ \A t \in TaxRates' : taxRate'[t].num = IF t = "v1" THEN 1 ELSE 2

(* Bulk actions meet two plain entries, of which the first may be held. *)
BulkStep ==
    /\ BulkNext
    /\ \A i \in DOMAIN entries' : entries'[i].kind = "pending" => i = 1
    /\ \A r \in Req :
          loc'[r].on = "form" /\ "form" \in DOMAIN loc'[r] => loc'[r].form = PlainForm

(* What documents bring about needs one tick and no manual backup, ... *)
BackupsStep == BackupsNext /\ time' <= 1 /\ manual' = manual

(* ... and retention no documents, no drill, one worker, whose runs        *)
(* succeed or are over, and manual backups that are cut off at their list; *)
(* the second one comes while files are on a list.                         *)
AtWork == {w \in Instance : bpc[w] # "wait" \/ next[w] > 1}
RetentionStep ==
    /\ WorkersNext
    /\ \A x \in ran' : x.kind = "scheduled"
    /\ AtWork' \subseteq {CHOOSE w \in Instance : TRUE}
    /\ \A n \in 1..MaxManual :
          /\ manual[n].at \in {"insert", "list"} => manual'[n].at \in {"insert", "list", "prune"}
          /\ n > 1 /\ manual[n].at = "no" /\ manual'[n].at = "insert" => OnLists # {}
    /\ \A w \in Instance :
          /\ bpc'[w] = "wait" => bpc[w] \in {"wait", "prune_file"}
          /\ bpc'[w] = "prune" => bpc[w] \in {"prune", "mark"}

(* A call that is executed differs from the first one, and from those      *)
(* without a key, in its path or in its body.                              *)
IdempotencyStep ==
    /\ IdempotencyNext
    /\ \A r \in Req : pc'[r] = "api_execute" =>
          /\ loc'[r].call.path = "l1" \/ loc'[r].call.body = "b1"
          /\ \/ loc'[r].on = NoKey
             \/ (\A q \in Req : ~Busy(q)) /\ \A k \in Key : applied[k] = 0
             => loc'[r].call.path = "l1" /\ loc'[r].call.body = "b1"

(* With two readers in flight, fewer entries are enough. *)
FewEntries == Cardinality(books') <= 2 /\ \A t \in books' : t.legs \in SheetShapes
                                                    \cup {MCTemplateLegs}
SheetStep == SheetNext /\ FewEntries /\ \A t \in books' : t.kind = "draft" => t.date = 2

(* One forecast, and one entry beside those of the template. *)
ForecastStep ==
    /\ ForecastNext /\ "forecast" \notin raced'
    /\ Cardinality({t \in books' : t.legs # MCTemplateLegs}) <= 1
    /\ \A t \in books' : t.legs \in SheetShapes \cup {MCTemplateLegs}

Init ==
    /\ part \in {"bills", "wizard", "rates", "posting", "revaluation", "transfers",
                 "documents", "backups", "retention", "idempotency", "paging", "statements",
                 "sheet", "forecast", "forms", "bulk"}
    /\ InitRequests /\ InitImports /\ InitExchange /\ InitDocuments /\ InitBackups /\ InitApi
    /\ InitReports /\ InitForm
    /\ part = "forecast" \/ due = 1
    /\ part \in {"bills", "wizard"} \/ cashAccount = "cash"
    /\ part = "transfers" \/ cashIn = {}
    /\ part = "backups" \/ backend = "fs"
    /\ part \in {"bills", "wizard", "transfers"} \/ balanceTrigger
    /\ part \in {"bills", "wizard"} => (balanceTrigger <=> cashAccount = "cash")

ImportsPart ==
    \/ part = "bills" /\ BillsStep
    \/ part = "wizard" /\ WizardStep
ExchangePart ==
    \/ part = "rates" /\ RatesStep
    \/ part = "posting" /\ PostingStep
    \/ part = "revaluation" /\ RevaluationStep
    \/ part = "transfers" /\ TransfersStep
ApiPart ==
    \/ part = "idempotency" /\ IdempotencyStep
    \/ part = "paging" /\ PagingNext
ReportsPart ==
    \/ part = "statements" /\ StatementsNext /\ Cardinality(books') <= 2
    \/ part = "sheet" /\ SheetStep
    \/ part = "forecast" /\ ForecastStep
FormPart ==
    \/ part = "forms" /\ FormsStep
    \/ part = "bulk" /\ BulkStep

Next ==
    /\ UNCHANGED part
    /\ \/ ImportsPart /\ UNCHANGED <<fxVars, transfers, reversals, cashIn, halved,
                                     docVars, backupVars, apiVars, repVars, formVars>>
       \/ ExchangePart /\ UNCHANGED <<book, saved, shut, cashAccount, docVars, backupVars,
                                      apiVars, repVars, formVars>>
       \/ /\ part = "documents" /\ DocumentsNext
          /\ UNCHANGED <<importVars, exchangeVars, backupVars, apiVars, repVars, formVars>>
       \/ /\ \/ part = "backups" /\ BackupsStep
             \/ part = "retention" /\ RetentionStep
          /\ UNCHANGED <<importVars, exchangeVars, apiVars, repVars, formVars>>
       \/ /\ ApiPart
          /\ UNCHANGED <<importVars, exchangeVars, docVars, backupVars, repVars, formVars>>
       \/ /\ ReportsPart
          /\ UNCHANGED <<importVars, exchangeVars, docVars, backupVars, apiVars, formVars>>
       \/ /\ FormPart
          /\ UNCHANGED <<importVars, exchangeVars, docVars, backupVars, apiVars, repVars>>

Spec ==
    Init /\ [][Next]_<<part, reqVars, importVars, exchangeVars, docVars, backupVars,
                  apiVars, repVars, formVars>>

Symmetry == Permutations(Req)
=============================================================================
