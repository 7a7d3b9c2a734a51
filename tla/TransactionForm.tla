-------------------------- MODULE TransactionForm --------------------------
(***************************************************************************)
(* The web form of transactions with its tax picker                        *)
(* (handlers/transactions.rs), tax rates and the tax report                *)
(* (handlers/taxes.rs), contacts (handlers/contacts.rs, api/contacts.rs),  *)
(* and the bulk actions that tag entries or give them a contact            *)
(* (handlers/transactions_bulk.rs).                                        *)
(*                                                                         *)
(* The locks and close checks of the service that writes the entry are     *)
(* those of module PostingService; here a draft and an entry differ only   *)
(* in their kind.  Amounts are in the smallest unit of the currency, and a *)
(* rate is a number of RateUnit-ths.                                       *)
(***************************************************************************)
EXTENDS Requests, Legs

CONSTANTS
    TaxId,          \* ids of tax rates
    RateUnit,       \* the rate of 100 %
    RateTerms,      \* rate and account of the rates users enter
    TxnForms,       \* forms: sequences of lines
    Tag, Contact,   \* names of tags, ids of contacts
    ContactName,    \* names of contacts
    MaxForms      \* bound: entries of the ledger

VARIABLES
    taxRate,        \* tax_rates
    entries,        \* transactions, with their postings and posting_taxes
    tagNames,       \* tags
    contact         \* contacts: id -> name

formVars == <<taxRate, entries, tagNames, contact>>

NoTax == [active |-> FALSE]
NoName == "none"
TaxRates == {t \in TaxId : taxRate[t] # NoTax}
Contacts == {c \in Contact : contact[c] # NoName}
LiveEntries == {i \in DOMAIN entries : ~entries[i].gone}

InitForm ==
    /\ taxRate = [t \in TaxId |-> NoTax]
    /\ entries = <<>>
    /\ tagNames = {}
    /\ contact = [c \in Contact |-> NoName]

-----------------------------------------------------------------------------
(* Tax rates. *)

(* create in handlers/taxes.rs: a rate between 0 and 1, active. *)
RateCreate(r, t, terms) ==
    /\ taxRate[t] = NoTax /\ terms.num \in 0..RateUnit
    /\ Serve(r, "form")
    /\ taxRate' = [taxRate EXCEPT ![t] = [active |-> TRUE] @@ terms]
    /\ UNCHANGED <<entries, tagNames, contact>>

(* toggle: UPDATE ... SET is_active = NOT is_active. *)
RateToggle(r, t) ==
    /\ t \in TaxRates
    /\ Serve(r, "form")
    /\ taxRate' = [taxRate EXCEPT ![t].active = ~@]
    /\ UNCHANGED <<entries, tagNames, contact>>

-----------------------------------------------------------------------------
(* The form. *)

(* load_active_tax_rates. *)
LoadActiveTaxRates == [t \in {x \in TaxRates : taxRate[x].active} |-> taxRate[t]]

(* create: the body, and the active rates of that moment. *)
FormRates(r, form, draft) ==
    /\ Begin(r, "form check",
             [on |-> "form", form |-> form, draft |-> draft, rates |-> LoadActiveTaxRates])
    /\ UNCHANGED formVars

(* parse_lines and the checks of the typed lines: two or more of them,     *)
(* positive, and no account on both sides.                                 *)
LinesAccepted(lines) ==
    /\ Len(lines) >= 2
    /\ \A i \in DOMAIN lines : lines[i].amount > 0
    /\ \A i, j \in DOMAIN lines :
          lines[i].account = lines[j].account => lines[i].dir = lines[j].dir

TaxOf(line, rate) == RoundHalfEven(line.amount * rate.num, RateUnit)

TaxedLines(lines) ==
    SelectSeq([i \in DOMAIN lines |-> i], LAMBDA i : lines[i].tax # NoName)

(* Fault: the link names the leg that was just pushed, not the line. *)
TaxLinksOfLeg(lines, rates) ==
    [k \in DOMAIN TaxedLines(lines) |->
        LET line == lines[TaxedLines(lines)[k]]
        IN  [posting |-> Len(lines) + k, rate |-> line.tax, base |-> line.amount,
             tax |-> TaxOf(line, rates[line.tax])]]

(* One link of each taxed line, in line order: what it taxes and how much. *)
TaxLinks(lines, rates) ==
    [k \in DOMAIN TaxedLines(lines) |->
        LET i == TaxedLines(lines)[k]
            line == lines[i]
        IN  [posting |-> i, rate |-> line.tax, base |-> line.amount,
             tax |-> TaxOf(line, rates[line.tax])]]

(* The leg of each taxed line, on the side of the line. *)
TaxLegs(lines, rates) ==
    [k \in DOMAIN TaxedLines(lines) |->
        LET line == lines[TaxedLines(lines)[k]]
            rate == rates[line.tax]
        IN  Leg(rate.account, line.dir, TaxOf(line, rate))]

LineLegs(lines) ==
    [i \in DOMAIN lines |-> Leg(lines[i].account, lines[i].dir, lines[i].amount)]

(* The entry must balance with its tax. *)
FormBalances(lines, rates) == Balanced(LineLegs(lines) \o TaxLegs(lines, rates))

(* Every error renders the form again; nothing was written. *)
FormCheck(r) ==
    /\ pc[r] = "form check"
    /\ LET d == loc[r]
           known == \A i \in DOMAIN d.form : d.form[i].tax \in DOMAIN d.rates \cup {NoName}
       IN  IF LinesAccepted(d.form) /\ known /\ FormBalances(d.form, d.rates)
           THEN Goto(r, "form write",
                     [on |-> "form", draft |-> d.draft, links |-> TaxLinks(d.form, d.rates),
                      legs |-> LineLegs(d.form) \o TaxLegs(d.form, d.rates)])
           ELSE End(r)
    /\ UNCHANGED formVars

(* PostingService::create or create_draft: the transaction, its postings   *)
(* and posting_taxes in one commit; create holds an entry above the        *)
(* threshold as pending.  CHECK (amount > 0) refuses a tax that rounds to  *)
(* nothing, and the whole entry with it.                                   *)
FormWrite(r) ==
    /\ pc[r] = "form write" /\ Len(entries) < MaxForms
    /\ LET d == loc[r]
       IN  \E kind \in IF d.draft THEN {"draft"} ELSE {"standard", "pending"} :
              entries' = IF InsertsPass(d.legs, FALSE)
                         THEN Append(entries, [legs |-> d.legs, links |-> d.links,
                                               kind |-> kind, tags |-> {},
                                               contact |-> NoName, gone |-> FALSE])
                         ELSE entries
    /\ End(r)
    /\ UNCHANGED <<taxRate, tagNames, contact>>

(* post_draft, approve_journal and reject_journal: a draft is posted or    *)
(* held, what is held is posted or a draft again.                          *)
FormDecide(r, i, kind) ==
    /\ ~Busy(r) /\ i \in LiveEntries
    /\ <<entries[i].kind, kind>> \in {<<"draft", "standard">>, <<"draft", "pending">>,
                                     <<"pending", "standard">>, <<"pending", "draft">>}
    /\ entries' = [entries EXCEPT ![i].kind = kind]
    /\ UNCHANGED <<reqVars, taxRate, tagNames, contact>>

(* A draft is discarded: postings and links go by cascade.  (Reversals and *)
(* bulk deletes add entries without links: module TransactionWriters.)     *)
DraftDiscard(r, i) ==
    /\ i \in LiveEntries /\ entries[i].kind = "draft"
    /\ Serve(r, "bulk")
    /\ entries' = [entries EXCEPT ![i] = [legs |-> <<>>, links |-> <<>>, kind |-> "draft",
                                          tags |-> {}, contact |-> NoName, gone |-> TRUE]]
    /\ UNCHANGED <<taxRate, tagNames, contact>>

-----------------------------------------------------------------------------
(* The tax report. *)

AllLinks == FoldLeft(LAMBDA links, e : links \o e.links, <<>>, entries)
PostedLegs == FoldLeft(LAMBDA legs, e : legs \o e.legs, <<>>, entries)

(* report: the sums of a rate, whatever the side and the kind. *)
TaxReport(t) ==
    LET of == SelectSeq(AllLinks, LAMBDA k : k.rate = t)
    IN  [base |-> Summed([i \in DOMAIN of |-> of[i].base]),
         tax |-> Summed([i \in DOMAIN of |-> of[i].tax])]

(* export_csv: a row per link, the taxable amount being that of its        *)
(* posting.                                                                *)
TaxExport ==
    LET rows(e) == [k \in DOMAIN e.links |->
                       [rate |-> e.links[k].rate, tax |-> e.links[k].tax,
                        taxable |-> e.legs[e.links[k].posting].amount]]
    IN  FoldLeft(LAMBDA all, e : all \o rows(e), <<>>, entries)

-----------------------------------------------------------------------------
(* Contacts and bulk actions. *)

NameOpen(c, n) == \A x \in Contacts \ {c} : contact[x] # n

(* create of both interfaces; UNIQUE (ledger_id, name). *)
ContactCreate(r, c, n) ==
    /\ c \notin Contacts /\ NameOpen(c, n)
    /\ Serve(r, "contacts")
    /\ contact' = [contact EXCEPT ![c] = n]
    /\ UNCHANGED <<taxRate, entries, tagNames>>

(* update in api/contacts.rs: one UPDATE. *)
ContactUpdate(r, c, n) ==
    /\ c \in Contacts /\ NameOpen(c, n)
    /\ Serve(r, "contacts")
    /\ contact' = [contact EXCEPT ![c] = n]
    /\ UNCHANGED <<taxRate, entries, tagNames>>

(* tag_action: the tag and its rows in one transaction. *)
BulkTag(r, ids, tag) ==
    /\ ids # {}
    /\ Serve(r, "bulk")
    /\ tagNames' = tagNames \cup {tag}
    /\ entries' = [i \in DOMAIN entries |->
                      IF i \in ids \cap LiveEntries
                      THEN [entries[i] EXCEPT !.tags = @ \cup {tag}]
                      ELSE entries[i]]
    /\ UNCHANGED <<taxRate, contact>>

(* untag_action: a tag that the ledger knows. *)
BulkUntag(r, ids, tag) ==
    /\ ids # {} /\ tag \in tagNames
    /\ Serve(r, "bulk")
    /\ entries' = [i \in DOMAIN entries |->
                      IF i \in ids \cap LiveEntries
                      THEN [entries[i] EXCEPT !.tags = @ \ {tag}]
                      ELSE entries[i]]
    /\ UNCHANGED <<taxRate, tagNames, contact>>

(* contact_action: whether the contact is the ledger's, ... *)
BulkContact(r, ids, c) ==
    /\ ids # {} /\ c \in Contacts
    /\ Begin(r, "bulk contact", [on |-> "bulk", ids |-> ids, left |-> ids, contact |-> c])
    /\ UNCHANGED formVars

(* ... then an UPDATE on the pool for each row, which a row that is gone   *)
(* does not stop.                                                          *)
BulkContactRow(r) ==
    /\ pc[r] = "bulk contact"
    /\ \E i \in loc[r].left :
        LET left == loc[r].left \ {i}
        IN  /\ entries' = IF i \in LiveEntries THEN [entries EXCEPT ![i].contact = loc[r].contact]
                          ELSE entries
            /\ Goto(r, IF left = {} THEN "bulk log" ELSE pc[r], [loc[r] EXCEPT !.left = left])
    /\ UNCHANGED <<taxRate, tagNames, contact>>

(* The audit row "bulk_contact" says how many were updated. *)
BulkContactLog(r) == pc[r] = "bulk log" /\ End(r) /\ UNCHANGED formVars

FormCutOff(r) == CutOff(r) /\ UNCHANGED formVars

FormsNext ==
    \E r \in Req :
        \/ \E t \in TaxId :
              \/ RateToggle(r, t)
              \/ \E terms \in RateTerms : RateCreate(r, t, terms)
        \/ \E form \in TxnForms : FormRates(r, form, FALSE)
        \/ FormCheck(r) \/ FormWrite(r) \/ FormCutOff(r)

BulkNext ==
    \E r \in Req :
        \/ \E form \in TxnForms, draft \in BOOLEAN : FormRates(r, form, draft)
        \/ FormCheck(r) \/ FormWrite(r) \/ FormCutOff(r)
        \/ BulkContactRow(r) \/ BulkContactLog(r)
        \/ \E i \in DOMAIN entries :
              \/ DraftDiscard(r, i)
              \/ \E kind \in {"draft", "standard", "pending"} : FormDecide(r, i, kind)
        \/ \E c \in Contact, n \in ContactName : ContactCreate(r, c, n) \/ ContactUpdate(r, c, n)
        \/ \E ids \in SUBSET DOMAIN entries :
              \/ \E tag \in Tag : BulkTag(r, ids, tag) \/ BulkUntag(r, ids, tag)
              \/ \E c \in Contact : BulkContact(r, ids, c)

-----------------------------------------------------------------------------
(* The rows: whatever the tax rounds to, an entry of the form balances     *)
(* with its tax legs, its contact is one of the ledger's, and no two       *)
(* contacts share a name (create, UNIQUE).                                 *)
FormTypeOK ==
    /\ \A i \in DOMAIN entries :
        /\ Balanced(entries[i].legs)
        /\ entries[i].tags \subseteq tagNames
        /\ entries[i].contact \in Contacts \cup {NoName}
    /\ \A c, d \in Contacts : contact[c] = contact[d] => c = d

(* The tax report agrees with the ledger: the tax it shows for the rates   *)
(* of an account is what was posted to that account, as long as no line    *)
(* names the account itself and nothing is reversed (create appends the    *)
(* legs, the service the links).                                           *)
TaxReportTies ==
    \A a \in {taxRate[t].account : t \in TaxRates} :
        LET legs == SelectSeq(PostedLegs, LAMBDA l : l.account = a)
            of == {t \in TaxRates : taxRate[t].account = a}
        IN  Summed([k \in DOMAIN legs |-> legs[k].amount])
                = FoldSet(LAMBDA t, sum : sum + TaxReport(t).tax, 0, of)

(* The rows of the CSV add up to the report, rate by rate: the posting a   *)
(* link names carries the amount that was taxed (export_csv, report).      *)
ExportMatchesReport ==
    \A t \in TaxRates :
        LET rows == SelectSeq(TaxExport, LAMBDA x : x.rate = t)
        IN  TaxReport(t) = [base |-> Summed([i \in DOMAIN rows |-> rows[i].taxable]),
                            tax |-> Summed([i \in DOMAIN rows |-> rows[i].tax])]

(* A bulk action that comes to its audit row has given the contact to      *)
(* every selected row that is still there, also when one of them was       *)
(* discarded before the request; one that overlapped another is excepted   *)
(* (contact_action, row by row on the pool).                               *)
ContactReached ==
    \A r \in Req :
        (pc[r] = "bulk log" /\ "bulk" \notin raced) =>
            \A i \in loc[r].ids \cap LiveEntries : entries[i].contact = loc[r].contact

(* What the form books, the tax report and its export say the same, and a  *)
(* bulk action reaches all of its rows.                                    *)
FormSound ==
    /\ FormTypeOK
    /\ TaxReportTies
    /\ ExportMatchesReport
    /\ ContactReached
=============================================================================
