----------------------------- MODULE Invoicing -----------------------------
(***************************************************************************)
(* Invoices, estimates and payments of one ledger in one year:             *)
(* handlers/invoices.rs, estimates.rs, invoice_share.rs, payments.rs,      *)
(* api/invoices.rs, api/payments.rs, the number sequence of                *)
(* domain/close_controls.rs and the reminders of jobs/invoice_reminders.rs.*)
(*                                                                         *)
(* handlers/payments.rs::create is absent: it inserts a column, currency,  *)
(* that no migration gives the table postings, so it always rolls back.    *)
(***************************************************************************)
EXTENDS Requests, FiniteSetsExt

CONSTANTS
    Doc,            \* ids of rows of invoices: invoices and estimates
    Payment,        \* ids of rows of payments
    InvTotal,       \* totals of the lines users enter
    PayAmount,      \* amounts of payments
    NumberTyped,    \* invoice numbers users and API clients type in
    Offsets,        \* REMINDER_OFFSETS
    MaxCredit       \* bound: what payments bring to a document in all

(* Totals are sums of quantity x unit price, and only the form of          *)
(* invoices.rs asks for a positive one.                                    *)
ASSUME InvoicingAssumption ==
    /\ "none" \notin Doc /\ "reminders" \notin Doc
    /\ InvTotal \subseteq Int /\ NumberTyped \subseteq Nat
    /\ PayAmount \subseteq Nat \ {0}

VARIABLES
    doc,            \* the table invoices
    lastNo,         \* invoice_sequences.last_no of the year, NoSequence if absent
    payment,        \* the table payments
    share,          \* the share link of a document: none, live or revoked
    claimed,        \* invoice_reminders: pairs <<document, offset>>
    sent,           \* history: how often each reminder was delivered
    overdue,        \* days since the documents fell due
    credited,       \* history: amounts payments brought to a document
    marked,         \* history: documents mark_paid or void was used on
    halfPaid            \* history: documents whose request was cut off

invVars == <<doc, lastNo, payment, share, claimed, sent, overdue, credited,
             marked, halfPaid>>

NoDoc == [kind |-> "none"]
NoPayment == [amount |-> 0, doc |-> "none"]
NoSequence == -1

(* The columns of a new row; from is the estimate it was converted from,   *)
(* web says that handlers/invoices.rs gave it its number.                  *)
NewDoc(kind, total, number, status, from, web) ==
    [kind |-> kind, total |-> total, paid |-> 0, number |-> number,
     status |-> status, from |-> from, web |-> web]

Docs == {i \in Doc : doc[i] # NoDoc}
NumbersUsed == {doc[i].number : i \in Docs} \ {0}

InitInvoicing ==
    /\ doc = [i \in Doc |-> NoDoc]
    /\ lastNo = NoSequence
    /\ payment = [p \in Payment |-> NoPayment]
    /\ share = [i \in Doc |-> "none"]
    /\ claimed = {}
    /\ sent = [s \in Doc \X Offsets |-> 0]
    /\ overdue = 0
    /\ credited = [i \in Doc |-> 0]
    /\ marked = {}
    /\ halfPaid = {}

-----------------------------------------------------------------------------
(* next_invoice_number: the sequence row, or on first use the largest      *)
(* number in the table; plus one.                                          *)
NextInvoiceNumber ==
    IF lastNo # NoSequence THEN lastNo + 1 ELSE Max(NumbersUsed \cup {0}) + 1

(* The ledger row is locked from here to the commit of another create. *)
LedgerLocked == \E r \in Req : pc[r] = "invoice_insert"

(* Fault: the sequence moves outside the transaction of the invoice. *)
InvoiceCreateLockTakes(r) ==
    /\ ~LedgerLocked
    /\ \E i \in Doc, total \in InvTotal :
         /\ i \notin Docs /\ WorkingOn(i) = {}
         /\ Begin(r, "invoice_insert", [on |-> i, total |-> total, number |-> NextInvoiceNumber])
    /\ lastNo' = NextInvoiceNumber
    /\ UNCHANGED <<doc, payment, share, claimed, sent, overdue, credited, marked, halfPaid>>

(* create in handlers/invoices.rs: valid lines, a date in an open period,  *)
(* the ledger row locked, then a typed number that is not in use, or the   *)
(* next of the sequence.                                                   *)
InvoiceCreateLock(r) ==
    /\ ~LedgerLocked
    /\ \E i \in Doc, total \in InvTotal, n \in NumberTyped \cup {0} :
         /\ i \notin Docs /\ WorkingOn(i) = {}
         /\ n \notin NumbersUsed
         /\ Begin(r, "invoice_insert",
                  [on |-> i, total |-> total,
                   number |-> IF n = 0 THEN NextInvoiceNumber ELSE n])
    /\ UNCHANGED invVars

(* INSERT and commit, with the sequence at GREATEST of its number and this *)
(* one.  uq_invoices_number rolls everything back when an API client has   *)
(* taken the number since.                                                 *)
InvoiceCreateCommit(r) ==
    /\ pc[r] = "invoice_insert"
    /\ LET d == loc[r]
       IN  \/ /\ d.number \notin NumbersUsed
              /\ doc' = [doc EXCEPT ![d.on] =
                           NewDoc("invoice", d.total, d.number, "open", "none", TRUE)]
              /\ lastNo' = Max({lastNo, d.number})
           \/ /\ d.number \in NumbersUsed
              /\ UNCHANGED <<doc, lastNo>>
    /\ End(r)
    /\ UNCHANGED <<payment, share, claimed, sent, overdue, credited, marked, halfPaid>>

(* create in api/invoices.rs: the number of the body or none, no sequence. *)
ApiInvoiceCreate(r, i) ==
    /\ i \notin Docs /\ WorkingOn(i) = {}
    /\ \E total \in InvTotal, n \in NumberTyped \cup {0} :
         /\ n \notin NumbersUsed
         /\ doc' = [doc EXCEPT ![i] = NewDoc("invoice", total, n, "open", "none", FALSE)]
    /\ Serve(r, i)
    /\ UNCHANGED <<lastNo, payment, share, claimed, sent, overdue, credited, marked, halfPaid>>

-----------------------------------------------------------------------------
(* estimates.rs *)
EstimateCreate(r, e) ==
    /\ e \notin Docs /\ WorkingOn(e) = {}
    /\ \E total \in InvTotal :
         doc' = [doc EXCEPT ![e] = NewDoc("estimate", total, 0, "draft", "none", FALSE)]
    /\ Serve(r, e)
    /\ UNCHANGED <<lastNo, payment, share, claimed, sent, overdue, credited, marked, halfPaid>>

(* convert: one UPDATE on the pool claims the estimate ... *)
ConvertClaim(r, e) ==
    /\ doc[e].kind = "estimate"
    /\ doc[e].status \notin {"converted", "declined"}
    /\ doc' = [doc EXCEPT ![e].status = "converted"]
    /\ Begin(r, "convert_insert", [on |-> e, total |-> doc[e].total])
    /\ UNCHANGED <<lastNo, payment, share, claimed, sent, overdue, credited, marked, halfPaid>>

(* ... and a transaction of its own inserts the invoice, unnumbered as     *)
(* every estimate is, with a copy of the lines.                            *)
ConvertInsert(r) ==
    /\ pc[r] = "convert_insert"
    /\ \E i \in Doc :
         /\ i \notin Docs /\ WorkingOn(i) = {}
         /\ doc' = [doc EXCEPT ![i] =
                      NewDoc("invoice", loc[r].total, 0, "open", loc[r].on, FALSE)]
    /\ End(r)
    /\ UNCHANGED <<lastNo, payment, share, claimed, sent, overdue, credited, marked, halfPaid>>

(* invoice_share.rs: a link, its revocation, and what the client decides   *)
(* on an estimate through a live link.                                     *)
CreateLink(r, i) ==
    /\ i \in Docs
    /\ share' = [share EXCEPT ![i] = "live"]
    /\ Serve(r, i)
    /\ UNCHANGED <<doc, lastNo, payment, claimed, sent, overdue, credited, marked, halfPaid>>

RevokeLink(r, i) ==
    /\ share[i] = "live"
    /\ share' = [share EXCEPT ![i] = "revoked"]
    /\ Serve(r, i)
    /\ UNCHANGED <<doc, lastNo, payment, claimed, sent, overdue, credited, marked, halfPaid>>

Decide(r, e) ==
    /\ share[e] = "live" /\ doc[e].kind = "estimate"
    /\ doc[e].status \in {"draft", "sent"}
    /\ \E status \in {"accepted", "declined"} : doc' = [doc EXCEPT ![e].status = status]
    /\ Serve(r, e)
    /\ UNCHANGED <<lastNo, payment, share, claimed, sent, overdue, credited, marked, halfPaid>>

-----------------------------------------------------------------------------
(* mark_paid and void of handlers/invoices.rs: one UPDATE, in any status   *)
(* and for estimates too.                                                  *)
MarkPaid(r, i) ==
    /\ i \in Docs
    /\ doc' = [doc EXCEPT ![i].status = "paid", ![i].paid = doc[i].total]
    /\ marked' = marked \cup {i}
    /\ Serve(r, i)
    /\ UNCHANGED <<lastNo, payment, share, claimed, sent, overdue, credited, halfPaid>>

Void(r, i) ==
    /\ i \in Docs
    /\ doc' = [doc EXCEPT ![i].status = "void"]
    /\ marked' = marked \cup {i}
    /\ Serve(r, i)
    /\ UNCHANGED <<lastNo, payment, share, claimed, sent, overdue, credited, halfPaid>>

(* transition of api/invoices.rs: the status where it is not settled, then *)
(* in a statement of its own the amount (or the reason of a void).         *)
ApiTransition(r, i) ==
    /\ i \in Docs /\ doc[i].status \notin {"paid", "void"}
    /\ \E status \in {"paid", "void"} :
         /\ doc' = [doc EXCEPT ![i].status = status]
         /\ Begin(r, "transition_end", [on |-> i, to |-> status])
    /\ marked' = marked \cup {i}
    /\ UNCHANGED <<lastNo, payment, share, claimed, sent, overdue, credited, halfPaid>>

ApiTransitionEnd(r) ==
    /\ pc[r] = "transition_end"
    /\ LET i == loc[r].on
       IN  doc' = IF loc[r].to = "paid" THEN [doc EXCEPT ![i].paid = doc[i].total] ELSE doc
    /\ End(r)
    /\ UNCHANGED <<lastNo, payment, share, claimed, sent, overdue, credited, marked, halfPaid>>

-----------------------------------------------------------------------------
(* create of api/payments.rs: the payment, and in the same transaction its *)
(* amount on an invoice that is open, which is paid once it is covered.    *)
ApiPayment(r, p, i) ==
    /\ payment[p] = NoPayment /\ i \in Docs
    /\ \E amount \in PayAmount :
         LET counts == doc[i].status \in {"open", "overdue"}
             sum == doc[i].paid + (IF counts THEN amount ELSE 0)
         IN  /\ payment' = [payment EXCEPT ![p] = [amount |-> amount, doc |-> i]]
             /\ doc' = [doc EXCEPT ![i].paid = sum,
                         ![i].status = IF sum >= doc[i].total THEN "paid" ELSE @]
             /\ credited' = [credited EXCEPT ![i] = @ + (IF counts THEN amount ELSE 0)]
    /\ Serve(r, i)
    /\ UNCHANGED <<lastNo, share, claimed, sent, overdue, marked, halfPaid>>

(* The same call without an invoice: the payment is recorded for later. *)
ApiPaymentUnlinked(p) ==
    /\ payment[p] = NoPayment
    /\ \E amount \in PayAmount :
         payment' = [payment EXCEPT ![p] = [amount |-> amount, doc |-> "none"]]
    /\ UNCHANGED <<pc, loc, raced, doc, lastNo, share, claimed, sent, overdue,
                   credited, marked, halfPaid>>

(* Fault: the payment replaces what was paid before. *)
ApplyReadReplaces(r, p, i) ==
    /\ payment[p] # NoPayment /\ i \in Docs
    /\ credited[i] + payment[p].amount <= MaxCredit
    /\ Begin(r, "apply_commit",
             [on |-> i, payment |-> p, sum |-> payment[p].amount, total |-> doc[i].total])
    /\ UNCHANGED invVars

(* apply of handlers/payments.rs: reads the sum of what was paid and the   *)
(* payment, whatever the payment was applied to before ...                 *)
ApplyRead(r, p, i) ==
    /\ payment[p] # NoPayment /\ i \in Docs
    /\ credited[i] + payment[p].amount <= MaxCredit
    /\ Begin(r, "apply_commit",
             [on |-> i, payment |-> p, sum |-> doc[i].paid + payment[p].amount,
              total |-> doc[i].total])
    /\ UNCHANGED invVars

(* ... and writes it.  Its other status, partial, is not one the CHECK on  *)
(* invoices.status accepts: such a transaction is rolled back.             *)
ApplyCommit(r) ==
    /\ pc[r] = "apply_commit"
    /\ LET d == loc[r]
       IN  \/ /\ d.sum >= d.total
              /\ doc' = [doc EXCEPT ![d.on].paid = d.sum, ![d.on].status = "paid"]
              /\ payment' = [payment EXCEPT ![d.payment].doc = d.on]
              /\ credited' = [credited EXCEPT ![d.on] = @ + payment[d.payment].amount]
           \/ d.sum < d.total /\ UNCHANGED <<doc, payment, credited>>
    /\ End(r)
    /\ UNCHANGED <<lastNo, share, claimed, sent, overdue, marked, halfPaid>>

-----------------------------------------------------------------------------
(* jobs/invoice_reminders.rs: the scan, and for each overdue invoice and   *)
(* offset it has reached, first the claim, then the delivery.              *)
ReminderScan(r) ==
    /\ overdue > 0
    /\ Begin(r, "reminder", [on |-> "reminders",
             todo |-> {i \in Docs : doc[i].status \in {"open", "overdue"}}
                        \X {o \in Offsets : o <= overdue}])
    /\ UNCHANGED invVars

ReminderClaim(r) ==
    /\ pc[r] = "reminder"
    /\ \/ loc[r].todo = {} /\ End(r) /\ UNCHANGED claimed
       \/ \E s \in loc[r].todo :
            LET rest == [on |-> "reminders", todo |-> loc[r].todo \ {s}]
            IN  \/ s \in claimed /\ Goto(r, "reminder", rest) /\ UNCHANGED claimed
                \/ /\ s \notin claimed
                   /\ claimed' = claimed \cup {s}
                   /\ Goto(r, "reminder_send",
                           [on |-> "reminders", todo |-> rest.todo, next |-> s])
    /\ UNCHANGED <<doc, lastNo, payment, share, sent, overdue, credited, marked, halfPaid>>

ReminderSend(r) ==
    /\ pc[r] = "reminder_send"
    /\ sent' = [sent EXCEPT ![loc[r].next] = @ + 1]
    /\ Goto(r, "reminder", [on |-> "reminders", todo |-> loc[r].todo])
    /\ UNCHANGED <<doc, lastNo, payment, share, claimed, overdue, credited, marked, halfPaid>>

DayPasses ==
    /\ overdue < Max(Offsets)
    /\ overdue' = overdue + 1
    /\ UNCHANGED <<pc, loc, raced, doc, lastNo, payment, share, claimed, sent,
                   credited, marked, halfPaid>>

-----------------------------------------------------------------------------
InvoiceCutOff(r) ==
    /\ CutOff(r)
    /\ halfPaid' = halfPaid \cup {loc[r].on}
    /\ UNCHANGED <<doc, lastNo, payment, share, claimed, sent, overdue, credited, marked>>

(* Four uses of the tables, each with the operations that bear on it.      *)
(* But for the numbers there is one estimate or one invoice to begin with: *)
(* no operation touches two.                                               *)
NumberingNext ==
    \E r \in Req :
        \/ InvoiceCreateLock(r) \/ InvoiceCreateCommit(r) \/ InvoiceCutOff(r)
        \/ \E i \in Doc : ApiInvoiceCreate(r, i) \/ Void(r, i)

EstimatesNext ==
    \E r \in Req :
        \/ ConvertInsert(r) \/ InvoiceCutOff(r)
        \/ \E e \in Doc :
              \/ Docs = {} /\ EstimateCreate(r, e)
              \/ ConvertClaim(r, e) \/ CreateLink(r, e)
              \/ RevokeLink(r, e) \/ Decide(r, e) \/ MarkPaid(r, e) \/ Void(r, e)

SettlementNext ==
    \/ \E r \in Req :
          \/ ApiTransitionEnd(r) \/ ApplyCommit(r) \/ InvoiceCutOff(r)
          \/ \E i \in Doc :
                \/ Docs = {} /\ (ApiInvoiceCreate(r, i) \/ EstimateCreate(r, i))
                \/ ApiTransition(r, i) \/ MarkPaid(r, i) \/ Void(r, i)
                \/ \E p \in Payment : ApiPayment(r, p, i) \/ ApplyRead(r, p, i)
    \/ \E p \in Payment : ApiPaymentUnlinked(p)

RemindersNext ==
    \/ \E r \in Req :
          \/ ReminderScan(r) \/ ReminderClaim(r) \/ ReminderSend(r) \/ InvoiceCutOff(r)
          \/ \E i \in Doc : (Docs = {} /\ ApiInvoiceCreate(r, i)) \/ MarkPaid(r, i)
    \/ DayPasses

(* All operations on the tables together. *)
InvoicingNext ==
    \/ \E r \in Req :
          \/ InvoiceCreateLock(r) \/ InvoiceCreateCommit(r) \/ ConvertInsert(r)
          \/ ApiTransitionEnd(r) \/ ApplyCommit(r)
          \/ ReminderScan(r) \/ ReminderClaim(r) \/ ReminderSend(r)
          \/ InvoiceCutOff(r)
          \/ \E i \in Doc :
                \/ ApiInvoiceCreate(r, i) \/ EstimateCreate(r, i)
                \/ ConvertClaim(r, i) \/ CreateLink(r, i) \/ RevokeLink(r, i)
                \/ Decide(r, i) \/ MarkPaid(r, i) \/ Void(r, i)
                \/ ApiTransition(r, i)
                \/ \E p \in Payment : ApiPayment(r, p, i) \/ ApplyRead(r, p, i)
    \/ \E p \in Payment : ApiPaymentUnlinked(p)
    \/ DayPasses

InvoicingSpec ==
    InitRequests /\ InitInvoicing /\ [][InvoicingNext]_<<reqVars, invVars>>

-----------------------------------------------------------------------------
(* The rows of documents and payments; only an estimate is decided on or    *)
(* converted, whatever document a path names.                               *)
InvoicingTypeOK ==
    /\ \A i \in Docs : /\ \/ doc[i].status \in {"open", "paid", "void"}
                           \/ /\ doc[i].kind = "estimate"
                              /\ doc[i].status \in {"draft", "accepted", "declined", "converted"}
                        /\ doc[i].number \in Nat /\ doc[i].paid \in Int
    /\ lastNo \in Nat \cup {NoSequence}
    /\ \A p \in Payment : payment[p].doc \in Doc \cup {"none"}

(* "later auto-allocations never collide" (handlers/invoices.rs): the      *)
(* sequence is never behind a number its own handler has given, so the     *)
(* next one is free unless an API client typed it in.                      *)
SequenceCoversNumbers ==
    \A i \in Docs : doc[i].web => doc[i].number <= lastNo

(* "Gapless sequence allocation" (handlers/invoices.rs): every number up   *)
(* to the last is on an invoice, or below one that somebody typed in.      *)
(* Cut off requests and refused inserts leave no hole.                     *)
NumbersGapless ==
    \A n \in 1..lastNo :
        \/ n \in NumbersUsed
        \/ \E m \in NumberTyped \cap NumbersUsed : n < m

(* "Idempotent by the converted status" (estimates.rs::convert): an        *)
(* estimate becomes at most one invoice and a declined one none, whoever   *)
(* converts and decides at the same time, unless an invoice route (mark    *)
(* paid, void, a payment) was used on the estimate; one without a positive *)
(* total is paid by any payment that names it.                             *)
EstimateConvertedOnce ==
    \A e \in Docs \ marked :
      doc[e].kind = "estimate" /\ credited[e] = 0 /\ doc[e].total > 0 =>
        LET made == {i \in Docs : doc[i].from = e}
        IN  /\ Cardinality(made) <= 1
            /\ made # {} => doc[e].status = "converted"

(* What an invoice says was paid is what payments brought, for an invoice  *)
(* nobody marked paid: apply overwrites amount_paid with a sum it read     *)
(* earlier, which is right unless requests for the invoice overlapped.     *)
PaidIsWhatCameIn ==
    \A i \in Docs \ marked :
        /\ doc[i].paid <= credited[i]
        /\ i \notin raced => doc[i].paid = credited[i]

(* A paid invoice is covered, although three handlers write the status and *)
(* the amount in different ways: unless the API's transition is between    *)
(* its two statements, or was cut off there.                               *)
PaidIsCovered ==
    \A i \in Docs : doc[i].status = "paid" =>
        \/ doc[i].paid >= doc[i].total
        \/ \E r \in WorkingOn(i) : pc[r] = "transition_end"
        \/ i \in halfPaid

(* Each reminder goes out at most once, with two scans at work and either  *)
(* cut off anywhere (unique index of invoice_reminders).                   *)
ReminderAtMostOnce == \A s \in Doc \X Offsets : sent[s] <= 1

(* The next number is free and no number is left out (next_invoice_number  *)
(* and the sequence row of the ledger and year).                           *)
InvoiceNumbers == SequenceCoversNumbers /\ NumbersGapless

(* A customer is billed once for an estimate, reminded once, and credited  *)
(* with what was paid.                                                     *)
InvoicesSound ==
    /\ InvoicingTypeOK
    /\ EstimateConvertedOnce
    /\ PaidIsWhatCameIn
    /\ PaidIsCovered
    /\ ReminderAtMostOnce
=============================================================================
