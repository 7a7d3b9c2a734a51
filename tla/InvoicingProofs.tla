-------------------------- MODULE InvoicingProofs --------------------------
(***************************************************************************)
(* Proofs about invoices, estimates, payments and reminders, about expense *)
(* claims and their approval, about fixed assets and investment lots, and  *)
(* about the chart of accounts with its opening balances and budgets, for  *)
(* any number of documents, claims, assets, lots, accounts and requests in *)
(* flight.                                                                 *)
(***************************************************************************)
EXTENDS Invoicing, Reimbursements, Stock, Accounts, RequestsProofs, FiniteSetTheorems, SequenceTheorems

(* A number is used, or below one that somebody typed in. *)
Filled(n) ==
    \/ n \in NumbersUsed
    \/ \E m \in NumberTyped \cap NumbersUsed : n < m

DocRow ==
    [kind : {"invoice", "estimate"}, total : InvTotal, paid : Int, number : Nat,
     status : {"open", "paid", "void", "draft", "accepted", "declined", "converted"},
     from : Doc \cup {"none"}, web : BOOLEAN]

TablesOK ==
    /\ doc \in [Doc -> DocRow \cup {NoDoc}]
    /\ \A i \in Docs : doc[i].kind = "estimate"
                         \/ doc[i].status \in {"open", "paid", "void"}
    /\ lastNo \in Nat \cup {NoSequence}
    /\ payment \in [Payment -> [amount : Nat, doc : Doc \cup {"none"}]]
    /\ \A p \in Payment : payment[p] # NoPayment => payment[p].amount > 0
    /\ credited \in [Doc -> Nat]
    /\ \A i \in Doc \ Docs : credited[i] = 0
    /\ claimed \subseteq Doc \X Offsets
    /\ sent \in [Doc \X Offsets -> Nat]

(* What a request holds at each of its statements.  The id a create will   *)
(* use is nobody's yet.                                                    *)
Held(r) ==
    /\ pc[r] = "invoice_insert" =>
          /\ loc[r].on \in Doc \ Docs /\ loc[r].total \in InvTotal
          /\ loc[r].number \in Nat \ {0}
          /\ \A q \in Req \ {r} : Busy(q) => loc[q].on # loc[r].on
    /\ pc[r] = "convert_insert" =>
          loc[r].on \in Docs /\ loc[r].total \in InvTotal
    /\ pc[r] = "transition_end" => loc[r].on \in Docs \cap marked
    /\ pc[r] = "apply_commit" =>
          /\ loc[r].on \in Docs /\ loc[r].total = doc[loc[r].on].total
          /\ loc[r].payment \in Payment
          /\ payment[loc[r].payment] # NoPayment
          /\ loc[r].sum \in Int
    /\ pc[r] = "reminder" =>
          loc[r].on = "reminders" /\ loc[r].todo \subseteq Doc \X Offsets
    /\ pc[r] = "reminder_send" =>
          /\ loc[r].on = "reminders" /\ loc[r].todo \subseteq Doc \X Offsets
          /\ loc[r].next \in Doc \X Offsets

HeldOK == \A r \in Req : Held(r)

(* A number a create has drawn was typed in, or leaves no hole below it;   *)
(* without a sequence every number in use was typed in.                    *)
NumbersOK ==
    /\ \A i \in Docs :
        /\ doc[i].web => doc[i].number \in 1..lastNo
        /\ ~doc[i].web => doc[i].number \in NumberTyped \cup {0}
    /\ \A n \in 1..lastNo : Filled(n)
    /\ \A r \in Req : pc[r] = "invoice_insert" =>
          \/ loc[r].number \in NumberTyped
          \/ \A n \in 1..(loc[r].number - 1) : Filled(n)
    /\ \E b \in Nat : \A n \in NumbersUsed : n <= b

(* An estimate no invoice route was used on. *)
Untouched(e) ==
    /\ e \in Docs \ marked
    /\ doc[e].kind = "estimate" /\ credited[e] = 0 /\ doc[e].total > 0

(* It has one invoice, or one request that is about to insert it, and then *)
(* it is converted.                                                        *)
ConvertOK ==
    /\ \A i \in Docs : doc[i].from \in Docs \cup {"none"}
    /\ \A e \in Doc : Untouched(e) =>
        /\ \A i \in Docs : doc[i].from = e =>
              /\ doc[e].status = "converted"
              /\ \A j \in Docs : doc[j].from = e => j = i
              /\ \A r \in Req : ~(pc[r] = "convert_insert" /\ loc[r].on = e)
        /\ \A r \in Req : pc[r] = "convert_insert" /\ loc[r].on = e =>
              /\ doc[e].status = "converted"
              /\ \A q \in Req : pc[q] = "convert_insert" /\ loc[q].on = e => q = r

(* A sum that apply has read is not more than what will have come in. *)
PaidOK ==
    \A i \in Docs \ marked :
        /\ doc[i].paid <= credited[i]
        /\ i \notin raced => doc[i].paid = credited[i]
        /\ \A r \in Req : pc[r] = "apply_commit" /\ loc[r].on = i =>
              /\ loc[r].sum <= credited[i] + payment[loc[r].payment].amount
              /\ i \notin raced =>
                    loc[r].sum = doc[i].paid + payment[loc[r].payment].amount

CoveredOK ==
    \A i \in Docs : doc[i].status = "paid" =>
        \/ doc[i].paid >= doc[i].total
        \/ \E r \in Req : pc[r] = "transition_end" /\ loc[r].on = i /\ loc[r].to = "paid"
        \/ i \in halfPaid

(* Whoever sends a reminder has claimed it, alone, and it is not sent yet. *)
RemindersOK ==
    /\ \A s \in Doc \X Offsets : sent[s] <= 1 /\ (s \notin claimed => sent[s] = 0)
    /\ \A r \in Req : pc[r] = "reminder_send" =>
          /\ loc[r].next \in claimed /\ sent[loc[r].next] = 0
          /\ \A q \in Req : pc[q] = "reminder_send" /\ loc[q].next = loc[r].next => q = r

InvoicingInv ==
    /\ RequestsOK /\ TablesOK /\ HeldOK
    /\ NumbersOK /\ ConvertOK /\ PaidOK /\ CoveredOK /\ RemindersOK

-----------------------------------------------------------------------------
(* The largest member of a bounded set of numbers, as Max chooses it. *)
LEMMA MaxOfBounded ==
    ASSUME NEW S \in SUBSET Int, NEW a \in S, NEW b \in Int, \A x \in S : x <= b
    PROVE  Max(S) \in S /\ \A x \in S : x <= Max(S)
<1>1. PICK m \in S : \A x \in S : x <= m
    BY LargestOfBounded
<1> QED BY <1>1 DEF Max

LEMMA MaxOfTwo ==
    ASSUME NEW a \in Int, NEW b \in Int
    PROVE  /\ Max({a, b}) \in {a, b}
           /\ a <= Max({a, b}) /\ b <= Max({a, b})
<1>1. \E c \in {a, b} : \A x \in {a, b} : x <= c
    <2>1. CASE a <= b
        BY <2>1
    <2>2. CASE b <= a
        BY <2>2
    <2> QED BY <2>1, <2>2
<1> QED BY <1>1, MaxOfBounded

(* A row is not the absence of one. *)
LEMMA RowsAreRows ==
    ASSUME TablesOK
    PROVE  /\ NoDoc \notin DocRow
           /\ \A i \in Docs : i \in Doc /\ doc[i] \in DocRow
    BY DEF TablesOK, Docs, NoDoc, DocRow

-----------------------------------------------------------------------------
(* No request comes to a statement of this kind. *)
Quiet(l) == \A q \in Req : pc'[q] = l => pc[q] = l /\ loc'[q] = loc[q]

(* The documents are the same, but for status and amount_paid. *)
SameDocs ==
    /\ Docs' = Docs
    /\ \A i \in Docs : /\ doc'[i].kind = doc[i].kind
                       /\ doc'[i].total = doc[i].total
                       /\ doc'[i].number = doc[i].number
                       /\ doc'[i].from = doc[i].from
                       /\ doc'[i].web = doc[i].web

LEMMA NumbersStay ==
    ASSUME NumbersOK, SameDocs, UNCHANGED lastNo, Quiet("invoice_insert")
    PROVE  NumbersOK'
<1>1. NumbersUsed' = NumbersUsed
    BY DEF SameDocs, NumbersUsed
<1>2. \A n : Filled(n)' <=> Filled(n)
    BY <1>1 DEF Filled
<1>3. \A i \in Docs' : /\ doc'[i].web => doc'[i].number \in 1..lastNo'
                       /\ ~doc'[i].web => doc'[i].number \in NumberTyped \cup {0}
    BY DEF NumbersOK, SameDocs
<1>4. \A n \in 1..lastNo' : Filled(n)'
    BY <1>2 DEF NumbersOK
<1>5. \A r \in Req : pc'[r] = "invoice_insert" =>
          \/ loc'[r].number \in NumberTyped
          \/ \A n \in 1..(loc'[r].number - 1) : Filled(n)'
    BY <1>2 DEF NumbersOK, Quiet
<1> QED BY <1>1, <1>3, <1>4, <1>5 DEF NumbersOK

LEMMA ConvertStays ==
    ASSUME TablesOK, ConvertOK, SameDocs, Quiet("convert_insert"),
           marked \subseteq marked',
           \A e \in Doc : credited'[e] = 0 => credited[e] = 0,
           \A e \in Doc : Untouched(e) /\ Untouched(e)' /\ doc[e].status = "converted"
                             => doc'[e].status = "converted"
    PROVE  ConvertOK'
<1>1. \A e \in Doc : Untouched(e)' => Untouched(e)
    BY DEF Untouched, SameDocs
<1> QED BY <1>1 DEF ConvertOK, SameDocs, Quiet, Docs

LEMMA PaidStays ==
    ASSUME TablesOK, HeldOK, PaidOK, SameDocs, Quiet("apply_commit"),
           marked \subseteq marked', raced \subseteq raced',
           \A i \in Docs \ marked' : doc'[i].paid = doc[i].paid,
           credited' = credited,
           \A p \in Payment : payment[p] # NoPayment => payment'[p].amount = payment[p].amount
    PROVE  PaidOK'
    BY DEF PaidOK, SameDocs, Quiet, HeldOK, Held

LEMMA CoveredStays ==
    ASSUME CoveredOK, SameDocs, halfPaid \subseteq halfPaid',
           \A i \in Docs : doc'[i].status = "paid" =>
              \/ doc'[i].paid >= doc[i].total
              \/ doc[i].status = "paid" /\ doc'[i].paid = doc[i].paid,
           \A q \in Req : pc[q] = "transition_end" =>
              pc'[q] = "transition_end" /\ loc'[q] = loc[q]
    PROVE  CoveredOK'
    BY DEF CoveredOK, SameDocs

LEMMA RemindersStay ==
    ASSUME RemindersOK, Quiet("reminder_send"), UNCHANGED <<sent, claimed>>
    PROVE  RemindersOK'
    BY DEF RemindersOK, Quiet

(* Requests that go on or end hold what they held; the tables they refer   *)
(* to keep the rows.                                                       *)
LEMMA HeldStays ==
    ASSUME HeldOK, SameDocs, NEW r \in Req, Others(r), pc'[r] = "idle" \/ UNCHANGED <<pc, loc>>,
           \A p \in Payment : payment[p] # NoPayment => payment'[p] # NoPayment,
           marked \subseteq marked'
    PROVE  HeldOK'
<1>1. \A q \in Req : pc'[q] # "idle" => pc'[q] = pc[q] /\ loc'[q] = loc[q]
    BY DEF Others
<1> QED BY <1>1 DEF HeldOK, Held, SameDocs, Busy

(* The document i gets the status s and the amount n. *)
Overwrites(i, s, n) ==
    /\ SameDocs
    /\ doc' \in [Doc -> DocRow \cup {NoDoc}]
    /\ \A j \in Docs' : doc'[j].kind = "estimate"
                          \/ doc'[j].status \in {"open", "paid", "void"}
    /\ doc'[i].status = s /\ doc'[i].paid = n
    /\ \A j \in Docs \ {i} : doc'[j] = doc[j]

LEMMA RowOverwritten ==
    ASSUME TablesOK, NEW i \in Docs, NEW row \in DocRow,
           doc[i].kind = "estimate" \/ row.status \in {"open", "paid", "void"},
           row.kind = doc[i].kind, row.total = doc[i].total,
           row.number = doc[i].number, row.from = doc[i].from, row.web = doc[i].web,
           doc' = [doc EXCEPT ![i] = row]
    PROVE  Overwrites(i, row.status, row.paid)
<1>1. i \in Doc /\ doc[i] \in DocRow /\ NoDoc \notin DocRow
    BY RowsAreRows
<1>2. /\ doc'[i] = row /\ \A j \in Doc \ {i} : doc'[j] = doc[j]
      /\ doc' \in [Doc -> DocRow \cup {NoDoc}]
    BY <1>1 DEF TablesOK
<1>3. Docs' = Docs
    BY <1>1, <1>2 DEF Docs
<1>4. SameDocs
    BY <1>1, <1>2, <1>3 DEF SameDocs, Docs
<1> QED BY <1>1, <1>2, <1>3, <1>4 DEF TablesOK, Docs, Overwrites

LEMMA StatusSet ==
    ASSUME TablesOK, NEW i \in Docs, NEW s,
           s \in {"open", "paid", "void", "draft", "accepted", "declined", "converted"},
           doc[i].kind = "estimate" \/ s \in {"open", "paid", "void"},
           doc' = [doc EXCEPT ![i].status = s]
    PROVE  Overwrites(i, s, doc[i].paid)
<1>1. i \in Doc /\ doc[i] \in DocRow
    BY RowsAreRows
<1> DEFINE row == [doc[i] EXCEPT !.status = s]
<1>2. /\ row \in DocRow /\ row.status = s /\ row.paid = doc[i].paid
      /\ row.kind = doc[i].kind /\ row.total = doc[i].total
      /\ row.number = doc[i].number /\ row.from = doc[i].from /\ row.web = doc[i].web
    BY <1>1 DEF DocRow
<1>3. doc' = [doc EXCEPT ![i] = row]
    BY <1>1 DEF TablesOK
<1> HIDE DEF row
<1> QED BY <1>2, <1>3, RowOverwritten

LEMMA PaidSet ==
    ASSUME TablesOK, NEW i \in Docs, NEW n \in Int,
           doc' = [doc EXCEPT ![i].paid = n]
    PROVE  Overwrites(i, doc[i].status, n)
<1>1. i \in Doc /\ doc[i] \in DocRow
    BY RowsAreRows
<1> DEFINE row == [doc[i] EXCEPT !.paid = n]
<1>2. /\ row \in DocRow /\ row.status = doc[i].status /\ row.paid = n
      /\ row.kind = doc[i].kind /\ row.total = doc[i].total
      /\ row.number = doc[i].number /\ row.from = doc[i].from /\ row.web = doc[i].web
    BY <1>1 DEF DocRow
<1>3. doc' = [doc EXCEPT ![i] = row]
    BY <1>1 DEF TablesOK
<1>4. doc[i].kind = "estimate" \/ row.status \in {"open", "paid", "void"}
    BY <1>2 DEF TablesOK
<1> HIDE DEF row
<1> QED BY <1>2, <1>3, <1>4, RowOverwritten

LEMMA BothSet ==
    ASSUME TablesOK, NEW i \in Docs, NEW n \in Int, NEW s,
           s \in {"open", "paid", "void", "draft", "accepted", "declined", "converted"},
           doc[i].kind = "estimate" \/ s \in {"open", "paid", "void"},
           \/ doc' = [doc EXCEPT ![i].status = s, ![i].paid = n]
           \/ doc' = [doc EXCEPT ![i].paid = n, ![i].status = s]
    PROVE  Overwrites(i, s, n)
<1>1. i \in Doc /\ doc[i] \in DocRow
    BY RowsAreRows
<1> DEFINE row == [doc[i] EXCEPT !.status = s, !.paid = n]
<1>2. /\ row \in DocRow /\ row.status = s /\ row.paid = n
      /\ row.kind = doc[i].kind /\ row.total = doc[i].total
      /\ row.number = doc[i].number /\ row.from = doc[i].from /\ row.web = doc[i].web
    BY <1>1 DEF DocRow
<1>3. [doc[i] EXCEPT !.paid = n, !.status = s] = row
    BY <1>1 DEF DocRow
<1>4. doc' = [doc EXCEPT ![i] = row]
    BY <1>1, <1>3 DEF TablesOK
<1> HIDE DEF row
<1> QED BY <1>2, <1>4, RowOverwritten

LEMMA QuietBut ==
    ASSUME NEW r \in Req, NEW l, Others(r),
           pc'[r] # l \/ (pc'[r] = pc[r] /\ loc'[r] = loc[r])
    PROVE  Quiet(l)
    BY DEF Others, Quiet

(* The tables after a document was overwritten. *)
LEMMA TablesAfter ==
    ASSUME TablesOK, NEW i \in Docs, NEW s, NEW n, Overwrites(i, s, n),
           UNCHANGED <<lastNo, claimed, sent>>,
           payment' \in [Payment -> [amount : Nat, doc : Doc \cup {"none"}]],
           \A p \in Payment : payment'[p] # NoPayment => payment'[p].amount > 0,
           credited' \in [Doc -> Nat],
           \A j \in Doc \ {i} : credited'[j] = credited[j]
    PROVE  TablesOK'
    BY DEF TablesOK, Overwrites, SameDocs

(* decide: only an estimate that is not converted. *)
LEMMA DecideOK ==
    ASSUME InvoicingInv, NEW r \in Req, NEW i \in Doc, Decide(r, i)
    PROVE  InvoicingInv'
<1> USE DEF InvoicingInv
<1>1. i \in Docs
    BY DEF Decide, Docs, NoDoc
<1>2. PICK s \in {"accepted", "declined"} : doc' = [doc EXCEPT ![i].status = s]
    BY DEF Decide
<1>3. Overwrites(i, s, doc[i].paid)
    BY <1>1, <1>2, StatusSet DEF Decide
<1>4. RequestsOK' /\ UNCHANGED <<pc, loc>> /\ raced \subseteq raced' /\ Others(r)
    BY ServeOK DEF Decide, Others
<1>5. \A l : Quiet(l)
    BY <1>4, QuietBut
<1>6. UNCHANGED <<lastNo, payment, share, claimed, sent, overdue, credited, marked, halfPaid>>
    BY DEF Decide
<1>7. TablesOK'
    BY <1>1, <1>3, <1>6, TablesAfter DEF TablesOK
<1>8. HeldOK'
    BY <1>3, <1>4, <1>6, HeldStays DEF Overwrites
<1>9. NumbersOK'
    BY <1>3, <1>5, <1>6, NumbersStay DEF Overwrites
<1>10. ConvertOK'
    BY <1>3, <1>5, <1>6, ConvertStays DEF Overwrites, Decide, Untouched
<1>11. PaidOK'
    BY <1>3, <1>4, <1>5, <1>6, PaidStays DEF Overwrites
<1>12. CoveredOK'
    BY <1>3, <1>4, <1>6, CoveredStays DEF Overwrites
<1>13. RemindersOK'
    BY <1>5, <1>6, RemindersStay
<1> QED BY <1>4, <1>7, <1>8, <1>9, <1>10, <1>11, <1>12, <1>13

(* mark_paid and void take the document out of what is claimed of it. *)
LEMMA MarkOK ==
    ASSUME InvoicingInv, NEW r \in Req, NEW i \in Doc, MarkPaid(r, i) \/ Void(r, i)
    PROVE  InvoicingInv'
<1> USE DEF InvoicingInv
<1>1. i \in Docs /\ doc[i] \in DocRow
    BY RowsAreRows DEF MarkPaid, Void
<1>2. PICK s \in {"paid", "void"}, n \in Int :
         Overwrites(i, s, n) /\ (s = "paid" => n >= doc[i].total)
    <2>1. CASE MarkPaid(r, i)
        <3>1. doc[i].total \in Int
            BY <1>1, InvoicingAssumption DEF DocRow
        <3>2. Overwrites(i, "paid", doc[i].total)
            BY <1>1, <2>1, <3>1, BothSet DEF MarkPaid
        <3> QED BY <3>1, <3>2
    <2>2. CASE Void(r, i)
        <3>1. Overwrites(i, "void", doc[i].paid)
            BY <1>1, <2>2, StatusSet DEF Void
        <3>2. doc[i].paid \in Int
            BY <1>1 DEF DocRow
        <3> QED BY <3>1, <3>2
    <2> QED BY <2>1, <2>2
<1>3. RequestsOK' /\ UNCHANGED <<pc, loc>> /\ raced \subseteq raced' /\ Others(r)
    BY ServeOK DEF MarkPaid, Void, Others
<1>4. \A l : Quiet(l)
    BY <1>3, QuietBut
<1>5. /\ UNCHANGED <<lastNo, payment, share, claimed, sent, overdue, credited, halfPaid>>
      /\ marked' = marked \cup {i}
    BY DEF MarkPaid, Void
<1>6. TablesOK'
    BY <1>1, <1>2, <1>5, TablesAfter DEF TablesOK
<1>7. HeldOK'
    BY <1>2, <1>3, <1>5, HeldStays DEF Overwrites
<1>8. NumbersOK'
    BY <1>2, <1>4, <1>5, NumbersStay DEF Overwrites
<1>9. ConvertOK'
    BY <1>2, <1>4, <1>5, ConvertStays DEF Overwrites, Untouched
<1>10. PaidOK'
    BY <1>2, <1>3, <1>4, <1>5, PaidStays DEF Overwrites
<1>11. CoveredOK'
    BY <1>2, <1>3, <1>5, CoveredStays DEF Overwrites
<1>12. RemindersOK'
    BY <1>4, <1>5, RemindersStay
<1> QED BY <1>3, <1>6, <1>7, <1>8, <1>9, <1>10, <1>11, <1>12

(* A request that begins, or goes on, with data that fits its statement.   *)
LEMMA HeldBegins ==
    ASSUME HeldOK, SameDocs, NEW r \in Req, Others(r), Held(r)',
           loc'[r].on \notin Doc \/ loc'[r].on \in Docs,
           \A p \in Payment : payment[p] # NoPayment => payment'[p] # NoPayment,
           marked \subseteq marked'
    PROVE  HeldOK'
<1>1. \A q \in Req \ {r} : pc'[q] = pc[q] /\ loc'[q] = loc[q]
    BY DEF Others
<1> QED BY <1>1 DEF HeldOK, Held, SameDocs, Busy

(* convert claims an estimate that nobody has claimed. *)
LEMMA ConvertClaimOK ==
    ASSUME InvoicingInv, NEW r \in Req, NEW i \in Doc, ConvertClaim(r, i)
    PROVE  InvoicingInv'
<1> USE DEF InvoicingInv
<1>1. i \in Docs /\ doc[i] \in DocRow
    BY RowsAreRows DEF ConvertClaim, Docs, NoDoc
<1>2. Overwrites(i, "converted", doc[i].paid)
    BY <1>1, StatusSet DEF ConvertClaim
<1>3. /\ RequestsOK' /\ pc[r] = "idle" /\ pc'[r] = "convert_insert"
      /\ loc'[r] = [on |-> i, total |-> doc[i].total]
      /\ Others(r) /\ raced \subseteq raced'
    BY BeginOK DEF ConvertClaim
<1>4. loc'[r].on = i /\ loc'[r].total \in InvTotal
    BY <1>1, <1>3 DEF DocRow
<1>5. \A l : l # "convert_insert" => Quiet(l)
    BY <1>3, QuietBut
<1>6. UNCHANGED <<lastNo, payment, share, claimed, sent, overdue, credited, marked, halfPaid>>
    BY DEF ConvertClaim
<1>7. TablesOK'
    BY <1>1, <1>2, <1>6, TablesAfter DEF TablesOK
<1>8. HeldOK'
    <2>1. Held(r)'
        BY <1>1, <1>2, <1>3, <1>4 DEF Held, Overwrites, SameDocs
    <2> QED BY <1>1, <1>2, <1>3, <1>4, <1>6, <2>1, HeldBegins DEF Overwrites
<1>9. NumbersOK'
    BY <1>2, <1>5, <1>6, NumbersStay DEF Overwrites
<1>10. ConvertOK'
    <2>1. SameDocs /\ doc'[i].status = "converted" /\ \A j \in Docs \ {i} : doc'[j] = doc[j]
        BY <1>2 DEF Overwrites
    <2>2. \A e \in Doc : Untouched(e)' <=> Untouched(e)
        BY <1>6, <2>1 DEF Untouched, SameDocs
    <2>3. \A q \in Req \ {r} : pc'[q] = pc[q] /\ loc'[q] = loc[q]
        BY <1>3 DEF Others
    <2>4. doc[i].status # "converted"
        BY DEF ConvertClaim
    <2>5. \A e \in Doc : Untouched(e) => doc'[e].status = doc[e].status \/ e = i
        BY <2>1 DEF Untouched
    <2> QED BY <1>1, <1>3, <1>4, <2>1, <2>2, <2>3, <2>4, <2>5 DEF ConvertOK, SameDocs
<1>11. PaidOK'
    BY <1>2, <1>3, <1>5, <1>6, PaidStays DEF Overwrites
<1>12. CoveredOK'
    BY <1>2, <1>3, <1>6, CoveredStays DEF Overwrites, Others
<1>13. RemindersOK'
    BY <1>5, <1>6, RemindersStay
<1> QED BY <1>3, <1>7, <1>8, <1>9, <1>10, <1>11, <1>12, <1>13

(* The API's transition: the status, then the amount. *)
LEMMA ApiTransitionOK ==
    ASSUME InvoicingInv, NEW r \in Req, NEW i \in Doc, ApiTransition(r, i)
    PROVE  InvoicingInv'
<1> USE DEF InvoicingInv
<1>1. i \in Docs /\ doc[i] \in DocRow
    BY RowsAreRows DEF ApiTransition
<1>2. PICK s \in {"paid", "void"} :
         /\ doc' = [doc EXCEPT ![i].status = s]
         /\ Begin(r, "transition_end", [on |-> i, to |-> s])
    BY DEF ApiTransition
<1>3. Overwrites(i, s, doc[i].paid)
    BY <1>1, <1>2, StatusSet
<1>4. /\ RequestsOK' /\ pc[r] = "idle" /\ pc'[r] = "transition_end"
      /\ loc'[r] = [on |-> i, to |-> s]
      /\ Others(r) /\ raced \subseteq raced'
    BY <1>2, BeginOK
<1>5. \A l : l # "transition_end" => Quiet(l)
    BY <1>4, QuietBut
<1>6. /\ UNCHANGED <<lastNo, payment, share, claimed, sent, overdue, credited, halfPaid>>
      /\ marked' = marked \cup {i}
    BY DEF ApiTransition
<1>7. TablesOK'
    BY <1>1, <1>3, <1>6, TablesAfter DEF TablesOK
<1>8. HeldOK'
    <2>1. Held(r)'
        BY <1>1, <1>3, <1>4, <1>6 DEF Held, Overwrites, SameDocs
    <2> QED BY <1>1, <1>3, <1>4, <1>6, <2>1, HeldBegins DEF Overwrites
<1>9. NumbersOK'
    BY <1>3, <1>5, <1>6, NumbersStay DEF Overwrites
<1>10. ConvertOK'
    BY <1>3, <1>5, <1>6, ConvertStays DEF Overwrites, Untouched
<1>11. PaidOK'
    BY <1>3, <1>4, <1>5, <1>6, PaidStays DEF Overwrites
<1>12. CoveredOK'
    <2>1. \A q \in Req : pc[q] = "transition_end" =>
             pc'[q] = "transition_end" /\ loc'[q] = loc[q]
        BY <1>4 DEF Others
    <2>2. \A j \in Docs \ {i} : doc'[j] = doc[j]
        BY <1>3 DEF Overwrites
    <2>3. doc'[i].status = "paid" => s = "paid" /\ loc'[r].on = i /\ loc'[r].to = "paid"
        BY <1>3, <1>4 DEF Overwrites
    <2> QED BY <1>3, <1>4, <1>6, <2>1, <2>2, <2>3 DEF CoveredOK, Overwrites, SameDocs
<1>13. RemindersOK'
    BY <1>5, <1>6, RemindersStay
<1> QED BY <1>4, <1>7, <1>8, <1>9, <1>10, <1>11, <1>12, <1>13

LEMMA ApiTransitionEndOK ==
    ASSUME InvoicingInv, NEW r \in Req, ApiTransitionEnd(r)
    PROVE  InvoicingInv'
<1> USE DEF InvoicingInv
<1> DEFINE i == loc[r].on
<1>1. i \in Docs /\ doc[i] \in DocRow /\ pc[r] = "transition_end"
    BY RowsAreRows DEF ApiTransitionEnd, HeldOK, Held
<1>2. PICK n \in Int : /\ Overwrites(i, doc[i].status, n)
                       /\ \/ n = doc[i].paid /\ loc[r].to # "paid"
                          \/ n = doc[i].total
    <2>1. doc[i].paid \in Int /\ doc[i].total \in Int
        BY <1>1, InvoicingAssumption DEF DocRow
    <2>2. CASE loc[r].to = "paid"
        <3>1. Overwrites(i, doc[i].status, doc[i].total)
            BY <1>1, <2>1, <2>2, PaidSet DEF ApiTransitionEnd
        <3> QED BY <2>1, <3>1
    <2>3. CASE loc[r].to # "paid"
        <3>1. Overwrites(i, doc[i].status, doc[i].paid)
            BY <1>1, <2>3 DEF ApiTransitionEnd, Overwrites, SameDocs, TablesOK, Docs
        <3> QED BY <2>1, <2>3, <3>1
    <2> QED BY <2>2, <2>3
<1>3. /\ RequestsOK' /\ pc'[r] = "idle" /\ Others(r) /\ UNCHANGED raced
    BY EndOK DEF ApiTransitionEnd
<1>4. \A l : l # "idle" => Quiet(l)
    BY <1>3, QuietBut
<1>5. UNCHANGED <<lastNo, payment, share, claimed, sent, overdue, credited, marked, halfPaid>>
    BY DEF ApiTransitionEnd
<1> HIDE DEF i
<1>6. TablesOK'
    BY <1>1, <1>2, <1>5, TablesAfter DEF TablesOK
<1>7. HeldOK'
    BY <1>2, <1>3, <1>5, HeldStays DEF Overwrites
<1>8. NumbersOK'
    BY <1>2, <1>4, <1>5, NumbersStay DEF Overwrites
<1>9. ConvertOK'
    BY <1>2, <1>4, <1>5, ConvertStays DEF Overwrites, Untouched
<1>10. PaidOK'
    <2>1. i \in marked
        BY <1>1 DEF HeldOK, Held, i
    <2> QED BY <1>2, <1>3, <1>4, <1>5, <2>1, PaidStays DEF Overwrites
<1>11. CoveredOK'
    <2> SUFFICES ASSUME NEW j \in Docs, doc'[j].status = "paid",
                        ~(doc'[j].paid >= doc'[j].total), j \notin halfPaid
                 PROVE  \E q \in Req : pc'[q] = "transition_end" /\ loc'[q].on = j
                                                                 /\ loc'[q].to = "paid"
        BY <1>2, <1>5 DEF CoveredOK, Overwrites, SameDocs
    <2>1. /\ doc[j].status = "paid" /\ ~(doc[j].paid >= doc[j].total)
          /\ j = i => loc[r].to # "paid"
        <3>1. CASE j = i
            <4>1. doc[i].total \in Int
                BY <1>1, InvoicingAssumption DEF DocRow
            <4> QED BY <1>2, <3>1, <4>1 DEF Overwrites, SameDocs
        <3>2. CASE j # i
            BY <1>2, <3>2 DEF Overwrites
        <3> QED BY <3>1, <3>2
    <2>2. PICK q \in Req : pc[q] = "transition_end" /\ loc[q].on = j /\ loc[q].to = "paid"
        BY <2>1 DEF CoveredOK
    <2>3. q # r
        BY <2>1, <2>2 DEF i
    <2> QED BY <1>3, <2>2, <2>3 DEF Others
<1>12. RemindersOK'
    BY <1>4, <1>5, RemindersStay
<1> QED BY <1>3, <1>6, <1>7, <1>8, <1>9, <1>10, <1>11, <1>12

(* A payment through the API: its amount on a document that is open. *)
LEMMA ApiPaymentOK ==
    ASSUME InvoicingInv, NEW r \in Req, NEW p \in Payment, NEW i \in Doc,
           ApiPayment(r, p, i)
    PROVE  InvoicingInv'
<1> USE DEF InvoicingInv
<1>1. /\ i \in Docs /\ doc[i] \in DocRow /\ payment[p] = NoPayment
      /\ doc[i].paid \in Int /\ doc[i].total \in Int /\ credited[i] \in Nat
    BY RowsAreRows, InvoicingAssumption DEF ApiPayment, DocRow, TablesOK
<1>2. PICK amount \in PayAmount :
         LET counts == doc[i].status \in {"open", "overdue"}
             sum == doc[i].paid + (IF counts THEN amount ELSE 0)
         IN  /\ payment' = [payment EXCEPT ![p] = [amount |-> amount, doc |-> i]]
             /\ doc' = [doc EXCEPT ![i].paid = sum,
                         ![i].status = IF sum >= doc[i].total THEN "paid" ELSE @]
             /\ credited' = [credited EXCEPT ![i] = @ + (IF counts THEN amount ELSE 0)]
    BY DEF ApiPayment
<1> DEFINE extra == IF doc[i].status \in {"open", "overdue"} THEN amount ELSE 0
<1> DEFINE sum == doc[i].paid + extra
<1> DEFINE status == IF sum >= doc[i].total THEN "paid" ELSE doc[i].status
<1>3. /\ amount \in Nat \ {0} /\ extra \in Nat /\ sum \in Int
      /\ doc[i].status \in {"paid", "converted"} => extra = 0
    BY <1>1, InvoicingAssumption
<1>4. /\ doc' = [doc EXCEPT ![i].paid = sum, ![i].status = status]
      /\ credited' = [credited EXCEPT ![i] = credited[i] + extra]
    BY <1>1, <1>2 DEF TablesOK
<1>5. /\ status \in {"open", "paid", "void", "draft", "accepted", "declined", "converted"}
      /\ doc[i].kind = "estimate" \/ status \in {"open", "paid", "void"}
    BY <1>1 DEF DocRow, TablesOK
<1>6. Overwrites(i, status, sum)
    <2> HIDE DEF status, sum
    <2> QED BY <1>1, <1>3, <1>4, <1>5, BothSet
<1>7. /\ RequestsOK' /\ UNCHANGED <<pc, loc>> /\ raced \subseteq raced' /\ Others(r)
      /\ WorkingOn(i) # {} => i \in raced'
    BY ServeOK DEF ApiPayment, Others
<1>8. \A l : Quiet(l)
    BY <1>7, QuietBut
<1>9. UNCHANGED <<lastNo, share, claimed, sent, overdue, marked, halfPaid>>
    BY DEF ApiPayment
<1>10. /\ payment' \in [Payment -> [amount : Nat, doc : Doc \cup {"none"}]]
       /\ payment'[p] # NoPayment /\ payment'[p].amount > 0
       /\ \A o \in Payment \ {p} : payment'[o] = payment[o]
    BY <1>2, <1>3 DEF TablesOK, NoPayment
<1>11. /\ credited' \in [Doc -> Nat] /\ credited'[i] = credited[i] + extra
       /\ \A j \in Doc \ {i} : credited'[j] = credited[j]
    BY <1>1, <1>3, <1>4 DEF TablesOK
<1>12. TablesOK'
    <2>1. \A o \in Payment : payment'[o] # NoPayment => payment'[o].amount > 0
        BY <1>10 DEF TablesOK
    <2> HIDE DEF status, sum
    <2> QED BY <1>1, <1>6, <1>9, <1>10, <1>11, <2>1, TablesAfter
<1>13. HeldOK'
    BY <1>6, <1>7, <1>9, <1>10, HeldStays DEF Overwrites
<1>14. NumbersOK'
    BY <1>6, <1>8, <1>9, NumbersStay DEF Overwrites
<1>15. ConvertOK'
    <2>1. \A e \in Doc : credited'[e] = 0 => credited[e] = 0
        BY <1>1, <1>3, <1>11
    <2>2. ASSUME NEW e \in Doc, Untouched(e), doc[e].status = "converted"
          PROVE  doc'[e].status = "converted"
        <3>1. CASE e = i
            <4>1. doc[i].paid <= 0 /\ extra = 0 /\ doc[i].total > 0
                BY <1>1, <1>3, <2>2, <3>1 DEF PaidOK, Untouched
            <4>2. status = "converted"
                BY <1>1, <2>2, <3>1, <4>1
            <4> QED BY <1>6, <3>1, <4>2 DEF Overwrites
        <3>2. CASE e # i
            BY <1>6, <2>2, <3>2 DEF Overwrites, Untouched
        <3> QED BY <3>1, <3>2
    <2> QED BY <1>6, <1>8, <1>9, <2>1, <2>2, ConvertStays DEF Overwrites
<1>16. PaidOK'
    <2>1. \A q \in Req : pc[q] = "apply_commit" =>
             /\ loc[q].payment \in Payment
             /\ payment'[loc[q].payment] = payment[loc[q].payment]
             /\ payment[loc[q].payment].amount \in Nat /\ loc[q].sum \in Int
             /\ loc[q].on = i => i \in raced'
        BY <1>1, <1>7, <1>10 DEF HeldOK, Held, TablesOK, WorkingOn, Busy
    <2>2. \A j \in Docs : j # i => doc'[j] = doc[j] /\ credited'[j] = credited[j]
        BY <1>6, <1>11 DEF Overwrites, Docs
    <2>3. Docs' = Docs /\ doc'[i].paid = doc[i].paid + extra
        BY <1>6 DEF Overwrites, SameDocs
    <2> HIDE DEF extra
    <2> QED BY <1>1, <1>3, <1>7, <1>9, <1>11, <2>1, <2>2, <2>3 DEF PaidOK
<1>17. CoveredOK'
    <2>1. status = "paid" => sum >= doc[i].total \/ (doc[i].status = "paid" /\ sum = doc[i].paid)
        BY <1>1, <1>3
    <2> HIDE DEF status, sum
    <2> QED BY <1>6, <1>7, <1>9, <2>1, CoveredStays DEF Overwrites
<1>18. RemindersOK'
    BY <1>8, <1>9, RemindersStay
<1> QED BY <1>7, <1>12, <1>13, <1>14, <1>15, <1>16, <1>17, <1>18

(* What every step that leaves the documents alone shares. *)
LEMMA DocsAlone ==
    ASSUME TablesOK, UNCHANGED doc
    PROVE  SameDocs
    BY DEF SameDocs, Docs

LEMMA ApiPaymentUnlinkedOK ==
    ASSUME InvoicingInv, NEW p \in Payment, ApiPaymentUnlinked(p)
    PROVE  InvoicingInv'
<1> USE DEF InvoicingInv
<1>1. PICK amount \in PayAmount :
         payment' = [payment EXCEPT ![p] = [amount |-> amount, doc |-> "none"]]
    BY DEF ApiPaymentUnlinked
<1>2. /\ payment[p] = NoPayment
      /\ UNCHANGED <<pc, loc, raced, doc, lastNo, share, claimed, sent, overdue,
                     credited, marked, halfPaid>>
    BY DEF ApiPaymentUnlinked
<1>3. /\ payment' \in [Payment -> [amount : Nat, doc : Doc \cup {"none"}]]
      /\ payment'[p] # NoPayment /\ payment'[p].amount > 0
      /\ \A o \in Payment \ {p} : payment'[o] = payment[o]
    BY <1>1, <1>2, InvoicingAssumption DEF TablesOK, NoPayment
<1>4. SameDocs /\ \A l : Quiet(l)
    BY <1>2, DocsAlone DEF Quiet
<1>5. RequestsOK' /\ TablesOK'
    BY <1>2, <1>3 DEF TablesOK, Docs, RequestsOK, Busy
<1>6. HeldOK'
    BY <1>2, <1>3 DEF HeldOK, Held, Docs, Busy
<1>7. NumbersOK' /\ RemindersOK'
    BY <1>2, <1>4, NumbersStay, RemindersStay
<1>8. ConvertOK' /\ PaidOK' /\ CoveredOK'
    <2>1. CoveredOK'
        BY <1>2 DEF CoveredOK, Docs
    <2>2. ConvertOK'
        BY <1>2, <1>4, ConvertStays
    <2>3. PaidOK'
        BY <1>2, <1>3, <1>4, PaidStays
    <2> QED BY <2>1, <2>2, <2>3
<1> QED BY <1>5, <1>6, <1>7, <1>8

(* apply reads ... *)
LEMMA ApplyReadOK ==
    ASSUME InvoicingInv, NEW r \in Req, NEW p \in Payment, NEW i \in Doc,
           ApplyRead(r, p, i)
    PROVE  InvoicingInv'
<1> USE DEF InvoicingInv
<1> DEFINE d == [on |-> i, payment |-> p, sum |-> doc[i].paid + payment[p].amount,
                 total |-> doc[i].total]
<1>1. /\ i \in Docs /\ doc[i] \in DocRow /\ payment[p] # NoPayment
      /\ doc[i].paid \in Int /\ payment[p].amount \in Nat
    BY RowsAreRows DEF ApplyRead, DocRow, TablesOK
<1>2. /\ RequestsOK' /\ pc[r] = "idle" /\ pc'[r] = "apply_commit"
      /\ loc'[r] = d
      /\ Others(r) /\ raced \subseteq raced'
      /\ WorkingOn(i) # {} => i \in raced'
    BY BeginOK DEF ApplyRead
<1>3. /\ loc'[r].on = i /\ loc'[r].payment = p /\ loc'[r].total = doc[i].total
      /\ loc'[r].sum = doc[i].paid + payment[p].amount
    BY <1>2
<1>4. \A l : l # "apply_commit" => Quiet(l)
    BY <1>2, QuietBut
<1>5. UNCHANGED invVars /\ UNCHANGED <<doc, lastNo, payment, share, claimed, sent, overdue,
                     credited, marked, halfPaid>>
    BY DEF ApplyRead, invVars
<1>6. SameDocs /\ TablesOK'
    BY <1>5, DocsAlone DEF TablesOK, Docs
<1>7. HeldOK'
    <2>1. Held(r)'
        BY <1>1, <1>2, <1>3, <1>5, <1>6 DEF Held, SameDocs
    <2> QED BY <1>1, <1>2, <1>3, <1>5, <1>6, <2>1, HeldBegins
<1>8. NumbersOK' /\ RemindersOK'
    BY <1>4, <1>5, <1>6, NumbersStay, RemindersStay
<1>9. ConvertOK'
    BY <1>4, <1>5, <1>6, ConvertStays
<1>10. CoveredOK'
    BY <1>2, <1>5, <1>6, CoveredStays DEF Others
<1>11. PaidOK'
    <2>1. \A q \in Req \ {r} : pc'[q] = pc[q] /\ loc'[q] = loc[q]
        BY <1>2 DEF Others
    <2>2. Docs' = Docs /\ UNCHANGED <<doc, payment, credited, marked>>
        BY <1>5, <1>6 DEF SameDocs
    <2>3. i \notin marked => doc[i].paid <= credited[i] /\ credited[i] \in Nat
        BY <1>1 DEF PaidOK, TablesOK, Docs
    <2>4. /\ i \notin marked => loc'[r].sum <= credited[i] + payment[p].amount
          /\ loc'[r].sum = doc[i].paid + payment[p].amount
        BY <1>1, <1>3, <2>3
    <2> QED BY <1>2, <1>3, <2>1, <2>2, <2>4 DEF PaidOK
<1> QED BY <1>2, <1>6, <1>7, <1>8, <1>9, <1>10, <1>11

(* ... and writes what it has read. *)
LEMMA ApplyCommitOK ==
    ASSUME InvoicingInv, NEW r \in Req, ApplyCommit(r)
    PROVE  InvoicingInv'
<1> USE DEF InvoicingInv
<1> DEFINE i == loc[r].on
<1> DEFINE p == loc[r].payment
<1> DEFINE sum == loc[r].sum
<1>1. /\ pc[r] = "apply_commit" /\ i \in Docs /\ p \in Payment /\ payment[p] # NoPayment
      /\ sum \in Int /\ loc[r].total = doc[i].total /\ i \in Doc
    BY RowsAreRows DEF ApplyCommit, HeldOK, Held
<1>0. loc[r].total \in Int
    BY <1>1, RowsAreRows, InvoicingAssumption DEF DocRow
<1>2. /\ RequestsOK' /\ pc'[r] = "idle" /\ Others(r) /\ UNCHANGED raced
    BY EndOK DEF ApplyCommit
<1>3. \A l : l # "idle" => Quiet(l)
    BY <1>2, QuietBut
<1>4. UNCHANGED <<lastNo, share, claimed, sent, overdue, marked, halfPaid>>
    BY DEF ApplyCommit
<1>5. RemindersOK'
    BY <1>3, <1>4, RemindersStay
<1>6. CASE sum < loc[r].total
    <2>1. UNCHANGED <<doc, payment, credited>>
        BY <1>0, <1>1, <1>6 DEF ApplyCommit
    <2>2. SameDocs /\ TablesOK'
        BY <1>4, <2>1, DocsAlone DEF TablesOK, Docs
    <2>3. HeldOK'
        BY <1>2, <1>4, <2>1, <2>2, HeldStays
    <2>4. NumbersOK' /\ ConvertOK'
        BY <1>3, <1>4, <2>1, <2>2, NumbersStay, ConvertStays
    <2>5. PaidOK' /\ CoveredOK'
        BY <1>1, <1>2, <1>3, <1>4, <2>1, <2>2, PaidStays, CoveredStays DEF Others
    <2> QED BY <1>2, <1>5, <2>2, <2>3, <2>4, <2>5
<1>7. CASE sum >= loc[r].total
    <2>0. doc[i].total \in Int /\ doc[i].paid \in Int /\ payment[p].amount \in Nat /\ credited[i] \in Nat
        BY <1>1, RowsAreRows, InvoicingAssumption DEF DocRow, TablesOK
    <2>1. /\ doc' = [doc EXCEPT ![i].paid = sum, ![i].status = "paid"]
          /\ payment' = [payment EXCEPT ![p].doc = i]
          /\ credited' = [credited EXCEPT ![i] = @ + payment[p].amount]
        BY <1>1, <1>7, <2>0 DEF ApplyCommit
    <2> HIDE DEF i, p, sum
    <2>2. Overwrites(i, "paid", sum)
        BY <1>1, <2>1, BothSet
    <2>3. /\ payment' \in [Payment -> [amount : Nat, doc : Doc \cup {"none"}]]
          /\ \A o \in Payment : /\ payment'[o].amount = payment[o].amount
                                /\ o # p => payment'[o] = payment[o]
                                /\ payment[o] # NoPayment => payment'[o] # NoPayment
        BY <1>1, <2>1, InvoicingAssumption DEF TablesOK, NoPayment
    <2>4. /\ credited' \in [Doc -> Nat] /\ credited'[i] = credited[i] + payment[p].amount
          /\ \A j \in Doc \ {i} : credited'[j] = credited[j]
        BY <1>1, <2>0, <2>1 DEF TablesOK
    <2>5. TablesOK'
        <3>1. \A o \in Payment : payment'[o] # NoPayment => payment'[o].amount > 0
            BY <1>1, <2>3 DEF TablesOK
        <3> QED BY <1>1, <1>4, <2>2, <2>3, <2>4, <3>1, TablesAfter
    <2>6. HeldOK'
        BY <1>2, <1>4, <2>2, <2>3, HeldStays DEF Overwrites
    <2>7. NumbersOK'
        BY <1>3, <1>4, <2>2, NumbersStay DEF Overwrites
    <2>8. CoveredOK'
        BY <1>1, <1>2, <1>4, <1>7, <2>2, CoveredStays DEF Overwrites, Others
    <2>9. ConvertOK'
        <3>1. payment[p].amount > 0
            BY <1>1 DEF TablesOK
        <3>2. \A e \in Doc : credited'[e] = 0 => credited[e] = 0 /\ e # i
            BY <2>0, <2>4, <3>1
        <3> QED BY <1>3, <1>4, <2>2, <3>2, ConvertStays DEF Overwrites, Untouched
    <2>10. PaidOK'
        <3>1. \A q \in Req : pc'[q] = "apply_commit" =>
                 /\ q # r /\ pc[q] = "apply_commit" /\ loc'[q] = loc[q]
                 /\ payment'[loc[q].payment].amount = payment[loc[q].payment].amount
                 /\ payment[loc[q].payment].amount \in Nat /\ loc[q].sum \in Int
                 /\ loc[q].on = i => i \in raced
            <4> SUFFICES ASSUME NEW q \in Req, pc'[q] = "apply_commit"
                         PROVE  /\ q # r /\ pc[q] = "apply_commit" /\ loc'[q] = loc[q]
                                /\ payment'[loc[q].payment].amount = payment[loc[q].payment].amount
                                /\ payment[loc[q].payment].amount \in Nat /\ loc[q].sum \in Int
                                /\ loc[q].on = i => i \in raced
                OBVIOUS
            <4>1. q # r /\ pc[q] = "apply_commit" /\ loc'[q] = loc[q]
                BY <1>2 DEF Others
            <4>2. loc[q].payment \in Payment /\ loc[q].sum \in Int
                BY <4>1 DEF HeldOK, Held
            <4>3. loc[q].on = i => i \in raced
                BY <1>1, <4>1 DEF RequestsOK, Busy, i
            <4> QED BY <2>3, <4>1, <4>2, <4>3 DEF TablesOK
        <3>2. \A j \in Docs : j # i => doc'[j] = doc[j] /\ credited'[j] = credited[j]
            BY <2>2, <2>4 DEF Overwrites, Docs
        <3>3. Docs' = Docs /\ doc'[i].paid = sum
            BY <2>2 DEF Overwrites, SameDocs
        <3>4. i \notin marked => /\ sum <= credited[i] + payment[p].amount
                                 /\ i \notin raced => sum = doc[i].paid + payment[p].amount
                                 /\ i \notin raced => doc[i].paid = credited[i]
            BY <1>1 DEF PaidOK, i, p, sum
        <3> QED BY <1>1, <1>2, <1>4, <2>0, <2>4, <3>1, <3>2, <3>3, <3>4 DEF PaidOK
    <2> QED BY <1>2, <1>5, <2>5, <2>6, <2>7, <2>8, <2>9, <2>10
<1> QED BY <1>0, <1>1, <1>6, <1>7

(* Steps that leave documents and payments alone. *)
LEMMA AloneOK ==
    ASSUME InvoicingInv, UNCHANGED <<doc, lastNo, payment, credited, marked, halfPaid>>,
           RequestsOK', raced \subseteq raced',
           Quiet("invoice_insert"), Quiet("convert_insert"), Quiet("apply_commit"),
           \A q \in Req : pc[q] = "transition_end" =>
              pc'[q] = "transition_end" /\ loc'[q] = loc[q],
           HeldOK', RemindersOK',
           claimed' \subseteq Doc \X Offsets, sent' \in [Doc \X Offsets -> Nat]
    PROVE  InvoicingInv'
<1> USE DEF InvoicingInv
<1>1. SameDocs /\ TablesOK'
    BY DocsAlone DEF TablesOK, Docs
<1>2. NumbersOK' /\ ConvertOK'
    BY <1>1, NumbersStay, ConvertStays
<1>3. PaidOK'
    BY <1>1, PaidStays
<1>4. CoveredOK'
    BY <1>1, CoveredStays
<1> QED BY <1>1, <1>2, <1>3, <1>4

(* Links, the day and nothing. *)
LEMMA LinkOK ==
    ASSUME InvoicingInv,
           \/ \E r \in Req, i \in Doc : CreateLink(r, i) \/ RevokeLink(r, i)
           \/ DayPasses
           \/ UNCHANGED <<reqVars, invVars>>
    PROVE  InvoicingInv'
<1> USE DEF InvoicingInv
<1>1. /\ UNCHANGED <<doc, lastNo, payment, credited, marked, halfPaid, claimed, sent, pc, loc>>
      /\ raced \subseteq raced'
    BY DEF CreateLink, RevokeLink, DayPasses, Serve, reqVars, invVars
<1>2. RequestsOK'
    BY ServeOK DEF CreateLink, RevokeLink, DayPasses, reqVars, RequestsOK, Busy
<1>3. HeldOK' /\ RemindersOK' /\ \A l : Quiet(l)
    BY <1>1 DEF HeldOK, Held, RemindersOK, Quiet, Docs, Busy
<1> QED BY <1>1, <1>2, <1>3, AloneOK DEF TablesOK

(* The scan of the reminders, ... *)
LEMMA ReminderScanOK ==
    ASSUME InvoicingInv, NEW r \in Req, ReminderScan(r)
    PROVE  InvoicingInv'
<1> USE DEF InvoicingInv
<1> DEFINE todo == {i \in Docs : doc[i].status \in {"open", "overdue"}}
                        \X {o \in Offsets : o <= overdue}
<1>1. /\ RequestsOK' /\ pc[r] = "idle" /\ pc'[r] = "reminder"
      /\ loc'[r] = [on |-> "reminders", todo |-> todo]
      /\ Others(r) /\ raced \subseteq raced'
    BY BeginOK DEF ReminderScan
<1>2. loc'[r].on = "reminders" /\ loc'[r].todo \subseteq Doc \X Offsets
    BY <1>1 DEF Docs
<1>3. \A l : l # "reminder" => Quiet(l)
    BY <1>1, QuietBut
<1>4. UNCHANGED <<doc, lastNo, payment, credited, marked, halfPaid, claimed, sent>>
    BY DEF ReminderScan, invVars
<1>5. HeldOK'
    <2>1. Held(r)'
        BY <1>1, <1>2 DEF Held
    <2> QED BY <1>1, <1>2, <1>4, <2>1, DocsAlone, HeldBegins, InvoicingAssumption
<1>6. RemindersOK'
    BY <1>3, <1>4, RemindersStay
<1> QED BY <1>1, <1>3, <1>4, <1>5, <1>6, AloneOK DEF Others, TablesOK

(* ... the claim of one, ... *)
LEMMA ReminderClaimOK ==
    ASSUME InvoicingInv, NEW r \in Req, ReminderClaim(r)
    PROVE  InvoicingInv'
<1> USE DEF InvoicingInv
<1>1. /\ pc[r] = "reminder" /\ loc[r].on = "reminders"
      /\ loc[r].todo \subseteq Doc \X Offsets
    BY DEF ReminderClaim, HeldOK, Held
<1>2. UNCHANGED <<doc, lastNo, payment, credited, marked, halfPaid, sent>>
    BY DEF ReminderClaim
<1>3. CASE End(r) /\ UNCHANGED claimed
    <2>1. RequestsOK' /\ pc'[r] = "idle" /\ Others(r) /\ UNCHANGED raced
        BY <1>3, EndOK
    <2>2. \A l : l # "idle" => Quiet(l)
        BY <2>1, QuietBut
    <2>3. HeldOK' /\ RemindersOK'
        BY <1>2, <1>3, <2>1, <2>2, HeldStays, RemindersStay, DocsAlone
    <2> QED BY <1>1, <1>2, <1>3, <2>1, <2>2, <2>3, AloneOK DEF Others, TablesOK
<1>4. ASSUME NEW s \in loc[r].todo,
             Goto(r, "reminder", [on |-> "reminders", todo |-> loc[r].todo \ {s}]),
             UNCHANGED claimed
      PROVE  InvoicingInv'
    <2>1. /\ RequestsOK' /\ pc'[r] = "reminder" /\ Others(r) /\ UNCHANGED raced
          /\ loc'[r] = [on |-> "reminders", todo |-> loc[r].todo \ {s}]
        BY <1>1, <1>4, GotoOK DEF Busy
    <2>2. \A l : l # "reminder" => Quiet(l)
        BY <2>1, QuietBut
    <2>3. loc'[r].on = "reminders" /\ loc'[r].todo \subseteq Doc \X Offsets
        BY <1>1, <2>1
    <2>4. HeldOK' /\ RemindersOK'
        <3>1. Held(r)'
            BY <2>1, <2>3 DEF Held
        <3> QED BY <1>2, <1>4, <2>1, <2>2, <2>3, <3>1, HeldBegins, RemindersStay,
                   DocsAlone, InvoicingAssumption
    <2> QED BY <1>1, <1>2, <1>4, <2>1, <2>2, <2>4, AloneOK DEF Others, TablesOK
<1>5. ASSUME NEW s \in loc[r].todo, s \notin claimed, claimed' = claimed \cup {s},
             Goto(r, "reminder_send",
                  [on |-> "reminders", todo |-> loc[r].todo \ {s}, next |-> s])
      PROVE  InvoicingInv'
    <2>1. /\ RequestsOK' /\ pc'[r] = "reminder_send" /\ Others(r) /\ UNCHANGED raced
          /\ loc'[r] = [on |-> "reminders", todo |-> loc[r].todo \ {s}, next |-> s]
        BY <1>1, <1>5, GotoOK DEF Busy
    <2>2. \A l : l # "reminder_send" => Quiet(l)
        BY <2>1, QuietBut
    <2>3. /\ loc'[r].on = "reminders" /\ loc'[r].todo \subseteq Doc \X Offsets
          /\ loc'[r].next = s /\ s \in Doc \X Offsets
        BY <1>1, <2>1
    <2>4. HeldOK'
        <3>1. Held(r)'
            BY <2>1, <2>3 DEF Held
        <3> QED BY <1>2, <1>5, <2>1, <2>2, <2>3, <3>1, HeldBegins,
                   DocsAlone, InvoicingAssumption
    <2>5. RemindersOK'
        BY <1>1, <1>2, <1>5, <2>1, <2>3 DEF RemindersOK, Others
    <2>6. claimed' \subseteq Doc \X Offsets
        BY <1>5, <2>3 DEF TablesOK
    <2> QED BY <1>1, <1>2, <1>5, <2>1, <2>2, <2>4, <2>5, <2>6, AloneOK DEF Others, TablesOK
<1> QED BY <1>3, <1>4, <1>5 DEF ReminderClaim

(* ... and its delivery. *)
LEMMA ReminderSendOK ==
    ASSUME InvoicingInv, NEW r \in Req, ReminderSend(r)
    PROVE  InvoicingInv'
<1> USE DEF InvoicingInv
<1>1. /\ pc[r] = "reminder_send" /\ loc[r].on = "reminders"
      /\ loc[r].todo \subseteq Doc \X Offsets /\ loc[r].next \in Doc \X Offsets
    BY DEF ReminderSend, HeldOK, Held
<1>2. /\ UNCHANGED <<doc, lastNo, payment, credited, marked, halfPaid, claimed>>
      /\ sent' = [sent EXCEPT ![loc[r].next] = @ + 1]
    BY DEF ReminderSend
<1>3. /\ RequestsOK' /\ pc'[r] = "reminder" /\ Others(r) /\ UNCHANGED raced
      /\ loc'[r] = [on |-> "reminders", todo |-> loc[r].todo]
    BY <1>1, GotoOK DEF ReminderSend, Busy
<1>4. \A l : l # "reminder" => Quiet(l)
    BY <1>3, QuietBut
<1>5. loc'[r].on = "reminders" /\ loc'[r].todo \subseteq Doc \X Offsets
    BY <1>1, <1>3
<1>6. HeldOK'
    <2>1. Held(r)'
        BY <1>3, <1>5 DEF Held
    <2> QED BY <1>2, <1>3, <1>5, <2>1, HeldBegins, DocsAlone, InvoicingAssumption
<1>7. RemindersOK' /\ sent' \in [Doc \X Offsets -> Nat]
    <2>1. /\ sent' \in [Doc \X Offsets -> Nat] /\ sent'[loc[r].next] = 1
          /\ \A s \in Doc \X Offsets : s # loc[r].next => sent'[s] = sent[s]
        BY <1>1, <1>2 DEF RemindersOK, TablesOK
    <2>2. \A q \in Req : pc'[q] = "reminder_send" =>
             /\ q # r /\ pc[q] = "reminder_send" /\ loc'[q] = loc[q]
             /\ loc[q].next # loc[r].next /\ loc[q].next \in Doc \X Offsets
        BY <1>1, <1>3 DEF RemindersOK, Others, HeldOK, Held
    <2> QED BY <1>1, <1>2, <2>1, <2>2 DEF RemindersOK
<1> QED BY <1>1, <1>2, <1>3, <1>4, <1>6, <1>7, AloneOK DEF Others, TablesOK

(* A request that is cut off leaves its row as it is. *)
LEMMA InvoiceCutOffOK ==
    ASSUME InvoicingInv, NEW r \in Req, InvoiceCutOff(r)
    PROVE  InvoicingInv'
<1> USE DEF InvoicingInv
<1>1. /\ RequestsOK' /\ pc'[r] = "idle" /\ Others(r) /\ UNCHANGED raced
    BY EndOK DEF InvoiceCutOff, CutOff
<1>2. \A l : l # "idle" => Quiet(l)
    BY <1>1, QuietBut
<1>3. /\ UNCHANGED <<doc, lastNo, payment, credited, marked, claimed, sent>>
      /\ halfPaid' = halfPaid \cup {loc[r].on}
    BY DEF InvoiceCutOff
<1>4. SameDocs /\ TablesOK'
    BY <1>3, DocsAlone DEF TablesOK, Docs
<1>5. HeldOK' /\ NumbersOK' /\ ConvertOK' /\ RemindersOK'
    BY <1>1, <1>2, <1>3, <1>4, HeldStays, NumbersStay, ConvertStays, RemindersStay
<1>6. PaidOK'
    BY <1>1, <1>2, <1>3, <1>4, PaidStays
<1>7. CoveredOK'
    BY <1>1, <1>3, <1>4 DEF CoveredOK, SameDocs, Others
<1> QED BY <1>1, <1>4, <1>5, <1>6, <1>7

-----------------------------------------------------------------------------
(* The next number leaves no hole: without a sequence row it follows the   *)
(* largest number in use, and all of those were typed in.                  *)
LEMMA NextNumberOK ==
    ASSUME TablesOK, NumbersOK
    PROVE  /\ NextInvoiceNumber \in Nat \ {0}
           /\ \A n \in 1..(NextInvoiceNumber - 1) : Filled(n)
<1>1. CASE lastNo # NoSequence
    <2>1. lastNo \in Nat /\ NextInvoiceNumber = lastNo + 1
        BY <1>1 DEF TablesOK, NextInvoiceNumber
    <2> QED BY <2>1 DEF NumbersOK
<1>2. CASE lastNo = NoSequence
    <2> DEFINE S == NumbersUsed \cup {0}
    <2> DEFINE m == Max(S)
    <2>1. NumbersUsed \subseteq Nat
        BY RowsAreRows DEF NumbersUsed, DocRow
    <2>2. PICK b \in Nat : \A n \in NumbersUsed : n <= b
        BY DEF NumbersOK
    <2>3. S \in SUBSET Int /\ 0 \in S /\ b \in Int /\ \A x \in S : x <= b
        BY <2>1, <2>2
    <2>4. m \in S /\ \A x \in S : x <= m
        <3> HIDE DEF S
        <3> QED BY <2>3, MaxOfBounded
    <2>5. NumbersUsed \subseteq NumberTyped
        <3> SUFFICES ASSUME NEW i \in Docs, doc[i].number # 0
                     PROVE  doc[i].number \in NumberTyped
            BY DEF NumbersUsed
        <3>1. doc[i].web \in BOOLEAN
            BY RowsAreRows DEF DocRow
        <3>2. ~doc[i].web
            BY <1>2 DEF NumbersOK, NoSequence
        <3> QED BY <3>2 DEF NumbersOK
    <2>6. NextInvoiceNumber = m + 1 /\ m \in Nat
        <3>1. NextInvoiceNumber = m + 1
            BY <1>2, Zenon DEF NextInvoiceNumber
        <3>2. S \subseteq Nat
            BY <2>1
        <3> HIDE DEF m, S
        <3> QED BY <2>4, <3>1, <3>2
    <2> HIDE DEF m
    <2>7. \A n \in 1..m : Filled(n)
        BY <2>1, <2>4, <2>5, <2>6 DEF Filled
    <2> QED BY <2>6, <2>7
<1> QED BY <1>1, <1>2

(* A new document with a number that fits the sequence. *)
LEMMA NewNumberOK ==
    ASSUME TablesOK, NumbersOK, NEW i \in Doc \ Docs, NEW row \in DocRow,
           doc' = [doc EXCEPT ![i] = row], Quiet("invoice_insert"),
           lastNo' \in Nat \cup {NoSequence}, lastNo <= lastNo',
           row.web => row.number \in 1..lastNo',
           ~row.web => row.number \in NumberTyped \cup {0},
           \A n \in 1..lastNo' : n \in 1..lastNo \/ Filled(n)'
    PROVE  NumbersOK'
<1>1. /\ Docs' = Docs \cup {i} /\ doc'[i] = row
      /\ \A j \in Docs : j # i /\ doc'[j] = doc[j]
    BY RowsAreRows DEF Docs, TablesOK
<1>2. NumbersUsed' = NumbersUsed \cup ({row.number} \ {0})
    BY <1>1 DEF NumbersUsed
<1>3. \A n : Filled(n) => Filled(n)'
    BY <1>2 DEF Filled
<1>4. \A j \in Docs' : /\ doc'[j].web => doc'[j].number \in 1..lastNo'
                       /\ ~doc'[j].web => doc'[j].number \in NumberTyped \cup {0}
    <2>1. lastNo \in Int /\ lastNo' \in Int
        BY DEF TablesOK, NoSequence
    <2>2. \A n \in 1..lastNo : n \in 1..lastNo'
        BY <2>1
    <2> QED BY <1>1, <2>2 DEF NumbersOK
<1>5. \A n \in 1..lastNo' : Filled(n)'
    BY <1>3 DEF NumbersOK
<1>6. \A r \in Req : pc'[r] = "invoice_insert" =>
          \/ loc'[r].number \in NumberTyped
          \/ \A n \in 1..(loc'[r].number - 1) : Filled(n)'
    BY <1>3 DEF NumbersOK, Quiet
<1>7. \E b \in Nat : \A n \in NumbersUsed' : n <= b
    <2>1. PICK b \in Nat : \A n \in NumbersUsed : n <= b
        BY DEF NumbersOK
    <2>2. row.number \in Nat /\ NumbersUsed \subseteq Nat
        BY RowsAreRows DEF DocRow, NumbersUsed
    <2>3. b + row.number \in Nat /\ \A n \in NumbersUsed' : n <= b + row.number
        BY <1>2, <2>1, <2>2
    <2> QED BY <2>3
<1> QED BY <1>4, <1>5, <1>6, <1>7 DEF NumbersOK

(* A new document: nobody is at work on it, and what it was converted from *)
(* had a request waiting to insert it.                                     *)
LEMMA NewRowOK ==
    ASSUME InvoicingInv, NEW r \in Req, NEW i \in Doc \ Docs, NEW row \in DocRow,
           doc' = [doc EXCEPT ![i] = row], row.paid = 0,
           row.status = "open" \/ (row.kind = "estimate" /\ row.status = "draft"),
           UNCHANGED <<payment, claimed, sent, credited, marked, halfPaid>>,
           RequestsOK', Others(r), pc'[r] = "idle" \/ UNCHANGED <<pc, loc>>,
           raced \subseteq raced', pc[r] # "transition_end",
           \A q \in Req : pc'[q] # "idle" => loc[q].on # i,
           lastNo' \in Nat \cup {NoSequence}, NumbersOK',
           \/ row.from = "none"
           \/ pc[r] = "convert_insert" /\ loc[r].on = row.from /\ pc'[r] = "idle"
    PROVE  InvoicingInv'
<1> USE DEF InvoicingInv
<1>1. /\ Docs' = Docs \cup {i} /\ doc'[i] = row
      /\ \A j \in Docs : j # i /\ doc'[j] = doc[j]
      /\ doc' \in [Doc -> DocRow \cup {NoDoc}]
    BY RowsAreRows DEF Docs, TablesOK
<1>2. \A q \in Req : pc'[q] # "idle" => pc'[q] = pc[q] /\ loc'[q] = loc[q]
    BY DEF Others
<1>3. TablesOK'
    BY <1>1 DEF TablesOK
<1>4. HeldOK'
    BY <1>1, <1>2 DEF HeldOK, Held, Busy
<1>5. ConvertOK'
    <2>1. row.from \in Docs \cup {"none"} /\ i # "none" /\ "none" \notin Docs
        BY InvoicingAssumption DEF HeldOK, Held, Docs
    <2>2. \A j \in Docs' : doc'[j].from \in Docs \cup {"none"}
        BY <1>1, <2>1 DEF ConvertOK
    <2>3. \A q \in Req : pc'[q] = "convert_insert" =>
             pc[q] = "convert_insert" /\ loc'[q] = loc[q] /\ loc[q].on \in Docs
        BY <1>2 DEF HeldOK, Held
    <2>4. \A e \in Docs : Untouched(e)' <=> Untouched(e)
        BY <1>1 DEF Untouched
    <2>5. \A e \in Docs : \A j \in Docs' : doc'[j].from = e =>
             \/ j \in Docs /\ doc[j].from = e
             \/ j = i /\ e = row.from /\ pc[r] = "convert_insert" /\ loc[r].on = e
                /\ pc'[r] = "idle"
        BY <1>1, <2>1
    <2>6. ASSUME NEW e \in Doc, Untouched(e)'
          PROVE  /\ \A j \in Docs' : doc'[j].from = e =>
                      /\ doc'[e].status = "converted"
                      /\ \A k \in Docs' : doc'[k].from = e => k = j
                      /\ \A q \in Req : ~(pc'[q] = "convert_insert" /\ loc'[q].on = e)
                 /\ \A q \in Req : pc'[q] = "convert_insert" /\ loc'[q].on = e =>
                      /\ doc'[e].status = "converted"
                      /\ \A v \in Req : pc'[v] = "convert_insert" /\ loc'[v].on = e => v = q
        <3>1. CASE e = i
            BY <2>2, <2>1, <2>3, <3>1
        <3>2. CASE e \in Docs
            <4>1. Untouched(e) /\ doc'[e] = doc[e]
                BY <1>1, <2>4, <2>6, <3>2
            <4>2. /\ \A j \in Docs : doc[j].from = e =>
                      /\ doc[e].status = "converted"
                      /\ \A k \in Docs : doc[k].from = e => k = j
                      /\ \A q \in Req : ~(pc[q] = "convert_insert" /\ loc[q].on = e)
                  /\ \A q \in Req : pc[q] = "convert_insert" /\ loc[q].on = e =>
                      /\ doc[e].status = "converted"
                      /\ \A v \in Req : pc[v] = "convert_insert" /\ loc[v].on = e => v = q
                BY <4>1 DEF ConvertOK
            <4> QED BY <2>3, <2>5, <3>2, <4>1, <4>2
        <3>3. e \in Docs'
            BY <2>6 DEF Untouched
        <3> QED BY <1>1, <3>1, <3>2, <3>3
    <2> QED BY <1>1, <2>2, <2>6 DEF ConvertOK
<1>6. PaidOK'
    <2>1. \A q \in Req : pc'[q] = "apply_commit" =>
             pc[q] = "apply_commit" /\ loc'[q] = loc[q] /\ loc[q].on # i
        BY <1>2
    <2>2. credited[i] = 0
        BY DEF TablesOK
    <2> QED BY <1>1, <2>1, <2>2 DEF PaidOK
<1>7. CoveredOK'
    <2>1. \A q \in Req : pc[q] = "transition_end" =>
             pc'[q] = "transition_end" /\ loc'[q] = loc[q]
        BY DEF Others
    <2>2. \A j \in Docs' : doc'[j].status = "paid" => j \in Docs
        BY <1>1
    <2> QED BY <1>1, <2>1, <2>2 DEF CoveredOK
<1>8. RemindersOK'
    BY <1>2 DEF RemindersOK
<1> QED BY <1>3, <1>4, <1>5, <1>6, <1>7, <1>8

(* An API client creates an invoice, a user an estimate. *)
LEMMA ServedCreateOK ==
    ASSUME InvoicingInv, NEW r \in Req, NEW i \in Doc,
           ApiInvoiceCreate(r, i) \/ EstimateCreate(r, i)
    PROVE  InvoicingInv'
<1> USE DEF InvoicingInv
<1>1. PICK row \in DocRow :
         /\ doc' = [doc EXCEPT ![i] = row] /\ row.paid = 0 /\ row.from = "none"
         /\ row.status = "open" \/ (row.kind = "estimate" /\ row.status = "draft")
         /\ ~row.web /\ row.number \in NumberTyped \cup {0}
    <2>1. CASE ApiInvoiceCreate(r, i)
        <3>1. PICK total \in InvTotal, n \in NumberTyped \cup {0} :
                 doc' = [doc EXCEPT ![i] = NewDoc("invoice", total, n, "open", "none", FALSE)]
            BY <2>1 DEF ApiInvoiceCreate
        <3> DEFINE row == NewDoc("invoice", total, n, "open", "none", FALSE)
        <3>2. /\ row \in DocRow /\ row.paid = 0 /\ row.from = "none" /\ row.status = "open"
              /\ ~row.web /\ row.number \in NumberTyped \cup {0}
            BY InvoicingAssumption DEF NewDoc, DocRow
        <3> QED BY <3>1, <3>2
    <2>2. CASE EstimateCreate(r, i)
        <3>1. PICK total \in InvTotal :
                 doc' = [doc EXCEPT ![i] = NewDoc("estimate", total, 0, "draft", "none", FALSE)]
            BY <2>2 DEF EstimateCreate
        <3> DEFINE row == NewDoc("estimate", total, 0, "draft", "none", FALSE)
        <3>2. /\ row \in DocRow /\ row.paid = 0 /\ row.from = "none" /\ row.status = "draft"
              /\ row.kind = "estimate" /\ ~row.web /\ row.number = 0
            BY InvoicingAssumption DEF NewDoc, DocRow
        <3> QED BY <3>1, <3>2
    <2> QED BY <2>1, <2>2
<1>2. i \notin Docs /\ WorkingOn(i) = {}
    BY DEF ApiInvoiceCreate, EstimateCreate
<1>3. /\ RequestsOK' /\ UNCHANGED <<pc, loc>> /\ raced \subseteq raced' /\ Others(r)
      /\ pc[r] = "idle"
    BY ServeOK DEF ApiInvoiceCreate, EstimateCreate, Others, Serve, Busy
<1>4. UNCHANGED <<lastNo, payment, claimed, sent, credited, marked, halfPaid>>
    BY DEF ApiInvoiceCreate, EstimateCreate
<1>5. NumbersOK'
    <2>1. Quiet("invoice_insert")
        BY <1>3 DEF Quiet
    <2>2. lastNo' \in Nat \cup {NoSequence} /\ lastNo <= lastNo'
        BY <1>4 DEF TablesOK, NoSequence
    <2>3. \A n \in 1..lastNo' : n \in 1..lastNo
        BY <1>4
    <2> QED BY <1>1, <1>2, <1>4, <2>1, <2>2, <2>3, NewNumberOK
<1>6. \A q \in Req : pc'[q] # "idle" => loc[q].on # i
    BY <1>2, <1>3 DEF WorkingOn, Busy
<1> QED BY <1>1, <1>2, <1>3, <1>4, <1>5, <1>6, NewRowOK DEF TablesOK

LEMMA ConvertInsertOK ==
    ASSUME InvoicingInv, NEW r \in Req, ConvertInsert(r)
    PROVE  InvoicingInv'
<1> USE DEF InvoicingInv
<1>1. PICK i \in Doc :
         /\ i \notin Docs /\ WorkingOn(i) = {}
         /\ doc' = [doc EXCEPT ![i] =
                      NewDoc("invoice", loc[r].total, 0, "open", loc[r].on, FALSE)]
    BY DEF ConvertInsert
<1>2. pc[r] = "convert_insert" /\ loc[r].on \in Docs /\ loc[r].total \in InvTotal
    BY DEF ConvertInsert, HeldOK, Held
<1> DEFINE row == NewDoc("invoice", loc[r].total, 0, "open", loc[r].on, FALSE)
<1>3. /\ row \in DocRow /\ row.paid = 0 /\ row.from = loc[r].on /\ row.status = "open"
      /\ ~row.web /\ row.number = 0
    BY <1>2 DEF NewDoc, DocRow, Docs
<1>4. doc' = [doc EXCEPT ![i] = row]
    BY <1>1
<1> HIDE DEF row
<1>5. RequestsOK' /\ pc'[r] = "idle" /\ Others(r) /\ UNCHANGED raced
    BY EndOK DEF ConvertInsert
<1>6. UNCHANGED <<lastNo, payment, claimed, sent, credited, marked, halfPaid>>
    BY DEF ConvertInsert
<1>7. NumbersOK'
    <2>1. Quiet("invoice_insert")
        BY <1>5, QuietBut
    <2>2. lastNo' \in Nat \cup {NoSequence} /\ lastNo <= lastNo'
        BY <1>6 DEF TablesOK, NoSequence
    <2>3. \A n \in 1..lastNo' : n \in 1..lastNo
        BY <1>6
    <2> QED BY <1>1, <1>3, <1>4, <1>6, <2>1, <2>2, <2>3, NewNumberOK
<1>8. \A q \in Req : pc'[q] # "idle" => loc[q].on # i
    BY <1>1, <1>5 DEF WorkingOn, Busy, Others
<1> QED BY <1>1, <1>2, <1>3, <1>4, <1>5, <1>6, <1>7, <1>8, NewRowOK DEF TablesOK

(* The form draws a number ... *)
LEMMA InvoiceCreateLockOK ==
    ASSUME InvoicingInv, NEW r \in Req, InvoiceCreateLock(r)
    PROVE  InvoicingInv'
<1> USE DEF InvoicingInv
<1>1. PICK i \in Doc, total \in InvTotal, n \in NumberTyped \cup {0} :
         /\ i \notin Docs /\ WorkingOn(i) = {}
         /\ Begin(r, "invoice_insert",
                  [on |-> i, total |-> total,
                   number |-> IF n = 0 THEN NextInvoiceNumber ELSE n])
    BY DEF InvoiceCreateLock
<1> DEFINE number == IF n = 0 THEN NextInvoiceNumber ELSE n
<1>2. /\ RequestsOK' /\ pc[r] = "idle" /\ pc'[r] = "invoice_insert"
      /\ loc'[r] = [on |-> i, total |-> total, number |-> number]
      /\ Others(r) /\ raced \subseteq raced'
    BY <1>1, BeginOK
<1>3. number \in Nat \ {0} /\ (number \in NumberTyped
                                \/ \A k \in 1..(number - 1) : Filled(k))
    BY NextNumberOK, InvoicingAssumption
<1>4. loc'[r].on = i /\ loc'[r].total = total /\ loc'[r].number = number
    BY <1>2
<1> HIDE DEF number
<1>5. UNCHANGED <<doc, lastNo, payment, claimed, sent, credited, marked, halfPaid>>
    BY DEF InvoiceCreateLock, invVars
<1>6. \A l : l # "invoice_insert" => Quiet(l)
    BY <1>2, QuietBut
<1>7. SameDocs /\ TablesOK' /\ Docs' = Docs
    BY <1>5, DocsAlone DEF TablesOK, Docs
<1>8. HeldOK'
    <2>1. \A q \in Req \ {r} : pc'[q] = pc[q] /\ loc'[q] = loc[q]
                                /\ (Busy(q) => loc[q].on # i)
        BY <1>1, <1>2 DEF Others, WorkingOn
    <2>2. Held(r)'
        BY <1>1, <1>2, <1>3, <1>4, <1>7, <2>1 DEF Held, Busy
    <2>3. \A q \in Req \ {r} : Held(q)'
        BY <1>4, <1>5, <1>7, <2>1 DEF HeldOK, Held, Busy
    <2> QED BY <2>2, <2>3 DEF HeldOK
<1>9. NumbersOK'
    <2>1. \A k : Filled(k)' <=> Filled(k)
        BY <1>5 DEF Filled, NumbersUsed, Docs
    <2>2. \A q \in Req \ {r} : pc'[q] = pc[q] /\ loc'[q] = loc[q]
        BY <1>2 DEF Others
    <2>3. \A q \in Req : pc'[q] = "invoice_insert" =>
            \/ loc'[q].number \in NumberTyped
            \/ \A k \in 1..(loc'[q].number - 1) : Filled(k)'
        BY <1>3, <1>4, <2>1, <2>2 DEF NumbersOK
    <2>4. NumbersUsed' = NumbersUsed
        BY <1>5 DEF NumbersUsed, Docs
    <2> QED BY <1>5, <1>7, <2>1, <2>3, <2>4 DEF NumbersOK
<1>10. ConvertOK' /\ RemindersOK'
    BY <1>5, <1>6, <1>7, ConvertStays, RemindersStay
<1>11. PaidOK'
    BY <1>2, <1>5, <1>6, <1>7, PaidStays
<1>12. CoveredOK'
    BY <1>2, <1>5, <1>7, CoveredStays DEF Others
<1> QED BY <1>2, <1>7, <1>8, <1>9, <1>10, <1>11, <1>12

(* ... and inserts the invoice with it, moving the sequence. *)
LEMMA InvoiceCreateCommitOK ==
    ASSUME InvoicingInv, NEW r \in Req, InvoiceCreateCommit(r)
    PROVE  InvoicingInv'
<1> USE DEF InvoicingInv
<1> DEFINE i == loc[r].on
<1> DEFINE n == loc[r].number
<1>1. /\ pc[r] = "invoice_insert" /\ i \in Doc \ Docs /\ loc[r].total \in InvTotal
      /\ n \in Nat \ {0}
      /\ \A q \in Req \ {r} : Busy(q) => loc[q].on # i
    BY DEF InvoiceCreateCommit, HeldOK, Held
<1>2. RequestsOK' /\ pc'[r] = "idle" /\ Others(r) /\ UNCHANGED raced
    BY EndOK DEF InvoiceCreateCommit
<1>3. UNCHANGED <<payment, claimed, sent, credited, marked, halfPaid>>
    BY DEF InvoiceCreateCommit
<1>4. \A l : l # "idle" => Quiet(l)
    BY <1>2, QuietBut
<1>5. CASE n \in NumbersUsed
    <2>1. UNCHANGED <<doc, lastNo>>
        BY <1>5 DEF InvoiceCreateCommit
    <2>2. HeldOK' /\ RemindersOK'
        BY <1>2, <1>3, <1>4, <2>1, HeldStays, RemindersStay, DocsAlone
    <2> QED BY <1>1, <1>2, <1>3, <1>4, <2>1, <2>2, AloneOK DEF Others, TablesOK
<1>6. CASE n \notin NumbersUsed
    <2> DEFINE row == NewDoc("invoice", loc[r].total, n, "open", "none", TRUE)
    <2>1. doc' = [doc EXCEPT ![i] = row] /\ lastNo' = Max({lastNo, n})
        BY <1>6 DEF InvoiceCreateCommit
    <2>2. /\ row \in DocRow /\ row.paid = 0 /\ row.from = "none" /\ row.status = "open"
          /\ row.web /\ row.number = n
        BY <1>1 DEF NewDoc, DocRow
    <2> HIDE DEF row
    <2>3. lastNo \in Int /\ n \in Int
        BY <1>1 DEF TablesOK, NoSequence
    <2>4. lastNo' \in {lastNo, n} /\ lastNo <= lastNo' /\ n <= lastNo'
        BY <2>1, <2>3, MaxOfTwo
    <2>5. lastNo' \in Nat \cup {NoSequence} /\ n \in 1..lastNo'
        BY <1>1, <2>3, <2>4 DEF TablesOK
    <2>6. /\ Docs' = Docs \cup {i} /\ doc'[i] = row
          /\ \A j \in Docs : j # i /\ doc'[j] = doc[j]
        BY <1>1, <2>1, <2>2, RowsAreRows DEF Docs, TablesOK
    <2>7. n \in NumbersUsed' /\ NumbersUsed \subseteq NumbersUsed'
        BY <1>1, <2>2, <2>6 DEF NumbersUsed
    <2>8. \A k \in 1..lastNo' : k \in 1..lastNo \/ Filled(k)'
        <3> SUFFICES ASSUME NEW k \in 1..lastNo', k \notin 1..lastNo PROVE Filled(k)'
            OBVIOUS
        <3>1. k <= n /\ k \in Nat
            BY <1>1, <2>3, <2>4
        <3>2. CASE k = n
            BY <2>7, <3>2 DEF Filled
        <3>3. CASE k < n /\ n \in NumberTyped
            BY <2>7, <3>3 DEF Filled
        <3>4. CASE k < n /\ n \notin NumberTyped
            <4>1. \A m \in 1..(n - 1) : Filled(m)
                BY <1>1, <3>4 DEF NumbersOK
            <4>2. k \in 1..(n - 1)
                BY <1>1, <3>1, <3>4
            <4>3. Filled(k)
                BY <4>1, <4>2
            <4> QED BY <2>7, <4>3 DEF Filled
        <3> QED BY <1>1, <3>1, <3>2, <3>3, <3>4
    <2>9. NumbersOK'
        BY <1>1, <1>4, <2>1, <2>2, <2>4, <2>5, <2>8, NewNumberOK
    <2>10. \A q \in Req : pc'[q] # "idle" => loc[q].on # i
        BY <1>1, <1>2 DEF Busy, Others
    <2> HIDE DEF i, n
    <2> QED BY <1>1, <1>2, <1>3, <2>1, <2>2, <2>5, <2>9, <2>10, NewRowOK
<1> QED BY <1>5, <1>6

-----------------------------------------------------------------------------
(* Every operation keeps the invariant. *)
LEMMA InvoicingNextOK ==
    ASSUME InvoicingInv, [InvoicingNext]_<<reqVars, invVars>>
    PROVE  InvoicingInv'
<1>1. ASSUME NEW r \in Req, NEW i \in Doc,
             \/ ApiInvoiceCreate(r, i) \/ EstimateCreate(r, i)
             \/ ConvertClaim(r, i) \/ CreateLink(r, i) \/ RevokeLink(r, i)
             \/ Decide(r, i) \/ MarkPaid(r, i) \/ Void(r, i)
             \/ ApiTransition(r, i)
             \/ \E p \in Payment : ApiPayment(r, p, i) \/ ApplyRead(r, p, i)
      PROVE  InvoicingInv'
    BY <1>1, ServedCreateOK, ConvertClaimOK, LinkOK, DecideOK, MarkOK,
       ApiTransitionOK, ApiPaymentOK, ApplyReadOK
<1>2. ASSUME NEW r \in Req,
             \/ InvoiceCreateLock(r) \/ InvoiceCreateCommit(r) \/ ConvertInsert(r)
             \/ ApiTransitionEnd(r) \/ ApplyCommit(r)
             \/ ReminderScan(r) \/ ReminderClaim(r) \/ ReminderSend(r)
             \/ InvoiceCutOff(r)
      PROVE  InvoicingInv'
    BY <1>2, InvoiceCreateLockOK, InvoiceCreateCommitOK, ConvertInsertOK,
       ApiTransitionEndOK, ApplyCommitOK, ReminderScanOK, ReminderClaimOK,
       ReminderSendOK, InvoiceCutOffOK
<1>3. CASE InvoicingNext
    BY <1>1, <1>2, <1>3, ApiPaymentUnlinkedOK, LinkOK DEF InvoicingNext
<1>4. CASE UNCHANGED <<reqVars, invVars>>
    BY <1>4, LinkOK
<1> QED BY <1>3, <1>4

(* The four parts that the run takes apart are made of these operations. *)
LEMMA PartsAreOperations ==
    NumberingNext \/ EstimatesNext \/ SettlementNext \/ RemindersNext => InvoicingNext
    BY DEF NumberingNext, EstimatesNext, SettlementNext, RemindersNext, InvoicingNext

LEMMA InvoicingInitOK == InitRequests /\ InitInvoicing => InvoicingInv
<1> SUFFICES ASSUME InitRequests, InitInvoicing PROVE InvoicingInv
    OBVIOUS
<1>1. RequestsOK /\ Docs = {} /\ \A r \in Req : pc[r] = "idle"
    BY InitRequestsOK DEF InitRequests, InitInvoicing, Docs
<1>2. TablesOK
    BY <1>1 DEF InitInvoicing, TablesOK, NoPayment, NoSequence
<1>3. HeldOK /\ ConvertOK /\ PaidOK /\ CoveredOK /\ RemindersOK
    BY <1>1 DEF InitInvoicing, HeldOK, Held, ConvertOK, PaidOK, CoveredOK, RemindersOK,
                Untouched
<1>4. NumbersOK
    <2>1. lastNo = -1 /\ NumbersUsed = {}
        BY <1>1 DEF InitInvoicing, NoSequence, NumbersUsed
    <2>2. 1..lastNo = {} /\ 0 \in Nat
        BY <2>1
    <2> QED BY <1>1, <2>1, <2>2 DEF NumbersOK
<1> QED BY <1>1, <1>2, <1>3, <1>4 DEF InvoicingInv

(* The inductive invariant of the tables behind invoices. *)
THEOREM InvoicingInvariant == InvoicingSpec => []InvoicingInv
    BY InvoicingInitOK, InvoicingNextOK, PTL DEF InvoicingSpec

(* next_invoice_number never runs into a number its own handler has given  *)
(* and no number is left out, for any interleaving of creates, API clients *)
(* that type numbers in, and requests that are cut off.                    *)
THEOREM NumbersSound == InvoicingSpec => []InvoiceNumbers
<1>1. InvoicingInv => InvoiceNumbers
    <2> SUFFICES ASSUME InvoicingInv PROVE InvoiceNumbers
        OBVIOUS
    <2>1. lastNo \in Int
        BY DEF InvoicingInv, TablesOK, NoSequence
    <2>2. SequenceCoversNumbers
        BY <2>1 DEF InvoicingInv, NumbersOK, SequenceCoversNumbers
    <2>3. NumbersGapless
        BY DEF InvoicingInv, NumbersOK, NumbersGapless, Filled
    <2> QED BY <2>2, <2>3 DEF InvoiceNumbers
<1> QED BY <1>1, InvoicingInvariant, PTL

(* An estimate is billed once, a reminder sent once, what was paid is what *)
(* came in and what is paid is covered, with the exceptions the properties *)
(* name, for any number of documents, payments and requests.               *)
THEOREM InvoicesAreSound == InvoicingSpec => []InvoicesSound
<1>1. InvoicingInv => InvoicesSound
    <2> SUFFICES ASSUME InvoicingInv PROVE InvoicesSound
        OBVIOUS
    <2> USE DEF InvoicingInv
    <2>1. InvoicingTypeOK
        <3>1. \A i \in Docs :
                /\ \/ doc[i].status \in {"open", "paid", "void"}
                   \/ /\ doc[i].kind = "estimate"
                      /\ doc[i].status \in {"draft", "accepted", "declined", "converted"}
                /\ doc[i].number \in Nat /\ doc[i].paid \in Int
            BY RowsAreRows DEF TablesOK, DocRow
        <3>2. \A p \in Payment : payment[p].doc \in Doc \cup {"none"}
            BY DEF TablesOK
        <3> QED BY <3>1, <3>2 DEF InvoicingTypeOK, TablesOK
    <2>2. EstimateConvertedOnce
        <3> SUFFICES ASSUME NEW e \in Docs \ marked, doc[e].kind = "estimate",
                            credited[e] = 0, doc[e].total > 0
                     PROVE  LET made == {i \in Docs : doc[i].from = e}
                            IN  /\ Cardinality(made) <= 1
                                /\ made # {} => doc[e].status = "converted"
            BY DEF EstimateConvertedOnce
        <3> DEFINE made == {i \in Docs : doc[i].from = e}
        <3>1. Untouched(e) /\ e \in Doc
            BY DEF Untouched, Docs
        <3>2. \A i, j \in made : i = j
            BY <3>1 DEF ConvertOK
        <3>3. made # {} => doc[e].status = "converted"
            BY <3>1 DEF ConvertOK
        <3>4. Cardinality(made) <= 1
            <4>1. made = {} \/ \E i \in made : made = {i}
                BY <3>2
            <4>2. Cardinality({}) = 0
                BY FS_EmptySet
            <4>3. \A i : Cardinality({i}) = 1
                BY FS_Singleton
            <4>4. Cardinality(made) = 0 \/ Cardinality(made) = 1
                <5> HIDE DEF made
                <5> QED BY <4>1, <4>2, <4>3, Zenon
            <4> HIDE DEF made
            <4> QED BY <4>4
        <3> QED BY <3>3, <3>4
    <2>3. PaidIsWhatCameIn
        BY DEF PaidOK, PaidIsWhatCameIn
    <2>4. PaidIsCovered
        BY DEF CoveredOK, PaidIsCovered, WorkingOn, Busy
    <2>5. ReminderAtMostOnce
        BY DEF RemindersOK, ReminderAtMostOnce
    <2> QED BY <2>1, <2>2, <2>3, <2>4, <2>5 DEF InvoicesSound
<1> QED BY <1>1, InvoicingInvariant, PTL

-----------------------------------------------------------------------------
(* Expense claims.  The rows of the claims, with the lines in their order. *)
Sequence(s) == \E S : s \in Seq(S)

ClaimRow ==
    [status : ClaimStatus \ {"approved"}, author : ClaimUser,
     lines : Seq(Line \cup OcrLine),
     steps : SUBSET [level : LevelAsked, approver : ClaimUser],
     scanned : SUBSET (Nat \X ClaimStatus)]

NotPosted == {"draft", "submitted", "partially_approved", "rejected"}
InApproval == {"submitted", "partially_approved"}

ClaimRowOK(c) ==
    /\ claim[c] \in ClaimRow \cup {NoClaim} /\ Sequence(gl[c])
    /\ claim[c] # NoClaim =>
          /\ claim[c].status # "draft" => claim[c].lines # <<>>
          /\ \A x \in claim[c].scanned : x[1] <= Len(claim[c].lines)

(* What a request holds at each of its statements; the status it loaded is *)
(* the claim's while nobody else is at work on the claim.                  *)
ClaimHeld(r) ==
    LET d == loc[r]
        row == claim[d.on]
        Alone(cond) == d.on \in raced \/ cond
    IN  /\ pc[r] # "idle" => d.on \in Claim /\ row # NoClaim
        /\ pc[r] = "line_insert" => d.line \in Line /\ Alone(row.status = "draft")
        /\ pc[r] = "submit_check" => d.to = "submitted" /\ Alone(row.status = "draft")
        /\ pc[r] = "reject_reason" =>
              d.to = "rejected" /\ row.lines # <<>> /\ Alone(row.status = "submitted")
        /\ pc[r] = "update_status" =>
              /\ d.to \in {"submitted", "rejected"} /\ row.lines # <<>>
              /\ Alone(CanTransition(row.status, d.to))
        /\ pc[r] \in {"approve_policy", "approve_read", "approve_step", "approve_commit"} =>
              /\ d.user \in staff /\ d.level \in LevelAsked /\ row.lines # <<>>
              /\ Alone(row.status \in InApproval)
        /\ pc[r] \in {"approve_step", "approve_commit"} =>
              /\ d.user \in EligibleApprovers("Accountant")
              /\ Cardinality(staff) > 1 => d.user # row.author
              /\ Alone(d.required = RequiredLevels(ClaimTotal(row.lines)))
        /\ pc[r] = "approve_commit" =>
              /\ d.full => d.required \subseteq RecordedLevels(d.on) \cup {d.level}
              /\ Alone(d.full <=> d.required \subseteq RecordedLevels(d.on) \cup {d.level})
        /\ pc[r] \in {"pay_read", "pay_commit"} =>
              /\ Entries(d.on, "approval") # {} /\ row.lines # <<>>
              /\ Alone(row.status = "fully_approved")

(* The journal of a claim follows its status. *)
ClaimJournalOK(c) ==
    /\ claim[c] = NoClaim => gl[c] = <<>>
    /\ claim[c].status \in {"fully_approved", "paid"} => Entries(c, "approval") # {}
    /\ c \notin raced =>
          /\ claim[c].status \in NotPosted => Entries(c, "approval") = {}
          /\ claim[c].status # "paid" => Entries(c, "payout") = {}
          /\ \A i, j \in Entries(c, "approval") : i = j
          /\ \A i, j \in Entries(c, "payout") : i = j

ClaimApprovedOK(c) ==
    /\ Entries(c, "payout") # {} => Entries(c, "approval") # {}
    /\ \A i \in Entries(c, "approval") : gl[c][i].required \subseteq RecordedLevels(c)
    /\ claim[c] # NoClaim => \A s \in claim[c].steps :
          /\ s.approver \in EligibleApprovers("Accountant")
          /\ Cardinality(staff) > 1 => s.approver # claim[c].author

ClaimOK(c) == ClaimRowOK(c) /\ ClaimJournalOK(c) /\ ClaimApprovedOK(c)

ClaimsInv ==
    /\ RequestsOK
    /\ DOMAIN claim = Claim /\ DOMAIN gl = Claim
    /\ levels \subseteq Levels /\ staff \subseteq ClaimUser
    /\ \A c \in Claim : ClaimOK(c)
    /\ \A r \in Req : ClaimHeld(r)

(* What no step takes from a claim. *)
ClaimGrows(c) ==
    /\ claim[c] # NoClaim =>
          /\ claim'[c] # NoClaim /\ claim'[c].author = claim[c].author
          /\ claim[c].lines # <<>> => claim'[c].lines # <<>>
          /\ RecordedLevels(c) \subseteq RecordedLevels(c)'
    /\ Entries(c, "approval") # {} => Entries(c, "approval")' # {}

LEMMA RowIsClaim ==
    ASSUME NEW x \in ClaimRow
    PROVE  x # NoClaim
<1>1. DOMAIN NoClaim = {"status"} BY DEF NoClaim
<1>2. "author" \in DOMAIN x BY DEF ClaimRow
<1> QED BY <1>1, <1>2

(* One and two rows at the end of a journal. *)
LEMMA AppendRow ==
    ASSUME NEW s, Sequence(s), NEW x
    PROVE  /\ Sequence(Append(s, x)) /\ Append(s, x) # <<>>
           /\ Len(s) \in Nat /\ Len(s) + 1 \notin DOMAIN s
           /\ Len(Append(s, x)) = Len(s) + 1
           /\ DOMAIN Append(s, x) = DOMAIN s \cup {Len(s) + 1}
           /\ \A i \in DOMAIN s : Append(s, x)[i] = s[i]
           /\ Append(s, x)[Len(s) + 1] = x
<1>1. PICK S : s \in Seq(S) BY DEF Sequence
<1>2. PICK T : T = S \cup {x} OBVIOUS
<1>3. s \in Seq(T) /\ x \in T BY <1>1, <1>2, SeqMonotonic
<1>4. /\ Append(s, x) \in Seq(T) /\ Append(s, x) # <<>> /\ Len(Append(s, x)) = Len(s) + 1
      /\ \A i \in 1..Len(s) : Append(s, x)[i] = s[i]
      /\ Append(s, x)[Len(s) + 1] = x
    BY <1>3, AppendProperties
<1>5. Len(s) \in Nat /\ DOMAIN s = 1..Len(s) /\ DOMAIN Append(s, x) = 1..(Len(s) + 1)
    BY <1>3, <1>4
<1>6. DOMAIN Append(s, x) = DOMAIN s \cup {Len(s) + 1} /\ Len(s) + 1 \notin DOMAIN s BY <1>5
<1> QED BY <1>4, <1>5, <1>6 DEF Sequence

LEMMA AppendTwo ==
    ASSUME NEW s, Sequence(s), NEW x, NEW y
    PROVE  s \o <<x, y>> = Append(Append(s, x), y)
<1>1. PICK S : s \in Seq(S) BY DEF Sequence
<1>2. PICK T : T = S \cup {x, y} OBVIOUS
<1>3. s \in Seq(T) /\ x \in T /\ y \in T BY <1>1, <1>2, SeqMonotonic
<1>4. <<x, y>> \in Seq(T) /\ <<x>> \in Seq(T) /\ <<y>> \in Seq(T) BY <1>3
<1>5. <<x, y>> = <<x>> \o <<y>>
  <2>1. PICK A : A = Append(<<x>>, y) OBVIOUS
  <2>2. PICK B : B = <<x, y>> OBVIOUS
  <2>3. A \in Seq(T) /\ Len(A) = 2 /\ A[1] = x /\ A[2] = y
    <3>1. Len(<<x>>) = 1 /\ <<x>>[1] = x OBVIOUS
    <3> QED BY <1>3, <1>4, <2>1, <3>1, AppendProperties
  <2>4. B \in Seq(T) /\ Len(B) = 2 /\ B[1] = x /\ B[2] = y BY <1>4, <2>2
  <2>5. \A i \in 1..2 : A[i] = B[i] BY <2>3, <2>4
  <2>6. A = B BY <2>3, <2>4, <2>5, SeqEqual
  <2> QED BY <1>3, <1>4, <2>1, <2>2, <2>6, AppendIsConcat
<1>6. s \o <<x>> = Append(s, x) BY <1>3, AppendIsConcat
<1>7. Append(s, x) \in Seq(T) BY <1>3, AppendProperties
<1>8. Append(s, x) \o <<y>> = Append(Append(s, x), y) BY <1>3, <1>7, AppendIsConcat
<1> QED BY <1>3, <1>4, <1>5, <1>6, <1>8, ConcatAssociative

(* Frame: a claim nothing is written to, a request that does not move, and *)
(* a step of one request at its own claim.                                 *)
LEMMA ClaimStays ==
    ASSUME NEW c \in Claim, ClaimOK(c), claim'[c] = claim[c], gl'[c] = gl[c], staff' = staff,
           raced \subseteq raced'
    PROVE  ClaimOK(c)'
<1>1. ClaimRowOK(c)' BY DEF ClaimOK, ClaimRowOK, Sequence
<1>2. ClaimJournalOK(c)' BY DEF ClaimOK, ClaimJournalOK, Entries
<1>3. ClaimApprovedOK(c)'
    BY DEF ClaimOK, ClaimApprovedOK, Entries, RecordedLevels, EligibleApprovers
<1> QED BY <1>1, <1>2, <1>3 DEF ClaimOK

LEMMA ClaimHeldStays ==
    ASSUME NEW q \in Req, ClaimHeld(q), pc'[q] = pc[q], loc'[q] = loc[q], staff' = staff,
           raced \subseteq raced',
           pc[q] # "idle" =>
              /\ ClaimGrows(loc[q].on)
              /\ \/ loc[q].on \in raced'
                 \/ claim'[loc[q].on] = claim[loc[q].on] /\ levels' = levels
    PROVE  ClaimHeld(q)'
<1> DEFINE c == loc[q].on
<1>1. CASE pc[q] = "idle" BY <1>1 DEF ClaimHeld
<1>2. CASE pc[q] # "idle"
  <2>1. /\ claim[c] # NoClaim /\ claim'[c] # NoClaim /\ claim'[c].author = claim[c].author
        /\ claim[c].lines # <<>> => claim'[c].lines # <<>>
        /\ RecordedLevels(c) \subseteq RecordedLevels(c)'
        /\ Entries(c, "approval") # {} => Entries(c, "approval")' # {}
      BY <1>2 DEF ClaimHeld, ClaimGrows
  <2>2. EligibleApprovers("Accountant")' = EligibleApprovers("Accountant")
      BY DEF EligibleApprovers
  <2>3. CASE c \in raced'
      BY <1>2, <2>1, <2>2, <2>3 DEF ClaimHeld
  <2>4. CASE c \notin raced'
    <3>1. c \notin raced /\ claim'[c] = claim[c] /\ levels' = levels BY <1>2, <2>4
    <3>2. \A t : RequiredLevels(t)' = RequiredLevels(t) BY <3>1 DEF RequiredLevels
    <3>3. RecordedLevels(c)' = RecordedLevels(c) BY <3>1 DEF RecordedLevels
    <3> QED BY <1>2, <2>1, <2>2, <2>4, <3>1, <3>2, <3>3 DEF ClaimHeld
  <2> QED BY <2>3, <2>4
<1> QED BY <1>1, <1>2

LEMMA ClaimsQuiet ==
    ASSUME ClaimsInv, NEW r \in Req, Keeps(r), UNCHANGED claimVars, ClaimHeld(r)'
    PROVE  ClaimsInv'
<1>1. claim' = claim /\ gl' = gl /\ levels' = levels /\ staff' = staff BY DEF claimVars
<1>2. \A c \in Claim : ClaimOK(c)' BY <1>1, ClaimStays DEF ClaimsInv, Keeps
<1>3. \A c \in Claim : ClaimGrows(c) BY <1>1 DEF ClaimGrows, RecordedLevels, Entries
<1>4. ASSUME NEW q \in Req \ {r} PROVE ClaimHeld(q)'
  <2>1. pc[q] # "idle" => loc[q].on \in Claim BY DEF ClaimsInv, ClaimHeld
  <2> QED BY <1>1, <1>3, <2>1, ClaimHeldStays DEF ClaimsInv, Keeps
<1> QED BY <1>1, <1>2, <1>4 DEF ClaimsInv, Keeps

LEMMA ClaimsStepAt ==
    ASSUME ClaimsInv, NEW r \in Req, Keeps(r), NEW c \in Claim,
           pc[r] # "idle" /\ loc[r].on = c,
           DOMAIN claim' = Claim, DOMAIN gl' = Claim, levels' = levels, staff' = staff,
           \A x \in Claim \ {c} : claim'[x] = claim[x] /\ gl'[x] = gl[x],
           ClaimGrows(c), ClaimOK(c)', ClaimHeld(r)'
    PROVE  ClaimsInv'
<1>1. ASSUME NEW x \in Claim PROVE ClaimOK(x)'
    BY ClaimStays DEF ClaimsInv, Keeps
<1>2. \A x \in Claim \ {c} : ClaimGrows(x) BY DEF ClaimGrows, RecordedLevels, Entries
<1>3. ASSUME NEW q \in Req \ {r} PROVE ClaimHeld(q)'
  <2>1. pc[q] # "idle" => loc[q].on \in Claim BY DEF ClaimsInv, ClaimHeld
  <2>2. pc[q] # "idle" /\ loc[q].on = c => c \in raced' BY DEF ClaimsInv, RequestsOK, Busy, Keeps
  <2> QED BY <1>2, <2>1, <2>2, ClaimHeldStays DEF ClaimsInv, Keeps
<1> QED BY <1>1, <1>3 DEF ClaimsInv, Keeps

(* create: nobody is at work on an id that is not a claim yet. *)
LEMMA ClaimCreateHolds ==
    ASSUME ClaimsInv, NEW r \in Req, NEW u \in ClaimUser, NEW c \in Claim, ClaimCreate(r, u, c)
    PROVE  ClaimsInv'
<1>1. /\ claim[c] = NoClaim /\ gl' = gl /\ levels' = levels /\ staff' = staff
      /\ DOMAIN claim' = Claim /\ \A x \in Claim \ {c} : claim'[x] = claim[x]
      /\ claim'[c] = [status |-> "draft", author |-> u, lines |-> <<>>, steps |-> {}, scanned |-> {}]
    BY DEF ClaimCreate, ClaimsInv
<1>2. StaysOrEnds(r) /\ UNCHANGED <<pc, loc>> BY ServeKeeps DEF ClaimCreate, ClaimsInv
<1>3. RequestsOK' /\ raced \subseteq raced' BY <1>2 DEF StaysOrEnds, Keeps
<1>4. gl[c] = <<>> BY <1>1 DEF ClaimsInv, ClaimOK, ClaimJournalOK
<1>5. claim'[c] \in ClaimRow /\ claim'[c] # NoClaim /\ claim'[c].status = "draft"
      /\ claim'[c].scanned = {} /\ claim'[c].steps = {}
  <2>1. "draft" \in ClaimStatus \ {"approved"} BY DEF ClaimStatus
  <2>2. <<>> \in Seq(Line \cup OcrLine) OBVIOUS
  <2>3. claim'[c] # NoClaim BY <1>1 DEF NoClaim
  <2> QED BY <1>1, <2>1, <2>2, <2>3 DEF ClaimRow
<1>6. \A k : Entries(c, k)' = {} BY <1>1, <1>4 DEF Entries
<1>7. ClaimOK(c)'
  <2>1. ClaimRowOK(c)' BY <1>1, <1>5 DEF ClaimRowOK, Sequence, ClaimsInv, ClaimOK
  <2>2. ClaimJournalOK(c)' BY <1>5, <1>6 DEF ClaimJournalOK
  <2>3. ClaimApprovedOK(c)' BY <1>5, <1>6 DEF ClaimApprovedOK
  <2> QED BY <2>1, <2>2, <2>3 DEF ClaimOK
<1>8. ASSUME NEW x \in Claim \ {c} PROVE ClaimOK(x)'
    BY <1>1, <1>3, ClaimStays DEF ClaimsInv
<1>9. \A x \in Claim \ {c} : ClaimGrows(x) BY <1>1 DEF ClaimGrows, RecordedLevels, Entries
<1>10. ASSUME NEW q \in Req PROVE ClaimHeld(q)'
  <2>1. pc[q] # "idle" => loc[q].on \in Claim \ {c} BY <1>1 DEF ClaimsInv, ClaimHeld
  <2> QED BY <1>1, <1>2, <1>3, <1>9, <2>1, ClaimHeldStays DEF ClaimsInv
<1> QED BY <1>1, <1>3, <1>7, <1>8, <1>10 DEF ClaimsInv

(* A line more, from the form or from a receipt; scanned grows with it. *)
LEMMA LineAdded ==
    ASSUME ClaimsInv, NEW c \in Claim, claim[c] # NoClaim, NEW l \in Line \cup OcrLine,
           NEW more \in SUBSET (Nat \X ClaimStatus), \A x \in more : x[1] <= Len(claim[c].lines) + 1,
           claim'[c].status = claim[c].status, claim'[c].author = claim[c].author,
           claim'[c].lines = Append(claim[c].lines, l), claim'[c].steps = claim[c].steps,
           claim'[c].scanned = claim[c].scanned \cup more, claim'[c] \in ClaimRow,
           gl' = gl, staff' = staff, raced \subseteq raced'
    PROVE  ClaimGrows(c) /\ ClaimOK(c)'
<1>1. claim[c] \in ClaimRow BY DEF ClaimsInv, ClaimOK, ClaimRowOK
<1>2. PICK lines \in Seq(Line \cup OcrLine) : lines = claim[c].lines BY <1>1 DEF ClaimRow
<1>3. Sequence(lines) BY <1>2 DEF Sequence
<1>4. Append(lines, l) # <<>> /\ Len(Append(lines, l)) = Len(lines) + 1 /\ Len(lines) \in Nat
    BY <1>3, AppendRow
<1>5. claim'[c] # NoClaim BY RowIsClaim
<1>6. RecordedLevels(c)' = RecordedLevels(c) /\ \A k : Entries(c, k)' = Entries(c, k)
    BY DEF RecordedLevels, Entries
<1>7. ClaimGrows(c) BY <1>2, <1>4, <1>5, <1>6 DEF ClaimGrows
<1>8. ClaimRowOK(c)'
  <2>1. \A x \in claim[c].scanned : x[1] \in Nat /\ x[1] <= Len(lines)
    <3>1. claim[c].scanned \in SUBSET (Nat \X ClaimStatus) BY <1>1 DEF ClaimRow
    <3>2. \A x \in claim[c].scanned : x[1] <= Len(lines)
        BY <1>2 DEF ClaimsInv, ClaimOK, ClaimRowOK
    <3> QED BY <3>1, <3>2
  <2>2. \A x \in claim'[c].scanned : x[1] <= Len(claim'[c].lines) BY <1>2, <1>4, <2>1
  <2>3. Sequence(gl'[c]) BY DEF ClaimsInv, ClaimOK, ClaimRowOK
  <2> QED BY <1>2, <1>4, <2>2, <2>3 DEF ClaimRowOK, Sequence
<1>9. ClaimJournalOK(c)' BY <1>5, <1>6 DEF ClaimsInv, ClaimOK, ClaimJournalOK
<1>10. ClaimApprovedOK(c)'
    BY <1>6 DEF ClaimsInv, ClaimOK, ClaimApprovedOK, EligibleApprovers
<1> QED BY <1>7, <1>8, <1>9, <1>10 DEF ClaimOK

LEMMA AddLineInsertHolds ==
    ASSUME ClaimsInv, NEW r \in Req, AddLineInsert(r)
    PROVE  ClaimsInv'
<1>1. PICK c \in Claim : c = loc[r].on BY DEF AddLineInsert, ClaimsInv, ClaimHeld
<1>2. claim[c] # NoClaim /\ loc[r].line \in Line BY <1>1 DEF AddLineInsert, ClaimsInv, ClaimHeld
<1>3. claim[c] \in ClaimRow BY <1>2 DEF ClaimsInv, ClaimOK, ClaimRowOK
<1>4. /\ DOMAIN claim' = Claim /\ \A x \in Claim \ {c} : claim'[x] = claim[x]
      /\ claim'[c] = [claim[c] EXCEPT !.lines = Append(@, loc[r].line)]
    BY <1>1 DEF AddLineInsert, ClaimsInv
<1>5. /\ claim'[c].status = claim[c].status /\ claim'[c].author = claim[c].author
      /\ claim'[c].lines = Append(claim[c].lines, loc[r].line)
      /\ claim'[c].steps = claim[c].steps /\ claim'[c].scanned = claim[c].scanned \cup {}
    BY <1>3, <1>4 DEF ClaimRow
<1>6. claim'[c] \in ClaimRow
  <2>1. claim[c].lines \in Seq(Line \cup OcrLine) BY <1>3 DEF ClaimRow
  <2>2. Append(claim[c].lines, loc[r].line) \in Seq(Line \cup OcrLine)
      BY <1>2, <2>1, AppendProperties
  <2> QED BY <1>3, <1>4, <2>2 DEF ClaimRow
<1>7. StaysOrEnds(r) /\ pc'[r] = "idle" BY EndKeeps DEF AddLineInsert, ClaimsInv
<1>8. Keeps(r) /\ raced \subseteq raced' BY <1>7 DEF StaysOrEnds, Keeps
<1>9. gl' = gl /\ levels' = levels /\ staff' = staff BY DEF AddLineInsert
<1>10. ClaimGrows(c) /\ ClaimOK(c)'
  <2>1. PICK more \in SUBSET (Nat \X ClaimStatus) : more = {} OBVIOUS
  <2>2. claim'[c].scanned = claim[c].scanned \cup more BY <1>5, <2>1
  <2>3. \A x \in more : x[1] <= Len(claim[c].lines) + 1 BY <2>1
  <2>4. loc[r].line \in Line \cup OcrLine BY <1>2
  <2> QED BY <1>2, <1>5, <1>6, <1>8, <1>9, <2>2, <2>3, <2>4, LineAdded
<1>11. ClaimHeld(r)' BY <1>7 DEF ClaimHeld
<1> QED BY <1>1, <1>4, <1>8, <1>9, <1>10, <1>11, ClaimsStepAt DEF AddLineInsert, ClaimsInv

LEMMA OcrApplyHolds ==
    ASSUME ClaimsInv, NEW r \in Req, NEW u \in ClaimUser, NEW c \in Claim, OcrApply(r, u, c)
    PROVE  ClaimsInv'
<1>1. claim[c] # NoClaim BY DEF OcrApply
<1>2. claim[c] \in ClaimRow BY <1>1 DEF ClaimsInv, ClaimOK, ClaimRowOK
<1>3. PICK l \in OcrLine :
        claim' = [claim EXCEPT ![c].lines = Append(@, l),
                     ![c].scanned = @ \cup {<<Len(claim[c].lines) + 1, claim[c].status>>}]
    BY DEF OcrApply
<1>4. PICK more : more = {<<Len(claim[c].lines) + 1, claim[c].status>>} OBVIOUS
<1>5. claim[c].lines \in Seq(Line \cup OcrLine) /\ Len(claim[c].lines) \in Nat
      /\ claim[c].status \in ClaimStatus \ {"approved"}
    BY <1>2 DEF ClaimRow
<1>6. more \in SUBSET (Nat \X ClaimStatus) /\ \A x \in more : x[1] <= Len(claim[c].lines) + 1
    BY <1>4, <1>5
<1>7. /\ DOMAIN claim' = Claim /\ \A x \in Claim \ {c} : claim'[x] = claim[x]
      /\ claim'[c] = [claim[c] EXCEPT !.lines = Append(@, l), !.scanned = @ \cup more]
    BY <1>3, <1>4 DEF ClaimsInv
<1>8. /\ claim'[c].status = claim[c].status /\ claim'[c].author = claim[c].author
      /\ claim'[c].lines = Append(claim[c].lines, l)
      /\ claim'[c].steps = claim[c].steps /\ claim'[c].scanned = claim[c].scanned \cup more
    BY <1>2, <1>7 DEF ClaimRow
<1>9. claim'[c] \in ClaimRow
  <2>1. Append(claim[c].lines, l) \in Seq(Line \cup OcrLine) BY <1>5, AppendProperties
  <2>2. claim[c].scanned \cup more \in SUBSET (Nat \X ClaimStatus) BY <1>2, <1>6 DEF ClaimRow
  <2> QED BY <1>2, <1>7, <2>1, <2>2 DEF ClaimRow
<1>10. StaysOrEnds(r) /\ UNCHANGED <<pc, loc>> /\ (WorkingOn(c) # {} => c \in raced')
    BY ServeKeeps DEF OcrApply, ClaimsInv
<1>11. RequestsOK' /\ raced \subseteq raced' BY <1>10 DEF StaysOrEnds, Keeps
<1>12. gl' = gl /\ levels' = levels /\ staff' = staff BY DEF OcrApply
<1>13. ClaimGrows(c) /\ ClaimOK(c)' BY <1>1, <1>6, <1>8, <1>9, <1>11, <1>12, LineAdded
<1>14. ASSUME NEW x \in Claim \ {c} PROVE ClaimOK(x)' /\ ClaimGrows(x)
  <2>1. ClaimOK(x)' BY <1>7, <1>11, <1>12, ClaimStays DEF ClaimsInv
  <2>2. ClaimGrows(x) BY <1>7, <1>12 DEF ClaimGrows, RecordedLevels, Entries
  <2> QED BY <2>1, <2>2
<1>15. ASSUME NEW q \in Req PROVE ClaimHeld(q)'
  <2>1. pc[q] # "idle" => loc[q].on \in Claim BY DEF ClaimsInv, ClaimHeld
  <2>2. pc[q] # "idle" /\ loc[q].on = c => c \in raced' BY <1>10 DEF WorkingOn, Busy
  <2> QED BY <1>7, <1>10, <1>11, <1>12, <1>13, <1>14, <2>1, <2>2, ClaimHeldStays DEF ClaimsInv
<1> QED BY <1>7, <1>11, <1>12, <1>13, <1>14, <1>15 DEF ClaimsInv

(* The statements that only read, and the requests that begin with one. *)
LEMMA ClaimBeginHolds ==
    ASSUME ClaimsInv, NEW r \in Req, NEW u \in ClaimUser, NEW c \in Claim,
           \/ AddLineLoad(r, u, c) \/ SubmitLoad(r, u, c) \/ RejectLoad(r, u, c)
           \/ ApproveLoad(r, u, c) \/ PayLoad(r, u, c)
    PROVE  ClaimsInv'
<1>1. UNCHANGED claimVars
    BY DEF AddLineLoad, SubmitLoad, RejectLoad, ApproveLoad, PayLoad
<1>2. claim' = claim /\ gl' = gl /\ levels' = levels /\ staff' = staff BY <1>1 DEF claimVars
<1>3. CASE AddLineLoad(r, u, c)
  <2>1. PICK line \in Line : Begin(r, "line_insert", [on |-> c, line |-> line])
      BY <1>3 DEF AddLineLoad
  <2>2. Keeps(r) /\ pc'[r] = "line_insert" /\ loc'[r] = [on |-> c, line |-> line]
      BY <2>1, BeginKeeps DEF ClaimsInv
  <2>3. claim[c].status = "draft" /\ claim[c] # NoClaim BY <1>3 DEF AddLineLoad, NoClaim
  <2>4. ClaimHeld(r)' BY <1>2, <2>2, <2>3 DEF ClaimHeld
  <2> QED BY <1>1, <2>2, <2>4, ClaimsQuiet
<1>4. CASE SubmitLoad(r, u, c)
  <2>1. Keeps(r) /\ pc'[r] = "submit_check" /\ loc'[r] = [on |-> c, to |-> "submitted"]
      BY <1>4, BeginKeeps DEF SubmitLoad, ClaimsInv
  <2>2. claim[c].status = "draft" BY <1>4 DEF SubmitLoad, CanTransition
  <2>3. claim[c] # NoClaim BY <2>2 DEF NoClaim
  <2>4. ClaimHeld(r)' BY <1>2, <2>1, <2>2, <2>3 DEF ClaimHeld
  <2> QED BY <1>1, <2>1, <2>4, ClaimsQuiet
<1>5. CASE RejectLoad(r, u, c)
  <2>1. Keeps(r) /\ pc'[r] = "reject_reason" /\ loc'[r] = [on |-> c, to |-> "rejected"]
      BY <1>5, BeginKeeps DEF RejectLoad, ClaimsInv
  <2>2. claim[c].status = "submitted" BY <1>5 DEF RejectLoad, CanTransition
  <2>3. claim[c] # NoClaim BY <2>2 DEF NoClaim
  <2>4. claim[c].lines # <<>> BY <2>2, <2>3 DEF ClaimsInv, ClaimOK, ClaimRowOK
  <2>5. ClaimHeld(r)' BY <1>2, <2>1, <2>2, <2>3, <2>4 DEF ClaimHeld
  <2> QED BY <1>1, <2>1, <2>5, ClaimsQuiet
<1>6. CASE ApproveLoad(r, u, c)
  <2>1. PICK level \in LevelAsked :
            Begin(r, "approve_policy", [on |-> c, user |-> u, level |-> level])
      BY <1>6 DEF ApproveLoad
  <2>2. /\ Keeps(r) /\ pc'[r] = "approve_policy"
        /\ loc'[r] = [on |-> c, user |-> u, level |-> level]
      BY <2>1, BeginKeeps DEF ClaimsInv
  <2>3. claim[c].status \in InApproval /\ u \in staff BY <1>6 DEF ApproveLoad, InApproval
  <2>4. claim[c] # NoClaim BY <2>3 DEF NoClaim, InApproval
  <2>5. claim[c].lines # <<>> BY <2>3, <2>4 DEF ClaimsInv, ClaimOK, ClaimRowOK, InApproval
  <2>6. ClaimHeld(r)' BY <1>2, <2>2, <2>3, <2>4, <2>5 DEF ClaimHeld
  <2> QED BY <1>1, <2>2, <2>6, ClaimsQuiet
<1>7. CASE PayLoad(r, u, c)
  <2>1. Keeps(r) /\ pc'[r] = "pay_read" /\ loc'[r] = [on |-> c]
      BY <1>7, BeginKeeps DEF PayLoad, ClaimsInv
  <2>2. claim[c].status \in {"fully_approved", "approved"} BY <1>7 DEF PayLoad, CanTransition
  <2>3. claim[c] # NoClaim BY <2>2 DEF NoClaim
  <2>4. claim[c].status = "fully_approved"
      BY <2>2, <2>3 DEF ClaimsInv, ClaimOK, ClaimRowOK, ClaimRow
  <2>5. claim[c].lines # <<>> BY <2>3, <2>4 DEF ClaimsInv, ClaimOK, ClaimRowOK
  <2>6. Entries(c, "approval") # {} BY <2>4 DEF ClaimsInv, ClaimOK, ClaimJournalOK
  <2>7. Entries(c, "approval")' # {} BY <1>2, <2>6 DEF Entries
  <2>8. ClaimHeld(r)' BY <1>2, <2>1, <2>3, <2>4, <2>5, <2>7 DEF ClaimHeld
  <2> QED BY <1>1, <2>1, <2>8, ClaimsQuiet
<1> QED BY <1>3, <1>4, <1>5, <1>6, <1>7

(* A request that ends without a write. *)
LEMMA ClaimEndHolds ==
    ASSUME ClaimsInv, NEW r \in Req, End(r), UNCHANGED claimVars
    PROVE  ClaimsInv'
<1>1. StaysOrEnds(r) /\ pc'[r] = "idle" BY EndKeeps DEF ClaimsInv
<1>2. ClaimHeld(r)' BY <1>1 DEF ClaimHeld
<1> QED BY <1>1, <1>2, ClaimsQuiet DEF StaysOrEnds

LEMMA ClaimGotoHolds ==
    ASSUME ClaimsInv, NEW r \in Req,
           \/ SubmitCheck(r) \/ RejectReason(r) \/ ApprovePolicy(r) \/ ApproveRead(r)
           \/ ApproveStep(r) \/ PayRead(r)
    PROVE  ClaimsInv'
<1>1. UNCHANGED claimVars
    BY DEF SubmitCheck, RejectReason, ApprovePolicy, ApproveRead, ApproveStep, PayRead
<1>2. claim' = claim /\ gl' = gl /\ levels' = levels /\ staff' = staff BY <1>1 DEF claimVars
<1>3. CASE End(r) BY <1>1, <1>3, ClaimEndHolds
<1>4. PICK c : c = loc[r].on OBVIOUS
<1>5. ClaimHeld(r) BY DEF ClaimsInv
<1>6. pc[r] # "idle"
    BY DEF SubmitCheck, RejectReason, ApprovePolicy, ApproveRead, ApproveStep, PayRead
<1>7. c \in Claim /\ claim[c] # NoClaim BY <1>4, <1>5, <1>6 DEF ClaimHeld
<1>8. CASE SubmitCheck(r) /\ ~End(r)
  <2>1. pc[r] = "submit_check" /\ claim[c].lines # <<>> /\ Goto(r, "update_status", loc[r])
      BY <1>4, <1>8 DEF SubmitCheck
  <2>2. Keeps(r) /\ pc'[r] = "update_status" /\ loc'[r] = loc[r] /\ raced' = raced
      BY <1>6, <2>1, GotoKeeps DEF ClaimsInv
  <2>3. loc[r].to = "submitted" /\ (c \in raced \/ claim[c].status = "draft")
      BY <1>4, <1>5, <2>1 DEF ClaimHeld
  <2>4. c \in raced \/ CanTransition(claim[c].status, "submitted")
      BY <2>3 DEF CanTransition
  <2>5. ClaimHeld(r)' BY <1>2, <1>4, <1>7, <2>1, <2>2, <2>3, <2>4 DEF ClaimHeld
  <2> QED BY <1>1, <2>2, <2>5, ClaimsQuiet
<1>9. CASE RejectReason(r)
  <2>1. pc[r] = "reject_reason" /\ Goto(r, "update_status", loc[r]) BY <1>9 DEF RejectReason
  <2>2. Keeps(r) /\ pc'[r] = "update_status" /\ loc'[r] = loc[r] /\ raced' = raced
      BY <1>6, <2>1, GotoKeeps DEF ClaimsInv
  <2>3. loc[r].to = "rejected" /\ claim[c].lines # <<>>
        /\ (c \in raced \/ claim[c].status = "submitted")
      BY <1>4, <1>5, <2>1 DEF ClaimHeld
  <2>4. c \in raced \/ CanTransition(claim[c].status, "rejected")
      BY <2>3 DEF CanTransition
  <2>5. ClaimHeld(r)' BY <1>2, <1>4, <1>7, <2>1, <2>2, <2>3, <2>4 DEF ClaimHeld
  <2> QED BY <1>1, <2>2, <2>5, ClaimsQuiet
<1>10. CASE ApprovePolicy(r) /\ ~End(r)
  <2>1. pc[r] = "approve_policy" /\ Goto(r, "approve_read", loc[r])
      BY <1>10 DEF ApprovePolicy
  <2>2. Keeps(r) /\ pc'[r] = "approve_read" /\ loc'[r] = loc[r] /\ raced' = raced
      BY <1>6, <2>1, GotoKeeps DEF ClaimsInv
  <2>3. ClaimHeld(r)' BY <1>2, <1>5, <2>1, <2>2 DEF ClaimHeld
  <2> QED BY <1>1, <2>2, <2>3, ClaimsQuiet
<1>11. CASE ApproveRead(r) /\ ~End(r)
  <2>1. PICK total : total = ClaimTotal(claim[c].lines) OBVIOUS
  <2>2. PICK d : d = [on |-> c, user |-> loc[r].user, level |-> loc[r].level,
                      required |-> RequiredLevels(total), began |-> Len(gl[c])]
      OBVIOUS
  <2>3. /\ pc[r] = "approve_read" /\ Goto(r, "approve_step", d)
        /\ MayApprove(loc[r].user, c, loc[r].level, RequiredLevels(total), total)
      BY <1>4, <1>11, <2>1, <2>2 DEF ApproveRead
  <2>4. Keeps(r) /\ pc'[r] = "approve_step" /\ loc'[r] = d /\ raced' = raced
      BY <1>4, <1>6, <2>2, <2>3, GotoKeeps DEF ClaimsInv
  <2>5. d.user \in EligibleApprovers("Accountant") /\ (Cardinality(staff) > 1 => d.user # claim[c].author)
      BY <2>2, <2>3 DEF MayApprove, EligibleApprovers, LedgerUserCount
  <2>6. EligibleApprovers("Accountant")' = EligibleApprovers("Accountant")
        /\ RequiredLevels(total)' = RequiredLevels(total)
      BY <1>2 DEF EligibleApprovers, RequiredLevels
  <2>7. d.user \in staff /\ d.level \in LevelAsked /\ claim[c].lines # <<>>
        /\ (c \in raced \/ claim[c].status \in InApproval)
      BY <1>4, <1>5, <2>2, <2>3 DEF ClaimHeld
  <2>8. d.on = c /\ d.required = RequiredLevels(total) BY <2>2
  <2>9. ClaimHeld(r)' BY <1>2, <1>7, <2>1, <2>4, <2>5, <2>6, <2>7, <2>8 DEF ClaimHeld
  <2> QED BY <1>1, <2>4, <2>9, ClaimsQuiet
<1>12. CASE ApproveStep(r) /\ ~End(r)
  <2>1. PICK d : d = [on |-> c, user |-> loc[r].user, level |-> loc[r].level,
                      required |-> loc[r].required, began |-> loc[r].began,
                      full |-> loc[r].required \subseteq RecordedLevels(c) \cup {loc[r].level}]
      OBVIOUS
  <2>2. pc[r] = "approve_step" /\ Goto(r, "approve_commit", d)
      BY <1>4, <1>12, <2>1 DEF ApproveStep
  <2>3. d.on = c /\ d.user = loc[r].user /\ d.level = loc[r].level /\ d.required = loc[r].required
      BY <2>1
  <2>4. d.full <=> d.required \subseteq RecordedLevels(c) \cup {d.level} BY <2>1
  <2>5. Keeps(r) /\ pc'[r] = "approve_commit" /\ loc'[r] = d /\ raced' = raced
      BY <1>4, <1>6, <2>2, <2>3, GotoKeeps DEF ClaimsInv
  <2>6. EligibleApprovers("Accountant")' = EligibleApprovers("Accountant")
        /\ RecordedLevels(c)' = RecordedLevels(c) /\ \A t : RequiredLevels(t)' = RequiredLevels(t)
      BY <1>2 DEF EligibleApprovers, RequiredLevels, RecordedLevels
  <2>7. ClaimHeld(r)'
      BY <1>2, <1>4, <1>5, <1>7, <2>2, <2>3, <2>4, <2>5, <2>6 DEF ClaimHeld
  <2> QED BY <1>1, <2>5, <2>7, ClaimsQuiet
<1>13. CASE PayRead(r) /\ ~End(r)
  <2>1. PICK i \in LatestEntries(c) :
            Goto(r, "pay_commit",
                 [on |-> c, began |-> Len(gl[c]),
                  owed |-> Total(SelectSeq(gl[c][i].legs,
                              LAMBDA leg : leg.account = "payable"), "CREDIT")])
      BY <1>4, <1>13 DEF PayRead
  <2>2. PICK d : /\ d.on = c /\ Goto(r, "pay_commit", d) BY <2>1
  <2>3. pc[r] = "pay_read" BY <1>13 DEF PayRead
  <2>4. Keeps(r) /\ pc'[r] = "pay_commit" /\ loc'[r] = d /\ raced' = raced
      BY <1>4, <1>6, <2>2, GotoKeeps DEF ClaimsInv
  <2>5. Entries(c, "approval")' = Entries(c, "approval") BY <1>2 DEF Entries
  <2>6. ClaimHeld(r)' BY <1>2, <1>4, <1>5, <1>7, <2>2, <2>3, <2>4, <2>5 DEF ClaimHeld
  <2> QED BY <1>1, <2>4, <2>6, ClaimsQuiet
<1> QED BY <1>3, <1>8, <1>9, <1>10, <1>11, <1>12, <1>13

LEMMA UpdateStatusHolds ==
    ASSUME ClaimsInv, NEW r \in Req, UpdateStatus(r)
    PROVE  ClaimsInv'
<1>1. PICK c \in Claim : c = loc[r].on BY DEF UpdateStatus, ClaimsInv, ClaimHeld
<1>2. PICK to \in {"submitted", "rejected"} : to = loc[r].to
    BY DEF UpdateStatus, ClaimsInv, ClaimHeld
<1>3. /\ claim[c] # NoClaim /\ claim[c].lines # <<>>
      /\ c \in raced \/ CanTransition(claim[c].status, to)
    BY <1>1, <1>2 DEF UpdateStatus, ClaimsInv, ClaimHeld
<1>4. claim[c] \in ClaimRow /\ to \in ClaimStatus \ {"approved"}
    BY <1>3 DEF ClaimsInv, ClaimOK, ClaimRowOK, ClaimStatus
<1>5. /\ DOMAIN claim' = Claim /\ \A x \in Claim \ {c} : claim'[x] = claim[x]
      /\ claim'[c] = [claim[c] EXCEPT !.status = to]
    BY <1>1, <1>2 DEF UpdateStatus, ClaimsInv
<1>6. /\ claim'[c].status = to /\ claim'[c].author = claim[c].author
      /\ claim'[c].lines = claim[c].lines /\ claim'[c].steps = claim[c].steps
      /\ claim'[c].scanned = claim[c].scanned /\ claim'[c] \in ClaimRow
    BY <1>4, <1>5 DEF ClaimRow
<1>7. claim'[c] # NoClaim BY <1>6 DEF NoClaim
<1>8. StaysOrEnds(r) /\ pc'[r] = "idle" /\ raced' = raced BY EndKeeps DEF UpdateStatus, ClaimsInv
<1>9. gl' = gl /\ levels' = levels /\ staff' = staff BY DEF UpdateStatus
<1>10. RecordedLevels(c)' = RecordedLevels(c) /\ \A k : Entries(c, k)' = Entries(c, k)
    BY <1>6, <1>9 DEF RecordedLevels, Entries
<1>11. ClaimGrows(c) BY <1>6, <1>7, <1>10 DEF ClaimGrows
<1>12. ClaimOK(c)'
  <2>1. ClaimRowOK(c)'
      BY <1>3, <1>6, <1>9 DEF ClaimsInv, ClaimOK, ClaimRowOK, Sequence
  <2>2. c \notin raced => claim[c].status \in NotPosted
      BY <1>3 DEF CanTransition, NotPosted
  <2>3. ClaimJournalOK(c)'
      BY <1>6, <1>7, <1>8, <1>10, <2>2 DEF ClaimsInv, ClaimOK, ClaimJournalOK, NotPosted
  <2>4. ClaimApprovedOK(c)'
      BY <1>3, <1>6, <1>9, <1>10 DEF ClaimsInv, ClaimOK, ClaimApprovedOK, EligibleApprovers
  <2> QED BY <2>1, <2>3, <2>4 DEF ClaimOK
<1>13. ClaimHeld(r)' BY <1>8 DEF ClaimHeld
<1> QED BY <1>1, <1>5, <1>8, <1>9, <1>11, <1>12, <1>13, ClaimsStepAt
      DEF UpdateStatus, ClaimsInv, StaysOrEnds

(* A row more in a journal. *)
LEMMA EntryAdded ==
    ASSUME NEW c \in Claim, Sequence(gl[c]), NEW e, gl'[c] = Append(gl[c], e)
    PROVE  /\ Sequence(gl'[c])
           /\ Entries(c, e.kind)' = Entries(c, e.kind) \cup {Len(gl[c]) + 1}
           /\ \A k : k # e.kind => Entries(c, k)' = Entries(c, k)
           /\ \A k : \A i \in Entries(c, k) : gl'[c][i] = gl[c][i]
           /\ gl'[c][Len(gl[c]) + 1] = e
<1>1. PICK n : n = Len(gl[c]) + 1 OBVIOUS
<1>2. /\ Sequence(gl'[c]) /\ n \notin DOMAIN gl[c] /\ DOMAIN gl'[c] = DOMAIN gl[c] \cup {n}
      /\ \A i \in DOMAIN gl[c] : gl'[c][i] = gl[c][i]
      /\ gl'[c][n] = e
    BY <1>1, AppendRow
<1> QED BY <1>1, <1>2 DEF Entries

(* What an approval records in the claim. *)
LEMMA StepRecorded ==
    ASSUME ClaimsInv, NEW c \in Claim, claim[c] # NoClaim,
           NEW s \in [level : LevelAsked, approver : ClaimUser],
           NEW to \in ClaimStatus \ {"approved"},
           claim' = [claim EXCEPT ![c].steps = @ \cup {s}, ![c].status = to]
    PROVE  /\ DOMAIN claim' = Claim /\ \A x \in Claim \ {c} : claim'[x] = claim[x]
           /\ claim'[c] \in ClaimRow /\ claim'[c] # NoClaim
           /\ claim'[c].status = to /\ claim'[c].author = claim[c].author
           /\ claim'[c].lines = claim[c].lines /\ claim'[c].scanned = claim[c].scanned
           /\ claim'[c].steps = claim[c].steps \cup {s}
           /\ RecordedLevels(c)' = RecordedLevels(c) \cup {s.level}
<1>1. claim[c] \in ClaimRow BY DEF ClaimsInv, ClaimOK, ClaimRowOK
<1>2. /\ DOMAIN claim' = Claim /\ \A x \in Claim \ {c} : claim'[x] = claim[x]
      /\ claim'[c] = [claim[c] EXCEPT !.steps = @ \cup {s}, !.status = to]
    BY DEF ClaimsInv
<1>3. /\ claim'[c].status = to /\ claim'[c].author = claim[c].author
      /\ claim'[c].lines = claim[c].lines /\ claim'[c].scanned = claim[c].scanned
      /\ claim'[c].steps = claim[c].steps \cup {s} /\ claim'[c] \in ClaimRow
    BY <1>1, <1>2 DEF ClaimRow
<1>4. claim'[c] # NoClaim BY <1>3, RowIsClaim
<1>5. RecordedLevels(c)' = RecordedLevels(c) \cup {s.level} BY <1>3 DEF RecordedLevels
<1> QED BY <1>2, <1>3, <1>4, <1>5

(* The level in hand is recorded; the last one posts the claim. *)
LEMMA ApproveCommitHolds ==
    ASSUME ClaimsInv, NEW r \in Req, ApproveCommit(r)
    PROVE  ClaimsInv'
<1>1. CASE UNCHANGED <<claim, gl>>
  <2>1. End(r) /\ UNCHANGED claimVars BY <1>1 DEF ApproveCommit, claimVars
  <2> QED BY <2>1, ClaimEndHolds
<1>2. PICK c \in Claim : c = loc[r].on BY DEF ApproveCommit, ClaimsInv, ClaimHeld
<1>3. PICK s : s = [level |-> loc[r].level, approver |-> loc[r].user] OBVIOUS
<1>4. /\ claim[c] # NoClaim /\ claim[c].lines # <<>>
      /\ loc[r].user \in staff /\ loc[r].level \in LevelAsked
      /\ loc[r].user \in EligibleApprovers("Accountant")
      /\ Cardinality(staff) > 1 => loc[r].user # claim[c].author
      /\ c \in raced \/ claim[c].status \in InApproval
      /\ loc[r].full => loc[r].required \subseteq RecordedLevels(c) \cup {loc[r].level}
    BY <1>2 DEF ApproveCommit, ClaimsInv, ClaimHeld
<1>5. s \in [level : LevelAsked, approver : ClaimUser] /\ s.approver = loc[r].user
      /\ s.level = loc[r].level
    BY <1>3, <1>4 DEF ClaimsInv
<1>6. StaysOrEnds(r) /\ pc'[r] = "idle" /\ raced' = raced BY EndKeeps DEF ApproveCommit, ClaimsInv
<1>7. levels' = levels /\ staff' = staff BY DEF ApproveCommit
<1>8. Sequence(gl[c]) BY DEF ClaimsInv, ClaimOK, ClaimRowOK
<1>9. c \notin raced => claim[c].status \in NotPosted /\ claim[c].status # "paid"
    BY <1>4 DEF InApproval, NotPosted
<1>10. ASSUME NEW to \in ClaimStatus \ {"approved"},
              claim' = [claim EXCEPT ![c].steps = @ \cup {s}, ![c].status = to],
              DOMAIN gl' = Claim, \A x \in Claim \ {c} : gl'[x] = gl[x],
              Sequence(gl'[c]), Entries(c, "approval") \subseteq Entries(c, "approval")',
              ClaimJournalOK(c)',
              \A i \in Entries(c, "approval")' : gl'[c][i].required \subseteq RecordedLevels(c)',
              Entries(c, "payout")' = Entries(c, "payout")
       PROVE  ClaimsInv'
  <2>1. /\ DOMAIN claim' = Claim /\ \A x \in Claim \ {c} : claim'[x] = claim[x]
        /\ claim'[c] \in ClaimRow /\ claim'[c] # NoClaim
        /\ claim'[c].status = to /\ claim'[c].author = claim[c].author
        /\ claim'[c].lines = claim[c].lines /\ claim'[c].scanned = claim[c].scanned
        /\ claim'[c].steps = claim[c].steps \cup {s}
        /\ RecordedLevels(c)' = RecordedLevels(c) \cup {s.level}
      BY <1>4, <1>5, <1>10, StepRecorded
  <2>2. ClaimGrows(c) BY <1>10, <2>1 DEF ClaimGrows
  <2>3. ClaimRowOK(c)' BY <1>4, <1>10, <2>1 DEF ClaimsInv, ClaimOK, ClaimRowOK, Sequence
  <2>4. ClaimApprovedOK(c)'
    <3>1. Entries(c, "payout")' # {} => Entries(c, "approval")' # {}
        BY <1>10 DEF ClaimsInv, ClaimOK, ClaimApprovedOK
    <3>2. \A x \in claim'[c].steps :
             /\ x.approver \in EligibleApprovers("Accountant")'
             /\ Cardinality(staff)' > 1 => x.approver # claim'[c].author
        BY <1>4, <1>5, <1>7, <2>1 DEF ClaimsInv, ClaimOK, ClaimApprovedOK, EligibleApprovers
    <3> QED BY <1>10, <3>1, <3>2 DEF ClaimApprovedOK
  <2>5. ClaimOK(c)' BY <1>10, <2>3, <2>4 DEF ClaimOK
  <2>6. ClaimHeld(r)' BY <1>6 DEF ClaimHeld
  <2> QED BY <1>2, <1>6, <1>7, <1>10, <2>1, <2>2, <2>5, <2>6, ClaimsStepAt
        DEF ApproveCommit, ClaimsInv, StaysOrEnds
<1>11. CASE /\ claim' = [claim EXCEPT ![c].steps = @ \cup {s}, ![c].status = "partially_approved"]
            /\ gl' = gl
  <2>1. \A k : Entries(c, k)' = Entries(c, k) BY <1>11 DEF Entries
  <2>2. "partially_approved" \in ClaimStatus \ {"approved"} BY DEF ClaimStatus
  <2>3. /\ claim'[c].status = "partially_approved" /\ claim'[c] # NoClaim
        /\ RecordedLevels(c)' = RecordedLevels(c) \cup {s.level}
    <3>1. PICK to \in ClaimStatus \ {"approved"} : to = "partially_approved" BY <2>2
    <3>2. claim' = [claim EXCEPT ![c].steps = @ \cup {s}, ![c].status = to] BY <1>11, <3>1
    <3>3. /\ DOMAIN claim' = Claim /\ \A x \in Claim \ {c} : claim'[x] = claim[x]
          /\ claim'[c] \in ClaimRow /\ claim'[c] # NoClaim
          /\ claim'[c].status = to /\ claim'[c].author = claim[c].author
          /\ claim'[c].lines = claim[c].lines /\ claim'[c].scanned = claim[c].scanned
          /\ claim'[c].steps = claim[c].steps \cup {s}
          /\ RecordedLevels(c)' = RecordedLevels(c) \cup {s.level}
        BY <1>4, <1>5, <3>2, StepRecorded
    <3> QED BY <3>1, <3>3
  <2>4. ClaimJournalOK(c)'
      BY <1>6, <1>9, <2>1, <2>3 DEF ClaimsInv, ClaimOK, ClaimJournalOK, NotPosted
  <2>5. \A i \in Entries(c, "approval")' : gl'[c][i].required \subseteq RecordedLevels(c)'
      BY <1>11, <2>1, <2>3 DEF ClaimsInv, ClaimOK, ClaimApprovedOK
  <2>6. /\ DOMAIN gl' = Claim /\ \A x \in Claim \ {c} : gl'[x] = gl[x]
        /\ Sequence(gl'[c]) /\ Entries(c, "approval") \subseteq Entries(c, "approval")'
        /\ Entries(c, "payout")' = Entries(c, "payout")
      BY <1>8, <1>11, <2>1 DEF ClaimsInv
  <2> QED BY <1>10, <1>11, <2>2, <2>4, <2>5, <2>6
<1>12. ASSUME NEW e, e.kind = "approval", e.required = loc[r].required, loc[r].full,
              claim' = [claim EXCEPT ![c].steps = @ \cup {s}, ![c].status = "fully_approved"],
              gl' = [gl EXCEPT ![c] = Append(@, e)]
       PROVE  ClaimsInv'
  <2>1. DOMAIN gl' = Claim /\ gl'[c] = Append(gl[c], e) /\ \A x \in Claim \ {c} : gl'[x] = gl[x]
      BY <1>12 DEF ClaimsInv
  <2>2. PICK n : n = Len(gl[c]) + 1 OBVIOUS
  <2>3. /\ Sequence(gl'[c]) /\ Entries(c, "approval")' = Entries(c, "approval") \cup {n}
        /\ Entries(c, "payout")' = Entries(c, "payout")
        /\ \A i \in Entries(c, "approval") : gl'[c][i] = gl[c][i]
        /\ gl'[c][n] = e
    <3>1. /\ Sequence(gl'[c])
          /\ Entries(c, e.kind)' = Entries(c, e.kind) \cup {Len(gl[c]) + 1}
          /\ \A k : k # e.kind => Entries(c, k)' = Entries(c, k)
          /\ \A k : \A i \in Entries(c, k) : gl'[c][i] = gl[c][i]
          /\ gl'[c][Len(gl[c]) + 1] = e
        BY <1>8, <2>1, EntryAdded
    <3> QED BY <1>12, <2>2, <3>1
  <2>4. "fully_approved" \in ClaimStatus \ {"approved"} BY DEF ClaimStatus
  <2>5. /\ claim'[c].status = "fully_approved" /\ claim'[c] # NoClaim
        /\ RecordedLevels(c)' = RecordedLevels(c) \cup {s.level}
    <3>1. PICK to \in ClaimStatus \ {"approved"} : to = "fully_approved" BY <2>4
    <3>2. claim' = [claim EXCEPT ![c].steps = @ \cup {s}, ![c].status = to] BY <1>12, <3>1
    <3>3. /\ DOMAIN claim' = Claim /\ \A x \in Claim \ {c} : claim'[x] = claim[x]
          /\ claim'[c] \in ClaimRow /\ claim'[c] # NoClaim
          /\ claim'[c].status = to /\ claim'[c].author = claim[c].author
          /\ claim'[c].lines = claim[c].lines /\ claim'[c].scanned = claim[c].scanned
          /\ claim'[c].steps = claim[c].steps \cup {s}
          /\ RecordedLevels(c)' = RecordedLevels(c) \cup {s.level}
        BY <1>4, <1>5, <3>2, StepRecorded
    <3> QED BY <3>1, <3>3
  <2>6. ClaimJournalOK(c)'
      BY <1>6, <1>9, <2>3, <2>5 DEF ClaimsInv, ClaimOK, ClaimJournalOK, NotPosted
  <2>7. ASSUME NEW i \in Entries(c, "approval")'
        PROVE  gl'[c][i].required \subseteq RecordedLevels(c)'
    <3>1. CASE i = n BY <1>4, <1>5, <1>12, <2>3, <2>5, <3>1
    <3>2. CASE i # n
      <4>1. i \in Entries(c, "approval") /\ gl'[c][i] = gl[c][i] BY <2>3, <2>7, <3>2
      <4>2. gl[c][i].required \subseteq RecordedLevels(c)
          BY <4>1 DEF ClaimsInv, ClaimOK, ClaimApprovedOK
      <4> QED BY <2>5, <4>1, <4>2
    <3> QED BY <3>1, <3>2
  <2> QED BY <1>10, <1>12, <2>1, <2>3, <2>4, <2>6, <2>7
<1>13. CASE loc[r].full /\ ~UNCHANGED <<claim, gl>>
  <2>1. PICK e : e = [kind |-> "approval", began |-> loc[r].began,
                      legs |-> ApprovalLegs(claim[c].lines), required |-> loc[r].required]
      OBVIOUS
  <2>2. e.kind = "approval" /\ e.required = loc[r].required BY <2>1
  <2>3. /\ claim' = [claim EXCEPT ![c].steps = @ \cup {s}, ![c].status = "fully_approved"]
        /\ gl' = [gl EXCEPT ![c] = Append(@, e)]
      BY <1>2, <1>3, <1>13, <2>1 DEF ApproveCommit
  <2> QED BY <1>12, <1>13, <2>2, <2>3
<1>14. CASE ~loc[r].full
    BY <1>2, <1>3, <1>11, <1>14 DEF ApproveCommit
<1> QED BY <1>1, <1>13, <1>14

(* The payout goes behind the approval. *)
LEMMA PayCommitHolds ==
    ASSUME ClaimsInv, NEW r \in Req, PayCommit(r)
    PROVE  ClaimsInv'
<1>1. CASE UNCHANGED <<claim, gl>>
  <2>1. End(r) /\ UNCHANGED claimVars BY <1>1 DEF PayCommit, claimVars
  <2> QED BY <2>1, ClaimEndHolds
<1>2. CASE ~UNCHANGED <<claim, gl>>
  <2>1. PICK c \in Claim : c = loc[r].on BY DEF PayCommit, ClaimsInv, ClaimHeld
  <2>2. /\ claim[c] # NoClaim /\ claim[c].lines # <<>> /\ Entries(c, "approval") # {}
        /\ c \in raced \/ claim[c].status = "fully_approved"
      BY <2>1 DEF PayCommit, ClaimsInv, ClaimHeld
  <2>3. PICK b, p : /\ b.kind = "blank" /\ p.kind = "payout"
                    /\ claim' = [claim EXCEPT ![c].status = "paid"]
                    /\ gl' = [gl EXCEPT ![c] = @ \o <<b, p>>]
    <3>1. PICK b : b = [kind |-> "blank", began |-> loc[r].began, legs |-> <<>>] OBVIOUS
    <3>2. PICK p : p = [kind |-> "payout", began |-> loc[r].began,
                        legs |-> <<Debit("payable", loc[r].owed), Credit("bank", loc[r].owed)>>]
        OBVIOUS
    <3>3. /\ claim' = [claim EXCEPT ![c].status = "paid"]
          /\ gl' = [gl EXCEPT ![c] = @ \o <<b, p>>]
        BY <1>2, <2>1, <3>1, <3>2 DEF PayCommit
    <3> QED BY <3>1, <3>2, <3>3
  <2>4. claim[c] \in ClaimRow /\ Sequence(gl[c]) BY <2>2 DEF ClaimsInv, ClaimOK, ClaimRowOK
  <2>5. /\ DOMAIN claim' = Claim /\ DOMAIN gl' = Claim
        /\ \A x \in Claim \ {c} : claim'[x] = claim[x] /\ gl'[x] = gl[x]
        /\ claim'[c] = [claim[c] EXCEPT !.status = "paid"]
        /\ gl'[c] = gl[c] \o <<b, p>>
      BY <2>3 DEF ClaimsInv
  <2>6. /\ claim'[c].status = "paid" /\ claim'[c].author = claim[c].author
        /\ claim'[c].lines = claim[c].lines /\ claim'[c].steps = claim[c].steps
        /\ claim'[c].scanned = claim[c].scanned /\ claim'[c] \in ClaimRow
      BY <2>4, <2>5 DEF ClaimRow, ClaimStatus
  <2>7. claim'[c] # NoClaim BY <2>6 DEF NoClaim
  <2>8. PICK m : m = Append(gl[c], b) OBVIOUS
  <2>9. gl'[c] = Append(m, p) BY <2>4, <2>5, <2>8, AppendTwo
  <2>10. /\ Sequence(m) /\ Len(gl[c]) + 1 \notin DOMAIN gl[c]
         /\ DOMAIN m = DOMAIN gl[c] \cup {Len(gl[c]) + 1}
         /\ \A i \in DOMAIN gl[c] : m[i] = gl[c][i]
         /\ m[Len(gl[c]) + 1] = b
      BY <2>4, <2>8, AppendRow
  <2>11. /\ Sequence(gl'[c]) /\ Len(m) + 1 \notin DOMAIN m
         /\ DOMAIN gl'[c] = DOMAIN m \cup {Len(m) + 1}
         /\ \A i \in DOMAIN m : gl'[c][i] = m[i]
         /\ gl'[c][Len(m) + 1] = p
      BY <2>9, <2>10, AppendRow
  <2>12. /\ Entries(c, "approval")' = Entries(c, "approval")
         /\ Entries(c, "payout")' = Entries(c, "payout") \cup {Len(m) + 1}
         /\ \A i \in Entries(c, "approval") : gl'[c][i] = gl[c][i]
    <3>1. PICK i1 : i1 = Len(gl[c]) + 1 OBVIOUS
    <3>2. PICK i2 : i2 = Len(m) + 1 OBVIOUS
    <3>3. /\ DOMAIN gl'[c] = DOMAIN gl[c] \cup {i1, i2}
          /\ \A i \in DOMAIN gl[c] : gl'[c][i] = gl[c][i]
          /\ gl'[c][i1] = b /\ gl'[c][i2] = p
        BY <2>10, <2>11, <3>1, <3>2
    <3>4. Entries(c, "approval")' = Entries(c, "approval") BY <2>3, <3>3 DEF Entries
    <3>5. Entries(c, "payout")' = Entries(c, "payout") \cup {i2} BY <2>3, <3>3 DEF Entries
    <3> QED BY <3>2, <3>3, <3>4, <3>5 DEF Entries
  <2>13. StaysOrEnds(r) /\ pc'[r] = "idle" /\ raced' = raced BY EndKeeps DEF PayCommit, ClaimsInv
  <2>14. levels' = levels /\ staff' = staff BY DEF PayCommit
  <2>15. RecordedLevels(c)' = RecordedLevels(c) BY <2>6 DEF RecordedLevels
  <2>16. ClaimGrows(c) BY <2>6, <2>7, <2>12, <2>15 DEF ClaimGrows
  <2>17. ClaimOK(c)'
    <3>1. ClaimRowOK(c)'
        BY <2>2, <2>6, <2>11 DEF ClaimsInv, ClaimOK, ClaimRowOK, Sequence
    <3>2. ClaimJournalOK(c)'
        BY <2>2, <2>6, <2>7, <2>12, <2>13 DEF ClaimsInv, ClaimOK, ClaimJournalOK, NotPosted
    <3>3. ClaimApprovedOK(c)'
        BY <2>2, <2>6, <2>12, <2>14, <2>15 DEF ClaimsInv, ClaimOK, ClaimApprovedOK, EligibleApprovers
    <3> QED BY <3>1, <3>2, <3>3 DEF ClaimOK
  <2>18. ClaimHeld(r)' BY <2>13 DEF ClaimHeld
  <2> QED BY <2>1, <2>5, <2>13, <2>14, <2>16, <2>17, <2>18, ClaimsStepAt
        DEF PayCommit, ClaimsInv, StaysOrEnds
<1> QED BY <1>1, <1>2

(* The owner's levels and the operator's rules: whoever is at work on a    *)
(* claim meanwhile is raced.                                               *)
LEMMA PoliciesHold ==
    ASSUME ClaimsInv, levels' \subseteq Levels, UNCHANGED <<pc, loc, claim, gl, staff>>,
           raced \subseteq raced', raced' \subseteq raced \cup Claim,
           levels' = levels \/ \A c \in Claim : WorkingOn(c) # {} => c \in raced'
    PROVE  ClaimsInv'
<1>1. RequestsOK' BY DEF ClaimsInv, RequestsOK, Busy
<1>2. \A c \in Claim : ClaimOK(c)' BY ClaimStays DEF ClaimsInv
<1>3. \A c \in Claim : ClaimGrows(c) BY DEF ClaimGrows, RecordedLevels, Entries
<1>4. ASSUME NEW q \in Req PROVE ClaimHeld(q)'
  <2>1. pc[q] # "idle" => loc[q].on \in Claim BY DEF ClaimsInv, ClaimHeld
  <2>2. pc[q] # "idle" => levels' = levels \/ loc[q].on \in raced'
      BY <2>1 DEF WorkingOn, Busy
  <2> QED BY <1>3, <2>1, <2>2, ClaimHeldStays DEF ClaimsInv
<1> QED BY <1>1, <1>2, <1>4 DEF ClaimsInv

(* Claims, their levels and their journal, through every step of the       *)
(* handlers (handlers/reimbursement.rs, handlers/approval_policies.rs).    *)
THEOREM ClaimsInvariant == ClaimsSpec => []ClaimsInv
<1>1. InitRequests /\ InitClaims => ClaimsInv
  <2> SUFFICES ASSUME InitRequests, InitClaims PROVE ClaimsInv
      OBVIOUS
  <2>1. RequestsOK /\ \A r \in Req : ClaimHeld(r)
      BY InitRequestsOK DEF InitRequests, ClaimHeld
  <2>2. /\ DOMAIN claim = Claim /\ DOMAIN gl = Claim /\ levels \subseteq Levels /\ staff \subseteq ClaimUser
      BY DEF InitClaims
  <2>3. ASSUME NEW c \in Claim PROVE ClaimOK(c)
    <3>1. claim[c] = NoClaim /\ gl[c] = <<>> BY DEF InitClaims
    <3>2. <<>> \in Seq({}) OBVIOUS
    <3>3. \A k : Entries(c, k) = {} BY <3>1 DEF Entries
    <3>4. ClaimRowOK(c) BY <3>1, <3>2 DEF ClaimRowOK, Sequence
    <3>5. ClaimJournalOK(c) BY <3>1, <3>3 DEF ClaimJournalOK, NoClaim
    <3>6. ClaimApprovedOK(c) BY <3>1, <3>3 DEF ClaimApprovedOK
    <3> QED BY <3>4, <3>5, <3>6 DEF ClaimOK
  <2> QED BY <2>1, <2>2, <2>3 DEF ClaimsInv
<1>2. ClaimsInv /\ [ClaimsNext]_<<reqVars, claimVars>> => ClaimsInv'
  <2> SUFFICES ASSUME ClaimsInv, [ClaimsNext]_<<reqVars, claimVars>> PROVE ClaimsInv'
      OBVIOUS
  <2>1. CASE UNCHANGED <<reqVars, claimVars>>
      BY <2>1, PoliciesHold DEF reqVars, claimVars, ClaimsInv
  <2>2. ASSUME NEW r \in Req, ClaimStep(r) PROVE ClaimsInv'
    <3>1. CASE CutOff(r) /\ UNCHANGED claimVars BY <3>1, ClaimEndHolds DEF CutOff
    <3> QED BY <2>2, <3>1, AddLineInsertHolds, UpdateStatusHolds, ApproveCommitHolds,
              PayCommitHolds, ClaimGotoHolds DEF ClaimStep
  <2>3. ASSUME NEW r \in Req, NEW u \in ClaimUser, NEW c \in Claim, ClaimBegin(r, u, c)
        PROVE  ClaimsInv'
      BY <2>3, ClaimCreateHolds, OcrApplyHolds, ClaimBeginHolds DEF ClaimBegin
  <2>4. ASSUME NEW u \in ClaimUser, NEW p \in Levels, PolicyCreate(u, p) \/ PolicyDelete(u, p)
        PROVE  ClaimsInv'
    <3>1. /\ levels' \subseteq Levels /\ UNCHANGED <<pc, loc, claim, gl, staff>>
          /\ raced' = raced \cup {c \in Claim : WorkingOn(c) # {}}
        BY <2>4 DEF PolicyCreate, PolicyDelete, ClaimsInv
    <3> QED BY <3>1, PoliciesHold
  <2>5. ASSUME NEW rule \in Rules, OperatorAddsRule(rule) PROVE ClaimsInv'
      BY <2>5, PoliciesHold DEF OperatorAddsRule, ClaimsInv
  <2> QED BY <2>1, <2>2, <2>3, <2>4, <2>5 DEF ClaimsNext
<1> QED BY <1>1, <1>2, PTL DEF ClaimsSpec

(* Approve posts a claim once and pay pays it once, unless two requests    *)
(* for it overlapped; and whatever overlaps, money leaves only for an      *)
(* approval with every level it required, recorded by others than the      *)
(* author; the page offers the levels approve takes.                       *)
THEOREM ClaimsPostedByOthers ==
    ClaimsSpec => [](ClaimsTypeOK /\ ClaimPostedOnce /\ ApprovedByOthers /\ OfferedIsAccepted)
<1>1. ClaimsInv => ClaimsTypeOK /\ ClaimPostedOnce /\ ApprovedByOthers /\ OfferedIsAccepted
  <2> SUFFICES ASSUME ClaimsInv
               PROVE  ClaimsTypeOK /\ ClaimPostedOnce /\ ApprovedByOthers /\ OfferedIsAccepted
      OBVIOUS
  <2>1. ClaimsTypeOK
    <3> SUFFICES ASSUME NEW c \in Claim, claim[c] # NoClaim
                 PROVE  /\ claim[c].status \in ClaimStatus
                        /\ claim[c].author \in ClaimUser
                        /\ claim[c].status # "draft" => claim[c].lines # <<>>
                        /\ \A s \in claim[c].steps : s.approver \in ClaimUser
        BY DEF ClaimsTypeOK
    <3>1. claim[c] \in ClaimRow BY DEF ClaimsInv, ClaimOK, ClaimRowOK
    <3> QED BY <3>1 DEF ClaimsInv, ClaimOK, ClaimRowOK, ClaimRow
  <2>2. ClaimPostedOnce
    <3>1. ASSUME NEW S, \A i, j \in S : i = j PROVE Cardinality(S) <= 1
      <4>1. CASE S = {} BY <4>1, FS_EmptySet
      <4>2. CASE S # {}
        <5>1. PICK i \in S : TRUE BY <4>2
        <5>2. S = {i} BY <3>1, <5>1
        <5> QED BY <5>2, FS_Singleton
      <4> QED BY <4>1, <4>2
    <3>2. ASSUME NEW c \in Claim \ raced
          PROVE  /\ Cardinality(Entries(c, "approval")) <= 1
                 /\ Cardinality(Entries(c, "payout")) <= 1
      <4>1. /\ \A i, j \in Entries(c, "approval") : i = j
            /\ \A i, j \in Entries(c, "payout") : i = j
          BY DEF ClaimsInv, ClaimOK, ClaimJournalOK
      <4> QED BY <3>1, <4>1
    <3> QED BY <3>2 DEF ClaimPostedOnce
  <2>3. ApprovedByOthers BY DEF ClaimsInv, ClaimOK, ClaimApprovedOK, ApprovedByOthers
  <2>4. OfferedIsAccepted
    <3>1. Cardinality(staff) \in Nat
        BY ClaimsAssumption, FS_Subset, FS_CardinalityType DEF ClaimsInv
    <3>2. \A t : RequiredLevels(t) \subseteq LevelAsked
        BY DEF ClaimsInv, RequiredLevels, LevelAsked
    <3> SUFFICES ASSUME NEW c \in Claim, NEW u \in staff, claim[c] # NoClaim, NEW total,
                        total = ClaimTotal(claim[c].lines)
                 PROVE  ApproveLevelsShown(u, c) =
                           {l \in LevelAsked : MayApprove(u, c, l, RequiredLevels(total), total)}
        BY DEF OfferedIsAccepted
    <3> QED BY <3>1, <3>2 DEF ApproveLevelsShown, MayApprove, LedgerUserCount
  <2> QED BY <2>1, <2>2, <2>3, <2>4
<1> QED BY <1>1, ClaimsInvariant, PTL

(* A claim goes along the edges of can_transition_to although no handler   *)
(* asks it again, only a receipt adds a line after the draft, and the      *)
(* level that completes the claim is the one that posts it: for a claim on *)
(* which no two requests overlapped.                                       *)
THEOREM ClaimsTakeEachLevelAlways == ClaimsSpec => ClaimsTakeEachLevel
<1> DEFINE Along ==
             \A c \in Claim \ raced' :
                /\ claim[c] # NoClaim /\ claim'[c].status # claim[c].status =>
                      CanTransition(claim[c].status, claim'[c].status)
                /\ claim[c] # NoClaim /\ claim[c].status # "draft"
                   /\ claim'[c].scanned = claim[c].scanned =>
                      claim'[c].lines = claim[c].lines
           Posts ==
             \A c \in Claim \ raced' :
                claim[c] # NoClaim /\ claim'[c].steps # claim[c].steps =>
                  (claim'[c].status = "fully_approved" <=>
                      RequiredLevels(ClaimTotal(claim[c].lines)) \subseteq
                          {s.level : s \in claim'[c].steps})
<1>1. ClaimsInv /\ [ClaimsNext]_<<reqVars, claimVars>> => [Along /\ Posts]_<<claim, raced>>
  <2> SUFFICES ASSUME ClaimsInv, ClaimsNext, NEW c \in Claim \ raced', claim[c] # NoClaim,
                      claim'[c] # claim[c]
               PROVE  /\ claim'[c].status # claim[c].status =>
                            CanTransition(claim[c].status, claim'[c].status)
                      /\ claim[c].status # "draft" /\ claim'[c].scanned = claim[c].scanned =>
                            claim'[c].lines = claim[c].lines
                      /\ claim'[c].steps # claim[c].steps =>
                           (claim'[c].status = "fully_approved" <=>
                              RequiredLevels(ClaimTotal(claim[c].lines)) \subseteq
                                  {s.level : s \in claim'[c].steps})
      BY DEF reqVars, claimVars
  <2>1. claim[c] \in ClaimRow BY DEF ClaimsInv, ClaimOK, ClaimRowOK
  <2>2. ASSUME NEW r \in Req, NEW u \in ClaimUser, OcrApply(r, u, c) PROVE
               /\ claim'[c].status = claim[c].status /\ claim'[c].steps = claim[c].steps
               /\ claim'[c].scanned # claim[c].scanned
    <3>1. PICK l \in OcrLine :
            claim' = [claim EXCEPT ![c].lines = Append(@, l),
                         ![c].scanned = @ \cup {<<Len(claim[c].lines) + 1, claim[c].status>>}]
        BY <2>2 DEF OcrApply
    <3>2. PICK x : x = <<Len(claim[c].lines) + 1, claim[c].status>> OBVIOUS
    <3>3. claim'[c] = [claim[c] EXCEPT !.lines = Append(@, l), !.scanned = @ \cup {x}]
        BY <3>1, <3>2 DEF ClaimsInv
    <3>4. claim'[c].status = claim[c].status /\ claim'[c].steps = claim[c].steps
          /\ claim'[c].scanned = claim[c].scanned \cup {x}
        BY <2>1, <3>3 DEF ClaimRow
    <3>5. x \notin claim[c].scanned
      <4>1. Len(claim[c].lines) \in Nat BY <2>1 DEF ClaimRow
      <4>2. \A y \in claim[c].scanned : y[1] <= Len(claim[c].lines)
          BY DEF ClaimsInv, ClaimOK, ClaimRowOK
      <4>3. x[1] = Len(claim[c].lines) + 1 BY <3>2
      <4> QED BY <4>1, <4>2, <4>3
    <3> QED BY <3>4, <3>5
  <2>3. ASSUME NEW r \in Req, AddLineInsert(r), loc[r].on = c PROVE
               /\ claim'[c].status = claim[c].status /\ claim'[c].steps = claim[c].steps
               /\ claim[c].status = "draft"
    <3>1. claim'[c] = [claim[c] EXCEPT !.lines = Append(@, loc[r].line)]
        BY <2>3 DEF AddLineInsert, ClaimsInv
    <3>2. raced' = raced BY <2>3 DEF AddLineInsert, End
    <3>3. claim[c].status = "draft" BY <2>3, <3>2 DEF AddLineInsert, ClaimsInv, ClaimHeld
    <3> QED BY <2>1, <3>1, <3>3 DEF ClaimRow
  <2>4. ASSUME NEW r \in Req, UpdateStatus(r), loc[r].on = c PROVE
               /\ CanTransition(claim[c].status, claim'[c].status)
               /\ claim'[c].steps = claim[c].steps /\ claim'[c].lines = claim[c].lines
    <3>1. claim'[c] = [claim[c] EXCEPT !.status = loc[r].to]
        BY <2>4 DEF UpdateStatus, ClaimsInv
    <3>2. raced' = raced BY <2>4 DEF UpdateStatus, End
    <3>3. CanTransition(claim[c].status, loc[r].to)
        BY <2>4, <3>2 DEF UpdateStatus, ClaimsInv, ClaimHeld
    <3> QED BY <2>1, <3>1, <3>3 DEF ClaimRow
  <2>5. ASSUME NEW r \in Req, PayCommit(r), loc[r].on = c PROVE
               /\ CanTransition(claim[c].status, claim'[c].status)
               /\ claim'[c].steps = claim[c].steps /\ claim'[c].lines = claim[c].lines
    <3>1. claim'[c] = [claim[c] EXCEPT !.status = "paid"]
        BY <2>5 DEF PayCommit, ClaimsInv
    <3>2. raced' = raced BY <2>5 DEF PayCommit, End
    <3>3. claim[c].status = "fully_approved" BY <2>5, <3>2 DEF PayCommit, ClaimsInv, ClaimHeld
    <3>4. CanTransition("fully_approved", "paid") BY DEF CanTransition
    <3> QED BY <2>1, <3>1, <3>3, <3>4 DEF ClaimRow
  <2>6. ASSUME NEW r \in Req, ApproveCommit(r), loc[r].on = c PROVE
               /\ CanTransition(claim[c].status, claim'[c].status)
               /\ claim'[c].lines = claim[c].lines
               /\ claim'[c].status = "fully_approved" <=>
                     RequiredLevels(ClaimTotal(claim[c].lines)) \subseteq
                        {s.level : s \in claim'[c].steps}
    <3>1. PICK s : s = [level |-> loc[r].level, approver |-> loc[r].user] OBVIOUS
    <3>2. PICK to : /\ to = IF loc[r].full THEN "fully_approved" ELSE "partially_approved"
        OBVIOUS
    <3>3. claim'[c] = [claim[c] EXCEPT !.steps = @ \cup {s}, !.status = to]
      <4>1. CASE loc[r].full BY <2>6, <3>1, <3>2, <4>1 DEF ApproveCommit, ClaimsInv
      <4>2. CASE ~loc[r].full BY <2>6, <3>1, <3>2, <4>2 DEF ApproveCommit, ClaimsInv
      <4> QED BY <4>1, <4>2
    <3>4. claim'[c].steps = claim[c].steps \cup {s} /\ claim'[c].status = to
          /\ claim'[c].lines = claim[c].lines
        BY <2>1, <3>3 DEF ClaimRow
    <3>5. raced' = raced BY <2>6 DEF ApproveCommit, End
    <3>6. /\ claim[c].status \in InApproval
          /\ loc[r].required = RequiredLevels(ClaimTotal(claim[c].lines))
          /\ loc[r].full <=> loc[r].required \subseteq RecordedLevels(c) \cup {loc[r].level}
        BY <2>6, <3>5 DEF ApproveCommit, ClaimsInv, ClaimHeld
    <3>7. {x.level : x \in claim'[c].steps} = RecordedLevels(c) \cup {loc[r].level}
        BY <3>1, <3>4 DEF RecordedLevels
    <3>8. to = "fully_approved" <=> loc[r].full BY <3>2
    <3>9. CanTransition(claim[c].status, to)
        BY <3>2, <3>6 DEF CanTransition, InApproval
    <3> QED BY <3>4, <3>6, <3>7, <3>8, <3>9
  <2>7. CASE \E r \in Req : ClaimStep(r)
    <3>1. PICK r \in Req : ClaimStep(r) BY <2>7
    <3>2. AddLineInsert(r) \/ UpdateStatus(r) \/ PayCommit(r) \/ ApproveCommit(r)
        BY <3>1 DEF ClaimStep, SubmitCheck, RejectReason, ApprovePolicy, ApproveRead,
             ApproveStep, PayRead, claimVars
    <3>3. loc[r].on = c
        BY <3>2 DEF AddLineInsert, UpdateStatus, PayCommit, ApproveCommit, ClaimsInv
    <3> QED BY <2>3, <2>4, <2>5, <2>6, <3>2, <3>3
  <2>8. CASE \E r \in Req, u \in ClaimUser, b \in Claim : ClaimBegin(r, u, b)
    <3>1. PICK r \in Req, u \in ClaimUser, b \in Claim : ClaimBegin(r, u, b) BY <2>8
    <3>2. ClaimCreate(r, u, b) \/ OcrApply(r, u, b)
        BY <3>1 DEF ClaimBegin, AddLineLoad, SubmitLoad, RejectLoad, ApproveLoad, PayLoad, claimVars
    <3>3. b = c BY <3>2 DEF ClaimCreate, OcrApply, ClaimsInv
    <3>4. OcrApply(r, u, c) BY <3>2, <3>3 DEF ClaimCreate
    <3> QED BY <2>2, <3>4
  <2>9. CASE \E u \in ClaimUser, p \in Levels : PolicyCreate(u, p) \/ PolicyDelete(u, p)
      BY <2>9 DEF PolicyCreate, PolicyDelete
  <2>10. CASE \E rule \in Rules : OperatorAddsRule(rule) BY <2>10 DEF OperatorAddsRule
  <2> QED BY <2>7, <2>8, <2>9, <2>10 DEF ClaimsNext
<1>2. ClaimFollowsStateMachine <=> [][Along]_<<claim, raced>> BY DEF ClaimFollowsStateMachine
<1>3. LastLevelPosts <=> [][Posts]_<<claim, raced>> BY DEF LastLevelPosts
<1> HIDE DEF Along, Posts
<1> QED BY <1>1, <1>2, <1>3, ClaimsInvariant, PTL DEF ClaimsSpec, ClaimsTakeEachLevel

-----------------------------------------------------------------------------
(* THE CHART OF ACCOUNTS, OPENING BALANCES AND BUDGETS. *)

(* A row of the chart; the seeded contra account says nothing of where it  *)
(* was entered.                                                            *)
AccountRow(a, x) ==
    \/ \E w \in BOOLEAN :
          x = [name |-> x.name, type |-> x.type, sub |-> x.sub, archived |-> x.archived, web |-> w]
    \/ a = "equity" /\ x = [name |-> x.name, type |-> x.type, sub |-> x.sub, archived |-> x.archived]

ChartOK ==
    /\ DOMAIN chart = AcctId
    /\ \A a \in Chart : AccountRow(a, chart[a])
    /\ \A a, b \in Chart : chart[a].name = chart[b].name => a = b
    /\ \A a \in Chart : (a # "equity" /\ chart[a].web) => ValidClass(chart[a])

LedgerOK ==
    /\ ledgerRow \in [basis : {"none", "cash", "accrual"}, appendOnly : BOOLEAN]
    /\ ledgerRow # NoLedger => ledgerRow.basis # "none"
    /\ ledgerRow = NoLedger => Chart = {}

EditLabels == {"update count", "update write", "toggle"}
OpeningLabels == {"opening balances", "opening exists", "opening contra", "opening post"}
AlertLabels == {"alert exists", "alert insert", "alert emit"}

(* An edit has an account that exists; what it read of its type is still   *)
(* so, unless another request met it.                                      *)
EditHeld(r) ==
    /\ pc[r] \in EditLabels => loc[r].on \in Chart
    /\ pc[r] \in {"update count", "update write"} =>
          /\ loc[r].name \in AcctName
          /\ loc[r].on # "equity" /\ chart[loc[r].on].web
                => ValidClass([type |-> loc[r].type, sub |-> loc[r].sub])
    /\ pc[r] = "update count" /\ loc[r].on \notin raced => loc[r].type = chart[loc[r].on].type
    /\ pc[r] = "update write" /\ loc[r].on \notin raced /\ HasPostings(loc[r].on)
          => loc[r].type = chart[loc[r].on].type

(* A form of opening balances past its check finds none recorded but       *)
(* entries that were held.                                                 *)
OpeningHeld(r) ==
    /\ pc[r] \in OpeningLabels => loc[r].on = "ledger" /\ ledgerRow # NoLedger
    /\ pc[r] \in {"opening contra", "opening post"} /\ "ledger" \notin raced =>
          \A i \in DOMAIN posted : posted[i].opening => posted[i].held

AlertHeld(r) ==
    /\ pc[r] \in AlertLabels => loc[r] = [on |-> loc[r].on] /\ loc[r].on \in BudgetId
    /\ pc[r] = "alert insert" /\ loc[r].on \notin raced => alerts[loc[r].on] = 0
    /\ pc[r] = "alert emit" /\ loc[r].on \notin raced => alertEvents[loc[r].on] < alerts[loc[r].on]

EditsOK == ChartOK /\ LedgerOK /\ \A r \in Req : EditHeld(r)

OpeningsOK ==
    /\ posted \in Seq(Range(posted))
    /\ \A i \in DOMAIN posted :
          posted[i].opening /\ posted[i].kind \in {"draft", "pending"} => posted[i].held
    /\ OpeningOnce
    /\ \A r \in Req : OpeningHeld(r)

AlertsOK ==
    /\ alerts \in [BudgetId -> Nat] /\ alertEvents \in [BudgetId -> Nat]
    /\ AlertOnce
    /\ \A r \in Req : AlertHeld(r)

AcctInv == RequestsOK /\ EditsOK /\ OpeningsOK /\ AlertsOK

-----------------------------------------------------------------------------
(* Frames: the requests that are at a label of L afterwards have not moved. *)
HoldStill(L) == \A q \in Req : pc'[q] \in L => pc'[q] = pc[q] /\ loc'[q] = loc[q]

LEMMA StillApart ==
    ASSUME NEW r \in Req, Keeps(r), NEW L, pc'[r] \notin L
    PROVE  HoldStill(L)
    BY DEF Keeps, HoldStill

LEMMA StillServed ==
    ASSUME UNCHANGED <<pc, loc>>, NEW L
    PROVE  HoldStill(L)
    BY DEF HoldStill

LEMMA LabelsOfAccounts ==
    /\ \A l \in EditLabels : l \notin OpeningLabels \cup AlertLabels \cup {"idle"}
    /\ \A l \in OpeningLabels : l \notin EditLabels \cup AlertLabels \cup {"idle"}
    /\ \A l \in AlertLabels : l \notin EditLabels \cup OpeningLabels \cup {"idle"}
    BY DEF EditLabels, OpeningLabels, AlertLabels

(* A first posting to an account that an edit is about meets the edit. *)
PostingsMet ==
    \A a \in AcctId : HasPostings(a)' /\ ~HasPostings(a) /\ WorkingOn(a) # {} => a \in raced'

LEMMA NoPostings ==
    ASSUME UNCHANGED posted
    PROVE  PostingsMet
    BY DEF PostingsMet, HasPostings

LEMMA EditsFrame ==
    ASSUME EditsOK, UNCHANGED <<chart, ledgerRow>>, raced \subseteq raced', PostingsMet,
           \A q \in Req : pc'[q] \in EditLabels =>
               (pc'[q] = pc[q] /\ loc'[q] = loc[q]) \/ EditHeld(q)'
    PROVE  EditsOK'
<1>1. Chart' = Chart BY DEF Chart
<1>2. ChartOK' BY <1>1 DEF EditsOK, ChartOK
<1>3. LedgerOK' BY <1>1 DEF EditsOK, LedgerOK
<1>4. ASSUME NEW q \in Req, pc'[q] \in EditLabels, pc'[q] = pc[q] /\ loc'[q] = loc[q]
      PROVE  EditHeld(q)'
  <2>1. EditHeld(q) /\ pc'[q] = pc[q] /\ loc'[q] = loc[q] BY <1>4 DEF EditsOK
  <2>2. PICK b : b = loc[q].on OBVIOUS
  <2>3. b \in Chart /\ b \in AcctId BY <1>4, <2>1, <2>2 DEF EditHeld, Chart
  <2>4. q \in WorkingOn(b) BY <1>4, <2>1, <2>2, LabelsOfAccounts DEF WorkingOn, Busy
  <2>5. HasPostings(b)' => HasPostings(b) \/ b \in raced' BY <2>3, <2>4 DEF PostingsMet
  <2>6. loc'[q].on = b /\ b \in Chart' BY <1>1, <2>1, <2>2, <2>3
  <2>7. pc'[q] \in {"update count", "update write"} =>
          /\ loc'[q].name \in AcctName
          /\ b # "equity" /\ chart'[b].web => ValidClass([type |-> loc'[q].type, sub |-> loc'[q].sub])
      BY <2>1, <2>2 DEF EditHeld
  <2>8. pc'[q] = "update count" /\ b \notin raced' => loc'[q].type = chart'[b].type
      BY <2>1, <2>2 DEF EditHeld
  <2>9. pc'[q] = "update write" /\ b \notin raced' /\ HasPostings(b)' => loc'[q].type = chart'[b].type
      BY <2>1, <2>2, <2>5 DEF EditHeld
  <2> QED BY <2>6, <2>7, <2>8, <2>9 DEF EditHeld
<1>5. ASSUME NEW q \in Req, pc'[q] \notin EditLabels PROVE EditHeld(q)'
    BY <1>5 DEF EditHeld, EditLabels
<1> QED BY <1>2, <1>3, <1>4, <1>5 DEF EditsOK

(* One row of the chart is written. *)
LEMMA RowWritten ==
    ASSUME EditsOK, NEW a \in AcctId, NEW x, chart' = [chart EXCEPT ![a] = x],
           UNCHANGED <<ledgerRow, posted>>, ledgerRow # NoLedger, raced \subseteq raced',
           HoldStill(EditLabels),
           AccountRow(a, x), x.name # "none", NameFree(a, x.name),
           a # "equity" /\ x.web => ValidClass([type |-> x.type, sub |-> x.sub]),
           a \in Chart /\ a # "equity" => x.web = chart[a].web,
           \A q \in Req : pc'[q] \in EditLabels /\ loc'[q].on = a
                             => x.type = chart[a].type \/ a \in raced'
    PROVE  EditsOK'
<1>1. DOMAIN chart = AcctId /\ DOMAIN chart' = AcctId /\ chart'[a] = x
      /\ \A b \in AcctId \ {a} : chart'[b] = chart[b]
    BY DEF EditsOK, ChartOK
<1>2. Chart' = Chart \cup {a} BY <1>1 DEF Chart
<1>3. ChartOK'
  <2>1. \A b \in Chart' : AccountRow(b, chart'[b]) BY <1>1, <1>2 DEF EditsOK, ChartOK, Chart
  <2>2. ASSUME NEW b \in Chart', NEW c \in Chart', chart'[b].name = chart'[c].name PROVE b = c
    <3>1. CASE b # a /\ c # a BY <1>1, <1>2, <2>2, <3>1 DEF EditsOK, ChartOK, Chart
    <3>2. CASE b = a /\ c # a BY <1>1, <1>2, <2>2, <3>2 DEF NameFree, Chart
    <3>3. CASE b # a /\ c = a BY <1>1, <1>2, <2>2, <3>3 DEF NameFree, Chart
    <3> QED BY <3>1, <3>2, <3>3
  <2>3. ASSUME NEW b \in Chart', b # "equity", chart'[b].web PROVE ValidClass(chart'[b])
    <3>1. CASE b = a BY <1>1, <2>3, <3>1 DEF ValidClass
    <3>2. CASE b # a BY <1>1, <1>2, <2>3, <3>2 DEF EditsOK, ChartOK, Chart
    <3> QED BY <3>1, <3>2
  <2> QED BY <1>1, <2>1, <2>2, <2>3 DEF ChartOK
<1>4. LedgerOK' BY DEF EditsOK, LedgerOK
<1>5. ASSUME NEW q \in Req, pc'[q] \in EditLabels PROVE EditHeld(q)'
  <2>1. EditHeld(q) /\ pc'[q] = pc[q] /\ loc'[q] = loc[q] BY <1>5 DEF EditsOK, HoldStill
  <2>2. PICK b : b = loc[q].on OBVIOUS
  <2>3. b \in Chart /\ b \in AcctId BY <1>5, <2>1, <2>2 DEF EditHeld, Chart
  <2>4. b # "equity" => chart'[b].web = chart[b].web BY <1>1, <2>3
  <2>5. b \in raced' \/ chart'[b].type = chart[b].type
    <3>1. CASE b = a BY <1>1, <1>5, <2>1, <2>2, <3>1
    <3>2. CASE b # a BY <1>1, <2>3, <3>2
    <3> QED BY <3>1, <3>2
  <2>6. HasPostings(b)' <=> HasPostings(b) BY DEF HasPostings
  <2>7. b \in Chart' BY <1>2, <2>3
  <2>8. pc'[q] \in {"update count", "update write"} =>
          /\ loc'[q].name \in AcctName
          /\ b # "equity" /\ chart'[b].web => ValidClass([type |-> loc'[q].type, sub |-> loc'[q].sub])
      BY <2>1, <2>2, <2>4 DEF EditHeld
  <2>9. pc'[q] = "update count" /\ b \notin raced' => loc'[q].type = chart'[b].type
      BY <2>1, <2>2, <2>5 DEF EditHeld
  <2>10. pc'[q] = "update write" /\ b \notin raced' /\ HasPostings(b)' => loc'[q].type = chart'[b].type
      BY <2>1, <2>2, <2>5, <2>6 DEF EditHeld
  <2>11. loc'[q].on = b BY <2>1, <2>2
  <2> QED BY <2>7, <2>8, <2>9, <2>10, <2>11 DEF EditHeld
<1>6. ASSUME NEW q \in Req, pc'[q] \notin EditLabels PROVE EditHeld(q)'
    BY <1>6 DEF EditHeld, EditLabels
<1> QED BY <1>3, <1>4, <1>5, <1>6 DEF EditsOK

LEMMA OpeningsFrame ==
    ASSUME OpeningsOK, UNCHANGED posted, raced \subseteq raced', HoldStill(OpeningLabels),
           ledgerRow # NoLedger => ledgerRow' # NoLedger
    PROVE  OpeningsOK'
<1>1. ASSUME NEW q \in Req PROVE OpeningHeld(q)'
  <2>1. CASE pc'[q] \in OpeningLabels
    <3>1. OpeningHeld(q) /\ pc'[q] = pc[q] /\ loc'[q] = loc[q] BY <2>1 DEF OpeningsOK, HoldStill
    <3> QED BY <2>1, <3>1 DEF OpeningHeld
  <2>2. CASE pc'[q] \notin OpeningLabels BY <2>2 DEF OpeningHeld, OpeningLabels
  <2> QED BY <2>1, <2>2
<1> QED BY <1>1 DEF OpeningsOK, OpeningOnce

LEMMA AlertsFrame ==
    ASSUME AlertsOK, UNCHANGED <<alerts, alertEvents>>, raced \subseteq raced', HoldStill(AlertLabels)
    PROVE  AlertsOK'
<1>1. ASSUME NEW q \in Req PROVE AlertHeld(q)'
  <2>1. CASE pc'[q] \in AlertLabels
    <3>1. AlertHeld(q) /\ pc'[q] = pc[q] /\ loc'[q] = loc[q] BY <2>1 DEF AlertsOK, HoldStill
    <3> QED BY <2>1, <3>1 DEF AlertHeld
  <2>2. CASE pc'[q] \notin AlertLabels BY <2>2 DEF AlertHeld, AlertLabels
  <2> QED BY <2>1, <2>2
<1>2. AlertOnce' BY DEF AlertsOK, AlertOnce
<1> QED BY <1>1, <1>2 DEF AlertsOK

-----------------------------------------------------------------------------
(* The ledger. *)
LEMMA LedgerCreateOK ==
    ASSUME AcctInv, NEW r \in Req, NEW basis, LedgerCreate(r, basis)
    PROVE  AcctInv'
<1>1. /\ ledgerRow = NoLedger /\ chart' = DefaultChart
      /\ ledgerRow' = [basis |-> IF basis = "cash" THEN "cash" ELSE "accrual", appendOnly |-> FALSE]
      /\ UNCHANGED <<posted, budget, alerts, alertEvents>>
    BY DEF LedgerCreate
<1>2. RequestsOK' /\ UNCHANGED <<pc, loc>> /\ raced \subseteq raced'
    BY ServeOK DEF LedgerCreate, AcctInv
<1>3. \A L : HoldStill(L) BY <1>2, StillServed
<1>4. Chart = {} BY <1>1 DEF AcctInv, EditsOK, LedgerOK
<1>5. \A q \in Req : pc'[q] \notin EditLabels
    BY <1>2, <1>4 DEF AcctInv, EditsOK, EditHeld
<1>6. DOMAIN chart' = AcctId /\ \A a \in AcctId : chart'[a] =
         IF a = "equity"
         THEN [name |-> Contra, type |-> "EQUITY", sub |-> "EQUITY", archived |-> FALSE]
         ELSE NoAccount
    BY <1>1 DEF DefaultChart
<1>7. Chart' \subseteq {"equity"} BY <1>6 DEF Chart, NoAccount
<1>8. \A a \in Chart' : AccountRow(a, chart'[a])
    BY <1>6, <1>7 DEF AccountRow, Chart
<1>9. ChartOK' BY <1>6, <1>7, <1>8 DEF ChartOK
<1>10. ledgerRow'.basis \in {"cash", "accrual"}
       /\ ledgerRow' \in [basis : {"none", "cash", "accrual"}, appendOnly : BOOLEAN]
    BY <1>1
<1>11. ledgerRow' # NoLedger BY <1>10 DEF NoLedger
<1>12. LedgerOK' BY <1>10, <1>11 DEF LedgerOK
<1>13. EditsOK' BY <1>5, <1>9, <1>12 DEF EditsOK, EditHeld, EditLabels
<1>14. OpeningsOK' BY <1>1, <1>2, <1>3, <1>11, OpeningsFrame DEF AcctInv
<1>15. AlertsOK' BY <1>1, <1>2, <1>3, AlertsFrame DEF AcctInv
<1> QED BY <1>2, <1>13, <1>14, <1>15 DEF AcctInv

(* A ledger that changes only its own row. *)
LEMMA LedgerRowOK ==
    ASSUME AcctInv, NEW r \in Req, NEW row, Serve(r, row),
           UNCHANGED <<chart, posted, budget, alerts, alertEvents>>,
           ledgerRow' \in [basis : {"none", "cash", "accrual"}, appendOnly : BOOLEAN],
           ledgerRow'.basis # "none"
    PROVE  AcctInv'
<1>1. RequestsOK' /\ UNCHANGED <<pc, loc>> /\ raced \subseteq raced' BY ServeOK DEF AcctInv
<1>2. \A L : HoldStill(L) BY <1>1, StillServed
<1>3. ledgerRow' # NoLedger BY DEF NoLedger
<1>4. Chart' = Chart BY DEF Chart
<1>5. ChartOK' BY <1>4 DEF AcctInv, EditsOK, ChartOK
<1>6. LedgerOK' BY <1>3 DEF LedgerOK
<1>7. \A q \in Req : EditHeld(q)'
  <2>1. \A a : HasPostings(a)' <=> HasPostings(a) BY DEF HasPostings
  <2> QED BY <1>1, <1>4, <2>1 DEF AcctInv, EditsOK, EditHeld
<1>8. OpeningsOK' BY <1>1, <1>2, <1>3, OpeningsFrame DEF AcctInv
<1>9. AlertsOK' BY <1>1, <1>2, AlertsFrame DEF AcctInv
<1> QED BY <1>1, <1>5, <1>6, <1>7, <1>8, <1>9 DEF AcctInv, EditsOK

LEMMA LedgerUpdatesOK ==
    ASSUME AcctInv, NEW r \in Req,
           \/ \E basis \in {"cash", "accrual", "other"} : ApiLedgerCreate(r, basis) \/ ApiLedgerUpdate(r, basis)
           \/ \E on \in BOOLEAN : ToggleAppendOnly(r, on)
    PROVE  AcctInv'
<1>0. ledgerRow \in [basis : {"none", "cash", "accrual"}, appendOnly : BOOLEAN]
      /\ (ledgerRow # NoLedger => ledgerRow.basis # "none")
    BY DEF AcctInv, EditsOK, LedgerOK
<1>1. ASSUME NEW basis \in {"cash", "accrual", "other"}, ApiLedgerCreate(r, basis) PROVE AcctInv'
  <2>1. /\ Serve(r, "ledger") /\ ledgerRow' = [basis |-> basis, appendOnly |-> FALSE]
        /\ basis \in {"cash", "accrual"} /\ UNCHANGED <<chart, posted, budget, alerts, alertEvents>>
      BY <1>1 DEF ApiLedgerCreate
  <2> QED BY <2>1, LedgerRowOK
<1>2. ASSUME NEW basis \in {"cash", "accrual", "other"}, ApiLedgerUpdate(r, basis) PROVE AcctInv'
  <2>1. /\ Serve(r, "basis") /\ ledgerRow' = [ledgerRow EXCEPT !.basis = basis]
        /\ basis \in {"cash", "accrual"} /\ UNCHANGED <<chart, posted, budget, alerts, alertEvents>>
      BY <1>2 DEF ApiLedgerUpdate
  <2>2. ledgerRow' \in [basis : {"none", "cash", "accrual"}, appendOnly : BOOLEAN] /\ ledgerRow'.basis # "none"
      BY <1>0, <2>1
  <2> QED BY <2>1, <2>2, LedgerRowOK
<1>3. ASSUME NEW on \in BOOLEAN, ToggleAppendOnly(r, on) PROVE AcctInv'
  <2>1. /\ Serve(r, "basis") /\ ledgerRow' = [ledgerRow EXCEPT !.appendOnly = on] /\ ledgerRow # NoLedger
        /\ UNCHANGED <<chart, posted, budget, alerts, alertEvents>>
      BY <1>3 DEF ToggleAppendOnly
  <2>2. ledgerRow' \in [basis : {"none", "cash", "accrual"}, appendOnly : BOOLEAN] /\ ledgerRow'.basis # "none"
      BY <1>0, <2>1
  <2> QED BY <2>1, <2>2, LedgerRowOK
<1> QED BY <1>1, <1>2, <1>3

-----------------------------------------------------------------------------
(* Accounts.  What a step on the chart leaves alone. *)
LEMMA ChartStepOK ==
    ASSUME AcctInv, NEW r \in Req, Keeps(r), pc'[r] \in EditLabels \cup {"idle"},
           UNCHANGED <<ledgerRow, posted, budget, alerts, alertEvents>>, EditsOK'
    PROVE  AcctInv'
<1>1. HoldStill(OpeningLabels) /\ HoldStill(AlertLabels) BY StillApart, LabelsOfAccounts
<1>2. RequestsOK' /\ raced \subseteq raced' BY DEF Keeps
<1> QED BY <1>1, <1>2, OpeningsFrame, AlertsFrame DEF AcctInv

(* A request served at once that writes one row. *)
LEMMA ServedRowOK ==
    ASSUME AcctInv, NEW r \in Req, NEW a \in AcctId, NEW x, Serve(r, a),
           chart' = [chart EXCEPT ![a] = x],
           UNCHANGED <<ledgerRow, posted, budget, alerts, alertEvents>>, ledgerRow # NoLedger,
           AccountRow(a, x), x.name # "none", NameFree(a, x.name),
           a # "equity" /\ x.web => ValidClass([type |-> x.type, sub |-> x.sub]),
           a \in Chart /\ a # "equity" => x.web = chart[a].web,
           a \in Chart => x.type = chart[a].type
    PROVE  AcctInv'
<1>1. StaysOrEnds(r) /\ UNCHANGED <<pc, loc>> BY ServeKeeps DEF AcctInv
<1>2. RequestsOK' /\ raced \subseteq raced' BY <1>1 DEF StaysOrEnds, Keeps
<1>3. \A L : HoldStill(L) BY <1>1, StillServed
<1>4. EditsOK BY DEF AcctInv
<1>5. \A q \in Req : pc'[q] \in EditLabels /\ loc'[q].on = a
                        => x.type = chart[a].type \/ a \in raced'
    BY <1>1, <1>4 DEF EditsOK, EditHeld
<1>6. EditsOK' BY <1>2, <1>3, <1>4, <1>5, RowWritten
<1>7. OpeningsOK' BY <1>2, <1>3, OpeningsFrame DEF AcctInv
<1>8. AlertsOK' BY <1>2, <1>3, AlertsFrame DEF AcctInv
<1> QED BY <1>2, <1>6, <1>7, <1>8 DEF AcctInv

LEMMA NewAccountRow ==
    ASSUME NEW a, NEW n, NEW c, NEW w \in BOOLEAN
    PROVE  /\ AccountRow(a, NewAccount(n, c, w))
           /\ NewAccount(n, c, w).name = n /\ NewAccount(n, c, w).type = c.type
           /\ NewAccount(n, c, w).sub = c.sub /\ NewAccount(n, c, w).web = w
<1>1. PICK x : x = [name |-> n, type |-> c.type, sub |-> c.sub, archived |-> FALSE, web |-> w] OBVIOUS
<1>2. NewAccount(n, c, w) = x BY <1>1 DEF NewAccount
<1>3. x.name = n /\ x.type = c.type /\ x.sub = c.sub /\ x.archived = FALSE /\ x.web = w BY <1>1
<1>4. x = [name |-> x.name, type |-> x.type, sub |-> x.sub, archived |-> x.archived, web |-> w]
    BY <1>1, <1>3
<1> QED BY <1>2, <1>3, <1>4 DEF AccountRow

LEMMA AccountCreateOK ==
    ASSUME AcctInv, NEW r \in Req, NEW a \in AcctId, NEW n \in AcctName, NEW c,
           AccountCreate(r, a, n, c) \/ ApiAccountCreate(r, a, n, c)
    PROVE  AcctInv'
<1>1. /\ ledgerRow # NoLedger /\ a \notin Chart /\ NameFree(a, n) /\ Serve(r, a)
      /\ UNCHANGED <<ledgerRow, posted, budget, alerts, alertEvents>>
    BY DEF AccountCreate, ApiAccountCreate
<1>2. PICK w \in BOOLEAN : chart' = [chart EXCEPT ![a] = NewAccount(n, c, w)] /\ (w => ValidClass(c))
    BY DEF AccountCreate, ApiAccountCreate
<1>3. PICK x : x = NewAccount(n, c, w) OBVIOUS
<1>4. AccountRow(a, x) /\ x.name = n /\ x.type = c.type /\ x.sub = c.sub /\ x.web = w
    BY <1>3, NewAccountRow
<1>5. n # "none" BY AccountsAssumption
<1>6. w => ValidClass([type |-> x.type, sub |-> x.sub]) BY <1>2, <1>4 DEF ValidClass
<1> QED BY <1>1, <1>2, <1>3, <1>4, <1>5, <1>6, ServedRowOK

(* Edited fields of a row: x is y with v in the field f; x is y with a     *)
(* name, a type and a subtype.                                             *)
KeepsBut(a, x, y, f, v) ==
    /\ AccountRow(a, x)
    /\ x.name = (IF f = "name" THEN v ELSE y.name) /\ x.type = (IF f = "type" THEN v ELSE y.type)
    /\ x.sub = (IF f = "sub" THEN v ELSE y.sub)
    /\ a # "equity" => x.web = y.web

RowAs(a, x, y, n, t, s) ==
    /\ AccountRow(a, x) /\ x.name = n /\ x.type = t /\ x.sub = s
    /\ a # "equity" => x.web = y.web

LEMMA RowIsRecord ==
    ASSUME NEW a, NEW y, AccountRow(a, y)
    PROVE  \/ \E b, c, d, e : \E w \in BOOLEAN :
                y = [name |-> b, type |-> c, sub |-> d, archived |-> e, web |-> w]
           \/ a = "equity" /\ \E b, c, d, e : y = [name |-> b, type |-> c, sub |-> d, archived |-> e]
    BY DEF AccountRow

LEMMA RecordIsRow ==
    ASSUME NEW a, NEW b, NEW c, NEW d, NEW e, NEW w \in BOOLEAN, NEW x,
           x = [name |-> b, type |-> c, sub |-> d, archived |-> e, web |-> w]
    PROVE  AccountRow(a, x)
<1>1. x.name = b /\ x.type = c /\ x.sub = d /\ x.archived = e OBVIOUS
<1> QED BY <1>1 DEF AccountRow

LEMMA RecordIsSeededRow ==
    ASSUME NEW b, NEW c, NEW d, NEW e, NEW x,
           x = [name |-> b, type |-> c, sub |-> d, archived |-> e]
    PROVE  AccountRow("equity", x)
<1>1. x.name = b /\ x.type = c /\ x.sub = d /\ x.archived = e OBVIOUS
<1> QED BY <1>1 DEF AccountRow

LEMMA NameEdited ==
    ASSUME NEW a, NEW y, AccountRow(a, y), NEW v, NEW x, x = [y EXCEPT !.name = v]
    PROVE  KeepsBut(a, x, y, "name", v)
<1>1. ASSUME NEW b, NEW c, NEW d, NEW e, NEW w \in BOOLEAN,
             y = [name |-> b, type |-> c, sub |-> d, archived |-> e, web |-> w]
      PROVE  KeepsBut(a, x, y, "name", v)
  <2>1. x = [name |-> v, type |-> c, sub |-> d, archived |-> e, web |-> w] BY <1>1
  <2>2. AccountRow(a, x) BY <2>1, RecordIsRow
  <2> QED BY <1>1, <2>1, <2>2 DEF KeepsBut
<1>2. ASSUME a = "equity", NEW b, NEW c, NEW d, NEW e,
             y = [name |-> b, type |-> c, sub |-> d, archived |-> e]
      PROVE  KeepsBut(a, x, y, "name", v)
  <2>1. x = [name |-> v, type |-> c, sub |-> d, archived |-> e] BY <1>2
  <2>2. AccountRow(a, x) BY <1>2, <2>1, RecordIsSeededRow
  <2> QED BY <1>2, <2>1, <2>2 DEF KeepsBut
<1> QED BY <1>1, <1>2, RowIsRecord

LEMMA TypeEdited ==
    ASSUME NEW a, NEW y, AccountRow(a, y), NEW v, NEW x, x = [y EXCEPT !.type = v]
    PROVE  KeepsBut(a, x, y, "type", v)
<1>1. ASSUME NEW b, NEW c, NEW d, NEW e, NEW w \in BOOLEAN,
             y = [name |-> b, type |-> c, sub |-> d, archived |-> e, web |-> w]
      PROVE  KeepsBut(a, x, y, "type", v)
  <2>1. x = [name |-> b, type |-> v, sub |-> d, archived |-> e, web |-> w] BY <1>1
  <2>2. AccountRow(a, x) BY <2>1, RecordIsRow
  <2> QED BY <1>1, <2>1, <2>2 DEF KeepsBut
<1>2. ASSUME a = "equity", NEW b, NEW c, NEW d, NEW e,
             y = [name |-> b, type |-> c, sub |-> d, archived |-> e]
      PROVE  KeepsBut(a, x, y, "type", v)
  <2>1. x = [name |-> b, type |-> v, sub |-> d, archived |-> e] BY <1>2
  <2>2. AccountRow(a, x) BY <1>2, <2>1, RecordIsSeededRow
  <2> QED BY <1>2, <2>1, <2>2 DEF KeepsBut
<1> QED BY <1>1, <1>2, RowIsRecord

LEMMA SubEdited ==
    ASSUME NEW a, NEW y, AccountRow(a, y), NEW v, NEW x, x = [y EXCEPT !.sub = v]
    PROVE  KeepsBut(a, x, y, "sub", v)
<1>1. ASSUME NEW b, NEW c, NEW d, NEW e, NEW w \in BOOLEAN,
             y = [name |-> b, type |-> c, sub |-> d, archived |-> e, web |-> w]
      PROVE  KeepsBut(a, x, y, "sub", v)
  <2>1. x = [name |-> b, type |-> c, sub |-> v, archived |-> e, web |-> w] BY <1>1
  <2>2. AccountRow(a, x) BY <2>1, RecordIsRow
  <2> QED BY <1>1, <2>1, <2>2 DEF KeepsBut
<1>2. ASSUME a = "equity", NEW b, NEW c, NEW d, NEW e,
             y = [name |-> b, type |-> c, sub |-> d, archived |-> e]
      PROVE  KeepsBut(a, x, y, "sub", v)
  <2>1. x = [name |-> b, type |-> c, sub |-> v, archived |-> e] BY <1>2
  <2>2. AccountRow(a, x) BY <1>2, <2>1, RecordIsSeededRow
  <2> QED BY <1>2, <2>1, <2>2 DEF KeepsBut
<1> QED BY <1>1, <1>2, RowIsRecord

LEMMA ArchivedEdited ==
    ASSUME NEW a, NEW y, AccountRow(a, y), NEW v, NEW x, x = [y EXCEPT !.archived = v]
    PROVE  KeepsBut(a, x, y, "archived", v)
<1>1. ASSUME NEW b, NEW c, NEW d, NEW e, NEW w \in BOOLEAN,
             y = [name |-> b, type |-> c, sub |-> d, archived |-> e, web |-> w]
      PROVE  KeepsBut(a, x, y, "archived", v)
  <2>1. x = [name |-> b, type |-> c, sub |-> d, archived |-> v, web |-> w] BY <1>1
  <2>2. AccountRow(a, x) BY <2>1, RecordIsRow
  <2> QED BY <1>1, <2>1, <2>2 DEF KeepsBut
<1>2. ASSUME a = "equity", NEW b, NEW c, NEW d, NEW e,
             y = [name |-> b, type |-> c, sub |-> d, archived |-> e]
      PROVE  KeepsBut(a, x, y, "archived", v)
  <2>1. x = [name |-> b, type |-> c, sub |-> d, archived |-> v] BY <1>2
  <2>2. AccountRow(a, x) BY <1>2, <2>1, RecordIsSeededRow
  <2> QED BY <1>2, <2>1, <2>2 DEF KeepsBut
<1> QED BY <1>1, <1>2, RowIsRecord

(* Two fields, and three. *)
LEMMA RowRenamed ==
    ASSUME NEW a, NEW y, AccountRow(a, y), NEW n, NEW v, NEW p, NEW x,
           p = [y EXCEPT !.name = n], x = [p EXCEPT !.archived = v]
    PROVE  RowAs(a, x, y, n, y.type, y.sub)
<1>1. KeepsBut(a, p, y, "name", n) BY NameEdited, Zenon
<1>2. AccountRow(a, p) BY <1>1 DEF KeepsBut
<1>3. KeepsBut(a, x, p, "archived", v) BY <1>2, ArchivedEdited, Zenon
<1> QED BY <1>1, <1>3 DEF KeepsBut, RowAs

LEMMA RowReclassed ==
    ASSUME NEW a, NEW y, AccountRow(a, y), NEW n, NEW t, NEW s, NEW p, NEW q, NEW x,
           p = [y EXCEPT !.name = n], q = [p EXCEPT !.type = t], x = [q EXCEPT !.sub = s]
    PROVE  RowAs(a, x, y, n, t, s)
<1>1. KeepsBut(a, p, y, "name", n) BY NameEdited, Zenon
<1>2. AccountRow(a, p) BY <1>1 DEF KeepsBut
<1>3. KeepsBut(a, q, p, "type", t) BY <1>2, TypeEdited, Zenon
<1>4. AccountRow(a, q) BY <1>3 DEF KeepsBut
<1>5. KeepsBut(a, x, q, "sub", s) BY <1>4, SubEdited, Zenon
<1> QED BY <1>1, <1>3, <1>5 DEF KeepsBut, RowAs

LEMMA ApiAccountUpdateOK ==
    ASSUME AcctInv, NEW r \in Req, NEW a \in AcctId, NEW n \in AcctName, NEW v,
           ApiAccountUpdate(r, a, n, v)
    PROVE  AcctInv'
<1>1. /\ a \in Chart /\ NameFree(a, n) /\ Serve(r, a)
      /\ chart' = [chart EXCEPT ![a].name = n, ![a].archived = v]
      /\ UNCHANGED <<ledgerRow, posted, budget, alerts, alertEvents>>
    BY DEF ApiAccountUpdate
<1>2. PICK x : x = [chart[a] EXCEPT !.name = n, !.archived = v] OBVIOUS
<1>3. chart' = [chart EXCEPT ![a] = x] BY <1>1, <1>2
<1>4. AccountRow(a, chart[a]) /\ (a # "equity" /\ chart[a].web => ValidClass(chart[a]))
      /\ ledgerRow # NoLedger
    BY <1>1 DEF AcctInv, EditsOK, ChartOK, LedgerOK
<1>5. RowAs(a, x, chart[a], n, chart[a].type, chart[a].sub)
  <2>1. PICK y : y = chart[a] OBVIOUS
  <2>2. PICK p : p = [y EXCEPT !.name = n] OBVIOUS
  <2>3. AccountRow(a, y) /\ x = [p EXCEPT !.archived = v] BY <1>2, <1>4, <2>1, <2>2
  <2>4. RowAs(a, x, y, n, y.type, y.sub) BY <2>2, <2>3, RowRenamed, Zenon
  <2> QED BY <2>1, <2>4
<1>6. n # "none" BY AccountsAssumption
<1>7. a # "equity" /\ x.web => ValidClass([type |-> x.type, sub |-> x.sub])
    BY <1>4, <1>5 DEF ValidClass, RowAs
<1>8. /\ AccountRow(a, x) /\ x.name = n /\ x.type = chart[a].type
      /\ a # "equity" => x.web = chart[a].web
    BY <1>5 DEF RowAs
<1> QED BY <1>1, <1>3, <1>4, <1>6, <1>7, <1>8, ServedRowOK

(* A step of an edit that writes nothing. *)
LEMMA EditMoves ==
    ASSUME AcctInv, NEW r \in Req, Keeps(r), UNCHANGED acctVars,
           pc'[r] \in EditLabels \cup {"idle"}, pc'[r] \in EditLabels => EditHeld(r)'
    PROVE  AcctInv'
<1>1. UNCHANGED <<ledgerRow, chart, posted, budget, alerts, alertEvents>> BY DEF acctVars
<1>2. \A q \in Req : pc'[q] \in EditLabels => (pc'[q] = pc[q] /\ loc'[q] = loc[q]) \/ EditHeld(q)'
    BY DEF Keeps
<1>3. PostingsMet BY <1>1, NoPostings
<1>4. EditsOK' BY <1>1, <1>2, <1>3, EditsFrame DEF AcctInv, Keeps
<1> QED BY <1>1, <1>4, ChartStepOK

LEMMA UpdateLoadOK ==
    ASSUME AcctInv, NEW r \in Req, NEW a \in AcctId, NEW n \in AcctName, NEW c, UpdateLoad(r, a, n, c)
    PROVE  AcctInv'
<1>1. PICK d : d = [on |-> a, name |-> n, asked |-> c, type |-> chart[a].type, sub |-> chart[a].sub]
    OBVIOUS
<1>2. a \in Chart /\ Begin(r, "update count", d) /\ UNCHANGED acctVars BY <1>1 DEF UpdateLoad
<1>3. Keeps(r) /\ pc'[r] = "update count" /\ loc'[r] = d
  <2>1. RequestsOK /\ "update count" # "idle" /\ Begin(r, "update count", d) BY <1>2 DEF AcctInv
  <2> HIDE <1>1, <1>2
  <2> QED BY <2>1, BeginKeeps
<1>4. d.on = a /\ d.name = n /\ d.type = chart[a].type /\ d.sub = chart[a].sub BY <1>1
<1>5. UNCHANGED <<chart, posted>> BY <1>2 DEF acctVars
<1>6. a # "equity" /\ chart[a].web => ValidClass([type |-> d.type, sub |-> d.sub])
    BY <1>2, <1>4 DEF AcctInv, EditsOK, ChartOK, ValidClass
<1>7. a \in Chart' BY <1>2, <1>5 DEF Chart
<1>8. EditHeld(r)' BY <1>3, <1>4, <1>5, <1>6, <1>7 DEF EditHeld
<1> QED BY <1>2, <1>3, <1>8, EditMoves DEF EditLabels

(* What the form asks for counts only without postings. *)
LEMMA UpdateCountOK ==
    ASSUME AcctInv, NEW r \in Req, UpdateCount(r)
    PROVE  AcctInv'
<1>1. pc[r] = "update count" /\ UNCHANGED acctVars BY DEF UpdateCount
<1>2. PICK a, n, t, s, k : a = loc[r].on /\ n = loc[r].name /\ t = loc[r].type /\ s = loc[r].sub
                           /\ k = loc[r].asked
    OBVIOUS
<1>3. EditHeld(r) BY DEF AcctInv, EditsOK
<1>4. UNCHANGED <<chart, posted>> BY <1>1 DEF acctVars
<1>5. a \in Chart /\ a \in Chart' BY <1>1, <1>2, <1>3, <1>4 DEF EditHeld, EditLabels, Chart
<1>6. CASE End(r)
  <2>1. Keeps(r) /\ pc'[r] = "idle" BY <1>6, EndKeeps DEF AcctInv, StaysOrEnds
  <2> QED BY <1>1, <2>1, EditMoves, LabelsOfAccounts
<1>7. ASSUME HasPostings(a) \/ ValidClass(k),
             Goto(r, "update write", [on |-> a, name |-> n,
                                      type |-> IF HasPostings(a) THEN t ELSE k.type,
                                      sub |-> IF HasPostings(a) THEN s ELSE k.sub])
      PROVE  AcctInv'
  <2>1. PICK u, v : u = (IF HasPostings(a) THEN t ELSE k.type) /\ v = (IF HasPostings(a) THEN s ELSE k.sub)
      OBVIOUS
  <2>2. PICK d : d = [on |-> a, name |-> n, type |-> u, sub |-> v] OBVIOUS
  <2>3. d.on = a /\ d.name = n /\ d.type = u /\ d.sub = v BY <2>2
  <2>4. Keeps(r) /\ pc'[r] = "update write" /\ loc'[r] = d /\ raced' = raced
    <3>1. Goto(r, "update write", d) BY <1>7, <2>1, <2>2
    <3> QED BY <1>1, <1>2, <2>3, <3>1, GotoKeeps DEF AcctInv
  <2>5. HasPostings(a)' <=> HasPostings(a) BY <1>4 DEF HasPostings
  <2>6. a # "equity" /\ chart[a].web => ValidClass([type |-> u, sub |-> v])
    <3>1. CASE HasPostings(a) BY <1>1, <1>2, <1>3, <2>1, <3>1 DEF EditHeld
    <3>2. CASE ~HasPostings(a) BY <1>7, <2>1, <3>2 DEF ValidClass
    <3> QED BY <3>1, <3>2
  <2>7. a \notin raced /\ HasPostings(a) => u = chart[a].type BY <1>1, <1>2, <1>3, <2>1 DEF EditHeld
  <2>8. n \in AcctName BY <1>1, <1>2, <1>3 DEF EditHeld
  <2>9. EditHeld(r)' BY <1>4, <1>5, <2>3, <2>4, <2>5, <2>6, <2>7, <2>8 DEF EditHeld
  <2> QED BY <1>1, <2>4, <2>9, EditMoves DEF EditLabels
<1>8. CASE HasPostings(a)
  <2>1. Goto(r, "update write", [on |-> a, name |-> n, type |-> t, sub |-> s])
      BY <1>2, <1>8 DEF UpdateCount
  <2> QED BY <1>7, <1>8, <2>1
<1>9. CASE ~HasPostings(a)
  <2>1. IF ValidClass(k) THEN Goto(r, "update write", [on |-> a, name |-> n, type |-> k.type, sub |-> k.sub])
        ELSE End(r)
      BY <1>2, <1>9 DEF UpdateCount
  <2> QED BY <1>6, <1>7, <1>9, <2>1
<1> QED BY <1>8, <1>9

(* The write of an edit, and what of the type it may change. *)
LEMMA UpdateWriteOK ==
    ASSUME AcctInv, NEW r \in Req, UpdateWrite(r)
    PROVE  /\ AcctInv'
           /\ \A b \in Chart \ raced' : HasPostings(b) => chart'[b].type = chart[b].type
<1>1. pc[r] = "update write" /\ End(r) /\ UNCHANGED <<ledgerRow, posted, budget, alerts, alertEvents>>
    BY DEF UpdateWrite
<1>2. PICK a, n, t, s : a = loc[r].on /\ n = loc[r].name /\ t = loc[r].type /\ s = loc[r].sub OBVIOUS
<1>3. EditHeld(r) /\ EditsOK BY DEF AcctInv, EditsOK
<1>4. a \in Chart /\ a \in AcctId BY <1>1, <1>2, <1>3 DEF EditHeld, EditLabels, Chart
<1>5. Keeps(r) /\ pc'[r] = "idle" /\ raced' = raced BY <1>1, EndKeeps DEF AcctInv, StaysOrEnds
<1>6. HoldStill(EditLabels) BY <1>5, StillApart, LabelsOfAccounts
<1>7. CASE ~NameFree(a, n)
  <2>1. UNCHANGED chart BY <1>2, <1>7 DEF UpdateWrite
  <2>2. UNCHANGED acctVars BY <1>1, <2>1 DEF acctVars
  <2>3. AcctInv' BY <1>5, <2>2, EditMoves, LabelsOfAccounts
  <2> QED BY <2>1, <2>3
<1>8. CASE NameFree(a, n)
  <2>1. PICK y : y = chart[a] OBVIOUS
  <2>2. PICK p : p = [y EXCEPT !.name = n] OBVIOUS
  <2>3. PICK q : q = [p EXCEPT !.type = t] OBVIOUS
  <2>4. PICK x : x = [q EXCEPT !.sub = s] OBVIOUS
  <2>5. chart' = [chart EXCEPT ![a].name = n, ![a].type = t, ![a].sub = s]
      BY <1>2, <1>8 DEF UpdateWrite
  <2>6. chart' = [chart EXCEPT ![a] = x] BY <1>4, <2>1, <2>2, <2>3, <2>4, <2>5
  <2>7. AccountRow(a, y) /\ DOMAIN chart = AcctId BY <1>3, <1>4, <2>1 DEF EditsOK, ChartOK
  <2>8. RowAs(a, x, y, n, t, s) BY <2>2, <2>3, <2>4, <2>7, RowReclassed, Zenon
  <2>9. /\ AccountRow(a, x) /\ x.name = n /\ x.type = t /\ x.sub = s
        /\ a # "equity" => x.web = chart[a].web
      BY <2>1, <2>8 DEF RowAs
  <2>10. n \in AcctName /\ n # "none" BY <1>1, <1>2, <1>3, AccountsAssumption DEF EditHeld
  <2>11. ledgerRow # NoLedger BY <1>3, <1>4 DEF EditsOK, LedgerOK
  <2>12. a # "equity" /\ x.web => ValidClass([type |-> x.type, sub |-> x.sub])
      BY <1>1, <1>2, <1>3, <2>9 DEF EditHeld
  <2>13. ASSUME NEW o \in Req, pc'[o] \in EditLabels, loc'[o].on = a PROVE a \in raced'
    <3>1. o # r /\ pc[o] \in EditLabels /\ loc[o].on = a BY <1>5, <2>13, LabelsOfAccounts DEF Keeps
    <3>2. Busy(o) /\ Busy(r) BY <1>1, <3>1, LabelsOfAccounts DEF Busy
    <3> QED BY <1>2, <1>5, <3>1, <3>2 DEF AcctInv, RequestsOK
  <2>14. EditsOK'
      BY <1>1, <1>3, <1>4, <1>5, <1>6, <1>8, <2>6, <2>9, <2>10, <2>11, <2>12, <2>13, RowWritten
  <2>15. AcctInv' BY <1>1, <1>5, <2>14, ChartStepOK
  <2>16. ASSUME NEW b \in Chart, b \notin raced', HasPostings(b) PROVE chart'[b].type = chart[b].type
    <3>1. CASE b = a
      <4>1. t = chart[a].type BY <1>1, <1>2, <1>3, <1>5, <2>16, <3>1 DEF EditHeld
      <4> QED BY <1>4, <2>6, <2>7, <2>9, <3>1, <4>1
    <3>2. CASE b # a BY <2>6, <2>7, <3>2 DEF Chart
    <3> QED BY <3>1, <3>2
  <2> QED BY <2>15, <2>16
<1> QED BY <1>7, <1>8

LEMMA ToggleReadOK ==
    ASSUME AcctInv, NEW r \in Req, NEW a \in AcctId, ToggleRead(r, a)
    PROVE  AcctInv'
<1>1. PICK d : d = [on |-> a, archived |-> ~chart[a].archived] OBVIOUS
<1>2. a \in Chart /\ Begin(r, "toggle", d) /\ UNCHANGED acctVars BY <1>1 DEF ToggleRead
<1>3. Keeps(r) /\ pc'[r] = "toggle" /\ loc'[r] = d BY <1>2, BeginKeeps DEF AcctInv
<1>4. d.on = a /\ a \in Chart' BY <1>1, <1>2 DEF acctVars, Chart
<1>5. EditHeld(r)' BY <1>3, <1>4 DEF EditHeld
<1> QED BY <1>2, <1>3, <1>5, EditMoves DEF EditLabels

LEMMA ToggleWriteOK ==
    ASSUME AcctInv, NEW r \in Req, ToggleWrite(r)
    PROVE  AcctInv' /\ \A b \in Chart : chart'[b].type = chart[b].type
<1>1. PICK a, v : a = loc[r].on /\ v = loc[r].archived OBVIOUS
<1>2. /\ pc[r] = "toggle" /\ End(r) /\ UNCHANGED <<ledgerRow, posted, budget, alerts, alertEvents>>
      /\ chart' = [chart EXCEPT ![a].archived = v]
    BY <1>1 DEF ToggleWrite
<1>3. EditHeld(r) /\ EditsOK BY DEF AcctInv, EditsOK
<1>4. a \in Chart /\ a \in AcctId BY <1>1, <1>2, <1>3 DEF EditHeld, EditLabels, Chart
<1>5. Keeps(r) /\ pc'[r] = "idle" /\ raced' = raced BY <1>2, EndKeeps DEF AcctInv, StaysOrEnds
<1>6. HoldStill(EditLabels) BY <1>5, StillApart, LabelsOfAccounts
<1>7. PICK y : y = chart[a] OBVIOUS
<1>8. PICK x : x = [y EXCEPT !.archived = v] OBVIOUS
<1>9. chart' = [chart EXCEPT ![a] = x] BY <1>2, <1>7, <1>8
<1>10. AccountRow(a, y) /\ DOMAIN chart = AcctId /\ ledgerRow # NoLedger
    BY <1>3, <1>4, <1>7 DEF EditsOK, ChartOK, LedgerOK
<1>11. KeepsBut(a, x, y, "archived", v) BY <1>8, <1>10, ArchivedEdited, Zenon
<1>12. /\ AccountRow(a, x) /\ x.name = chart[a].name /\ x.type = chart[a].type /\ x.sub = chart[a].sub
       /\ a # "equity" => x.web = chart[a].web
    BY <1>7, <1>11 DEF KeepsBut
<1>13. x.name # "none" /\ NameFree(a, x.name)
    BY <1>3, <1>4, <1>12 DEF EditsOK, ChartOK, NameFree, Chart
<1>14. a # "equity" /\ x.web => ValidClass([type |-> x.type, sub |-> x.sub])
    BY <1>3, <1>4, <1>12 DEF EditsOK, ChartOK, ValidClass
<1>15. EditsOK'
    BY <1>2, <1>3, <1>4, <1>5, <1>6, <1>9, <1>10, <1>12, <1>13, <1>14, RowWritten
<1>16. AcctInv' BY <1>2, <1>5, <1>15, ChartStepOK
<1>17. \A b \in Chart : chart'[b].type = chart[b].type BY <1>4, <1>9, <1>10, <1>12 DEF Chart
<1> QED BY <1>16, <1>17

-----------------------------------------------------------------------------
(* Postings.  An edit of an account that is posted to has been met. *)
LEMMA PostedRow ==
    ASSUME OpeningsOK, NEW e, posted' = Append(posted, e)
    PROVE  /\ posted' \in Seq(Range(posted'))
           /\ DOMAIN posted = 1..Len(posted) /\ Len(posted) \in Nat
           /\ DOMAIN posted' = 1..(Len(posted) + 1)
           /\ \A i \in DOMAIN posted : posted'[i] = posted[i]
           /\ posted'[Len(posted) + 1] = e
<1>1. PICK T : T = Range(posted) \cup {e} OBVIOUS
<1>2. posted \in Seq(T)
  <2>1. posted \in Seq(Range(posted)) BY DEF OpeningsOK
  <2>2. Range(posted) \subseteq T BY <1>1
  <2> HIDE <1>1
  <2> QED BY <2>1, <2>2
<1>3. e \in T BY <1>1
<1>4. posted' \in Seq(T) /\ Len(posted') = Len(posted) + 1 /\ posted'[Len(posted) + 1] = e
      /\ \A i \in 1..Len(posted) : posted'[i] = posted[i]
    BY <1>2, <1>3, AppendProperties
<1>5. DOMAIN posted = 1..Len(posted) /\ Len(posted) \in Nat BY <1>2, LenProperties
<1>6. DOMAIN posted' = 1..Len(posted') /\ Len(posted') \in Nat BY <1>4, LenProperties
<1>7. posted' \in Seq(Range(posted')) BY <1>4, SeqOfRange, Zenon
<1> QED BY <1>4, <1>5, <1>6, <1>7

LEMMA PostTwoOK ==
    ASSUME AcctInv, NEW r \in Req, NEW from \in AcctId, NEW to \in AcctId, NEW kind, PostTwo(r, from, to, kind)
    PROVE  AcctInv'
<1>1. PICK e : e = Entry(kind, FALSE, <<Debit(to, 1), Credit(from, 1)>>) OBVIOUS
<1>2. /\ posted' = Append(posted, e) /\ raced' = raced \cup Met({from, to, "ledger"})
      /\ UNCHANGED <<pc, loc, ledgerRow, chart, budget, alerts, alertEvents>>
    BY <1>1 DEF PostTwo
<1>3. RequestsOK' /\ raced \subseteq raced' BY <1>2 DEF AcctInv, RequestsOK, Busy
<1>4. \A L : HoldStill(L) BY <1>2, StillServed
<1>5. OpeningsOK BY DEF AcctInv
<1>6. PICK m : m = Len(posted) + 1 OBVIOUS
<1>7. /\ posted' \in Seq(Range(posted')) /\ DOMAIN posted' = DOMAIN posted \cup {m} /\ posted'[m] = e
      /\ \A i \in DOMAIN posted : posted'[i] = posted[i]
    BY <1>2, <1>5, <1>6, PostedRow
<1>8. e.opening = FALSE /\ e.kind = kind BY <1>1 DEF Entry
<1>9. PostingsMet
  <2> SUFFICES ASSUME NEW a \in AcctId, HasPostings(a)', ~HasPostings(a), WorkingOn(a) # {}
               PROVE  a \in raced'
      BY DEF PostingsMet
  <2>1. \E k \in DOMAIN e.legs : e.legs[k].account = a BY <1>7 DEF HasPostings
  <2>2. e.legs = <<Debit(to, 1), Credit(from, 1)>> BY <1>1 DEF Entry
  <2>3. PICK x, y : x = Debit(to, 1) /\ y = Credit(from, 1) OBVIOUS
  <2>4. x.account = to /\ y.account = from BY <2>3 DEF Debit, Credit, Leg
  <2>5. e.legs = <<x, y>> BY <2>2, <2>3
  <2>6. DOMAIN e.legs = {1, 2} /\ e.legs[1] = x /\ e.legs[2] = y BY <2>5
  <2>7. a \in {from, to} BY <2>1, <2>4, <2>6
  <2> QED BY <1>2, <2>7 DEF Met
<1>10. EditsOK' BY <1>2, <1>3, <1>9, EditsFrame DEF AcctInv
<1>11. OpeningsOK'
  <2>1. \A q \in Req : OpeningHeld(q)'
      BY <1>2, <1>3, <1>5, <1>7, <1>8 DEF OpeningsOK, OpeningHeld
  <2>2. \A i \in DOMAIN posted' :
           posted'[i].opening /\ posted'[i].kind \in {"draft", "pending"} => posted'[i].held
      BY <1>5, <1>7, <1>8 DEF OpeningsOK
  <2>3. OpeningOnce' BY <1>3, <1>5, <1>7, <1>8 DEF OpeningsOK, OpeningOnce
  <2> QED BY <1>7, <2>1, <2>2, <2>3 DEF OpeningsOK
<1>12. AlertsOK' BY <1>2, <1>3, <1>4, AlertsFrame DEF AcctInv
<1> QED BY <1>3, <1>10, <1>11, <1>12 DEF AcctInv

-----------------------------------------------------------------------------
(* Opening balances.  Two forms at work have met. *)
LEMMA OpeningsApart ==
    ASSUME AcctInv, NEW q \in Req, NEW r \in Req, q # r, pc[q] \in OpeningLabels, pc[r] \in OpeningLabels
    PROVE  "ledger" \in raced
<1>1. loc[q].on = "ledger" /\ loc[r].on = "ledger" BY DEF AcctInv, OpeningsOK, OpeningHeld
<1>2. Busy(q) /\ Busy(r) BY LabelsOfAccounts DEF Busy
<1> QED BY <1>1, <1>2 DEF AcctInv, RequestsOK

LEMMA OpeningMoves ==
    ASSUME AcctInv, NEW r \in Req, Keeps(r), UNCHANGED <<ledgerRow, posted, budget, alerts, alertEvents>>,
           pc'[r] \in OpeningLabels \cup {"idle"}, EditsOK', OpeningHeld(r)'
    PROVE  AcctInv'
<1>1. RequestsOK' /\ raced \subseteq raced' BY DEF Keeps
<1>2. HoldStill(AlertLabels) BY StillApart, LabelsOfAccounts
<1>3. AlertsOK' BY <1>1, <1>2, AlertsFrame DEF AcctInv
<1>4. ASSUME NEW q \in Req PROVE OpeningHeld(q)'
  <2>1. CASE q = r BY <2>1
  <2>2. CASE q # r BY <1>1, <2>2 DEF AcctInv, OpeningsOK, OpeningHeld, Keeps
  <2> QED BY <2>1, <2>2
<1>5. OpeningsOK' BY <1>1, <1>4 DEF AcctInv, OpeningsOK, OpeningOnce
<1> QED BY <1>1, <1>3, <1>5 DEF AcctInv

LEMMA OpeningKeepsChart ==
    ASSUME AcctInv, NEW r \in Req, Keeps(r), UNCHANGED <<ledgerRow, chart, posted>>,
           pc'[r] \in OpeningLabels \cup AlertLabels \cup {"idle"}
    PROVE  EditsOK'
<1>1. raced \subseteq raced' BY DEF Keeps
<1>2. HoldStill(EditLabels) BY StillApart, LabelsOfAccounts
<1>3. PostingsMet BY NoPostings
<1> QED BY <1>1, <1>2, <1>3, EditsFrame DEF AcctInv, HoldStill

LEMMA OpeningRowsOK ==
    ASSUME AcctInv, NEW r \in Req, NEW form, OpeningRows(r, form)
    PROVE  AcctInv'
<1>1. PICK d : d = [on |-> "ledger", form |-> form,
                    types |-> [a \in BalanceSheetAccounts |-> chart[a].type]]
    OBVIOUS
<1>2. ledgerRow # NoLedger /\ Begin(r, "opening balances", d) BY <1>1 DEF OpeningRows
<1>3. UNCHANGED <<ledgerRow, chart, posted, budget, alerts, alertEvents>> BY DEF OpeningRows, acctVars
<1>4. d.on = "ledger" BY <1>1
<1>5. Keeps(r) /\ pc'[r] = "opening balances" /\ loc'[r] = d
  <2>1. RequestsOK /\ "opening balances" # "idle" /\ Begin(r, "opening balances", d) BY <1>2 DEF AcctInv
  <2> HIDE <1>1, <1>2
  <2> QED BY <2>1, BeginKeeps
<1>6. pc'[r] \in OpeningLabels BY <1>5 DEF OpeningLabels
<1>7. EditsOK' BY <1>3, <1>5, <1>6, OpeningKeepsChart
<1>8. OpeningHeld(r)' BY <1>2, <1>3, <1>4, <1>5 DEF OpeningHeld
<1> QED BY <1>3, <1>5, <1>6, <1>7, <1>8, OpeningMoves

LEMMA OpeningBalancesOK ==
    ASSUME AcctInv, NEW r \in Req, OpeningBalances(r)
    PROVE  AcctInv'
<1>1. PICK d : d = [on |-> "ledger", form |-> loc[r].form, types |-> loc[r].types,
                    now |-> ComputeBalances(loc[r].types, posted)]
    OBVIOUS
<1>2. pc[r] = "opening balances" /\ Goto(r, "opening exists", d) BY <1>1 DEF OpeningBalances
<1>3. UNCHANGED <<ledgerRow, chart, posted, budget, alerts, alertEvents>> BY DEF OpeningBalances, acctVars
<1>4. d.on = "ledger" BY <1>1
<1> HIDE <1>1
<1>5. loc[r].on = "ledger" /\ ledgerRow # NoLedger
    BY <1>2 DEF AcctInv, OpeningsOK, OpeningHeld, OpeningLabels
<1>6. Keeps(r) /\ pc'[r] = "opening exists" /\ loc'[r] = d BY <1>2, <1>4, <1>5, GotoKeeps DEF AcctInv
<1>7. pc'[r] \in OpeningLabels BY <1>6 DEF OpeningLabels
<1>8. EditsOK' BY <1>3, <1>6, <1>7, OpeningKeepsChart
<1>9. OpeningHeld(r)' BY <1>3, <1>4, <1>5, <1>6 DEF OpeningHeld
<1> QED BY <1>3, <1>6, <1>7, <1>8, <1>9, OpeningMoves

LEMMA OpeningCheckOK ==
    ASSUME AcctInv, NEW r \in Req, OpeningCheck(r)
    PROVE  AcctInv'
<1>1. PICK d : d = [on |-> "ledger", form |-> loc[r].form, types |-> loc[r].types,
                    legs |-> OpeningLegs(loc[r])]
    OBVIOUS
<1>2. pc[r] = "opening exists" /\ (End(r) \/ (~OpeningExists /\ Goto(r, "opening contra", d)))
    BY <1>1 DEF OpeningCheck
<1>3. UNCHANGED <<ledgerRow, chart, posted, budget, alerts, alertEvents>> BY DEF OpeningCheck, acctVars
<1>4. d.on = "ledger" BY <1>1
<1> HIDE <1>1
<1>5. loc[r].on = "ledger" /\ ledgerRow # NoLedger
    BY <1>2 DEF AcctInv, OpeningsOK, OpeningHeld, OpeningLabels
<1>6. CASE End(r)
  <2>1. Keeps(r) /\ pc'[r] = "idle" BY <1>6, EndKeeps DEF AcctInv, StaysOrEnds
  <2>2. OpeningHeld(r)' BY <2>1 DEF OpeningHeld, OpeningLabels
  <2>3. EditsOK' BY <1>3, <2>1, OpeningKeepsChart
  <2> QED BY <1>3, <2>1, <2>2, <2>3, OpeningMoves
<1>7. CASE ~OpeningExists /\ Goto(r, "opening contra", d)
  <2>1. Keeps(r) /\ pc'[r] = "opening contra" /\ loc'[r] = d
      BY <1>2, <1>4, <1>5, <1>7, GotoKeeps DEF AcctInv
  <2>2. pc'[r] \in OpeningLabels BY <2>1 DEF OpeningLabels
  <2>3. \A i \in DOMAIN posted : posted[i].opening => posted[i].held
      BY <1>7 DEF OpeningExists, AcctInv, OpeningsOK
  <2>4. OpeningHeld(r)' BY <1>3, <1>4, <1>5, <2>1, <2>3 DEF OpeningHeld
  <2>5. EditsOK' BY <1>3, <2>1, <2>2, OpeningKeepsChart
  <2> QED BY <1>3, <2>1, <2>2, <2>4, <2>5, OpeningMoves
<1> QED BY <1>2, <1>6, <1>7

LEMMA OpeningContraOK ==
    ASSUME AcctInv, NEW r \in Req, OpeningContra(r)
    PROVE  AcctInv' /\ \A b \in Chart : chart'[b] = chart[b]
<1>1. pc[r] = "opening contra" /\ UNCHANGED <<ledgerRow, posted, budget, alerts, alertEvents>>
    BY DEF OpeningContra
<1>2. PICK a, d :
         /\ a \in AcctId /\ d.on = "ledger" /\ Goto(r, "opening post", d)
         /\ \/ UNCHANGED chart
            \/ /\ a \notin Chart /\ \A b \in Chart : chart[b].name # Contra
               /\ chart' = [chart EXCEPT ![a] =
                     NewAccount(Contra, [type |-> "EQUITY", sub |-> "EQUITY"], TRUE)]
  <2> DEFINE found == {a \in Chart : chart[a].name = Contra}
             legs == loc[r].legs
             net == Total(legs, "DEBIT") - Total(legs, "CREDIT")
             with(a) == [on |-> "ledger", form |-> loc[r].form, types |-> loc[r].types, contra |-> a,
                         legs |-> Append(legs, IF net > 0 THEN Credit(a, net) ELSE Debit(a, -net))]
  <2>1. \A a : with(a).on = "ledger" OBVIOUS
  <2>2. \/ \E a \in found : Goto(r, "opening post", with(a)) /\ UNCHANGED chart
        \/ /\ found = {}
           /\ \E a \in AcctId \ Chart :
                 /\ chart' = [chart EXCEPT ![a] =
                        NewAccount(Contra, [type |-> "EQUITY", sub |-> "EQUITY"], TRUE)]
                 /\ Goto(r, "opening post", with(a))
      BY DEF OpeningContra
  <2>3. \A a \in found : a \in AcctId BY DEF Chart
  <2>4. found = {} => \A b \in Chart : chart[b].name # Contra OBVIOUS
  <2> HIDE DEF with, found
  <2> QED BY <2>1, <2>2, <2>3, <2>4
<1>3. OpeningHeld(r) /\ EditsOK BY DEF AcctInv, OpeningsOK
<1>4. loc[r].on = "ledger" /\ ledgerRow # NoLedger BY <1>1, <1>3 DEF OpeningHeld, OpeningLabels
<1>5. Keeps(r) /\ pc'[r] = "opening post" /\ loc'[r] = d /\ raced' = raced
    BY <1>1, <1>2, <1>4, GotoKeeps DEF AcctInv
<1>6. pc'[r] \in OpeningLabels BY <1>5 DEF OpeningLabels
<1>7. OpeningHeld(r)' BY <1>1, <1>2, <1>3, <1>4, <1>5 DEF OpeningHeld
<1>8. CASE UNCHANGED chart
  <2>1. EditsOK' BY <1>1, <1>5, <1>6, <1>8, OpeningKeepsChart
  <2> QED BY <1>1, <1>5, <1>6, <1>7, <1>8, <2>1, OpeningMoves
<1>9. CASE /\ a \notin Chart /\ \A b \in Chart : chart[b].name # Contra
           /\ chart' = [chart EXCEPT ![a] =
                 NewAccount(Contra, [type |-> "EQUITY", sub |-> "EQUITY"], TRUE)]
  <2>1. PICK c : c = [type |-> "EQUITY", sub |-> "EQUITY"] OBVIOUS
  <2>2. PICK x : x = NewAccount(Contra, c, TRUE) OBVIOUS
  <2>3. chart' = [chart EXCEPT ![a] = x] BY <1>9, <2>1, <2>2
  <2>4. AccountRow(a, x) /\ x.name = Contra /\ x.type = c.type /\ x.sub = c.sub /\ x.web = TRUE
    <3>1. PICK w \in BOOLEAN : w = TRUE OBVIOUS
    <3>2. x = NewAccount(Contra, c, w) BY <2>2, <3>1
    <3>3. AccountRow(a, x) /\ x.name = Contra /\ x.type = c.type /\ x.sub = c.sub /\ x.web = w
        BY <3>2, NewAccountRow
    <3> QED BY <3>1, <3>3
  <2>5. c.type = "EQUITY" /\ c.sub = "EQUITY" BY <2>1
  <2>6. ValidClass([type |-> x.type, sub |-> x.sub]) BY <2>4, <2>5 DEF ValidClass, ValidSubtypes
  <2>7. x.name # "none" /\ NameFree(a, x.name) BY <1>9, <2>4 DEF NameFree, Contra
  <2>8. HoldStill(EditLabels) BY <1>5, <1>6, StillApart, LabelsOfAccounts
  <2>9. \A q \in Req : pc'[q] \in EditLabels => loc'[q].on # a
      BY <1>3, <1>9, <2>8 DEF EditsOK, EditHeld, HoldStill
  <2>10. EditsOK'
    <3>1. a \notin Chart /\ raced \subseteq raced' /\ a \in AcctId BY <1>2, <1>5, <1>9
    <3>2. EditsOK /\ UNCHANGED <<ledgerRow, posted>> /\ AccountRow(a, x) BY <1>1, <1>3, <2>4
    <3> HIDE <1>1, <1>2, <1>3, <1>5, <1>9, <2>1, <2>2, <2>4
    <3> QED BY <1>4, <2>3, <2>6, <2>7, <2>8, <2>9, <3>1, <3>2, RowWritten
  <2>11. AcctInv' BY <1>1, <1>5, <1>6, <1>7, <2>10, OpeningMoves
  <2>12. \A b \in Chart : chart'[b] = chart[b] BY <1>3, <1>9, <2>3 DEF EditsOK, ChartOK, Chart
  <2> QED BY <2>11, <2>12
<1> QED BY <1>2, <1>8, <1>9

(* The entry follows none that was not held, and meets every edit of an    *)
(* account.                                                                *)
LEMMA OpeningPostOK ==
    ASSUME AcctInv, NEW r \in Req, OpeningPost(r)
    PROVE  AcctInv'
<1>1. PICK kind \in {"standard", "pending"} : posted' = Append(posted, Entry(kind, TRUE, loc[r].legs))
    BY DEF OpeningPost
<1> PICK e : e = Entry(kind, TRUE, loc[r].legs) OBVIOUS
<1>2. /\ pc[r] = "opening post" /\ posted' = Append(posted, e)
      /\ pc' = [pc EXCEPT ![r] = "idle"] /\ loc' = [loc EXCEPT ![r] = Nothing]
      /\ raced' = raced \cup Met(AcctId)
      /\ UNCHANGED <<ledgerRow, chart, budget, alerts, alertEvents>>
    BY <1>1 DEF OpeningPost
<1>3. Keeps(r) /\ pc'[r] = "idle"
    BY <1>2 DEF AcctInv, RequestsOK, Keeps, Busy
<1>4. RequestsOK' /\ raced \subseteq raced' BY <1>3 DEF Keeps
<1>5. HoldStill(EditLabels) /\ HoldStill(AlertLabels) /\ HoldStill(OpeningLabels)
    BY <1>3, StillApart, LabelsOfAccounts
<1>6. OpeningsOK BY DEF AcctInv
<1>7. PICK m : m = Len(posted) + 1 OBVIOUS
<1>8. /\ posted' \in Seq(Range(posted')) /\ DOMAIN posted' = DOMAIN posted \cup {m} /\ posted'[m] = e
      /\ \A i \in DOMAIN posted : posted'[i] = posted[i]
  <2>1. posted' = Append(posted, e) BY <1>2
  <2>2. /\ posted' \in Seq(Range(posted'))
        /\ DOMAIN posted = 1..Len(posted) /\ Len(posted) \in Nat
        /\ DOMAIN posted' = 1..(Len(posted) + 1)
        /\ \A i \in DOMAIN posted : posted'[i] = posted[i]
        /\ posted'[Len(posted) + 1] = e
      BY <1>6, <2>1, PostedRow
  <2>3. \A n \in Nat : 1..(n + 1) = 1..n \cup {n + 1} OBVIOUS
  <2> QED BY ONLY <1>7, <2>2, <2>3
<1>9. /\ e.opening = TRUE /\ e.kind = kind /\ kind # "draft"
      /\ e.kind \in {"draft", "pending"} => e.held
    BY <1>1 DEF Entry
<1>10. PostingsMet BY <1>2 DEF PostingsMet, Met
<1>11. EditsOK' BY <1>2, <1>4, <1>5, <1>10, EditsFrame DEF AcctInv, HoldStill
<1>12. OpeningsOK'
  <2>1. pc[r] \in OpeningLabels BY <1>2 DEF OpeningLabels
  <2>2. ASSUME NEW q \in Req PROVE OpeningHeld(q)'
    <3>1. CASE pc'[q] \in OpeningLabels
      <4>1. q # r /\ pc'[q] = pc[q] /\ loc'[q] = loc[q] BY <1>3, <3>1, LabelsOfAccounts DEF Keeps
      <4>2. "ledger" \in raced' BY <1>4, <2>1, <3>1, <4>1, OpeningsApart
      <4> QED BY <1>2, <1>6, <3>1, <4>1, <4>2 DEF OpeningsOK, OpeningHeld
    <3>2. CASE pc'[q] \notin OpeningLabels BY <3>2 DEF OpeningHeld, OpeningLabels
    <3> QED BY <3>1, <3>2
  <2>3. \A i \in DOMAIN posted' :
           posted'[i].opening /\ posted'[i].kind \in {"draft", "pending"} => posted'[i].held
      BY <1>6, <1>8, <1>9 DEF OpeningsOK
  <2>4. "ledger" \notin raced => \A i \in DOMAIN posted : posted[i].opening => posted[i].held
      BY <1>2, <1>6 DEF OpeningsOK, OpeningHeld
  <2>6. \A i, j \in DOMAIN posted' : i < j => i \in DOMAIN posted
      BY <1>6, <1>7, <1>8, LenProperties DEF OpeningsOK
  <2>5. OpeningOnce' BY <1>4, <1>8, <2>4, <2>6 DEF OpeningOnce
  <2> QED BY <1>8, <2>2, <2>3, <2>5 DEF OpeningsOK
<1>13. AlertsOK' BY <1>2, <1>4, <1>5, AlertsFrame DEF AcctInv
<1> QED BY <1>4, <1>11, <1>12, <1>13 DEF AcctInv

(* A decision on a held entry changes its kind alone. *)
LEMMA DecideHeldOK ==
    ASSUME AcctInv, NEW r \in Req, NEW i \in DOMAIN posted, NEW kind \in {"standard", "draft"},
           DecideHeld(r, i, kind)
    PROVE  AcctInv'
<1>1. /\ posted[i].kind = "pending" /\ posted' = [posted EXCEPT ![i].kind = kind]
      /\ UNCHANGED <<pc, loc, raced, ledgerRow, chart, budget, alerts, alertEvents>>
    BY DEF DecideHeld, reqVars
<1>2. OpeningsOK BY DEF AcctInv
<1>3. /\ DOMAIN posted' = DOMAIN posted
      /\ \A j \in DOMAIN posted :
            /\ posted'[j].opening = posted[j].opening /\ posted'[j].held = posted[j].held
            /\ posted'[j].legs = posted[j].legs
            /\ j # i => posted'[j] = posted[j]
    BY <1>1
<1>4. posted' \in Seq(Range(posted'))
  <2>1. posted \in Seq(Range(posted)) BY <1>2 DEF OpeningsOK
  <2>2. PICK n \in Nat : DOMAIN posted = 1..n BY <2>1, LenProperties
  <2>3. posted' \in Seq(Range(posted'))
    <3>1. \A j \in 1..n : posted'[j] \in Range(posted') BY <1>3, <2>2 DEF Range
    <3>2. posted' = [j \in 1..n |-> posted'[j]] BY <1>1, <2>2
    <3> QED BY <3>1, <3>2
  <2> QED BY <2>3
<1>5. \A L : HoldStill(L) BY <1>1, StillServed
<1>6. RequestsOK' /\ raced \subseteq raced' BY <1>1 DEF AcctInv, RequestsOK, Busy
<1>7. PostingsMet BY <1>3 DEF PostingsMet, HasPostings
<1>8. EditsOK' BY <1>1, <1>5, <1>6, <1>7, EditsFrame DEF AcctInv
<1>9. OpeningsOK'
  <2>1. \A q \in Req : OpeningHeld(q)' BY <1>1, <1>2, <1>3 DEF OpeningsOK, OpeningHeld
  <2>2. posted[i].opening => posted[i].held BY <1>1, <1>2 DEF OpeningsOK
  <2>3. \A j \in DOMAIN posted' :
           posted'[j].opening /\ posted'[j].kind \in {"draft", "pending"} => posted'[j].held
      BY <1>2, <1>3, <2>2 DEF OpeningsOK
  <2>4. OpeningOnce' BY <1>1, <1>2, <1>3 DEF OpeningsOK, OpeningOnce
  <2> QED BY <1>4, <2>1, <2>3, <2>4 DEF OpeningsOK
<1>10. AlertsOK' BY <1>1, <1>5, <1>6, AlertsFrame DEF AcctInv
<1> QED BY <1>6, <1>8, <1>9, <1>10 DEF AcctInv

-----------------------------------------------------------------------------
(* Budgets.  Nothing but budgets and alerts changes in these steps. *)
LEMMA BudgetStepOK ==
    ASSUME AcctInv, NEW r \in Req, Keeps(r), UNCHANGED <<ledgerRow, chart, posted>>,
           pc'[r] \in AlertLabels \cup {"idle"}, AlertsOK'
    PROVE  AcctInv'
<1>1. RequestsOK' /\ raced \subseteq raced' BY DEF Keeps
<1>2. HoldStill(OpeningLabels) BY StillApart, LabelsOfAccounts
<1>3. EditsOK' BY OpeningKeepsChart
<1>4. OpeningsOK' BY <1>1, <1>2, OpeningsFrame DEF AcctInv
<1> QED BY <1>1, <1>3, <1>4 DEF AcctInv

LEMMA BudgetServedOK ==
    ASSUME AcctInv, NEW r \in Req, NEW b \in BudgetId, Serve(r, b),
           UNCHANGED <<ledgerRow, chart, posted>>,
           \/ UNCHANGED <<alerts, alertEvents>>
           \/ /\ alerts' = [alerts EXCEPT ![b] = 0]
              /\ alertEvents' = [alertEvents EXCEPT ![b] = 0]
    PROVE  AcctInv'
<1>1. StaysOrEnds(r) /\ UNCHANGED <<pc, loc>> /\ (WorkingOn(b) # {} => b \in raced')
    BY ServeKeeps DEF AcctInv
<1>2. RequestsOK' /\ raced \subseteq raced' BY <1>1 DEF StaysOrEnds, Keeps
<1>3. \A L : HoldStill(L) BY <1>1, StillServed
<1>4. EditsOK'
  <2>1. PostingsMet BY NoPostings
  <2> QED BY <1>1, <1>2, <2>1, EditsFrame DEF AcctInv
<1>5. OpeningsOK' BY <1>2, <1>3, OpeningsFrame DEF AcctInv
<1>6. CASE UNCHANGED <<alerts, alertEvents>>
  <2>1. AlertsOK' BY <1>2, <1>3, <1>6, AlertsFrame DEF AcctInv
  <2> QED BY <1>2, <1>4, <1>5, <2>1 DEF AcctInv
<1>7. CASE /\ alerts' = [alerts EXCEPT ![b] = 0]
           /\ alertEvents' = [alertEvents EXCEPT ![b] = 0]
  <2>1. AlertsOK BY DEF AcctInv
  <2>2. /\ alerts' \in [BudgetId -> Nat] /\ alertEvents' \in [BudgetId -> Nat]
        /\ alerts'[b] = 0 /\ alertEvents'[b] = 0
        /\ \A c \in BudgetId \ {b} : alerts'[c] = alerts[c] /\ alertEvents'[c] = alertEvents[c]
      BY <1>7, <2>1 DEF AlertsOK
  <2>3. AlertOnce' BY <1>2, <2>1, <2>2 DEF AlertsOK, AlertOnce
  <2>4. ASSUME NEW q \in Req, pc[q] \in AlertLabels PROVE AlertHeld(q)'
    <3>1. PICK c : c = loc[q].on OBVIOUS
    <3>2. AlertHeld(q) BY <2>1 DEF AlertsOK
    <3>3. c \in BudgetId /\ loc[q] = [on |-> c] BY <2>4, <3>1, <3>2 DEF AlertHeld
    <3>4. loc'[q] = loc[q] /\ pc'[q] = pc[q] BY <1>1
    <3>5. CASE c = b
      <4>1. q \in WorkingOn(b) BY <2>4, <3>1, <3>5, LabelsOfAccounts DEF WorkingOn, Busy
      <4>2. b \in raced' BY <1>1, <4>1
      <4> QED BY <3>1, <3>3, <3>4, <3>5, <4>2 DEF AlertHeld
    <3>6. CASE c # b BY <1>2, <2>2, <3>1, <3>2, <3>3, <3>4, <3>6 DEF AlertHeld
    <3> QED BY <3>5, <3>6
  <2>5. ASSUME NEW q \in Req, pc[q] \notin AlertLabels PROVE AlertHeld(q)'
      BY <1>1, <2>5 DEF AlertHeld, AlertLabels
  <2>6. AlertsOK' BY <2>2, <2>3, <2>4, <2>5 DEF AlertsOK
  <2> QED BY <1>2, <1>4, <1>5, <2>6 DEF AcctInv
<1> QED BY <1>6, <1>7

LEMMA BudgetsOK ==
    ASSUME AcctInv, NEW r \in Req, NEW b \in BudgetId,
           BudgetDelete(r, b) \/ \E a, t : BudgetCreate(r, b, a, t) \/ ApiBudgetCreate(r, b, a, t)
    PROVE  AcctInv'
<1>1. CASE BudgetDelete(r, b) BY <1>1, BudgetServedOK DEF BudgetDelete
<1>2. ASSUME NEW a, NEW t, BudgetCreate(r, b, a, t) \/ ApiBudgetCreate(r, b, a, t) PROVE AcctInv'
    BY <1>2, BudgetServedOK DEF BudgetCreate, ApiBudgetCreate
<1> QED BY <1>1, <1>2

(* Two visits of one budget have met. *)
LEMMA VisitsApart ==
    ASSUME AcctInv, NEW q \in Req, NEW r \in Req, q # r, pc[q] \in AlertLabels, pc[r] \in AlertLabels,
           loc[q].on = loc[r].on
    PROVE  loc[r].on \in raced
<1>1. Busy(q) /\ Busy(r) BY LabelsOfAccounts DEF Busy
<1> QED BY <1>1 DEF AcctInv, RequestsOK

(* A step of one visit of the budget b. *)
LEMMA AlertMoves ==
    ASSUME AcctInv, NEW r \in Req, Keeps(r), UNCHANGED <<ledgerRow, chart, posted>>,
           pc'[r] \in AlertLabels \cup {"idle"}, pc'[r] \in AlertLabels => AlertHeld(r)',
           alerts' \in [BudgetId -> Nat], alertEvents' \in [BudgetId -> Nat], AlertOnce',
           \/ UNCHANGED <<alerts, alertEvents>>
           \/ pc[r] \in AlertLabels /\ \A c \in BudgetId \ {loc[r].on} :
                 alerts'[c] = alerts[c] /\ alertEvents'[c] = alertEvents[c]
    PROVE  AcctInv'
<1>1. RequestsOK' /\ raced \subseteq raced' BY DEF Keeps
<1>2. ASSUME NEW q \in Req, q # r, pc[q] \in AlertLabels PROVE AlertHeld(q)'
  <2>1. PICK c : c = loc[q].on OBVIOUS
  <2>2. AlertHeld(q) BY DEF AcctInv, AlertsOK
  <2>3. c \in BudgetId /\ loc[q] = [on |-> c] BY <1>2, <2>1, <2>2 DEF AlertHeld
  <2>4. loc'[q] = loc[q] /\ pc'[q] = pc[q] BY <1>2 DEF Keeps
  <2>5. CASE alerts'[c] = alerts[c] /\ alertEvents'[c] = alertEvents[c]
      BY <1>1, <2>1, <2>2, <2>3, <2>4, <2>5 DEF AlertHeld
  <2>6. CASE pc[r] \in AlertLabels /\ c = loc[r].on
    <3>1. c \in raced' BY <1>1, <1>2, <2>1, <2>6, VisitsApart
    <3> QED BY <2>1, <2>3, <2>4, <3>1 DEF AlertHeld
  <2> QED BY <2>3, <2>5, <2>6
<1>3. ASSUME NEW q \in Req, q # r, pc[q] \notin AlertLabels PROVE AlertHeld(q)'
    BY <1>3 DEF AlertHeld, AlertLabels, Keeps
<1>4. AlertHeld(r)' BY DEF AlertHeld, AlertLabels
<1>5. AlertsOK' BY <1>2, <1>3, <1>4 DEF AlertsOK
<1> QED BY <1>5, BudgetStepOK

LEMMA AlertActualOK ==
    ASSUME AcctInv, NEW r \in Req, NEW b \in BudgetId, AlertActual(r, b)
    PROVE  AcctInv'
<1>1. PICK d : d = [on |-> b] OBVIOUS
<1>2. Begin(r, "alert exists", d) BY <1>1 DEF AlertActual
<1>3. UNCHANGED <<ledgerRow, chart, posted, alerts, alertEvents>> BY DEF AlertActual, acctVars
<1>4. Keeps(r) /\ pc'[r] = "alert exists" /\ loc'[r] = d
  <2>1. RequestsOK /\ "alert exists" # "idle" /\ Begin(r, "alert exists", d) BY <1>2 DEF AcctInv
  <2> HIDE <1>1, <1>2
  <2> QED BY <2>1, BeginKeeps
<1>5. d.on = b /\ d = [on |-> d.on] BY <1>1
<1>6. AlertHeld(r)' BY <1>4, <1>5 DEF AlertHeld
<1>7. AlertsOK /\ raced \subseteq raced' BY <1>4 DEF AcctInv, Keeps
<1>8. AlertOnce' BY <1>3, <1>7 DEF AlertsOK, AlertOnce
<1> QED BY <1>3, <1>4, <1>6, <1>7, <1>8, AlertMoves DEF AlertLabels, AlertsOK

LEMMA AlertExistsOK ==
    ASSUME AcctInv, NEW r \in Req, AlertExists(r)
    PROVE  AcctInv'
<1>1. PICK b, d : b = loc[r].on /\ d = loc[r] OBVIOUS
<1>2. pc[r] = "alert exists" /\ (End(r) \/ (~(alerts[b] > 0) /\ Goto(r, "alert insert", d)))
    BY <1>1 DEF AlertExists
<1>3. UNCHANGED <<ledgerRow, chart, posted, alerts, alertEvents>> BY DEF AlertExists, acctVars
<1>4. AlertHeld(r) /\ AlertsOK /\ alerts \in [BudgetId -> Nat] BY DEF AcctInv, AlertsOK
<1>5. b \in BudgetId /\ d.on = b /\ d = [on |-> d.on] BY <1>1, <1>2, <1>4 DEF AlertHeld, AlertLabels
<1>6. AlertOnce' /\ alerts' \in [BudgetId -> Nat] /\ alertEvents' \in [BudgetId -> Nat]
  <2>1. raced \subseteq raced' BY <1>2 DEF End, Goto
  <2> QED BY <1>3, <1>4, <2>1 DEF AlertsOK, AlertOnce
<1>7. CASE End(r)
  <2>1. Keeps(r) /\ pc'[r] = "idle" BY <1>7, EndKeeps DEF AcctInv, StaysOrEnds
  <2> QED BY <1>3, <1>6, <2>1, AlertMoves, LabelsOfAccounts
<1>8. CASE ~(alerts[b] > 0) /\ Goto(r, "alert insert", d)
  <2>1. Keeps(r) /\ pc'[r] = "alert insert" /\ loc'[r] = d
      BY <1>1, <1>2, <1>5, <1>8, GotoKeeps DEF AcctInv
  <2>2. alerts'[b] = 0
    <3>1. alerts \in [BudgetId -> Nat] /\ b \in BudgetId /\ ~(alerts[b] > 0) /\ alerts' = alerts
        BY <1>3, <1>4, <1>5, <1>8
    <3> HIDE <1>1, <1>2, <1>3, <1>4, <1>5, <1>8
    <3> QED BY <3>1
  <2>3. AlertHeld(r)' BY <1>5, <2>1, <2>2 DEF AlertHeld
  <2> QED BY <1>3, <1>6, <2>1, <2>3, AlertMoves DEF AlertLabels
<1> QED BY <1>2, <1>7, <1>8

LEMMA AlertInsertOK ==
    ASSUME AcctInv, NEW r \in Req, AlertInsert(r)
    PROVE  AcctInv'
<1>1. PICK b, d : b = loc[r].on /\ d = loc[r] OBVIOUS
<1>2. /\ pc[r] = "alert insert" /\ UNCHANGED <<ledgerRow, chart, posted, alertEvents>>
      /\ \/ End(r) /\ UNCHANGED alerts
         \/ alerts' = [alerts EXCEPT ![b] = @ + 1] /\ Goto(r, "alert emit", d)
    BY <1>1 DEF AlertInsert
<1>3. AlertHeld(r) /\ AlertsOK BY DEF AcctInv, AlertsOK
<1>4. b \in BudgetId /\ d.on = b /\ d = [on |-> d.on] BY <1>1, <1>2, <1>3 DEF AlertHeld, AlertLabels
<1>5. CASE End(r) /\ UNCHANGED alerts
  <2>1. Keeps(r) /\ pc'[r] = "idle" /\ raced' = raced BY <1>5, EndKeeps DEF AcctInv, StaysOrEnds
  <2>2. AlertOnce' /\ alerts' \in [BudgetId -> Nat] /\ alertEvents' \in [BudgetId -> Nat]
      BY <1>2, <1>3, <1>5, <2>1 DEF AlertsOK, AlertOnce
  <2> QED BY <1>2, <1>5, <2>1, <2>2, AlertMoves, LabelsOfAccounts
<1>6. CASE alerts' = [alerts EXCEPT ![b] = @ + 1] /\ Goto(r, "alert emit", d)
  <2>1. Keeps(r) /\ pc'[r] = "alert emit" /\ loc'[r] = d /\ raced' = raced
      BY <1>1, <1>2, <1>4, <1>6, GotoKeeps DEF AcctInv
  <2>2. /\ alerts' \in [BudgetId -> Nat] /\ alertEvents' \in [BudgetId -> Nat]
        /\ alerts'[b] = alerts[b] + 1 /\ \A c \in BudgetId \ {b} : alerts'[c] = alerts[c]
    <3>1. /\ alerts \in [BudgetId -> Nat] /\ alertEvents \in [BudgetId -> Nat] /\ b \in BudgetId
          /\ alerts' = [alerts EXCEPT ![b] = @ + 1] /\ alertEvents' = alertEvents
        BY <1>2, <1>3, <1>4, <1>6 DEF AlertsOK
    <3> QED BY <3>1
  <2>3. b \notin raced => alerts[b] = 0 BY <1>1, <1>2, <1>3 DEF AlertHeld
  <2>4. b \notin raced => alertEvents[b] <= alerts[b] BY <1>3, <1>4 DEF AlertsOK, AlertOnce
  <2>7. alertEvents'[b] = alertEvents[b] /\ alertEvents[b] \in Nat BY <1>2, <1>3, <1>4 DEF AlertsOK
  <2>5. AlertOnce'
    <3>1. ASSUME NEW c \in BudgetId, c \notin raced' PROVE alerts'[c] <= 1 /\ alertEvents'[c] <= alerts'[c]
      <4>1. CASE c = b
        <5>1. alerts[b] = 0 /\ alertEvents[b] <= alerts[b] /\ alerts'[c] = alerts[b] + 1
              /\ alertEvents'[c] = alertEvents[b] /\ alertEvents[b] \in Nat
            BY <2>7, <2>1, <2>2, <2>3, <2>4, <3>1, <4>1
        <5> QED BY <5>1
      <4>2. CASE c # b BY <1>2, <1>3, <2>1, <2>2, <3>1, <4>2 DEF AlertsOK, AlertOnce
      <4> QED BY <4>1, <4>2
    <3> QED BY <3>1 DEF AlertOnce
  <2>6. b \notin raced' => alertEvents'[b] < alerts'[b]
    <3>1. b \notin raced' => alerts[b] = 0 /\ alertEvents[b] <= 0 BY <2>1, <2>3, <2>4
    <3>2. alerts'[b] = alerts[b] + 1 /\ alertEvents'[b] = alertEvents[b] /\ alertEvents[b] \in Nat
        BY <2>2, <2>7
    <3> QED BY <3>1, <3>2
  <2>9. AlertHeld(r)' BY <1>4, <2>1, <2>6 DEF AlertHeld
  <2>8. pc[r] \in AlertLabels /\ pc'[r] \in AlertLabels BY <1>2, <2>1 DEF AlertLabels
  <2> QED BY <1>1, <1>2, <2>1, <2>2, <2>5, <2>8, <2>9, AlertMoves
<1> QED BY <1>2, <1>5, <1>6

LEMMA AlertEmitOK ==
    ASSUME AcctInv, NEW r \in Req, AlertEmit(r)
    PROVE  AcctInv'
<1>1. PICK b : b = loc[r].on OBVIOUS
<1>2. /\ pc[r] = "alert emit" /\ End(r) /\ UNCHANGED <<ledgerRow, chart, posted, alerts>>
      /\ alertEvents' = [alertEvents EXCEPT ![b] = IF b \in Budgets THEN @ + 1 ELSE @]
    BY <1>1 DEF AlertEmit
<1>3. AlertHeld(r) /\ AlertsOK BY DEF AcctInv, AlertsOK
<1>4. b \in BudgetId BY <1>1, <1>2, <1>3 DEF AlertHeld, AlertLabels
<1>5. Keeps(r) /\ pc'[r] = "idle" /\ raced' = raced BY <1>2, EndKeeps DEF AcctInv, StaysOrEnds
<1>6. /\ alerts' \in [BudgetId -> Nat] /\ alertEvents' \in [BudgetId -> Nat]
      /\ alertEvents'[b] <= alertEvents[b] + 1
      /\ \A c \in BudgetId \ {b} : alertEvents'[c] = alertEvents[c]
      /\ alerts[b] \in Nat /\ alertEvents[b] \in Nat /\ alertEvents'[b] \in Nat
  <2>1. PICK n \in {0, 1} : alertEvents' = [alertEvents EXCEPT ![b] = alertEvents[b] + n]
    <3>1. alertEvents \in [BudgetId -> Nat] BY <1>3 DEF AlertsOK
    <3>2. CASE b \in Budgets
      <4>1. alertEvents' = [alertEvents EXCEPT ![b] = alertEvents[b] + 1] BY <1>2, <3>2
      <4> QED BY <4>1
    <3>3. CASE b \notin Budgets
      <4>1. alertEvents' = [alertEvents EXCEPT ![b] = alertEvents[b]] BY <1>2, <3>3
      <4>2. alertEvents[b] + 0 = alertEvents[b] BY <1>4, <3>1
      <4>3. alertEvents' = [alertEvents EXCEPT ![b] = alertEvents[b] + 0] BY <4>1, <4>2
      <4> QED BY <4>3
    <3> QED BY <3>2, <3>3
  <2>2. alerts \in [BudgetId -> Nat] /\ alertEvents \in [BudgetId -> Nat] /\ alerts' = alerts
      BY <1>2, <1>3 DEF AlertsOK
  <2> QED BY <1>4, <2>1, <2>2
<1>7. b \notin raced => alertEvents[b] < alerts[b] BY <1>1, <1>2, <1>3 DEF AlertHeld
<1>8. AlertOnce'
  <2>1. ASSUME NEW c \in BudgetId, c \notin raced' PROVE alerts'[c] <= 1 /\ alertEvents'[c] <= alerts'[c]
    <3>1. CASE c = b
      <4>1. alerts[b] <= 1 BY <1>3, <1>4, <1>5, <2>1, <3>1 DEF AlertsOK, AlertOnce
      <4>2. alertEvents[b] < alerts[b] /\ alerts' = alerts BY <1>2, <1>5, <1>7, <2>1, <3>1
      <4> QED BY <1>6, <3>1, <4>1, <4>2
    <3>2. CASE c # b BY <1>2, <1>3, <1>5, <1>6, <2>1, <3>2 DEF AlertsOK, AlertOnce
    <3> QED BY <3>1, <3>2
  <2> QED BY <2>1 DEF AlertOnce
<1>9. pc[r] \in AlertLabels /\ pc'[r] \notin AlertLabels BY <1>2, <1>5 DEF AlertLabels
<1> QED BY <1>1, <1>2, <1>5, <1>6, <1>8, <1>9, AlertMoves

LEMMA AccountCutOffOK ==
    ASSUME AcctInv, NEW r \in Req, AccountCutOff(r)
    PROVE  AcctInv'
<1>1. Keeps(r) /\ pc'[r] = "idle" BY EndKeeps DEF AccountCutOff, CutOff, AcctInv, StaysOrEnds
<1>2. UNCHANGED <<ledgerRow, chart, posted, budget, alerts, alertEvents>> BY DEF AccountCutOff, acctVars
<1>3. HoldStill(AlertLabels) /\ raced \subseteq raced' BY <1>1, StillApart, LabelsOfAccounts DEF Keeps
<1>4. AlertsOK' BY <1>2, <1>3, AlertsFrame DEF AcctInv
<1> QED BY <1>1, <1>2, <1>4, BudgetStepOK

-----------------------------------------------------------------------------
LEMMA InitAcct == InitRequests /\ InitAccounts => AcctInv
<1> SUFFICES ASSUME InitRequests, InitAccounts PROVE AcctInv
    OBVIOUS
<1>1. RequestsOK BY InitRequestsOK
<1>2. /\ ledgerRow = NoLedger /\ chart = [a \in AcctId |-> NoAccount] /\ posted = <<>>
      /\ alerts = [b \in BudgetId |-> 0] /\ alertEvents = [b \in BudgetId |-> 0]
      /\ \A r \in Req : pc[r] = "idle"
    BY DEF InitAccounts, InitRequests
<1>3. Chart = {} BY <1>2 DEF Chart, NoAccount
<1>4. ChartOK BY <1>2, <1>3 DEF ChartOK
<1>5. LedgerOK BY <1>2, <1>3 DEF LedgerOK, NoLedger
<1>6. EditsOK BY <1>2, <1>4, <1>5 DEF EditsOK, EditHeld, EditLabels
<1>7. posted \in Seq(Range(posted)) /\ DOMAIN posted = {} BY <1>2
<1>8. OpeningsOK BY <1>2, <1>7 DEF OpeningsOK, OpeningOnce, OpeningHeld, OpeningLabels
<1>9. AlertsOK
  <2>1. \A r \in Req : AlertHeld(r) BY <1>2 DEF AlertHeld, AlertLabels
  <2>2. alerts \in [BudgetId -> Nat] /\ alertEvents \in [BudgetId -> Nat] BY <1>2
  <2>3. \A b \in BudgetId : alerts[b] = 0 /\ alertEvents[b] = 0 BY <1>2
  <2>4. AlertOnce BY <2>3 DEF AlertOnce
  <2> QED BY <2>1, <2>2, <2>4 DEF AlertsOK
<1> QED BY <1>1, <1>6, <1>8, <1>9 DEF AcctInv

LEMMA AcctStutter == AcctInv /\ UNCHANGED <<reqVars, acctVars>> => AcctInv'
<1> SUFFICES ASSUME AcctInv, UNCHANGED <<reqVars, acctVars>> PROVE AcctInv'
    OBVIOUS
<1>1. UNCHANGED <<pc, loc, raced, ledgerRow, chart, posted, budget, alerts, alertEvents>>
    BY DEF reqVars, acctVars
<1>2. RequestsOK' BY <1>1 DEF AcctInv, RequestsOK, Busy
<1>3. \A L : HoldStill(L) BY <1>1, StillServed
<1>4. PostingsMet BY <1>1, NoPostings
<1>5. EditsOK' BY <1>1, <1>4, EditsFrame DEF AcctInv
<1>6. OpeningsOK' BY <1>1, <1>3, OpeningsFrame DEF AcctInv
<1>7. AlertsOK' BY <1>1, <1>3, AlertsFrame DEF AcctInv
<1> QED BY <1>2, <1>5, <1>6, <1>7 DEF AcctInv

(* Every step, without what it is called with. *)
AcctStep(r) ==
    \/ \E basis : LedgerCreate(r, basis)
    \/ \E basis \in {"cash", "accrual", "other"} : ApiLedgerCreate(r, basis) \/ ApiLedgerUpdate(r, basis)
    \/ \E on \in BOOLEAN : ToggleAppendOnly(r, on)
    \/ \E a \in AcctId, n \in AcctName, c \in Classes :
          AccountCreate(r, a, n, c) \/ ApiAccountCreate(r, a, n, c) \/ UpdateLoad(r, a, n, c)
    \/ \E a \in AcctId, n \in AcctName, v \in BOOLEAN : ApiAccountUpdate(r, a, n, v)
    \/ \E a \in AcctId : ToggleRead(r, a)
    \/ \E a, b \in AcctId, kind \in {"standard", "draft"} : PostTwo(r, a, b, kind)
    \/ UpdateCount(r) \/ UpdateWrite(r) \/ ToggleWrite(r)
    \/ \E form \in OpeningForms : OpeningRows(r, form)
    \/ OpeningBalances(r) \/ OpeningCheck(r) \/ OpeningContra(r) \/ OpeningPost(r)
    \/ \E i \in DOMAIN posted, kind \in {"standard", "draft"} : DecideHeld(r, i, kind)
    \/ \E b \in BudgetId : \/ BudgetDelete(r, b) \/ AlertActual(r, b)
                           \/ \E a, t : BudgetCreate(r, b, a, t) \/ ApiBudgetCreate(r, b, a, t)
    \/ AlertExists(r) \/ AlertInsert(r) \/ AlertEmit(r) \/ AccountCutOff(r)

LEMMA AcctSteps == AccountsNext => \E r \in Req : AcctStep(r)
<1>1. LedgerNext => \E r \in Req : AcctStep(r) BY Zenon DEF LedgerNext, AcctStep
<1>2. ChartNext => \E r \in Req : AcctStep(r) BY ZenonT(60) DEF ChartNext, AcctStep
<1>3. OpeningNext => \E r \in Req : AcctStep(r) BY ZenonT(60) DEF OpeningNext, AcctStep
<1>4. BudgetsNext => \E r \in Req : AcctStep(r) BY ZenonT(60) DEF BudgetsNext, AcctStep
<1> QED BY <1>1, <1>2, <1>3, <1>4 DEF AccountsNext

LEMMA AcctStepOK ==
    ASSUME AcctInv, NEW r \in Req, AcctStep(r)
    PROVE  AcctInv'
    BY LedgerCreateOK, LedgerUpdatesOK, AccountCreateOK, UpdateLoadOK, ApiAccountUpdateOK, ToggleReadOK,
       PostTwoOK, UpdateCountOK, UpdateWriteOK, ToggleWriteOK, OpeningRowsOK, OpeningBalancesOK,
       OpeningCheckOK, OpeningContraOK, OpeningPostOK, DecideHeldOK, BudgetsOK, AlertActualOK, AlertExistsOK,
       AlertInsertOK, AlertEmitOK, AccountCutOffOK DEF AcctStep

LEMMA AcctInductive == AcctInv /\ [AccountsNext]_<<reqVars, acctVars>> => AcctInv'
    BY AcctSteps, AcctStepOK, AcctStutter

(* What the chart, the opening entry and the alerts rest on: an edit that  *)
(* nobody met still holds the type it read, a form of opening balances     *)
(* past its check finds none recorded, and a visit about to insert or to   *)
(* emit an alert finds none there.                                         *)
THEOREM AccountsInvariant == AccountsSpec => []AcctInv
    BY InitAcct, AcctInductive, PTL DEF AccountsSpec

LEMMA AcctInvSound == AcctInv => AccountsSound
<1> SUFFICES ASSUME AcctInv PROVE AccountsSound
    OBVIOUS
<1>1. EditsOK /\ OpeningsOK /\ AlertsOK BY DEF AcctInv
<1>2. ledgerRow.basis \in {"none", "cash", "accrual"} BY <1>1 DEF EditsOK, LedgerOK
<1>3. AccountsTypeOK BY <1>1, <1>2 DEF EditsOK, ChartOK, AlertsOK, AccountsTypeOK
<1>4. OpeningOnce BY <1>1 DEF OpeningsOK
<1>5. AlertOnce BY <1>1 DEF AlertsOK
<1> QED BY <1>3, <1>4, <1>5 DEF AccountsSound

(* Names are unique and pages keep type and subtype together; a ledger     *)
(* takes a second opening entry only beside held ones, and a budget one    *)
(* alert and one event, unless two requests overlapped on it (create,      *)
(* update, opening_balances_create, check_alerts).                         *)
THEOREM AccountsAreSound == AccountsSpec => []AccountsSound
    BY AccountsInvariant, AcctInvSound, PTL

(* No step but an edit that was met changes the type of an account that    *)
(* has postings.                                                           *)
LEMMA AcctTypesKept ==
    AcctInv /\ [AccountsNext]_<<reqVars, acctVars>> =>
        [\A a \in Chart \ raced' : HasPostings(a) => chart'[a].type = chart[a].type]_<<reqVars, acctVars>>
<1> SUFFICES ASSUME AcctInv, NEW r \in Req, AcctStep(r)
             PROVE  \A a \in Chart \ raced' : HasPostings(a) => chart'[a].type = chart[a].type
    BY AcctSteps
<1>1. CASE UNCHANGED chart BY <1>1
<1>2. CASE UpdateWrite(r) BY <1>2, UpdateWriteOK
<1>3. CASE ToggleWrite(r) BY <1>3, ToggleWriteOK
<1>4. CASE OpeningContra(r) BY <1>4, OpeningContraOK
<1>5. ASSUME NEW basis, LedgerCreate(r, basis)
      PROVE  \A a \in Chart \ raced' : HasPostings(a) => chart'[a].type = chart[a].type
  <2>1. Chart = {} BY <1>5 DEF LedgerCreate, AcctInv, EditsOK, LedgerOK
  <2> QED BY <2>1
<1>6. DOMAIN chart = AcctId /\ \A a \in Chart : AccountRow(a, chart[a]) BY DEF AcctInv, EditsOK, ChartOK
<1>7. ASSUME NEW a \in AcctId, NEW n \in AcctName, NEW c \in Classes,
             AccountCreate(r, a, n, c) \/ ApiAccountCreate(r, a, n, c)
      PROVE  \A b \in Chart \ raced' : HasPostings(b) => chart'[b].type = chart[b].type
    BY <1>6, <1>7 DEF AccountCreate, ApiAccountCreate, Chart
<1>8. ASSUME NEW a \in AcctId, NEW n \in AcctName, NEW v \in BOOLEAN, ApiAccountUpdate(r, a, n, v)
      PROVE  \A b \in Chart \ raced' : HasPostings(b) => chart'[b].type = chart[b].type
  <2>1. a \in Chart /\ chart' = [chart EXCEPT ![a].name = n, ![a].archived = v] BY <1>8 DEF ApiAccountUpdate
  <2>2. PICK y : y = chart[a] OBVIOUS
  <2>3. PICK p : p = [y EXCEPT !.name = n] OBVIOUS
  <2>4. PICK x : x = [p EXCEPT !.archived = v] OBVIOUS
  <2>5. chart' = [chart EXCEPT ![a] = x] BY <2>1, <2>2, <2>3, <2>4
  <2>6. AccountRow(a, y) BY <1>6, <2>1, <2>2
  <2>7. RowAs(a, x, y, n, y.type, y.sub) BY <2>3, <2>4, <2>6, RowRenamed, Zenon
  <2> QED BY <1>6, <2>2, <2>5, <2>7 DEF RowAs, Chart
<1>9. CASE \/ \E basis \in {"cash", "accrual", "other"} : ApiLedgerCreate(r, basis) \/ ApiLedgerUpdate(r, basis)
           \/ \E on \in BOOLEAN : ToggleAppendOnly(r, on)
    BY <1>1, <1>9 DEF ApiLedgerCreate, ApiLedgerUpdate, ToggleAppendOnly
<1>10. CASE \E a, b \in AcctId, kind \in {"standard", "draft"} : PostTwo(r, a, b, kind)
    BY <1>1, <1>10 DEF PostTwo
<1>11. CASE \/ \E a \in AcctId, n \in AcctName, c \in Classes : UpdateLoad(r, a, n, c)
            \/ \E a \in AcctId : ToggleRead(r, a)
            \/ \E form \in OpeningForms : OpeningRows(r, form)
            \/ \E b \in BudgetId : AlertActual(r, b)
            \/ UpdateCount(r) \/ OpeningBalances(r) \/ OpeningCheck(r) \/ AlertExists(r) \/ AccountCutOff(r)
  <2>1. UNCHANGED acctVars
      BY <1>11 DEF UpdateLoad, ToggleRead, OpeningRows, AlertActual, UpdateCount, OpeningBalances,
                   OpeningCheck, AlertExists, AccountCutOff
  <2> QED BY <1>1, <2>1 DEF acctVars
<1>12. CASE \/ OpeningPost(r) \/ AlertInsert(r) \/ AlertEmit(r)
            \/ \E i \in DOMAIN posted, kind \in {"standard", "draft"} : DecideHeld(r, i, kind)
    BY <1>1, <1>12 DEF OpeningPost, AlertInsert, AlertEmit, DecideHeld
<1>13. CASE \E b \in BudgetId : \/ BudgetDelete(r, b)
                               \/ \E a, t : BudgetCreate(r, b, a, t) \/ ApiBudgetCreate(r, b, a, t)
    BY <1>1, <1>13 DEF BudgetDelete, BudgetCreate, ApiBudgetCreate
<1> QED BY <1>2, <1>3, <1>4, <1>5, <1>7, <1>8, <1>9, <1>10, <1>11, <1>12, <1>13 DEF AcctStep

(* An account with postings keeps its type, unless a posting to it         *)
(* overlapped the edit (update reads posting_count before it writes).      *)
THEOREM TypesAreKept == AccountsSpec => TypeKeptWithPostings
    BY AccountsInvariant, AcctTypesKept, PTL DEF AccountsSpec, TypeKeptWithPostings

-----------------------------------------------------------------------------
(* Fixed assets: what is written off is nothing, or leaves the salvage     *)
(* value; so does what a run of calculate_depreciation is about to write.  *)
WithinBase(t, total) == total \in Nat /\ (total = 0 \/ total <= t.cost - t.salvage)

AssetRows == [status : {"active", "fully_depreciated", "disposed"}, accumulated : Nat,
              cost : Int, salvage : Int, months : Nat \ {0},
              method : {"straight_line", "declining_balance"}]

AssetRow(t) == t \in AssetRows /\ WithinBase(t, t.accumulated)

LEMMA AssetRowIs ==
    ASSUME NEW t, AssetRow(t)
    PROVE  /\ t.cost \in Int /\ t.salvage \in Int /\ t.months \in Nat \ {0}
           /\ t.accumulated \in Nat
    BY DEF AssetRow, AssetRows

AssetLabels == {"depreciate", "dispose post", "dispose mark"}

AssetHeld(q) ==
    /\ pc[q] \in AssetLabels => loc[q].on \in Asset /\ asset[loc[q].on].status # "none"
    /\ pc[q] = "depreciate" => WithinBase(asset[loc[q].on], loc[q].total)

AssetsOK ==
    /\ DOMAIN asset = Asset
    /\ \A a \in Asset : asset[a].status # "none" => AssetRow(asset[a])
    /\ \A q \in Req : AssetHeld(q)

(* Investment lots: no lot is sold beyond what it holds, nor will it be by *)
(* the disposal a sell is about to insert, unless two sells overlapped.    *)
LotLabels == {"fifo pick", "fifo insert"}

LotHeld(q) ==
    /\ pc[q] \in LotLabels => loc[q].on = "lots" /\ loc[q].left \in Nat
    /\ pc[q] = "fifo insert" =>
          /\ loc[q].lot \in DOMAIN lots /\ loc[q].take \in Nat /\ loc[q].take <= loc[q].left
          /\ "lots" \notin raced => loc[q].take <= lots[loc[q].lot].n - lots[loc[q].lot].gone

LotsOK ==
    /\ lots \in Seq([n : Nat \ {0}, gone : Nat])
    /\ LotNotOversold
    /\ \A q \in Req : LotHeld(q)

StockLabels == {"adjust method", "adjust layers", "adjust write", "set method"}

HoldingsInv ==
    /\ RequestsOK /\ AssetsOK /\ LotsOK
    /\ \A q \in Req : pc[q] \in StockLabels => loc[q].on = "stock"

LEMMA HoldingsInit == InitRequests /\ InitStock => HoldingsInv
<1> SUFFICES ASSUME InitRequests, InitStock PROVE HoldingsInv
    OBVIOUS
<1>1. RequestsOK BY InitRequestsOK
<1>2. \A q \in Req : pc[q] = "idle" BY DEF InitRequests
<1>3. AssetsOK
    BY <1>2 DEF InitStock, AssetsOK, AssetHeld, AssetLabels, NoAsset
<1>4. LotsOK
  <2>1. lots = <<>> BY DEF InitStock
  <2>2. lots \in Seq([n : Nat \ {0}, gone : Nat]) /\ DOMAIN lots = {} BY <2>1
  <2> QED BY <1>2, <2>2 DEF LotsOK, LotHeld, LotLabels, LotNotOversold
<1> QED BY <1>1, <1>2, <1>3, <1>4 DEF HoldingsInv, StockLabels

-----------------------------------------------------------------------------
(* Frames: a step that leaves the rows alone and no request of theirs moves. *)
LEMMA AssetsFrame ==
    ASSUME AssetsOK, NEW r \in Req, Keeps(r), UNCHANGED asset,
           pc'[r] \notin AssetLabels \/ (pc'[r] = pc[r] /\ loc'[r] = loc[r])
    PROVE  AssetsOK'
<1>1. \A q \in Req : AssetHeld(q)'
  <2> SUFFICES ASSUME NEW q \in Req PROVE AssetHeld(q)'
      OBVIOUS
  <2>1. AssetHeld(q) BY DEF AssetsOK
  <2>2. CASE pc'[q] = pc[q] /\ loc'[q] = loc[q]
      BY <2>1, <2>2 DEF AssetHeld, WithinBase
  <2>3. CASE pc'[q] \notin AssetLabels
      BY <2>3 DEF AssetHeld, AssetLabels
  <2> QED BY <2>2, <2>3 DEF Keeps
<1> QED BY <1>1 DEF AssetsOK, AssetRow, WithinBase

LEMMA LotsFrame ==
    ASSUME LotsOK, NEW r \in Req, Keeps(r), UNCHANGED lots,
           pc'[r] \notin LotLabels \/ (pc'[r] = pc[r] /\ loc'[r] = loc[r])
    PROVE  LotsOK'
<1>1. \A q \in Req : LotHeld(q)'
  <2> SUFFICES ASSUME NEW q \in Req PROVE LotHeld(q)'
      OBVIOUS
  <2>1. LotHeld(q) /\ raced \subseteq raced' BY DEF LotsOK, Keeps
  <2>2. CASE pc'[q] = pc[q] /\ loc'[q] = loc[q]
      BY <2>1, <2>2 DEF LotHeld
  <2>3. CASE pc'[q] \notin LotLabels
      BY <2>3 DEF LotHeld, LotLabels
  <2> QED BY <2>2, <2>3 DEF Keeps
<1> QED BY <1>1 DEF LotsOK, LotNotOversold, Keeps

(* A request that goes on and is not about assets or lots. *)
LEMMA ElsewhereOK ==
    ASSUME HoldingsInv, NEW r \in Req, Keeps(r), UNCHANGED <<asset, lots>>,
           \/ pc'[r] \notin AssetLabels \cup LotLabels
           \/ pc'[r] = pc[r] /\ loc'[r] = loc[r],
           pc'[r] \in StockLabels => loc'[r].on = "stock"
    PROVE  HoldingsInv'
    BY AssetsFrame, LotsFrame DEF HoldingsInv, Keeps

(* One that is served at once, ends or is cut off. *)
LEMMA OverOK ==
    ASSUME HoldingsInv, NEW r \in Req, UNCHANGED <<asset, lots>>,
           End(r) \/ \E row : Serve(r, row)
    PROVE  HoldingsInv'
<1>0. RequestsOK BY DEF HoldingsInv
<1>1. StaysOrEnds(r) BY <1>0, EndKeeps, ServeKeeps
<1>2. Keeps(r) /\ (pc'[r] = "idle" \/ (pc'[r] = pc[r] /\ loc'[r] = loc[r]))
    BY <1>1 DEF StaysOrEnds
<1>3. "idle" \notin AssetLabels \cup LotLabels \cup StockLabels
    BY DEF AssetLabels, LotLabels, StockLabels
<1> QED BY <1>2, <1>3, ElsewhereOK DEF HoldingsInv

-----------------------------------------------------------------------------
(* The stock of items touches neither. *)
LEMMA StockGoesOn ==
    ASSUME HoldingsInv, NEW r \in Req, NEW label \in StockLabels, NEW d, d.on = "stock",
           UNCHANGED <<asset, lots>>,
           Begin(r, label, d) \/ (pc[r] \in StockLabels /\ Goto(r, label, d))
    PROVE  HoldingsInv'
<1>0. RequestsOK BY DEF HoldingsInv
<1>1. label # "idle" /\ label \notin AssetLabels \cup LotLabels
    BY DEF AssetLabels, LotLabels, StockLabels
<1>2. CASE Begin(r, label, d)
    BY <1>0, <1>1, <1>2, BeginKeeps, ElsewhereOK
<1>3. CASE pc[r] \in StockLabels /\ Goto(r, label, d)
  <2>1. pc[r] # "idle" /\ d.on = loc[r].on BY <1>3 DEF HoldingsInv, StockLabels
  <2>2. Keeps(r) /\ pc'[r] = label /\ loc'[r] = d BY <1>0, <1>3, <2>1, GotoKeeps
  <2> QED BY <1>1, <2>2, ElsewhereOK
<1> QED BY <1>2, <1>3

LEMMA StockNextOK ==
    ASSUME HoldingsInv, StockNext PROVE HoldingsInv'
<1>1. PICK r \in Req :
        \/ \E p \in Purchases : Purchase(r, p)
        \/ \E n \in Adjustments : AdjustRead(r, n)
        \/ AdjustMethod(r) \/ AdjustLayers(r) \/ AdjustWrite(r)
        \/ \E m \in {"average", "fifo"} : SetMethodRead(r, m)
        \/ SetMethod(r)
        \/ CutOff(r) /\ UNCHANGED stockVars
    BY DEF StockNext
<1>2. UNCHANGED <<asset, lots>>
    BY <1>1 DEF Purchase, AdjustRead, AdjustMethod, AdjustLayers, AdjustWrite,
                SetMethodRead, SetMethod, stockVars
<1>3. CASE \E p \in Purchases : Purchase(r, p)
    BY <1>2, <1>3, OverOK DEF Purchase
<1>4. CASE AdjustWrite(r) \/ SetMethod(r) \/ (CutOff(r) /\ UNCHANGED stockVars)
    BY <1>2, <1>4, OverOK DEF AdjustWrite, SetMethod, CutOff
<1>5. CASE \E n \in Adjustments : AdjustRead(r, n)
  <2>1. PICK n \in Adjustments : AdjustRead(r, n) BY <1>5
  <2> DEFINE d == [on |-> "stock", n |-> n, qty |-> qty + n, cost |-> unitCost]
  <2>2. Begin(r, "adjust method", d) /\ d.on = "stock" BY <2>1 DEF AdjustRead
  <2> HIDE DEF d
  <2> QED BY <1>2, <2>2, StockGoesOn DEF StockLabels
<1>6. CASE AdjustMethod(r)
  <2> DEFINE d == [on |-> "stock", n |-> loc[r].n, qty |-> loc[r].qty,
                   cost |-> loc[r].cost, method |-> method]
  <2>1. pc[r] \in StockLabels /\ Goto(r, "adjust layers", d) /\ d.on = "stock"
      BY <1>6 DEF AdjustMethod, StockLabels
  <2> HIDE DEF d
  <2> QED BY <1>2, <2>1, StockGoesOn DEF StockLabels
<1>7. CASE AdjustLayers(r)
  <2>1. PICK take, diff : 
          Goto(r, "adjust write", [on |-> "stock", n |-> loc[r].n, qty |-> loc[r].qty,
                                   method |-> loc[r].method, take |-> take, diff |-> diff])
      BY <1>7 DEF AdjustLayers
  <2> DEFINE d == [on |-> "stock", n |-> loc[r].n, qty |-> loc[r].qty,
                   method |-> loc[r].method, take |-> take, diff |-> diff]
  <2>2. pc[r] \in StockLabels /\ Goto(r, "adjust write", d) /\ d.on = "stock"
      BY <1>7, <2>1 DEF AdjustLayers, StockLabels
  <2> HIDE DEF d
  <2> QED BY <1>2, <2>2, StockGoesOn DEF StockLabels
<1>8. CASE \E m \in {"average", "fifo"} : SetMethodRead(r, m)
  <2>1. PICK m : SetMethodRead(r, m) BY <1>8
  <2> DEFINE d == [on |-> "stock", m |-> m]
  <2>2. Begin(r, "set method", d) /\ d.on = "stock" BY <2>1 DEF SetMethodRead
  <2> HIDE DEF d
  <2> QED BY <1>2, <2>2, StockGoesOn DEF StockLabels
<1> QED BY <1>1, <1>3, <1>4, <1>5, <1>6, <1>7, <1>8
-----------------------------------------------------------------------------
(* The charge of a month, capped, stays within the base. *)
LEMMA ChargeIsInt ==
    ASSUME NEW t, AssetRow(t) PROVE Charge(t) \in Int
<1>1. \A x \in Int, n \in Nat \ {0} : Quotient(x, n) \in Int
  <2> SUFFICES ASSUME NEW x \in Int, NEW n \in Nat \ {0} PROVE Quotient(x, n) \in Int
      OBVIOUS
  <2>1. 2 * x + n \in Int /\ 2 * n \in Nat \ {0} OBVIOUS
  <2>2. \A a \in Int, b \in Nat \ {0} : a \div b \in Int OBVIOUS
  <2> QED BY <2>1, <2>2 DEF Quotient
<1>2. t.cost - t.accumulated \in Int /\ t.cost - t.salvage \in Int /\ t.months \in Nat \ {0}
    BY AssetRowIs
<1>3. 2 * (t.cost - t.accumulated) \in Int BY <1>2
<1>4. \A x \in Int, n \in Nat \ {0} : RoundHalfEven(x, n) \in Int
  <2> SUFFICES ASSUME NEW x \in Int, NEW n \in Nat \ {0} PROVE RoundHalfEven(x, n) \in Int
      OBVIOUS
  <2>1. x \div n \in Int /\ (x \div n) + 1 \in Int OBVIOUS
  <2>2. RoundHalfEven(x, n) \in {x \div n, (x \div n) + 1} BY DEF RoundHalfEven
  <2> QED BY <2>1, <2>2
<1>5. PICK c : c = t.cost - t.accumulated OBVIOUS
<1>6. PICK m : m = t.months OBVIOUS
<1>7. RoundHalfEven(2 * c, m) \in Int /\ Quotient(t.cost - t.salvage, t.months) \in Int
    BY <1>1, <1>2, <1>3, <1>4, <1>5, <1>6
<1>8. Charge(t) \in {0, RoundHalfEven(2 * c, m), Quotient(t.cost - t.salvage, t.months)}
    BY <1>5, <1>6 DEF Charge
<1> QED BY <1>7, <1>8

LEMMA CappedWithin ==
    ASSUME NEW t, AssetRow(t), NEW charge \in Int
    PROVE  WithinBase(t, t.accumulated + CapAtDepreciable(charge, t))
    BY AssetRowIs DEF AssetRow, WithinBase, CapAtDepreciable, Lesser

(* What a request holds about one asset survives what others do to it, as  *)
(* long as cost and salvage stay.                                          *)
LEMMA AssetStep ==
    ASSUME HoldingsInv, NEW r \in Req, Keeps(r), UNCHANGED lots, DOMAIN asset' = Asset,
           pc'[r] \notin LotLabels \cup StockLabels,
           \A a \in Asset :
               /\ asset'[a].status # "none" => AssetRow(asset'[a])
               /\ asset[a].status # "none" =>
                     /\ asset'[a].status # "none"
                     /\ asset'[a].cost = asset[a].cost /\ asset'[a].salvage = asset[a].salvage,
           pc'[r] \in AssetLabels =>
               loc'[r].on \in Asset /\ asset'[loc'[r].on].status # "none",
           pc'[r] = "depreciate" => WithinBase(asset'[loc'[r].on], loc'[r].total)
    PROVE  HoldingsInv'
<1>1. \A q \in Req : AssetHeld(q)'
  <2> SUFFICES ASSUME NEW q \in Req PROVE AssetHeld(q)'
      OBVIOUS
  <2>1. CASE q = r BY <2>1 DEF AssetHeld, WithinBase
  <2>2. CASE q # r
    <3>1. pc'[q] = pc[q] /\ loc'[q] = loc[q] /\ AssetHeld(q)
        BY <2>2 DEF Keeps, HoldingsInv, AssetsOK
    <3>2. \A a \in Asset : \A total : asset[a].status # "none" /\ WithinBase(asset[a], total)
                                    => WithinBase(asset'[a], total)
        BY DEF WithinBase
    <3> QED BY <3>1, <3>2 DEF AssetHeld, AssetLabels, WithinBase
  <2> QED BY <2>1, <2>2
<1>2. AssetsOK' BY <1>1 DEF AssetsOK, AssetRow, WithinBase
<1>3. LotsOK' BY LotsFrame DEF HoldingsInv
<1> QED BY <1>2, <1>3 DEF HoldingsInv, Keeps

LEMMA AssetCreateOK ==
    ASSUME HoldingsInv, NEW r \in Req, NEW a \in Asset, NEW t \in AssetTerms,
           AssetCreate(r, a, t)
    PROVE  HoldingsInv'
<1> DEFINE new == [status |-> "active", accumulated |-> 0, cost |-> t.cost,
                   salvage |-> t.salvage, months |-> t.months, method |-> t.method]
<1>1. StaysOrEnds(r) /\ UNCHANGED <<pc, loc>>
    BY ServeKeeps DEF AssetCreate, HoldingsInv
<1>2. pc[r] = "idle" BY DEF AssetCreate, Serve, Busy
<1>3. /\ asset' = [asset EXCEPT ![a] = new] /\ UNCHANGED lots
      /\ asset[a].status = "none" /\ DOMAIN asset = Asset
    BY DEF AssetCreate, HoldingsInv, AssetsOK
<1>4. AssetRow(new) /\ new.status # "none"
  <2>1. /\ t.cost \in Int /\ t.salvage \in Int /\ t.months \in Nat \ {0}
        /\ t.method \in {"straight_line", "declining_balance"}
      BY StockAssumption
  <2> QED BY <2>1 DEF AssetRow, AssetRows, WithinBase
<1> HIDE DEF new
<1>5. asset'[a] = new /\ \A b \in Asset \ {a} : asset'[b] = asset[b]
    BY <1>3
<1>6. \A b \in Asset : /\ asset'[b].status # "none" => AssetRow(asset'[b])
                       /\ asset[b].status # "none" => asset'[b] = asset[b]
    BY <1>3, <1>4, <1>5 DEF HoldingsInv, AssetsOK
<1> QED BY <1>1, <1>2, <1>3, <1>6, AssetStep
        DEF StaysOrEnds, AssetLabels, LotLabels, StockLabels

LEMMA DepreciateReadOK ==
    ASSUME HoldingsInv, NEW r \in Req, NEW a \in Asset, DepreciateRead(r, a)
    PROVE  HoldingsInv'
<1> DEFINE total == asset[a].accumulated + CapAtDepreciable(Charge(asset[a]), asset[a])
           d == [on |-> a, total |-> total]
<1>1. /\ asset[a].status = "active" /\ Begin(r, "depreciate", d)
      /\ d.on = a /\ d.total = total /\ UNCHANGED <<asset, lots>>
    BY DEF DepreciateRead, MayDepreciate, stockVars
<1>2. AssetRow(asset[a]) BY <1>1 DEF HoldingsInv, AssetsOK
<1>3. WithinBase(asset[a], total) BY <1>2, ChargeIsInt, CappedWithin
<1> HIDE DEF d, total
<1>4. Keeps(r) /\ pc'[r] = "depreciate" /\ loc'[r] = d
    BY <1>1, BeginKeeps DEF HoldingsInv
<1>5. \A b \in Asset : asset[b].status # "none" => AssetRow(asset[b])
    BY DEF HoldingsInv, AssetsOK
<1>6. DOMAIN asset' = Asset BY <1>1 DEF HoldingsInv, AssetsOK
<1>7. /\ loc'[r].on = a /\ loc'[r].total = total /\ asset' = asset /\ lots' = lots
      /\ asset[a].status # "none"
    BY <1>1, <1>4
<1> QED BY <1>3, <1>4, <1>5, <1>6, <1>7, AssetStep DEF AssetLabels, LotLabels, StockLabels

LEMMA DepreciateWriteOK ==
    ASSUME HoldingsInv, NEW r \in Req, DepreciateWrite(r) PROVE HoldingsInv'
<1> DEFINE a == loc[r].on
           total == loc[r].total
<1>1. /\ pc[r] = "depreciate" /\ End(r) /\ UNCHANGED lots
    BY DEF DepreciateWrite
<1>2. a \in Asset /\ asset[a].status # "none" /\ WithinBase(asset[a], total)
    BY <1>1 DEF HoldingsInv, AssetsOK, AssetHeld, AssetLabels
<1>3. PICK status \in {"fully_depreciated", "active"} :
        asset' = [asset EXCEPT ![a].accumulated = total, ![a].status = status]
    BY DEF DepreciateWrite
<1>4. DOMAIN asset = Asset /\ AssetRow(asset[a])
    BY <1>2 DEF HoldingsInv, AssetsOK
<1> HIDE DEF a, total
<1>5. /\ DOMAIN asset' = Asset
      /\ \A b \in Asset \ {a} : asset'[b] = asset[b]
      /\ asset'[a] = [[asset[a] EXCEPT !.accumulated = total] EXCEPT !.status = status]
    BY <1>2, <1>3, <1>4
<1>6. /\ asset'[a] \in AssetRows /\ asset'[a].status # "none" /\ asset'[a].accumulated = total
      /\ asset'[a].cost = asset[a].cost /\ asset'[a].salvage = asset[a].salvage
  <2>1. asset[a] \in AssetRows /\ total \in Nat BY <1>2, <1>4 DEF AssetRow, WithinBase
  <2>2. PICK t \in AssetRows : t = asset[a] BY <2>1
  <2>3. PICK u : u = [t EXCEPT !.accumulated = total] OBVIOUS
  <2>4. /\ u \in AssetRows /\ u.accumulated = total
        /\ u.cost = t.cost /\ u.salvage = t.salvage
      BY <2>1, <2>2, <2>3 DEF AssetRows
  <2>5. PICK new : new = [u EXCEPT !.status = status] OBVIOUS
  <2>6. /\ new \in AssetRows /\ new.status = status /\ new.accumulated = u.accumulated
        /\ new.cost = u.cost /\ new.salvage = u.salvage
      BY <1>3, <2>4, <2>5 DEF AssetRows
  <2>7. asset'[a] = new BY <1>5, <2>2, <2>3, <2>5
  <2> QED BY <1>3, <2>2, <2>4, <2>6, <2>7
<1>7. AssetRow(asset'[a]) BY <1>2, <1>6 DEF AssetRow, WithinBase
<1>8. Keeps(r) /\ pc'[r] = "idle"
    BY <1>1, EndKeeps DEF HoldingsInv, StaysOrEnds
<1>9. \A b \in Asset : asset[b].status # "none" => AssetRow(asset[b])
    BY DEF HoldingsInv, AssetsOK
<1> QED BY <1>1, <1>5, <1>6, <1>7, <1>8, <1>9, AssetStep
        DEF AssetLabels, LotLabels, StockLabels

LEMMA DisposeMarkOK ==
    ASSUME HoldingsInv, NEW r \in Req, DisposeMark(r) PROVE HoldingsInv'
<1> DEFINE a == loc[r].on
<1>1. /\ pc[r] = "dispose mark" /\ End(r) /\ UNCHANGED lots
      /\ asset' = [asset EXCEPT ![a].status = "disposed"]
    BY DEF DisposeMark
<1>2. a \in Asset /\ asset[a].status # "none"
    BY <1>1 DEF HoldingsInv, AssetsOK, AssetHeld, AssetLabels
<1>3. DOMAIN asset = Asset /\ AssetRow(asset[a])
    BY <1>2 DEF HoldingsInv, AssetsOK
<1> HIDE DEF a
<1>4. /\ DOMAIN asset' = Asset
      /\ \A b \in Asset \ {a} : asset'[b] = asset[b]
      /\ asset'[a] = [asset[a] EXCEPT !.status = "disposed"]
    BY <1>1, <1>2, <1>3
<1>5. /\ asset'[a] \in AssetRows /\ asset'[a].status = "disposed"
      /\ asset'[a].accumulated = asset[a].accumulated
      /\ asset'[a].cost = asset[a].cost /\ asset'[a].salvage = asset[a].salvage
    BY <1>3, <1>4 DEF AssetRow, AssetRows
<1>6. AssetRow(asset'[a]) BY <1>3, <1>5 DEF AssetRow, WithinBase
<1>7. Keeps(r) /\ pc'[r] = "idle"
    BY <1>1, EndKeeps DEF HoldingsInv, StaysOrEnds
<1>8. \A b \in Asset : asset[b].status # "none" => AssetRow(asset[b])
    BY DEF HoldingsInv, AssetsOK
<1> QED BY <1>1, <1>4, <1>5, <1>6, <1>7, <1>8, AssetStep
        DEF AssetLabels, LotLabels, StockLabels

LEMMA AssetGoesOn ==
    ASSUME HoldingsInv, NEW r \in Req, NEW label \in AssetLabels \ {"depreciate"}, NEW d,
           d.on \in Asset, asset[d.on].status # "none", UNCHANGED <<asset, lots>>,
           Begin(r, label, d) \/ (pc[r] \in AssetLabels /\ d = loc[r] /\ Goto(r, label, d))
    PROVE  HoldingsInv'
<1>0. RequestsOK BY DEF HoldingsInv
<1>1. label # "idle" /\ label \notin StockLabels \cup LotLabels
    BY DEF AssetLabels, LotLabels, StockLabels
<1>4. Keeps(r) /\ pc'[r] = label /\ loc'[r] = d
  <2>1. CASE Begin(r, label, d) BY <1>0, <1>1, <2>1, BeginKeeps
  <2>2. CASE pc[r] \in AssetLabels /\ d = loc[r] /\ Goto(r, label, d)
      BY <1>0, <2>2, GotoKeeps DEF AssetLabels
  <2> QED BY <2>1, <2>2
<1>5. /\ DOMAIN asset = Asset
      /\ \A b \in Asset : asset[b].status # "none" => AssetRow(asset[b])
    BY DEF HoldingsInv, AssetsOK
<1> QED BY <1>1, <1>4, <1>5, AssetStep

LEMMA AssetsNextOK ==
    ASSUME HoldingsInv, AssetsNext PROVE HoldingsInv'
<1>1. PICK r \in Req :
        \/ \E a \in Asset :
            \/ \E t \in AssetTerms : AssetCreate(r, a, t)
            \/ DepreciateRead(r, a)
            \/ \E p \in Proceeds : DisposeRead(r, a, p)
        \/ DepreciateWrite(r) \/ DisposePost(r) \/ DisposeMark(r)
        \/ CutOff(r) /\ UNCHANGED stockVars
    BY DEF AssetsNext
<1>2. ASSUME NEW a \in Asset, NEW p \in Proceeds, DisposeRead(r, a, p) PROVE HoldingsInv'
  <2> DEFINE d == [on |-> a, proceeds |-> p, lines |-> DisposalLines(asset[a], p)]
  <2>1. /\ asset[a].status # "none" /\ Begin(r, "dispose post", d) /\ d.on = a
        /\ UNCHANGED <<asset, lots>>
      BY <1>2 DEF DisposeRead, stockVars
  <2> HIDE DEF d
  <2> QED BY <2>1, AssetGoesOn DEF AssetLabels
<1>3. CASE DisposePost(r)
  <2>1. /\ pc[r] = "dispose post" /\ UNCHANGED <<asset, lots>>
        /\ End(r) \/ Goto(r, "dispose mark", loc[r])
      BY <1>3 DEF DisposePost
  <2>2. loc[r].on \in Asset /\ asset[loc[r].on].status # "none"
      BY <2>1 DEF HoldingsInv, AssetsOK, AssetHeld, AssetLabels
  <2> QED BY <2>1, <2>2, OverOK, AssetGoesOn DEF AssetLabels
<1>4. CASE CutOff(r) /\ UNCHANGED stockVars
    BY <1>4, OverOK DEF CutOff, stockVars
<1> QED BY <1>1, <1>2, <1>3, <1>4, AssetCreateOK, DepreciateReadOK, DepreciateWriteOK,
           DisposeMarkOK
-----------------------------------------------------------------------------
(* Lots. *)
Lot == [n : Nat \ {0}, gone : Nat]

(* One more lot, at the end. *)
LEMMA InsertLotOK ==
    ASSUME HoldingsInv, NEW r \in Req, NEW n \in LotQty, InsertLot(r, n) PROVE HoldingsInv'
<1> DEFINE new == [n |-> n, gone |-> 0]
<1>1. /\ Keeps(r) /\ UNCHANGED <<pc, loc>> /\ raced \subseteq raced'
    BY ServeKeeps DEF InsertLot, HoldingsInv, StaysOrEnds, Keeps
<1>2. new \in Lot /\ new.n = n /\ new.gone = 0 /\ n \in Nat \ {0}
    BY StockAssumption DEF Lot
<1>3. lots' = Append(lots, new) /\ UNCHANGED asset BY DEF InsertLot
<1>4. lots \in Seq(Lot) BY DEF HoldingsInv, LotsOK, Lot
<1> HIDE DEF new
<1>5. /\ lots' \in Seq(Lot) /\ DOMAIN lots \subseteq DOMAIN lots'
      /\ \A i \in DOMAIN lots : lots'[i] = lots[i]
      /\ \A i \in DOMAIN lots' : i \notin DOMAIN lots => lots'[i] = new
  <2>1. lots' \in Seq(Lot) /\ Len(lots') = Len(lots) + 1 BY <1>2, <1>3, <1>4
  <2>2. DOMAIN lots = 1..Len(lots) /\ DOMAIN lots' = 1..Len(lots') /\ Len(lots) \in Nat
      BY <1>4, <2>1
  <2> QED BY <1>2, <1>3, <1>4, <2>1, <2>2
<1>6. LotNotOversold'
    BY <1>1, <1>2, <1>5 DEF HoldingsInv, LotsOK, LotNotOversold
<1>7. \A q \in Req : LotHeld(q)'
    BY <1>1, <1>5 DEF HoldingsInv, LotsOK, LotHeld
<1>8. LotsOK' BY <1>5, <1>6, <1>7 DEF LotsOK, Lot
<1>9. AssetsOK' BY <1>1, <1>3, AssetsFrame DEF HoldingsInv
<1> QED BY <1>1, <1>8, <1>9 DEF HoldingsInv, Keeps

(* A sell begins, goes to its next lot or has picked one. *)
LEMMA LotGoesOn ==
    ASSUME HoldingsInv, NEW r \in Req, Keeps(r), UNCHANGED <<asset, lots>>,
           pc'[r] \in LotLabels, LotHeld(r)'
    PROVE  HoldingsInv'
<1>1. pc'[r] \notin AssetLabels \cup StockLabels
    BY DEF AssetLabels, StockLabels, LotLabels
<1>2. AssetsOK' BY <1>1, AssetsFrame DEF HoldingsInv
<1>3. \A q \in Req : LotHeld(q)'
  <2> SUFFICES ASSUME NEW q \in Req \ {r} PROVE LotHeld(q)'
      OBVIOUS
  <2>1. pc'[q] = pc[q] /\ loc'[q] = loc[q] /\ LotHeld(q) /\ raced \subseteq raced'
      BY DEF Keeps, HoldingsInv, LotsOK
  <2> QED BY <2>1 DEF LotHeld
<1>4. LotsOK' BY <1>3 DEF LotsOK, LotNotOversold, HoldingsInv, Keeps
<1> QED BY <1>1, <1>2, <1>4 DEF HoldingsInv, Keeps

LEMMA FifoBeginOK ==
    ASSUME HoldingsInv, NEW r \in Req, NEW n \in LotQty, FifoBegin(r, n) PROVE HoldingsInv'
<1> DEFINE d == [on |-> "lots", left |-> n]
<1>1. /\ Begin(r, "fifo pick", d) /\ UNCHANGED <<asset, lots>>
      /\ d.on = "lots" /\ d.left \in Nat
    BY StockAssumption DEF FifoBegin, stockVars
<1> HIDE DEF d
<1>0. RequestsOK /\ "fifo pick" # "idle" BY DEF HoldingsInv
<1>2. Keeps(r) /\ pc'[r] = "fifo pick" /\ loc'[r] = d
    BY <1>0, <1>1, BeginKeeps
<1> QED BY <1>1, <1>2, LotGoesOn DEF LotHeld, LotLabels

LEMMA FifoPickOK ==
    ASSUME HoldingsInv, NEW r \in Req, FifoPick(r) PROVE HoldingsInv'
<1>1. pc[r] = "fifo pick" /\ UNCHANGED <<asset, lots>> BY DEF FifoPick, stockVars
<1>2. loc[r].on = "lots" /\ loc[r].left \in Nat
    BY <1>1 DEF HoldingsInv, LotsOK, LotHeld, LotLabels
<1>3. CASE ~(loc[r].left > 0 /\ Open # {})
    BY <1>1, <1>3, OverOK DEF FifoPick
<1>4. CASE loc[r].left > 0 /\ Open # {}
  <2> DEFINE i == CHOOSE j \in Open : \A k \in Open : j <= k
             take == Lesser(lots[i].n - lots[i].gone, loc[r].left)
             d == [on |-> "lots", lot |-> i, left |-> loc[r].left, take |-> take]
  <2>1. Goto(r, "fifo insert", d) BY <1>4 DEF FifoPick
  <2>2. lots \in Seq(Lot) BY DEF HoldingsInv, LotsOK, Lot
  <2>3. i \in Open
    <3>1. Open \subseteq Nat BY <2>2 DEF Open
    <3>2. \E j \in Open : \A k \in Open : j <= k BY <1>4, <3>1, SmallestNat
    <3> QED BY <3>2
  <2>4. i \in DOMAIN lots /\ lots[i].n > lots[i].gone BY <2>3 DEF Open
  <2>5. /\ d.on = "lots" /\ d.lot = i /\ d.left = loc[r].left /\ d.take = take
      OBVIOUS
  <2> HIDE DEF d, i
  <2>6. lots[i].n \in Nat /\ lots[i].gone \in Nat
    <3>1. lots[i] \in Lot BY <2>2, <2>4
    <3> QED BY <3>1 DEF Lot
  <2>7. take \in Nat /\ take <= loc[r].left /\ take <= lots[i].n - lots[i].gone
      BY <1>2, <2>4, <2>6 DEF Lesser
  <2> HIDE DEF take
  <2>8. Keeps(r) /\ pc'[r] = "fifo insert" /\ loc'[r] = d
      BY <1>1, <1>2, <2>1, <2>5, GotoKeeps DEF HoldingsInv
  <2>9. LotHeld(r)' BY <1>1, <1>2, <2>4, <2>5, <2>7, <2>8 DEF LotHeld, LotLabels
  <2> QED BY <1>1, <2>8, <2>9, LotGoesOn DEF LotLabels
<1> QED BY <1>3, <1>4

(* The disposal is inserted: if no other sell is under way, what was left  *)
(* of the lot when it was picked still is.                                 *)
LEMMA FifoInsertOK ==
    ASSUME HoldingsInv, NEW r \in Req, FifoInsert(r) PROVE HoldingsInv'
<1> DEFINE i == loc[r].lot
           take == loc[r].take
           d == [on |-> "lots", left |-> loc[r].left - take]
<1>1. /\ pc[r] = "fifo insert" /\ UNCHANGED asset /\ Goto(r, "fifo pick", d)
      /\ lots' = [lots EXCEPT ![i].gone = @ + take]
    BY DEF FifoInsert
<1>2. /\ loc[r].on = "lots" /\ loc[r].left \in Nat
      /\ i \in DOMAIN lots /\ take \in Nat /\ take <= loc[r].left
      /\ "lots" \notin raced => take <= lots[i].n - lots[i].gone
    BY <1>1 DEF HoldingsInv, LotsOK, LotHeld, LotLabels
<1>3. d.on = "lots" /\ d.left \in Nat BY <1>2
<1>4. lots \in Seq(Lot) BY DEF HoldingsInv, LotsOK, Lot
<1> HIDE DEF d, i, take
<1>5. Keeps(r) /\ pc'[r] = "fifo pick" /\ loc'[r] = d /\ raced' = raced
    BY <1>1, <1>2, <1>3, GotoKeeps DEF HoldingsInv
<1>6. lots[i] \in Lot BY <1>2, <1>4
<1>7. PICK new : new = [lots[i] EXCEPT !.gone = lots[i].gone + take] OBVIOUS
<1>8. /\ new \in Lot /\ new.n = lots[i].n /\ new.gone = lots[i].gone + take
      /\ lots[i].gone \in Nat /\ lots[i].n \in Nat
    BY <1>2, <1>6, <1>7 DEF Lot
<1>9. lots' = [lots EXCEPT ![i] = new] BY <1>1, <1>2, <1>7
<1>10. /\ lots' \in Seq(Lot) /\ DOMAIN lots' = DOMAIN lots /\ lots'[i] = new
       /\ \A j \in DOMAIN lots \ {i} : lots'[j] = lots[j]
    BY <1>2, <1>4, <1>8, <1>9
<1>11. LotNotOversold'
  <2> SUFFICES ASSUME "lots" \notin raced, NEW j \in DOMAIN lots
               PROVE  lots'[j].gone <= lots'[j].n
      BY <1>5, <1>10 DEF LotNotOversold
  <2>1. CASE j = i BY <1>2, <1>8, <1>10, <2>1
  <2>2. CASE j # i BY <1>10, <2>2 DEF HoldingsInv, LotsOK, LotNotOversold
  <2> QED BY <2>1, <2>2
<1>12. \A q \in Req : LotHeld(q)'
  <2> SUFFICES ASSUME NEW q \in Req PROVE LotHeld(q)'
      OBVIOUS
  <2>1. CASE q = r BY <1>3, <1>5, <2>1 DEF LotHeld, LotLabels
  <2>2. CASE q # r
    <3>1. pc'[q] = pc[q] /\ loc'[q] = loc[q] /\ LotHeld(q)
        BY <1>5, <2>2 DEF Keeps, HoldingsInv, LotsOK
    <3>2. pc[q] \in LotLabels => "lots" \in raced
        BY <1>1, <1>2, <2>2, <3>1 DEF HoldingsInv, RequestsOK, Busy, LotHeld, LotLabels
    <3> QED BY <1>5, <1>10, <3>1, <3>2 DEF LotHeld, LotLabels
  <2> QED BY <2>1, <2>2
<1>13. LotsOK' BY <1>10, <1>11, <1>12 DEF LotsOK, Lot
<1>14. AssetsOK' BY <1>1, <1>5, AssetsFrame DEF HoldingsInv, AssetLabels
<1> QED BY <1>5, <1>13, <1>14 DEF HoldingsInv, Keeps, StockLabels

LEMMA LotsNextOK ==
    ASSUME HoldingsInv, LotsNext PROVE HoldingsInv'
<1>1. PICK r \in Req :
        \/ \E n \in LotQty : InsertLot(r, n) \/ FifoBegin(r, n)
        \/ FifoPick(r) \/ FifoInsert(r)
        \/ CutOff(r) /\ UNCHANGED stockVars
    BY DEF LotsNext
<1>2. CASE CutOff(r) /\ UNCHANGED stockVars
    BY <1>2, OverOK DEF CutOff, stockVars
<1> QED BY <1>1, <1>2, InsertLotOK, FifoBeginOK, FifoPickOK, FifoInsertOK

LEMMA HoldingsStutter ==
    ASSUME HoldingsInv, UNCHANGED <<reqVars, stockVars>> PROVE HoldingsInv'
    BY DEF HoldingsInv, reqVars, stockVars, RequestsOK, Busy, AssetsOK, AssetRow, WithinBase,
           AssetHeld, LotsOK, LotHeld, LotNotOversold

(* The inductive invariant of assets and lots. *)
THEOREM HoldingsInvariant == HoldingsSpec => []HoldingsInv
<1>1. HoldingsInv /\ [HoldingsNext]_<<reqVars, stockVars>> => HoldingsInv'
    BY StockNextOK, AssetsNextOK, LotsNextOK, HoldingsStutter DEF HoldingsNext
<1> QED BY <1>1, HoldingsInit, PTL DEF HoldingsSpec

(* However many runs of calculate_depreciation, disposals and sells        *)
(* overlap or are cut off, depreciation leaves every asset its salvage     *)
(* value, and fifo_match sells no lot twice unless two sells overlap.      *)
THEOREM HoldingsAreBounded == HoldingsSpec => [](AboveSalvage /\ LotNotOversold)
<1>1. HoldingsInv => AboveSalvage /\ LotNotOversold
  <2> SUFFICES ASSUME HoldingsInv PROVE AboveSalvage /\ LotNotOversold
      OBVIOUS
  <2>1. ASSUME NEW a \in Asset, asset[a].status # "none", asset[a].accumulated # 0
        PROVE  asset[a].cost - asset[a].accumulated >= asset[a].salvage
    <3>1. AssetRow(asset[a]) BY <2>1 DEF HoldingsInv, AssetsOK
    <3>2. /\ asset[a].cost \in Int /\ asset[a].salvage \in Int /\ asset[a].accumulated \in Nat
        BY <3>1, AssetRowIs
    <3> QED BY <2>1, <3>1, <3>2 DEF AssetRow, WithinBase
  <2> QED BY <2>1 DEF AboveSalvage, HoldingsInv, LotsOK
<1> QED BY <1>1, HoldingsInvariant, PTL
=============================================================================
