------------------------- MODULE TransactionWriters -------------------------
(***************************************************************************)
(* The handlers that write transactions without PostingService: reverse    *)
(* and edit (handlers/transactions_edit.rs), bulk delete                   *)
(* (handlers/transactions_bulk.rs) and the REST create                     *)
(* (api/transactions.rs); and the REST reverse, which uses it.             *)
(***************************************************************************)
EXTENDS Closing

(* insert_reversal: the same legs with their directions flipped, today. *)
ReversalOf(t, u) ==
    NewRow("reversing", Today, txns[t].amount, txns[t].shape, u, 0, t)

(* reverse: lock the original, refuse a reversal, and refuse a closed      *)
(* original date or a closed today.                                        *)
ReverseBegin(r, u, t) ==
    \E n \in TxnId :
        /\ "reverse" \in Ops
        /\ txns[t] # NoRow
        /\ txns[t].kind # "reversing"
        /\ ~IsClosed(txns[t].date)
        /\ ~IsClosed(Today)
        /\ Fresh(n)
        /\ Start(r, "insert_txn",
                 [NoArg EXCEPT !.user = u, !.txn = t,
                               !.new = OneRow(n, ReversalOf(t, u))],
                 {TxnRow(t)})
        /\ UNCHANGED tables

(* edit: lock the original, refuse a reversal, and refuse a closed         *)
(* original or corrected date.  The lines of the form are not balanced     *)
(* here, and today is not compared with the watermark.                     *)
EditBegin(r, u, t) ==
    \E n, c \in TxnId, d \in Date, a \in Amount, s \in Shapes :
        /\ "edit" \in Ops
        /\ ~appendOnly
        /\ txns[t] # NoRow
        /\ txns[t].kind # "reversing"
        /\ ~IsClosed(txns[t].date)
        /\ ~IsClosed(d)
        /\ n # c /\ Fresh(n) /\ Fresh(c)
        /\ Start(r, "insert_txn",
                 [NoArg EXCEPT !.user = u, !.txn = t,
                     !.new = [OneRow(n, ReversalOf(t, u)) EXCEPT
                        ![c] = NewRow("standard", d, a, s, u, 0, NoTxn)]],
                 {TxnRow(t)})
        /\ UNCHANGED tables

(* bulk delete: a reversal of each selected row on the row's own date,     *)
(* without reference to it, whatever its kind, closed or not.  ids maps    *)
(* each original to its reversal.                                          *)
BulkDeleteBegin(r, u) ==
    \E S \in SUBSET {t \in TxnId : txns[t] # NoRow} :
        \E ids \in [S -> {t \in TxnId : Fresh(t)}] :
            /\ "bulk_delete" \in Ops
            /\ u \in Owner
            /\ S # {}
            /\ \A s, t \in S : s # t => ids[s] # ids[t]
            /\ Start(r, "insert_txn",
                     [NoArg EXCEPT !.user = u,
                         !.new = [n \in TxnId |->
                            IF \E s \in S : ids[s] = n
                            THEN LET o == txns[CHOOSE s \in S : ids[s] = n]
                                 IN  NewRow("reversing", o.date, o.amount,
                                            o.shape, u, 0, NoTxn)
                            ELSE NoRow]],
                     {})
            /\ UNCHANGED tables

(* REST create: balanced lines; date and kind are those of the body. *)
ApiCreateBegin(r, u) ==
    \E n \in TxnId, d \in Date, a \in Amount, s \in Shapes \ {"skew"},
       kind \in ApiKinds :
        /\ "api_create" \in Ops
        /\ u \in Owner
        /\ Fresh(n)
        /\ Start(r, "insert_txn",
                 [NoArg EXCEPT !.user = u,
                     !.new = OneRow(n, NewRow(kind, d, a, s, u, 0, NoTxn))],
                 {})
        /\ UNCHANGED tables

(* All four: INSERT INTO transactions takes the foreign key's lock ... *)
InsertTxn(r) ==
    /\ pc[r] = "insert_txn"
    /\ Advance(r, "insert_postings", {LedgerKey})
    /\ UNCHANGED tables

(* ... then the postings, under the balance trigger, and COMMIT. *)
InsertPostings(r) ==
    /\ pc[r] = "insert_postings"
    /\ Granted(r)
    /\ txns' = IF TriggerAllows(arg[r].new) THEN Insert(txns, arg[r].new)
               ELSE txns
    /\ Finish(r)
    /\ UNCHANGED <<approvals, closed, reopens, threshold, appendOnly, trigger>>

(* REST reverse: the original is read on the pool, not locked; then        *)
(* PostingService::create with kind reversing, which validates the balance. *)
ApiReverseBegin(r, u, t) ==
    \E n \in TxnId :
        /\ "api_reverse" \in Ops
        /\ u \in Owner
        /\ txns[t] # NoRow
        /\ txns[t].kind # "reversing"
        /\ txns[t].shape # "skew"
        /\ Fresh(n)
        /\ Start(r, "lock_ledger",
                 [NoArg EXCEPT !.user = u, !.txn = t,
                               !.new = OneRow(n, ReversalOf(t, u))],
                 {Postings})
        /\ UNCHANGED tables
=============================================================================
