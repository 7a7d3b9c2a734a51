------------------------------ MODULE Closing ------------------------------
(***************************************************************************)
(* handlers/closing.rs: the close watermark, its reopening, the            *)
(* maker-checker threshold and the year-end close; and the append-only     *)
(* switch of handlers/ledgers.rs.                                          *)
(***************************************************************************)
EXTENDS PostingService

(* close_period reads the watermark on the pool, and refuses a date that   *)
(* is not after it ...                                                     *)
ClosePeriodBegin(r, u, d) ==
    /\ "close_period" \in Ops
    /\ u \in Owner
    /\ ~IsClosed(d)
    /\ Start(r, "close_insert", [NoArg EXCEPT !.user = u, !.date = d], {})
    /\ UNCHANGED tables

(* Fault: closed_periods.ledger_id without REFERENCES: nothing to wait for. *)
ClosePeriodInsertAnytime(r) ==
    /\ pc[r] = "close_insert"
    /\ closed' = [closed EXCEPT ![YearOf[arg[r].date]] = arg[r].date]
    /\ Finish(r)
    /\ UNCHANGED <<txns, approvals, reopens, threshold, appendOnly, trigger>>

(* ... then inserts, as a statement of its own.  UNIQUE(ledger_id,         *)
(* period_year) refuses a second row of the year.                          *)
ClosePeriodInsert(r) ==
    /\ pc[r] = "close_insert"
    /\ Granted(r)
    /\ LET d == arg[r].date
       IN  closed' = IF closed[YearOf[d]] = 0
                     THEN [closed EXCEPT ![YearOf[d]] = d]
                     ELSE closed
    /\ Finish(r)
    /\ UNCHANGED <<txns, approvals, reopens, threshold, appendOnly, trigger>>

(* reopen_period: DELETE the rows at or after the date (all of them when   *)
(* no date was given), then INSERT INTO reopen_events; two statements.     *)
ReopenDelete(r, u, d) ==
    /\ "reopen" \in Ops
    /\ u \in Owner
    /\ Start(r, "reopen_event", [NoArg EXCEPT !.user = u, !.date = d], {})
    /\ Lift(d)
    /\ UNCHANGED <<txns, approvals, reopens, threshold, appendOnly, trigger>>

ReopenEvent(r) ==
    /\ pc[r] = "reopen_event"
    /\ Granted(r)
    /\ reopens' = reopens \cup {<<arg[r].user, arg[r].date>>}
    /\ Finish(r)
    /\ UNCHANGED <<txns, approvals, closed, threshold, appendOnly, trigger>>

(* UPDATE ledgers waits for a FOR UPDATE of another transaction. *)
LedgerUpdatable == \A r \in Req : LedgerRow \notin held[r]

UpdateThreshold(a) ==
    /\ "threshold" \in Ops
    /\ LedgerUpdatable
    /\ threshold' = a
    /\ UNCHANGED <<txns, approvals, closed, reopens, appendOnly, trigger,
                   pc, arg, held>>

ToggleAppendOnly ==
    /\ "append_only" \in Ops
    /\ LedgerUpdatable
    /\ appendOnly' = ~appendOnly
    /\ UNCHANGED <<txns, approvals, closed, reopens, threshold, trigger,
                   pc, arg, held>>

-----------------------------------------------------------------------------
(* close_year: the year must have no row; the balances are read; the       *)
(* closing entry, whose legs depend on them, is inserted with the year's   *)
(* row in one transaction.                                                 *)

CloseYearBegin(r, u, y) ==
    \E t \in TxnId, a \in Amount, s \in Shapes :
        /\ "close_year" \in Ops
        /\ u \in Owner
        /\ closed[y] = 0
        /\ Fresh(t)
        /\ Start(r, "close_txn",
                 [NoArg EXCEPT !.user = u, !.date = YearEnd[y],
                     !.new = OneRow(t, NewRow("closing", YearEnd[y], a, s, u,
                                              0, NoTxn))],
                 {})
        /\ UNCHANGED tables

CloseYearTxn(r) ==
    /\ pc[r] = "close_txn"
    /\ Advance(r, "close_postings", {LedgerKey})
    /\ UNCHANGED tables

CloseYearCommit(r) ==
    /\ pc[r] = "close_postings"
    /\ Granted(r)
    /\ LET d == arg[r].date
           ok == TriggerAllows(arg[r].new) /\ closed[YearOf[d]] = 0
       IN  \/ ~ok /\ UNCHANGED <<txns, closed>>
           \/ /\ ok
              /\ txns' = Insert(txns, arg[r].new)
              /\ closed' = [closed EXCEPT ![YearOf[d]] = d]
    /\ Finish(r)
    /\ UNCHANGED <<approvals, reopens, threshold, appendOnly, trigger>>
=============================================================================
