---------------------------- MODULE LedgerSystem ----------------------------
(***************************************************************************)
(* The write side of one ledger: every handler that writes transactions,   *)
(* approvals or the close watermark, interleaved step by step on one       *)
(* PostgreSQL database, with failures between any two steps.               *)
(***************************************************************************)
EXTENDS TransactionWriters

Begin(r) ==
    \E u \in User :
        \/ CreateBegin(r, u)
        \/ BulkDeleteBegin(r, u)
        \/ ApiCreateBegin(r, u)
        \/ \E t \in TxnId :
              \/ PostDraftBegin(r, u, t)
              \/ DeleteDraftBegin(r, u, t)
              \/ DecideBegin(r, u, t, "approve")
              \/ DecideBegin(r, u, t, "reject")
              \/ ReverseBegin(r, u, t)
              \/ EditBegin(r, u, t)
              \/ ApiReverseBegin(r, u, t)
        \/ \E d \in Date : ClosePeriodBegin(r, u, d)
        \/ \E d \in Date \cup {0} : ReopenDelete(r, u, d)
        \/ \E y \in Year : CloseYearBegin(r, u, y)

Continue(r) ==
    \/ CreateLockLedger(r)
    \/ CreateInsert(r)
    \/ CreateApproval(r)
    \/ OverrideEvent(r)
    \/ OverrideLift(r)
    \/ OverrideRetry(r)
    \/ PostDraftLoad(r)
    \/ PostDraftPromote(r)
    \/ DeleteDraft(r)
    \/ ApproveJournal(r)
    \/ RejectJournal(r)
    \/ ClosePeriodInsert(r)
    \/ ReopenEvent(r)
    \/ CloseYearTxn(r)
    \/ CloseYearCommit(r)
    \/ InsertTxn(r)
    \/ InsertPostings(r)

Next ==
    \/ \E r \in Req : Begin(r) \/ Continue(r) \/ Fail(r) \/ DeadlockAbort(r)
    \/ \E a \in Threshold : UpdateThreshold(a)
    \/ ToggleAppendOnly

Spec == Init /\ [][Next]_vars

(* PostgreSQL queues the waiters of a lock, so a request whose lock is     *)
(* free again and again gets it; and it ends a deadlock.                   *)
FairSpec ==
    /\ Spec
    /\ \A r \in Req : SF_vars(Continue(r)) /\ WF_vars(DeadlockAbort(r))

-----------------------------------------------------------------------------
(* PostingService (create, post_draft) never puts a row into the reports   *)
(* on a date that is closed at the moment it commits, whatever close,      *)
(* reopen or override requests run between its check and its commit: the   *)
(* FOR UPDATE lock on the ledger row keeps out the foreign key of          *)
(* INSERT INTO closed_periods.                                             *)
ServiceStep(r) == pc[r] \in {"insert", "promote"}
ServiceRespectsHardClose ==
    [][\A r \in Req, t \in TxnId :
          /\ ServiceStep(r) /\ pc'[r] # pc[r]
          /\ ~Posted(txns[t]) /\ Posted(txns'[t])
          => ~IsClosed(txns'[t].date)]_vars

(* A row in the books is final: no request, whatever it read before its    *)
(* last step, changes or deletes a posted row.  delete_draft re-reads the  *)
(* kind under the row lock; reject_journal writes kind 'draft' without     *)
(* looking, which is safe only because a pending approval row belongs to a *)
(* row of kind 'pending'.                                                  *)
Content(row) == <<row.kind, row.date, row.amount, row.shape, row.maker,
                  row.number>>
PostedIsFinal ==
    [][\A t \in TxnId : Posted(txns[t]) =>
          txns'[t] # NoRow /\ Content(txns'[t]) = Content(txns[t])]_vars

(* Maker and checker differ in every decision, the approval names the      *)
(* journal's own maker, and it agrees with the journal: undecided rows are *)
(* held, approved ones are in the books.                                   *)
SeparationOfDuties ==
    \A t \in TxnId : approvals[t] # NoApproval =>
        /\ txns[t] # NoRow
        /\ approvals[t].maker = txns[t].maker
        /\ approvals[t].status = "pending" => txns[t].kind = "pending"
        /\ approvals[t].status = "approved" => txns[t].kind = "standard"
        /\ approvals[t].status # "pending" =>
              approvals[t].checker \in User \ {approvals[t].maker}

(* A watermark is lifted by reopen_period or, in the override flow, after  *)
(* the reopen_events row with the overriding user is on disk.              *)
LiftIsAttributed ==
    [][\A y \in Year : closed[y] # 0 /\ closed'[y] = 0 =>
          \E r \in Req : /\ arg'[r].user \in Owner
                         /\ \/ pc'[r] = "reopen_event"
                            \/ /\ pc[r] = "override_lift"
                               /\ <<arg[r].user, arg[r].date>> \in reopens]_vars

(* The handlers keep the journal that module Journal promises.  An entry   *)
(* is a row of transactions without its id and its link to an original.    *)
PhaseOf(kind) == CASE kind = "draft" -> "draft"
                   [] kind = "pending" -> "held"
                   [] OTHER -> "posted"

NoEntry == [phase |-> "none"]
EntryOf(row) ==
    IF row = NoRow THEN NoEntry
    ELSE [phase |-> PhaseOf(row.kind), maker |-> row.maker,
          text |-> <<row.date, row.amount, row.shape, row.number>>]
CheckerOf(approval) ==
    IF approval = NoApproval THEN NoUser ELSE approval.checker

Entries == [t \in TxnId |-> EntryOf(txns[t])]
Checkers == [t \in TxnId |-> CheckerOf(approvals[t])]

Promise == INSTANCE Journal WITH Id <- TxnId, Nothing <- NoEntry,
                                 book <- Entries, checker <- Checkers

(* Every step of every handler is a step of Journal or leaves the journal  *)
(* as it is: a posted entry stays word for word, a draft is promoted or    *)
(* discarded, and a held one is let go by a user who is not its maker and  *)
(* whose name is on the approval row in the same instant.                  *)
JournalKept == Promise!Spec

(* Every request ends: no cycle of waits outlives the deadlock detector    *)
(* and no lock is kept by a finished request.                              *)
RequestsEnd == \A r \in Req : pc[r] # "idle" ~> pc[r] = "idle"
=============================================================================
