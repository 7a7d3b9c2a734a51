--------------------------- MODULE PostingService ---------------------------
(***************************************************************************)
(* domain/posting_service.rs: the journal's create, draft, promote,        *)
(* discard, approve and reject operations, and the override flow with      *)
(* which handlers/transactions.rs posts into a closed period.              *)
(***************************************************************************)
EXTENDS Books

NewRow(kind, d, a, s, u, n, o) ==
    [kind |-> kind, date |-> d, amount |-> a, shape |-> s, maker |-> u,
     number |-> n, reverses |-> o]

(* The id and the row that a create is about to insert. *)
NewId(a) == CHOOSE t \in TxnId : a.new[t] # NoRow
Planned(a) == a.new[NewId(a)]

-----------------------------------------------------------------------------
(* create and create_draft.  The lines were validated: they balance.  The  *)
(* transaction begins with ALTER TABLE postings DISABLE TRIGGER.           *)

CreateBegin(r, u) ==
    \E t \in TxnId, d \in Date, a \in Amount, s \in Shapes \ {"skew"},
       n \in CustomNumber \cup {0}, kind \in Kinds \cup {"draft"},
       ovr \in BOOLEAN :
        /\ kind = "draft" => "draft" \in Ops
        /\ kind # "draft" => "create" \in Ops
        /\ ovr => "override" \in Ops /\ kind = "standard"
        /\ Fresh(t)
        /\ Start(r, "lock_ledger",
                 [NoArg EXCEPT !.user = u, !.override = ovr,
                     !.new = OneRow(t, NewRow(kind, d, a, s, u, n, NoTxn))],
                 {Postings})
        /\ UNCHANGED tables

(* Fault: the ledger row is read without FOR UPDATE. *)
CreateLockLedgerUnlocked(r) ==
    /\ pc[r] = "lock_ledger"
    /\ Granted(r)
    /\ LET row == Planned(arg[r])
       IN  IF row.kind # "draft" /\ IsClosed(row.date) THEN Finish(r)
           ELSE Advance(r, "insert", {})
    /\ UNCHANGED tables

(* Fault: any writer's override_reason is accepted. *)
CreateLockLedgerAnyone(r) ==
    /\ pc[r] = "lock_ledger"
    /\ Granted(r)
    /\ LET row == Planned(arg[r])
           rejected == row.kind # "draft" /\ IsClosed(row.date)
       IN  \/ ~rejected /\ Advance(r, "insert", {LedgerRow})
           \/ /\ rejected /\ arg[r].override
              /\ pc' = [pc EXCEPT ![r] = "override_event"]
              /\ held' = [held EXCEPT ![r] = {}]
              /\ UNCHANGED arg
    /\ UNCHANGED tables

(* SELECT ... FROM ledgers FOR UPDATE, then the watermark check, which     *)
(* drafts skip.  HardClosed goes back to the handler: an owner who gave a  *)
(* reason continues with the override, anyone else gets 409.               *)
CreateLockLedger(r) ==
    /\ pc[r] = "lock_ledger"
    /\ Granted(r)
    /\ LET row == Planned(arg[r])
           rejected == row.kind # "draft" /\ IsClosed(row.date)
       IN  \/ ~rejected /\ Advance(r, "insert", {LedgerRow})
           \/ /\ rejected /\ arg[r].override /\ arg[r].user \in Owner
              /\ pc' = [pc EXCEPT ![r] = "override_event"]
              /\ \E w \in Date : /\ IsWatermark(w)
                                /\ arg' = [arg EXCEPT ![r].date = w]
              /\ held' = [held EXCEPT ![r] = {}]
           \/ /\ rejected /\ ~(arg[r].override /\ arg[r].user \in Owner)
              /\ Finish(r)
    /\ UNCHANGED tables

(* The number the row gets: the user's, or COUNT( * ) of the year plus one. *)
ResolvedNumber(row) ==
    IF row.number # 0 THEN row.number
    ELSE Cardinality(RowsOf(YearOf[row.date])) + 1

(* Maker-checker: standard and adjusting journals at or above the          *)
(* threshold are held.                                                     *)
MustHold(row) ==
    row.kind \in {"standard", "adjusting"} /\ row.amount >= threshold

(* Number, maker-checker gate, INSERT transaction and postings, COMMIT.    *)
(* The unique index refuses a number already used in the year, the foreign *)
(* key a reversal whose original is gone.  DISABLE TRIGGER commits too.    *)
CreateInsert(r) ==
    /\ pc[r] = "insert"
    /\ Granted(r)
    /\ LET row == Planned(arg[r])
           t == NewId(arg[r])
           n == ResolvedNumber(row)
           inserted == [row EXCEPT !.number = n,
                            !.kind = IF MustHold(row) THEN "pending" ELSE @]
           refused == \/ NumberTaken(YearOf[row.date], n)
                      \/ row.reverses # NoTxn /\ txns[row.reverses] = NoRow
       IN  \/ refused /\ Rollback(r)
           \/ /\ ~refused
              /\ txns' = [txns EXCEPT ![t] = inserted]
              /\ trigger' = FALSE
              /\ IF MustHold(row)
                   THEN /\ pc' = [pc EXCEPT ![r] = "approval"]
                        /\ arg' = [arg EXCEPT ![r] =
                                     [NoArg EXCEPT !.user = row.maker,
                                                   !.txn = t]]
                        /\ held' = [held EXCEPT ![r] = {}]
                   ELSE Finish(r)
              /\ UNCHANGED <<approvals, closed, reopens, threshold, appendOnly>>

(* After the commit, on the pool: INSERT INTO journal_approvals ...        *)
(* ON CONFLICT DO NOTHING.                                                 *)
CreateApproval(r) ==
    /\ pc[r] = "approval"
    /\ Granted(r)
    /\ LET t == arg[r].txn IN
       approvals' = IF approvals[t] # NoApproval THEN approvals
                    ELSE [approvals EXCEPT ![t] =
                            [status |-> "pending", maker |-> arg[r].user,
                             checker |-> NoUser]]
    /\ Finish(r)
    /\ UNCHANGED <<txns, closed, reopens, threshold, appendOnly, trigger>>

-----------------------------------------------------------------------------
(* The override flow of the web form: record the reopening, delete the     *)
(* watermarks at or after the date, try the write once more.               *)

(* Fault: the reopen_events row is left for later. *)
OverrideEventLater(r) ==
    /\ pc[r] = "override_event"
    /\ pc' = [pc EXCEPT ![r] = "override_lift"]
    /\ UNCHANGED <<tables, arg, held>>

OverrideEvent(r) ==
    /\ pc[r] = "override_event"
    /\ Granted(r)
    /\ reopens' = reopens \cup {<<arg[r].user, arg[r].date>>}
    /\ pc' = [pc EXCEPT ![r] = "override_lift"]
    /\ UNCHANGED <<txns, approvals, closed, threshold, appendOnly, trigger,
                   arg, held>>

(* DELETE FROM closed_periods WHERE closed_through >= d *)
Lift(d) == closed' = [y \in Year |-> IF closed[y] >= d THEN 0 ELSE closed[y]]

(* Fault: the retry may override again, and again. *)
OverrideLiftRepeated(r) ==
    /\ pc[r] = "override_lift"
    /\ Lift(Planned(arg[r]).date)
    /\ pc' = [pc EXCEPT ![r] = "alter"]
    /\ UNCHANGED <<txns, approvals, reopens, threshold, appendOnly, trigger,
                   arg, held>>

OverrideLift(r) ==
    /\ pc[r] = "override_lift"
    /\ Lift(Planned(arg[r]).date)
    /\ pc' = [pc EXCEPT ![r] = "alter"]
    /\ arg' = [arg EXCEPT ![r].override = FALSE]
    /\ UNCHANGED <<txns, approvals, reopens, threshold, appendOnly, trigger,
                   held>>

OverrideRetry(r) ==
    /\ pc[r] = "alter"
    /\ Advance(r, "lock_ledger", {Postings})
    /\ UNCHANGED tables

-----------------------------------------------------------------------------
(* post_draft: lock the ledger, lock and load the row, check its kind and  *)
(* the watermark, UPDATE kind.  The append-only trigger refuses the UPDATE. *)

PostDraftBegin(r, u, t) ==
    /\ "post_draft" \in Ops
    /\ Start(r, "load_draft", [NoArg EXCEPT !.user = u, !.txn = t], {LedgerRow})
    /\ UNCHANGED tables

PostDraftLoad(r) ==
    /\ pc[r] = "load_draft"
    /\ Granted(r)
    /\ LET row == txns[arg[r].txn]
           ok == row # NoRow /\ row.kind = "draft" /\ ~IsClosed(row.date)
       IN  \/ ok /\ Advance(r, "promote", {TxnRow(arg[r].txn)})
           \/ ~ok /\ Finish(r)
    /\ UNCHANGED tables

PostDraftPromote(r) ==
    /\ pc[r] = "promote"
    /\ txns' = IF appendOnly THEN txns
               ELSE [txns EXCEPT ![arg[r].txn].kind = "standard"]
    /\ Finish(r)
    /\ UNCHANGED <<approvals, closed, reopens, threshold, appendOnly, trigger>>

(* Fault: the kind is read without FOR UPDATE. *)
DeleteDraftBeginUnlocked(r, u, t) ==
    /\ "delete_draft" \in Ops
    /\ txns[t] # NoRow /\ txns[t].kind = "draft"
    /\ Start(r, "discard", [NoArg EXCEPT !.user = u, !.txn = t], {})
    /\ UNCHANGED tables

(* delete_draft: lock and load the row, which must be a draft; DELETE its  *)
(* postings and the row.  The approval row goes with it (ON DELETE         *)
(* CASCADE) and reversals of it lose their reference (ON DELETE SET NULL). *)
DeleteDraftBegin(r, u, t) ==
    /\ "delete_draft" \in Ops
    /\ txns[t] # NoRow
    /\ txns[t].kind = "draft"
    /\ Start(r, "discard", [NoArg EXCEPT !.user = u, !.txn = t], {TxnRow(t)})
    /\ UNCHANGED tables

DeleteDraft(r) ==
    /\ pc[r] = "discard"
    /\ Granted(r)
    /\ LET gone == arg[r].txn
       IN  \/ appendOnly /\ UNCHANGED <<txns, approvals>>
           \/ /\ ~appendOnly
              /\ txns' = [t \in TxnId |->
                    IF t = gone THEN NoRow
                    ELSE IF txns[t] # NoRow /\ txns[t].reverses = gone
                         THEN [txns[t] EXCEPT !.reverses = NoTxn]
                         ELSE txns[t]]
              /\ approvals' = [approvals EXCEPT ![gone] = NoApproval]
    /\ Finish(r)
    /\ UNCHANGED <<closed, reopens, threshold, appendOnly, trigger>>

-----------------------------------------------------------------------------
(* Fault: the maker may decide. *)
DecideBeginSelf(r, u, t, op) ==
    /\ op \in {"approve", "reject"} \cap Ops
    /\ approvals[t] # NoApproval /\ approvals[t].status = "pending"
    /\ Start(r, op, [NoArg EXCEPT !.user = u, !.txn = t], {ApprovalRow(t)})
    /\ UNCHANGED tables

(* Fault: a decided journal may be decided again. *)
DecideBeginAgain(r, u, t, op) ==
    /\ op \in {"approve", "reject"} \cap Ops
    /\ approvals[t] # NoApproval /\ approvals[t].maker # u
    /\ Start(r, op, [NoArg EXCEPT !.user = u, !.txn = t], {ApprovalRow(t)})
    /\ UNCHANGED tables

(* approve_journal and reject_journal: lock the approval row, which must   *)
(* be pending and of another maker; UPDATE the transaction, then the       *)
(* approval row.                                                           *)
DecideBegin(r, u, t, op) ==
    /\ op \in {"approve", "reject"} \cap Ops
    /\ approvals[t] # NoApproval
    /\ approvals[t].status = "pending"
    /\ approvals[t].maker # u
    /\ Start(r, op, [NoArg EXCEPT !.user = u, !.txn = t], {ApprovalRow(t)})
    /\ UNCHANGED tables

(* What both do: the transaction row gets the kind, the approval row the   *)
(* status and the checker.  The append-only trigger refuses the UPDATE.    *)
Decide(r, kind, status) ==
    /\ Granted(r)
    /\ LET t == arg[r].txn
       IN  \/ appendOnly /\ UNCHANGED <<txns, approvals>>
           \/ /\ ~appendOnly
              /\ txns' = [txns EXCEPT ![t].kind = kind]
              /\ approvals' = [approvals EXCEPT ![t].status = status,
                                                ![t].checker = arg[r].user]
    /\ Finish(r)
    /\ UNCHANGED <<closed, reopens, threshold, appendOnly, trigger>>

ApproveJournal(r) == pc[r] = "approve" /\ Decide(r, "standard", "approved")

RejectJournal(r) == pc[r] = "reject" /\ Decide(r, "draft", "rejected")
=============================================================================
