------------------------------- MODULE Books -------------------------------
(***************************************************************************)
(* The tables of one ledger, the row and table locks PostgreSQL keeps for  *)
(* the requests in flight, and the steps every request is made of.  The    *)
(* modules PostingService, Closing and TransactionWriters add the          *)
(* handlers; LedgerSystem puts them together.                              *)
(*                                                                         *)
(* A request is a sequence of steps.  A database transaction shows nothing *)
(* to the others before it commits, so its writes happen in its last step; *)
(* the steps before it take locks and read.  A statement executed on the   *)
(* pool, outside a transaction, is a step of its own.  The first statement *)
(* of a request is part of the action that starts it.                      *)
(***************************************************************************)
EXTENDS Naturals, FiniteSets

CONSTANTS
    Req,            \* requests that may be in flight together
    TxnId,          \* ids of rows of the transactions table
    User,           \* users that ensure_writer lets in
    Owner,          \* those that ensure_owner_or_admin lets in
    Date,           \* dates, as positive numbers
    YearOf,         \* the year of a date
    YearEnd,        \* December 31 of a year
    Today,          \* the date Utc::now() returns
    Amount,         \* journal totals
    Kinds,          \* kinds callers of PostingService::create ask for
    ApiKinds,       \* kinds the body of a REST create may name
    Shapes,         \* forms of the lines users enter
    Threshold,      \* values of ledgers.approval_threshold
    CustomNumber,   \* transaction numbers a user may type in
    Ops,            \* the operations offered (a part of AllOps)
    NoTxn, NoRow, NoUser, NoApproval

Year == {YearOf[d] : d \in Date}

AllOps == {"create", "draft", "override", "post_draft", "delete_draft",
           "approve", "reject", "close_period", "reopen", "threshold",
           "append_only", "close_year", "reverse", "edit", "bulk_delete",
           "api_create", "api_reverse"}

Kind == {"standard", "adjusting", "reversing", "closing", "draft", "pending"}

(* What the balance of a row's postings depends on: two legs that balance, *)
(* three or more that balance, or legs whose debits differ from credits.   *)
Shape == {"pair", "split", "skew"}

Row == [kind : Kind, date : Date, amount : Amount, shape : Shape,
        maker : User, number : Nat, reverses : TxnId \cup {NoTxn}]

Table == [TxnId -> Row \cup {NoRow}]

Approval == [status : {"pending", "approved", "rejected"},
             maker : User, checker : User \cup {NoUser}]

ASSUME BooksAssumption ==
    /\ Owner \subseteq User
    /\ Date \subseteq Nat \ {0}
    /\ Today \in Date
    /\ YearOf \in [Date -> Nat]
    /\ YearEnd \in [Year -> Date]
    /\ \A d \in Date : d <= YearEnd[YearOf[d]]
    /\ \A y \in Year : YearOf[YearEnd[y]] = y
    /\ Amount \subseteq Nat
    /\ Kinds \subseteq {"standard", "adjusting"}
    /\ ApiKinds \subseteq Kind
    /\ Shapes \subseteq Shape
    /\ Threshold \subseteq Nat
    /\ Threshold # {}
    /\ CustomNumber \subseteq Nat \ {0}
    /\ Ops \subseteq AllOps
    /\ IsFiniteSet(TxnId)
    /\ NoTxn \notin TxnId
    /\ NoRow \notin Row
    /\ NoUser \notin User
    /\ NoApproval \notin Approval

VARIABLES
    txns,       \* transactions with their postings
    approvals,  \* journal_approvals, keyed by its UNIQUE txn_id
    closed,     \* closed_periods: year -> closed_through, 0 when no row
    reopens,    \* reopen_events
    threshold,  \* ledgers.approval_threshold
    appendOnly, \* ledgers.append_only
    trigger,    \* trg_posting_balance is enabled
    pc,         \* the step each request is at
    arg,        \* what each request carries from one step to the next
    held        \* the locks each request's transaction holds

tables == <<txns, approvals, closed, reopens, threshold, appendOnly, trigger>>
vars == <<txns, approvals, closed, reopens, threshold, appendOnly, trigger,
          pc, arg, held>>

-----------------------------------------------------------------------------
(* Locks, by the object they are on.  LedgerRow is SELECT ... FOR UPDATE   *)
(* on the ledgers row; LedgerKey is the FOR KEY SHARE lock a foreign key   *)
(* takes on it when a row that references it is inserted.  Postings is the *)
(* lock of ALTER TABLE postings, which also keeps out INSERT and DELETE.   *)

LedgerRow == <<"ledger row", NoTxn>>
LedgerKey == <<"ledger key", NoTxn>>
Postings == <<"postings", NoTxn>>
TxnRow(t) == <<"transaction", t>>
ApprovalRow(t) == <<"approval", t>>

Lock == {LedgerRow, LedgerKey, Postings} \cup
        ({"transaction", "approval"} \X TxnId)

Conflicts(l, m) ==
    \/ l = m /\ l # LedgerKey
    \/ l = LedgerRow /\ m = LedgerKey
    \/ l = LedgerKey /\ m = LedgerRow

(* No other request holds a lock that conflicts with l. *)
Free(r, l) == \A q \in Req \ {r} : \A m \in held[q] : ~Conflicts(l, m)

-----------------------------------------------------------------------------
(* What a request carries. *)

NoRows == [t \in TxnId |-> NoRow]

Arg == [user : User \cup {NoUser},      \* who asked
        txn : TxnId \cup {NoTxn},       \* the existing row it is about
        new : Table,                    \* the rows it will insert
        date : Date \cup {0},           \* a close date
        override : BOOLEAN]             \* override_reason was supplied

NoArg == [user |-> NoUser, txn |-> NoTxn, new |-> NoRows, date |-> 0,
          override |-> FALSE]

Steps == {"idle", "alter", "lock_ledger", "insert", "approval",
          "override_event", "override_lift", "load_draft", "promote",
          "discard", "approve", "reject", "close_insert", "reopen_event",
          "insert_txn", "insert_postings", "close_txn", "close_postings"}

(* An id that no row has and no request is about to use: gen_random_uuid() *)
Fresh(t) == txns[t] = NoRow /\ \A r \in Req : arg[r].new[t] = NoRow

OneRow(t, row) == [NoRows EXCEPT ![t] = row]

(* The rows of both tables. *)
Insert(table, new) ==
    [t \in TxnId |-> IF new[t] # NoRow THEN new[t] ELSE table[t]]

-----------------------------------------------------------------------------
(* Helpers of domain/close_controls.rs and the schema. *)

(* closed_through_in_tx / closed_through_for, then is_closed: the date is  *)
(* not after MAX(closed_through).                                          *)
IsClosed(d) == \E y \in Year : closed[y] # 0 /\ d <= closed[y]

(* w is MAX(closed_through). *)
IsWatermark(w) ==
    (\E y \in Year : closed[y] = w) /\ (\A y \in Year : closed[y] <= w)

(* The rows number_year counts: every row of the year, numbered or not. *)
RowsOf(y) == {t \in TxnId : txns[t] # NoRow /\ YearOf[txns[t].date] = y}

NumberTaken(y, n) == \E t \in RowsOf(y) : txns[t].number = n

(* The balance trigger fires after every posting row and raises when there *)
(* are two or more that do not balance: only a pair gets through.          *)
TriggerAllows(new) ==
    trigger => \A t \in TxnId : new[t] # NoRow => new[t].shape = "pair"

(* Rows that reports read: kind NOT IN ('draft','pending'). *)
Posted(row) == row # NoRow /\ row.kind \notin {"draft", "pending"}

-----------------------------------------------------------------------------
(* The steps of a request, as far as pc, arg and held go. *)

(* The request takes lock l and goes on to its step s carrying a. *)
Start(r, s, a, locks) ==
    /\ pc[r] = "idle"
    /\ \A l \in locks : Free(r, l)
    /\ pc' = [pc EXCEPT ![r] = s]
    /\ arg' = [arg EXCEPT ![r] = a]
    /\ held' = [held EXCEPT ![r] = locks]

Advance(r, s, locks) ==
    /\ \A l \in locks : Free(r, l)
    /\ pc' = [pc EXCEPT ![r] = s]
    /\ held' = [held EXCEPT ![r] = @ \cup locks]
    /\ UNCHANGED arg

(* COMMIT, ROLLBACK or the end of the handler: every lock is released. *)
Finish(r) ==
    /\ pc' = [pc EXCEPT ![r] = "idle"]
    /\ arg' = [arg EXCEPT ![r] = NoArg]
    /\ held' = [held EXCEPT ![r] = {}]

Rollback(r) == Finish(r) /\ UNCHANGED tables

(* The locks the next step of a request has to wait for. *)
Wants(r) ==
    CASE pc[r] = "alter" -> {Postings}
      [] pc[r] = "lock_ledger" -> {LedgerRow}
      [] pc[r] = "insert" -> {TxnRow(t) : t \in {arg[r].txn} \ {NoTxn}}
      [] pc[r] = "approval" -> {LedgerKey, TxnRow(arg[r].txn)}
      [] pc[r] \in {"load_draft", "approve", "reject"} -> {TxnRow(arg[r].txn)}
      [] pc[r] = "discard" -> {Postings, ApprovalRow(arg[r].txn)}
      [] pc[r] \in {"override_event", "close_insert", "reopen_event",
                    "insert_txn", "close_txn"} -> {LedgerKey}
      [] pc[r] \in {"insert_postings", "close_postings"} -> {Postings}
      [] OTHER -> {}

Granted(r) == \A l \in Wants(r) : Free(r, l)

(* The request waits for a lock that q holds. *)
WaitsFor(r, q) ==
    /\ q # r
    /\ \E l \in Wants(r), m \in held[q] : Conflicts(l, m)

(* A set of requests each of which waits for another member of the set. *)
Deadlocked(r) ==
    \E S \in SUBSET Req : r \in S /\ \A p \in S : \E q \in S : WaitsFor(p, q)

-----------------------------------------------------------------------------
Init ==
    /\ txns = NoRows
    /\ approvals = [t \in TxnId |-> NoApproval]
    /\ closed = [y \in Year |-> 0]
    /\ reopens = {}
    /\ threshold \in Threshold
    /\ appendOnly = FALSE
    /\ trigger = TRUE
    /\ pc = [r \in Req |-> "idle"]
    /\ arg = [r \in Req |-> NoArg]
    /\ held = [r \in Req |-> {}]

(* An error of the database or the end of the process: the transaction is  *)
(* rolled back and what follows in the handler never happens.              *)
Fail(r) == pc[r] # "idle" /\ Rollback(r)

(* PostgreSQL ends one of the transactions of a cycle of waits. *)
DeadlockAbort(r) == Deadlocked(r) /\ Rollback(r)

(* Type invariant: every table holds rows of its type and every request    *)
(* carries what its step needs.                                            *)
TypeOK ==
    /\ txns \in Table
    /\ approvals \in [TxnId -> Approval \cup {NoApproval}]
    /\ closed \in [Year -> Date \cup {0}]
    /\ reopens \in SUBSET (Owner \X (Date \cup {0}))
    /\ threshold \in Threshold
    /\ appendOnly \in BOOLEAN
    /\ trigger \in BOOLEAN
    /\ pc \in [Req -> Steps]
    /\ arg \in [Req -> Arg]
    /\ held \in [Req -> SUBSET Lock]
=============================================================================
