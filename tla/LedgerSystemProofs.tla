------------------------- MODULE LedgerSystemProofs -------------------------
(***************************************************************************)
(* Proofs that LedgerSystem keeps the type invariant, the separation of    *)
(* duties, the hard close in PostingService and the finality of posted     *)
(* rows, that no watermark is lifted without an owner's name on it, and    *)
(* that LedgerSystem implements Journal, for any number of requests,       *)
(* transactions, users and dates and any choice of operations.             *)
(***************************************************************************)
EXTENDS LedgerSystem, FiniteSetTheorems, TLAPS

(* What a request at step s, carrying a and holding the locks h, relies    *)
(* on.  Each clause is established by an earlier step of the request and   *)
(* has to survive every step of the others.                                *)
CreateSteps == {"lock_ledger", "insert", "override_event", "override_lift",
                "alter"}
RowSteps == {"load_draft", "promote", "discard", "approve", "reject",
             "approval"}
DateSteps == {"close_insert", "close_txn", "close_postings"}

IsDraft(t) == txns[t] # NoRow /\ txns[t].kind = "draft"

ReqOK(s, a, h) ==
    /\ s # "idle" => a.user \in User
    /\ s \in CreateSteps => \E t \in TxnId : a.new[t] # NoRow
    /\ s \in RowSteps => a.txn \in TxnId
    /\ s \in {"override_event", "override_lift", "reopen_event"} =>
          a.user \in Owner
    /\ s \in DateSteps => a.date \in Date
    /\ s = "insert" =>
          /\ LedgerRow \in h
          /\ Planned(a).kind # "draft" => ~IsClosed(Planned(a).date)
    /\ s = "load_draft" => LedgerRow \in h
    /\ s = "promote" => /\ LedgerRow \in h
                        /\ TxnRow(a.txn) \in h
                        /\ IsDraft(a.txn)
                        /\ ~IsClosed(txns[a.txn].date)
    /\ s = "discard" => TxnRow(a.txn) \in h /\ IsDraft(a.txn)
    /\ s \in {"approve", "reject"} => /\ ApprovalRow(a.txn) \in h
                                      /\ approvals[a.txn] # NoApproval
                                      /\ approvals[a.txn].status = "pending"
                                      /\ approvals[a.txn].maker # a.user
    /\ s = "approval" => /\ txns[a.txn] # NoRow
                         /\ txns[a.txn].kind = "pending"
                         /\ txns[a.txn].maker = a.user
                         /\ approvals[a.txn] = NoApproval
    /\ s = "close_postings" => LedgerKey \in h

RequestsOK ==
    \A r \in Req : \A s \in {pc[r]}, a \in {arg[r]}, h \in {held[r]} :
        ReqOK(s, a, h)

(* Two requests never hold conflicting locks ... *)
LocksExclusive ==
    \A r, q \in Req : r # q =>
        \A l \in held[r], m \in held[q] : ~Conflicts(l, m)

(* ... never plan to insert the same id, nor an id that is in use ... *)
IdsReserved ==
    /\ \A r \in Req, t \in TxnId : arg[r].new[t] # NoRow => txns[t] = NoRow
    /\ \A r, q \in Req, t \in TxnId :
          r # q /\ arg[r].new[t] # NoRow => arg[q].new[t] = NoRow

(* ... and never owe the approval row of the same journal. *)
ApprovalsOwed ==
    \A r, q \in Req : r # q /\ pc[r] = "approval" /\ pc[q] = "approval" =>
        arg[r].txn # arg[q].txn

IInv ==
    /\ TypeOK
    /\ RequestsOK
    /\ LocksExclusive
    /\ IdsReserved
    /\ ApprovalsOwed
    /\ SeparationOfDuties

-----------------------------------------------------------------------------
(* What a request relies on is about three tables only. *)
LEMMA ReqFrame ==
    ASSUME NEW s, NEW a, NEW h, ReqOK(s, a, h),
           UNCHANGED <<txns, approvals, closed>>
    PROVE  ReqOK(s, a, h)'
  BY DEF ReqOK, IsDraft, IsClosed, Planned, NewId

(* A request that starts with fresh ids, and what its step relies on,      *)
(* disturbs no other.                                                      *)
LEMMA StartOK ==
    ASSUME IInv, NEW r \in Req, NEW s \in Steps, NEW a \in Arg,
           NEW locks \in SUBSET Lock, Start(r, s, a, locks), UNCHANGED tables,
           ReqOK(s, a, locks), s # "approval",
           \A t \in TxnId : a.new[t] # NoRow => Fresh(t)
    PROVE  IInv'
<1> USE DEF IInv
<1>1. TypeOK'
  BY DEF TypeOK, Start, tables
<1>2. RequestsOK'
  BY ReqFrame DEF RequestsOK, Start, TypeOK, tables
<1>3. LocksExclusive'
  BY DEF LocksExclusive, Start, TypeOK, Free, Conflicts
<1>4. IdsReserved'
  BY DEF IdsReserved, Start, TypeOK, Fresh, tables
<1>5. ApprovalsOwed'
  BY DEF ApprovalsOwed, Start, TypeOK
<1>6. SeparationOfDuties'
  BY DEF SeparationOfDuties, tables
<1> QED BY <1>1, <1>2, <1>3, <1>4, <1>5, <1>6

(* Ending a request, its tables unchanged, disturbs no other. *)
LEMMA RollbackOK ==
    ASSUME IInv, NEW r \in Req, Rollback(r)
    PROVE  IInv'
<1> USE DEF IInv
<1>0. NoArg \in Arg /\ NoArg.new = NoRows
  BY DEF NoArg, Arg, NoRows, Table
<1>1. TypeOK'
  BY <1>0 DEF TypeOK, Rollback, Finish, tables, Steps
<1>2. RequestsOK'
  <2>1. ReqOK("idle", NoArg, {})
    BY DEF ReqOK, CreateSteps, RowSteps, DateSteps
  <2> QED BY <2>1, ReqFrame DEF RequestsOK, Rollback, Finish, TypeOK, tables
<1>3. LocksExclusive'
  BY DEF LocksExclusive, Rollback, Finish, TypeOK
<1>4. IdsReserved'
  BY <1>0 DEF IdsReserved, Rollback, Finish, TypeOK, NoRows, tables
<1>5. ApprovalsOwed'
  BY DEF ApprovalsOwed, Rollback, Finish, TypeOK
<1>6. SeparationOfDuties'
  BY DEF SeparationOfDuties, Rollback, tables
<1> QED BY <1>1, <1>2, <1>3, <1>4, <1>5, <1>6

(* Taking more locks on the way to a step that may rely on them. *)
LEMMA AdvanceOK ==
    ASSUME IInv, NEW r \in Req, NEW s \in Steps, NEW locks \in SUBSET Lock,
           Advance(r, s, locks), UNCHANGED tables,
           ReqOK(s, arg[r], held[r] \cup locks), s # "approval"
    PROVE  IInv'
<1> USE DEF IInv
<1>1. TypeOK'
  BY DEF TypeOK, Advance, tables
<1>2. RequestsOK'
  <2>1. SUFFICES ASSUME NEW q \in Req, NEW p \in {pc'[q]}, NEW a \in {arg'[q]},
                        NEW h \in {held'[q]}
                 PROVE  ReqOK(p, a, h)'
    BY DEF RequestsOK
  <2>2. UNCHANGED <<txns, approvals, closed>> /\ a = arg[q]
    BY DEF Advance, tables
  <2>3. ReqOK(p, a, h)
    <3>1. CASE q = r
      BY <3>1, <2>2 DEF Advance, TypeOK
    <3>2. CASE q # r
      BY <3>2, <2>2 DEF Advance, TypeOK, RequestsOK
    <3> QED BY <3>1, <3>2
  <2> QED BY <2>2, <2>3, ReqFrame
<1>3. LocksExclusive'
  BY DEF LocksExclusive, Advance, TypeOK, Free, Conflicts
<1>4. IdsReserved'
  BY DEF IdsReserved, Advance, tables
<1>5. ApprovalsOwed'
  BY DEF ApprovalsOwed, Advance, TypeOK
<1>6. SeparationOfDuties'
  BY DEF SeparationOfDuties, tables
<1> QED BY <1>1, <1>2, <1>3, <1>4, <1>5, <1>6

-----------------------------------------------------------------------------
(* The actions that start a request. *)

(* OneRow builds a table of the right type.                                *)
LEMMA OneRowType ==
    ASSUME NEW t \in TxnId, NEW row \in Row
    PROVE  /\ OneRow(t, row) \in Table
           /\ OneRow(t, row)[t] = row
           /\ row # NoRow
           /\ \A x \in TxnId : x # t => OneRow(t, row)[x] = NoRow
  BY BooksAssumption DEF OneRow, NoRows, Table

(* The reversal of an existing row is a row.                               *)
LEMMA ReversalType ==
    ASSUME TypeOK, NEW t \in TxnId, NEW u \in User, txns[t] # NoRow
    PROVE  ReversalOf(t, u) \in Row
<1>1. txns[t] \in Row
  BY DEF TypeOK, Table
<1> QED BY <1>1, BooksAssumption DEF ReversalOf, NewRow, Row, Kind

(* CreateBegin keeps the invariant: the row it plans has the right type    *)
(* and its locks are recorded.                                             *)
LEMMA CreateBeginOK ==
    ASSUME IInv, NEW r \in Req, NEW u \in User, CreateBegin(r, u)
    PROVE  IInv'
<1>1. PICK t \in TxnId, d \in Date, am \in Amount, s \in Shapes \ {"skew"},
           n \in CustomNumber \cup {0}, kind \in Kinds \cup {"draft"},
           ovr \in BOOLEAN :
        /\ Fresh(t)
        /\ Start(r, "lock_ledger",
                 [NoArg EXCEPT !.user = u, !.override = ovr,
                     !.new = OneRow(t, NewRow(kind, d, am, s, u, n, NoTxn))],
                 {Postings})
        /\ UNCHANGED tables
  BY DEF CreateBegin
<1> DEFINE row == NewRow(kind, d, am, s, u, n, NoTxn)
           a == [NoArg EXCEPT !.user = u, !.override = ovr, !.new = OneRow(t, row)]
<1>2. row \in Row
  BY BooksAssumption DEF NewRow, Row, Kind, Shape
<1>3. a \in Arg /\ a.user = u /\ a.new = OneRow(t, row)
  BY <1>2, OneRowType DEF NoArg, Arg
<1>4. ReqOK("lock_ledger", a, {Postings})
  BY <1>2, <1>3, OneRowType DEF ReqOK, CreateSteps, RowSteps, DateSteps
<1>5. \A x \in TxnId : a.new[x] # NoRow => Fresh(x)
  BY <1>1, <1>2, <1>3, OneRowType
<1>6. Start(r, "lock_ledger", a, {Postings})
  BY <1>1
<1> HIDE DEF a, row
<1> QED BY <1>1, <1>3, <1>4, <1>5, <1>6, StartOK DEF Steps, Lock

(* ApiCreateBegin keeps the invariant: the row it plans has the right      *)
(* type and its locks are recorded.                                        *)
LEMMA ApiCreateBeginOK ==
    ASSUME IInv, NEW r \in Req, NEW u \in User, ApiCreateBegin(r, u)
    PROVE  IInv'
<1>1. PICK t \in TxnId, d \in Date, am \in Amount, s \in Shapes \ {"skew"},
           kind \in ApiKinds :
        /\ Fresh(t)
        /\ Start(r, "insert_txn",
                 [NoArg EXCEPT !.user = u,
                     !.new = OneRow(t, NewRow(kind, d, am, s, u, 0, NoTxn))],
                 {})
        /\ UNCHANGED tables
  BY DEF ApiCreateBegin
<1> DEFINE row == NewRow(kind, d, am, s, u, 0, NoTxn)
           a == [NoArg EXCEPT !.user = u, !.new = OneRow(t, row)]
<1>2. row \in Row
  BY BooksAssumption DEF NewRow, Row, Kind, Shape
<1>3. a \in Arg /\ a.user = u /\ a.new = OneRow(t, row)
  BY <1>2, OneRowType DEF NoArg, Arg
<1>4. ReqOK("insert_txn", a, {})
  BY <1>3 DEF ReqOK, CreateSteps, RowSteps, DateSteps
<1>5. \A x \in TxnId : a.new[x] # NoRow => Fresh(x)
  BY <1>1, <1>2, <1>3, OneRowType
<1>6. Start(r, "insert_txn", a, {})
  BY <1>1
<1> HIDE DEF a, row
<1> QED BY <1>1, <1>3, <1>4, <1>5, <1>6, StartOK DEF Steps, Lock

(* CloseYearBegin keeps the invariant: the row it plans has the right      *)
(* type and its locks are recorded.                                        *)
LEMMA CloseYearBeginOK ==
    ASSUME IInv, NEW r \in Req, NEW u \in User, NEW y \in Year,
           CloseYearBegin(r, u, y)
    PROVE  IInv'
<1>1. PICK t \in TxnId, am \in Amount, s \in Shapes :
        /\ Fresh(t)
        /\ Start(r, "close_txn",
                 [NoArg EXCEPT !.user = u, !.date = YearEnd[y],
                     !.new = OneRow(t, NewRow("closing", YearEnd[y], am, s, u,
                                              0, NoTxn))],
                 {})
        /\ UNCHANGED tables
  BY DEF CloseYearBegin
<1> DEFINE row == NewRow("closing", YearEnd[y], am, s, u, 0, NoTxn)
           a == [NoArg EXCEPT !.user = u, !.date = YearEnd[y],
                              !.new = OneRow(t, row)]
<1>0. YearEnd[y] \in Date
  BY BooksAssumption
<1>2. row \in Row
  BY <1>0, BooksAssumption DEF NewRow, Row, Kind, Shape
<1>3. a \in Arg /\ a.user = u /\ a.new = OneRow(t, row) /\ a.date \in Date
  BY <1>0, <1>2, OneRowType DEF NoArg, Arg
<1>4. ReqOK("close_txn", a, {})
  BY <1>3 DEF ReqOK, CreateSteps, RowSteps, DateSteps
<1>5. \A x \in TxnId : a.new[x] # NoRow => Fresh(x)
  BY <1>1, <1>2, <1>3, OneRowType
<1>6. Start(r, "close_txn", a, {})
  BY <1>1
<1> HIDE DEF a, row
<1> QED BY <1>1, <1>3, <1>4, <1>5, <1>6, StartOK DEF Steps, Lock

(* ReverseBegin keeps the invariant: the row it plans has the right type   *)
(* and its locks are recorded.                                             *)
LEMMA ReverseBeginOK ==
    ASSUME IInv, NEW r \in Req, NEW u \in User, NEW t \in TxnId,
           ReverseBegin(r, u, t)
    PROVE  IInv'
<1>1. PICK n \in TxnId :
        /\ Fresh(n) /\ txns[t] # NoRow
        /\ Start(r, "insert_txn",
                 [NoArg EXCEPT !.user = u, !.txn = t,
                               !.new = OneRow(n, ReversalOf(t, u))],
                 {TxnRow(t)})
        /\ UNCHANGED tables
  BY DEF ReverseBegin
<1>2. PICK row \in Row : row = ReversalOf(t, u)
  BY <1>1, ReversalType DEF IInv
<1> DEFINE a == [NoArg EXCEPT !.user = u, !.txn = t, !.new = OneRow(n, row)]
<1>3. a \in Arg /\ a.user = u /\ a.new = OneRow(n, row)
  BY <1>2, OneRowType DEF NoArg, Arg
<1>4. ReqOK("insert_txn", a, {TxnRow(t)})
  BY <1>3 DEF ReqOK, CreateSteps, RowSteps, DateSteps
<1>5. \A x \in TxnId : a.new[x] # NoRow => Fresh(x)
  BY <1>1, <1>2, <1>3, OneRowType
<1>6. Start(r, "insert_txn", a, {TxnRow(t)})
  BY <1>1, <1>2
<1> HIDE DEF a
<1> QED BY <1>1, <1>3, <1>4, <1>5, <1>6, StartOK DEF Steps, Lock, TxnRow

(* ApiReverseBegin keeps the invariant: the row it plans has the right     *)
(* type and its locks are recorded.                                        *)
LEMMA ApiReverseBeginOK ==
    ASSUME IInv, NEW r \in Req, NEW u \in User, NEW t \in TxnId,
           ApiReverseBegin(r, u, t)
    PROVE  IInv'
<1>1. PICK n \in TxnId :
        /\ Fresh(n) /\ txns[t] # NoRow
        /\ Start(r, "lock_ledger",
                 [NoArg EXCEPT !.user = u, !.txn = t,
                               !.new = OneRow(n, ReversalOf(t, u))],
                 {Postings})
        /\ UNCHANGED tables
  BY DEF ApiReverseBegin
<1>2. PICK row \in Row : row = ReversalOf(t, u)
  BY <1>1, ReversalType DEF IInv
<1> DEFINE a == [NoArg EXCEPT !.user = u, !.txn = t, !.new = OneRow(n, row)]
<1>3. a \in Arg /\ a.user = u /\ a.new = OneRow(n, row)
  BY <1>2, OneRowType DEF NoArg, Arg
<1>4. ReqOK("lock_ledger", a, {Postings})
  BY <1>2, <1>3, OneRowType DEF ReqOK, CreateSteps, RowSteps, DateSteps
<1>5. \A x \in TxnId : a.new[x] # NoRow => Fresh(x)
  BY <1>1, <1>2, <1>3, OneRowType
<1>6. Start(r, "lock_ledger", a, {Postings})
  BY <1>1, <1>2
<1> HIDE DEF a
<1> QED BY <1>1, <1>3, <1>4, <1>5, <1>6, StartOK DEF Steps, Lock

(* EditBegin keeps the invariant: the row it plans has the right type and  *)
(* its locks are recorded.                                                 *)
LEMMA EditBeginOK ==
    ASSUME IInv, NEW r \in Req, NEW u \in User, NEW t \in TxnId,
           EditBegin(r, u, t)
    PROVE  IInv'
<1>1. PICK n, c \in TxnId, d \in Date, am \in Amount, s \in Shapes :
        /\ n # c /\ Fresh(n) /\ Fresh(c) /\ txns[t] # NoRow
        /\ Start(r, "insert_txn",
                 [NoArg EXCEPT !.user = u, !.txn = t,
                     !.new = [OneRow(n, ReversalOf(t, u)) EXCEPT
                        ![c] = NewRow("standard", d, am, s, u, 0, NoTxn)]],
                 {TxnRow(t)})
        /\ UNCHANGED tables
  BY DEF EditBegin
<1>2. PICK row \in Row : row = ReversalOf(t, u)
  BY <1>1, ReversalType DEF IInv
<1>3. PICK cor \in Row : cor = NewRow("standard", d, am, s, u, 0, NoTxn)
  BY BooksAssumption DEF NewRow, Row, Kind, Shape
<1> DEFINE new == [OneRow(n, row) EXCEPT ![c] = cor]
           a == [NoArg EXCEPT !.user = u, !.txn = t, !.new = new]
<1>4. new \in Table /\ \A x \in TxnId : x \notin {n, c} => new[x] = NoRow
  BY <1>2, <1>3, OneRowType DEF Table
<1>5. a \in Arg /\ a.user = u /\ a.new = new
  BY <1>4 DEF NoArg, Arg
<1>6. ReqOK("insert_txn", a, {TxnRow(t)})
  BY <1>5 DEF ReqOK, CreateSteps, RowSteps, DateSteps
<1>7. \A x \in TxnId : a.new[x] # NoRow => Fresh(x)
  BY <1>1, <1>4, <1>5
<1>8. Start(r, "insert_txn", a, {TxnRow(t)})
  BY <1>1, <1>2, <1>3
<1> HIDE DEF a, new
<1> QED BY <1>1, <1>5, <1>6, <1>7, <1>8, StartOK DEF Steps, Lock, TxnRow

(* BulkDeleteBegin keeps the invariant: the row it plans has the right     *)
(* type and its locks are recorded.                                        *)
LEMMA BulkDeleteBeginOK ==
    ASSUME IInv, NEW r \in Req, NEW u \in User, BulkDeleteBegin(r, u)
    PROVE  IInv'
<1>0. PICK S \in SUBSET {t \in TxnId : txns[t] # NoRow} :
        \E ids \in [S -> {t \in TxnId : Fresh(t)}] :
        /\ Start(r, "insert_txn",
                 [NoArg EXCEPT !.user = u,
                     !.new = [n \in TxnId |->
                        IF \E s \in S : ids[s] = n
                        THEN LET o == txns[CHOOSE s \in S : ids[s] = n]
                             IN  NewRow("reversing", o.date, o.amount,
                                        o.shape, u, 0, NoTxn)
                        ELSE NoRow]],
                 {})
        /\ UNCHANGED tables
  BY DEF BulkDeleteBegin
<1>1. PICK ids \in [S -> {t \in TxnId : Fresh(t)}] :
        /\ Start(r, "insert_txn",
                 [NoArg EXCEPT !.user = u,
                     !.new = [n \in TxnId |->
                        IF \E s \in S : ids[s] = n
                        THEN LET o == txns[CHOOSE s \in S : ids[s] = n]
                             IN  NewRow("reversing", o.date, o.amount,
                                        o.shape, u, 0, NoTxn)
                        ELSE NoRow]],
                 {})
        /\ UNCHANGED tables
  BY <1>0
<1> DEFINE Mirror(o) == NewRow("reversing", o.date, o.amount, o.shape, u, 0,
                               NoTxn)
           src(n) == CHOOSE s \in S : ids[s] = n
           new == [n \in TxnId |-> IF \E s \in S : ids[s] = n
                                   THEN Mirror(txns[src(n)]) ELSE NoRow]
           a == [NoArg EXCEPT !.user = u, !.new = new]
<1>2. ASSUME NEW n \in TxnId, \E s \in S : ids[s] = n
      PROVE  Mirror(txns[src(n)]) \in Row
  <2>1. src(n) \in S
    BY <1>2
  <2>2. PICK o \in Row : o = txns[src(n)]
    BY <2>1 DEF IInv, TypeOK, Table
  <2> QED BY <2>2, BooksAssumption DEF NewRow, Row, Kind
<1>3. new \in Table /\ \A n \in TxnId : new[n] # NoRow => Fresh(n)
  <2> HIDE DEF Mirror, src
  <2> QED BY <1>2 DEF Table
<1>4. a \in Arg /\ a.user = u /\ a.new = new
  <2> HIDE DEF new
  <2> QED BY <1>3 DEF NoArg, Arg
<1>5. ReqOK("insert_txn", a, {})
  BY <1>4 DEF ReqOK, CreateSteps, RowSteps, DateSteps
<1>6. Start(r, "insert_txn", a, {})
  BY <1>1
<1> HIDE DEF a, new
<1> QED BY <1>1, <1>3, <1>4, <1>5, <1>6, StartOK DEF Steps

(* The starts that insert nothing. *)
LEMMA PlainBeginOK ==
    ASSUME IInv, NEW r \in Req, NEW s \in Steps, NEW a \in Arg,
           NEW locks \in SUBSET Lock, Start(r, s, a, locks), UNCHANGED tables,
           ReqOK(s, a, locks), s # "approval", a.new = NoRows
    PROVE  IInv'
  BY StartOK DEF NoRows

(* PostDraftBegin keeps the invariant: it plans no row and holds the       *)
(* ledger row.                                                             *)
LEMMA PostDraftBeginOK ==
    ASSUME IInv, NEW r \in Req, NEW u \in User, NEW t \in TxnId,
           PostDraftBegin(r, u, t)
    PROVE  IInv'
<1> DEFINE a == [NoArg EXCEPT !.user = u, !.txn = t]
<1>1. a \in Arg /\ a.new = NoRows /\ a.user = u /\ a.txn = t
  BY DEF NoArg, Arg, NoRows, Table
<1>2. Start(r, "load_draft", a, {LedgerRow}) /\ UNCHANGED tables
  BY DEF PostDraftBegin
<1> HIDE DEF a
<1>3. ReqOK("load_draft", a, {LedgerRow})
  BY <1>1 DEF ReqOK, CreateSteps, RowSteps, DateSteps
<1> QED BY <1>1, <1>2, <1>3, PlainBeginOK DEF Steps, Lock

(* DeleteDraftBegin keeps the invariant: it holds the row, which it found  *)
(* to be a draft.                                                          *)
LEMMA DeleteDraftBeginOK ==
    ASSUME IInv, NEW r \in Req, NEW u \in User, NEW t \in TxnId,
           DeleteDraftBegin(r, u, t)
    PROVE  IInv'
<1> DEFINE a == [NoArg EXCEPT !.user = u, !.txn = t]
<1>1. a \in Arg /\ a.new = NoRows /\ a.user = u /\ a.txn = t
  BY DEF NoArg, Arg, NoRows, Table
<1>2. Start(r, "discard", a, {TxnRow(t)}) /\ UNCHANGED tables
  BY DEF DeleteDraftBegin
<1> HIDE DEF a
<1>3. ReqOK("discard", a, {TxnRow(t)})
  BY <1>1 DEF ReqOK, CreateSteps, RowSteps, DateSteps, IsDraft,
               DeleteDraftBegin
<1> QED BY <1>1, <1>2, <1>3, PlainBeginOK DEF Steps, Lock, TxnRow

(* DecideBegin keeps the invariant: it holds the approval row, which it    *)
(* found pending and of another maker.                                     *)
LEMMA DecideBeginOK ==
    ASSUME IInv, NEW r \in Req, NEW u \in User, NEW t \in TxnId,
           NEW op \in {"approve", "reject"},
           DecideBegin(r, u, t, op)
    PROVE  IInv'
<1> DEFINE a == [NoArg EXCEPT !.user = u, !.txn = t]
<1>1. a \in Arg /\ a.new = NoRows /\ a.user = u /\ a.txn = t
  BY DEF NoArg, Arg, NoRows, Table
<1>2. Start(r, op, a, {ApprovalRow(t)}) /\ UNCHANGED tables
  BY DEF DecideBegin
<1> HIDE DEF a
<1>3. ReqOK(op, a, {ApprovalRow(t)})
  BY <1>1 DEF ReqOK, CreateSteps, RowSteps, DateSteps, DecideBegin
<1> QED BY <1>1, <1>2, <1>3, PlainBeginOK DEF Steps, Lock, ApprovalRow

(* ClosePeriodBegin keeps the invariant: it plans no row and holds no      *)
(* lock.                                                                   *)
LEMMA ClosePeriodBeginOK ==
    ASSUME IInv, NEW r \in Req, NEW u \in User, NEW d \in Date,
           ClosePeriodBegin(r, u, d)
    PROVE  IInv'
<1> DEFINE a == [NoArg EXCEPT !.user = u, !.date = d]
<1>1. a \in Arg /\ a.new = NoRows /\ a.user = u /\ a.date = d
  BY DEF NoArg, Arg, NoRows, Table
<1>2. Start(r, "close_insert", a, {}) /\ UNCHANGED tables
  BY DEF ClosePeriodBegin
<1> HIDE DEF a
<1>3. ReqOK("close_insert", a, {})
  BY <1>1 DEF ReqOK, CreateSteps, RowSteps, DateSteps
<1> QED BY <1>1, <1>2, <1>3, PlainBeginOK DEF Steps

-----------------------------------------------------------------------------
(* The actions that go on with a request. *)

(* The tables are well typed. *)
TablesOK ==
    /\ txns \in Table
    /\ approvals \in [TxnId -> Approval \cup {NoApproval}]
    /\ closed \in [Year -> Date \cup {0}]
    /\ reopens \in SUBSET (Owner \X (Date \cup {0}))
    /\ threshold \in Threshold
    /\ appendOnly \in BOOLEAN
    /\ trigger \in BOOLEAN

(* A step leaves alone what request q relies on. *)
SameRow(t) ==
    /\ txns'[t] # NoRow
    /\ txns'[t].kind = txns[t].kind
    /\ txns'[t].date = txns[t].date
    /\ txns'[t].maker = txns[t].maker

Undisturbed(q) ==
    /\ pc[q] \in {"insert", "promote"} =>
          \A y \in Year : closed'[y] \in {0, closed[y]}
    /\ pc[q] \in {"promote", "discard", "approval"} => SameRow(arg[q].txn)
    /\ pc[q] \in {"approve", "reject", "approval"} =>
          approvals'[arg[q].txn] = approvals[arg[q].txn]

(* Then q's step may rely on it still. *)
LEMMA UndisturbedOK ==
    ASSUME IInv, NEW q \in Req, Undisturbed(q),
           pc'[q] = pc[q], arg'[q] = arg[q], held'[q] = held[q]
    PROVE  ReqOK(pc[q], arg[q], held[q])'
<1> DEFINE s == pc[q]
           a == arg[q]
           h == held[q]
<1>1. ReqOK(s, a, h)
  BY DEF IInv, RequestsOK
<1>2. s \in {"insert", "promote"} => \A d : IsClosed(d)' => IsClosed(d)
  BY DEF Undisturbed, IsClosed
<1>3. NewId(a)' = NewId(a) /\ Planned(a)' = Planned(a)
  BY DEF NewId, Planned
<1> QED BY <1>1, <1>2, <1>3 DEF ReqOK, Undisturbed, SameRow, IsDraft

(* A step that leaves the others undisturbed, gives up locks or keeps      *)
(* them, and inserts or keeps for itself only the ids it had reserved.     *)
LEMMA StepOK ==
    ASSUME IInv, NEW r \in Req, NEW s \in Steps, NEW a \in Arg,
           NEW h \in SUBSET held[r],
           pc' = [pc EXCEPT ![r] = s],
           arg' = [arg EXCEPT ![r] = a],
           held' = [held EXCEPT ![r] = h],
           TablesOK', ReqOK(s, a, h)', SeparationOfDuties',
           \A q \in Req \ {r} : Undisturbed(q),
           \A t \in TxnId : a.new[t] # NoRow =>
                arg[r].new[t] # NoRow /\ txns'[t] = NoRow,
           \A t \in TxnId : txns'[t] # NoRow =>
                txns[t] # NoRow \/ arg[r].new[t] # NoRow,
           s = "approval" => txns[a.txn] = NoRow
    PROVE  IInv'
<1>1. TypeOK'
  BY DEF TypeOK, TablesOK, IInv
<1>2. RequestsOK'
  <2> SUFFICES ASSUME NEW q \in Req
               PROVE  ReqOK(pc[q], arg[q], held[q])'
    BY DEF RequestsOK
  <2>1. CASE q = r
    BY <2>1 DEF IInv, TypeOK
  <2>2. CASE q # r
    <3>1. pc'[q] = pc[q] /\ arg'[q] = arg[q] /\ held'[q] = held[q]
      BY <2>2 DEF IInv, TypeOK
    <3> QED BY <2>2, <3>1, UndisturbedOK
  <2> QED BY <2>1, <2>2
<1>3. LocksExclusive'
  BY DEF LocksExclusive, TypeOK, IInv
<1>4. IdsReserved'
  BY DEF IdsReserved, TypeOK, IInv
<1>5. ApprovalsOwed'
  <2>1. \A q \in Req : pc[q] = "approval" => txns[arg[q].txn] # NoRow
    BY DEF IInv, RequestsOK, ReqOK
  <2> QED BY <2>1 DEF ApprovalsOwed, TypeOK, IInv
<1> QED BY <1>1, <1>2, <1>3, <1>4, <1>5 DEF IInv

(* The same for the last step of a request. *)
LEMMA FinishOK ==
    ASSUME IInv, NEW r \in Req, Finish(r), TablesOK', SeparationOfDuties',
           \A q \in Req \ {r} : Undisturbed(q),
           \A t \in TxnId : txns'[t] # NoRow =>
                txns[t] # NoRow \/ arg[r].new[t] # NoRow
    PROVE  IInv'
<1>1. NoArg \in Arg /\ NoArg.new = NoRows
  BY DEF NoArg, Arg, NoRows, Table
<1>2. ReqOK("idle", NoArg, {})'
  BY DEF ReqOK, CreateSteps, RowSteps, DateSteps
<1> QED BY <1>1, <1>2, StepOK DEF Finish, Steps, NoRows

(* What TypeOK says of the id a create planned. *)
LEMMA PlannedType ==
    ASSUME IInv, NEW r \in Req, pc[r] \in CreateSteps
    PROVE  /\ NewId(arg[r]) \in TxnId
           /\ Planned(arg[r]) \in Row
           /\ arg[r].new[NewId(arg[r])] = Planned(arg[r])
           /\ arg[r].new[NewId(arg[r])] # NoRow
           /\ txns[NewId(arg[r])] = NoRow
<1>1. \E t \in TxnId : arg[r].new[t] # NoRow
  BY DEF IInv, RequestsOK, ReqOK
<1>2. NewId(arg[r]) \in TxnId /\ arg[r].new[NewId(arg[r])] # NoRow
  BY <1>1 DEF NewId
<1>3. arg[r].new \in Table
  BY DEF IInv, TypeOK, Arg
<1> QED BY <1>2, <1>3 DEF Planned, IInv, IdsReserved, Table

(* CreateLockLedger keeps the inductive invariant.                         *)
LEMMA CreateLockLedgerOK ==
    ASSUME IInv, NEW r \in Req, CreateLockLedger(r)
    PROVE  IInv'
<1> DEFINE row == Planned(arg[r])
           rejected == row.kind # "draft" /\ IsClosed(row.date)
<1>0. ReqOK("lock_ledger", arg[r], held[r]) /\ arg[r] \in Arg
      /\ pc[r] = "lock_ledger"
  BY DEF CreateLockLedger, IInv, RequestsOK, TypeOK
<1>1. CASE ~rejected /\ Advance(r, "insert", {LedgerRow})
  <2>1. ReqOK("insert", arg[r], held[r] \cup {LedgerRow})
    BY <1>0, <1>1 DEF ReqOK, CreateSteps, RowSteps, DateSteps
  <2> QED BY <1>1, <2>1, AdvanceOK DEF CreateLockLedger, Steps, Lock
<1>2. CASE /\ rejected /\ arg[r].override /\ arg[r].user \in Owner
           /\ pc' = [pc EXCEPT ![r] = "override_event"]
           /\ \E w \in Date : /\ IsWatermark(w)
                              /\ arg' = [arg EXCEPT ![r].date = w]
           /\ held' = [held EXCEPT ![r] = {}]
  <2>1. PICK w \in Date : arg' = [arg EXCEPT ![r].date = w]
    BY <1>2
  <2>2. PICK a \in Arg : /\ a.new = arg[r].new /\ a.user = arg[r].user
                         /\ arg' = [arg EXCEPT ![r] = a]
    <3>1. [arg[r] EXCEPT !.date = w] \in Arg
      BY <1>0 DEF Arg
    <3> QED BY <1>0, <2>1, <3>1 DEF Arg
  <2>3. ReqOK("override_event", a, {})'
    BY <1>0, <1>2, <2>2 DEF ReqOK, CreateSteps, RowSteps, DateSteps
  <2>4. TablesOK' /\ SeparationOfDuties' /\ txns' = txns
    BY DEF CreateLockLedger, tables, TablesOK, IInv, TypeOK, SeparationOfDuties
  <2>5. \A q \in Req \ {r} : Undisturbed(q)
    BY DEF CreateLockLedger, tables, Undisturbed, SameRow, IInv, RequestsOK,
           ReqOK, IsDraft
  <2>6. \A t \in TxnId : a.new[t] # NoRow =>
           arg[r].new[t] # NoRow /\ txns'[t] = NoRow
    BY <2>2, <2>4 DEF IInv, IdsReserved
  <2>7. /\ pc' = [pc EXCEPT ![r] = "override_event"]
        /\ held' = [held EXCEPT ![r] = {}]
    BY <1>2
  <2>8. \A t \in TxnId : txns'[t] # NoRow =>
           txns[t] # NoRow \/ arg[r].new[t] # NoRow
    BY <2>4
  <2>9. "override_event" \in Steps /\ {} \in SUBSET held[r]
    BY DEF Steps
  <2> HIDE DEF row, rejected
  <2> QED BY <2>2, <2>3, <2>4, <2>5, <2>6, <2>7, <2>8, <2>9, StepOK
<1>3. CASE rejected /\ Finish(r)
  BY <1>3, RollbackOK DEF CreateLockLedger, Rollback
<1> QED BY <1>1, <1>2, <1>3 DEF CreateLockLedger

(* The number a create resolves is a number. *)
LEMMA NumberType ==
    ASSUME TypeOK, NEW row \in Row
    PROVE  ResolvedNumber(row) \in Nat
<1>1. IsFiniteSet(RowsOf(YearOf[row.date]))
  <2>1. RowsOf(YearOf[row.date]) \subseteq TxnId
    BY DEF RowsOf
  <2> QED BY <2>1, BooksAssumption, FS_Subset
<1>2. Cardinality(RowsOf(YearOf[row.date])) \in Nat
  BY <1>1, FS_CardinalityType
<1>3. row.number \in Nat
  BY DEF Row
<1> QED BY <1>2, <1>3 DEF ResolvedNumber

(* CreateInsert keeps the inductive invariant.                             *)
LEMMA CreateInsertOK ==
    ASSUME IInv, NEW r \in Req, CreateInsert(r)
    PROVE  IInv'
<1>0. pc[r] = "insert" /\ ReqOK("insert", arg[r], held[r])
  BY DEF CreateInsert, IInv, RequestsOK
<1>1. PICK row \in Row, t \in TxnId :
         /\ row = Planned(arg[r]) /\ t = NewId(arg[r])
         /\ arg[r].new[t] # NoRow /\ txns[t] = NoRow
  BY <1>0, PlannedType DEF CreateSteps
<1>2. PICK n \in Nat : n = ResolvedNumber(row)
  BY NumberType DEF IInv
<1>3. PICK new \in Row :
         /\ new = [row EXCEPT !.number = n,
                       !.kind = IF MustHold(row) THEN "pending" ELSE @]
         /\ new.maker = row.maker
         /\ MustHold(row) => new.kind = "pending"
  <2>1. [row EXCEPT !.number = n,
             !.kind = IF MustHold(row) THEN "pending" ELSE @] \in Row
    BY DEF Row, Kind
  <2> QED BY <2>1 DEF Row
<1>4. CASE Rollback(r)
  BY <1>4, RollbackOK
<1>5. CASE /\ txns' = [txns EXCEPT ![t] = new]
           /\ trigger' = FALSE
           /\ IF MustHold(row)
                THEN /\ pc' = [pc EXCEPT ![r] = "approval"]
                     /\ arg' = [arg EXCEPT ![r] =
                                  [NoArg EXCEPT !.user = row.maker, !.txn = t]]
                     /\ held' = [held EXCEPT ![r] = {}]
                ELSE Finish(r)
           /\ UNCHANGED <<approvals, closed, reopens, threshold, appendOnly>>
  <2>1. new # NoRow
    BY BooksAssumption
  <2>2. TablesOK'
    BY <1>5 DEF TablesOK, IInv, TypeOK, Table
  <2>3. /\ txns'[t] = new
        /\ \A x \in TxnId : x # t => txns'[x] = txns[x]
    BY <1>5 DEF IInv, TypeOK, Table
  <2>4. approvals[t] = NoApproval
    BY <1>1 DEF IInv, SeparationOfDuties
  <2>5. SeparationOfDuties'
    BY <1>5, <2>3, <2>4 DEF SeparationOfDuties, IInv
  <2>6. \A q \in Req \ {r} : Undisturbed(q)
    <3> SUFFICES ASSUME NEW q \in Req \ {r} PROVE Undisturbed(q)
      OBVIOUS
    <3>1. ReqOK(pc[q], arg[q], held[q])
      BY DEF IInv, RequestsOK
    <3>2. pc[q] \in {"promote", "discard", "approval"} =>
             arg[q].txn \in TxnId /\ txns[arg[q].txn] # NoRow
      BY <3>1 DEF ReqOK, RowSteps, IsDraft
    <3> QED BY <1>1, <1>5, <2>3, <3>2 DEF Undisturbed, SameRow
  <2>7. CASE MustHold(row)
    <3>1. PICK a \in Arg : /\ a = [NoArg EXCEPT !.user = row.maker, !.txn = t]
                           /\ a.user = row.maker /\ a.txn = t
                           /\ a.new = NoRows
      <4>1. row.maker \in User
        BY DEF Row
      <4>2. [NoArg EXCEPT !.user = row.maker, !.txn = t] \in Arg
        BY <4>1 DEF NoArg, Arg, NoRows, Table
      <4> QED BY <4>2 DEF NoArg
    <3>2. ReqOK("approval", a, {})'
      <4>1. row.maker \in User
        BY DEF Row
      <4> QED BY <1>3, <1>5, <2>1, <2>3, <2>4, <2>7, <3>1, <4>1
              DEF ReqOK, CreateSteps, RowSteps, DateSteps
    <3>3. \A x \in TxnId : a.new[x] = NoRow
      BY <3>1 DEF NoRows
    <3>4. /\ pc' = [pc EXCEPT ![r] = "approval"]
          /\ arg' = [arg EXCEPT ![r] = a]
          /\ held' = [held EXCEPT ![r] = {}]
      BY <1>5, <2>7, <3>1
    <3>5. \A x \in TxnId : txns'[x] # NoRow =>
             txns[x] # NoRow \/ arg[r].new[x] # NoRow
      BY <1>1, <2>3
    <3> QED BY <1>1, <2>2, <2>5, <2>6, <3>1, <3>2, <3>3, <3>4, <3>5, StepOK
            DEF Steps
  <2>8. CASE ~MustHold(row)
    BY <1>1, <1>5, <2>2, <2>3, <2>5, <2>6, <2>8, FinishOK
  <2> QED BY <2>7, <2>8
<1> QED BY <1>1, <1>2, <1>3, <1>4, <1>5 DEF CreateInsert

(* CreateApproval keeps the inductive invariant.                           *)
LEMMA CreateApprovalOK ==
    ASSUME IInv, NEW r \in Req, CreateApproval(r)
    PROVE  IInv'
<1>0. pc[r] = "approval" /\ ReqOK("approval", arg[r], held[r])
  BY DEF CreateApproval, IInv, RequestsOK
<1>1. PICK t \in TxnId, u \in User :
         /\ t = arg[r].txn /\ u = arg[r].user /\ txns[t] # NoRow
         /\ txns[t].kind = "pending" /\ txns[t].maker = u
         /\ approvals[t] = NoApproval
  BY <1>0 DEF ReqOK, RowSteps
<1>2. PICK ap \in Approval :
         /\ ap = [status |-> "pending", maker |-> u, checker |-> NoUser]
         /\ ap.status = "pending" /\ ap.maker = u
  <2>1. [status |-> "pending", maker |-> u, checker |-> NoUser] \in Approval
    BY DEF Approval
  <2> QED BY <2>1
<1>3. /\ approvals' = [approvals EXCEPT ![t] = ap]
      /\ Finish(r)
      /\ UNCHANGED <<txns, closed, reopens, threshold, appendOnly, trigger>>
  BY <1>1, <1>2 DEF CreateApproval
<1>4. TablesOK'
  BY <1>3 DEF TablesOK, IInv, TypeOK
<1>5. /\ approvals'[t] = ap
      /\ \A x \in TxnId : x # t => approvals'[x] = approvals[x]
  BY <1>3 DEF IInv, TypeOK
<1>6. SeparationOfDuties'
  BY <1>1, <1>2, <1>3, <1>5 DEF SeparationOfDuties, IInv
<1>7. \A q \in Req \ {r} : Undisturbed(q)
  <2> SUFFICES ASSUME NEW q \in Req \ {r} PROVE Undisturbed(q)
    OBVIOUS
  <2>1. ReqOK(pc[q], arg[q], held[q])
    BY DEF IInv, RequestsOK
  <2>2. pc[q] \in {"approve", "reject", "approval"} =>
           arg[q].txn \in TxnId /\ arg[q].txn # t
    BY <1>0, <1>1, <2>1 DEF ReqOK, RowSteps, IInv, ApprovalsOwed
  <2> QED BY <1>3, <1>5, <2>1, <2>2 DEF Undisturbed, SameRow, ReqOK, IsDraft
<1> QED BY <1>3, <1>4, <1>6, <1>7, FinishOK

(* OverrideEvent keeps the inductive invariant.                            *)
LEMMA OverrideEventOK ==
    ASSUME IInv, NEW r \in Req, OverrideEvent(r)
    PROVE  IInv'
<1>0. /\ pc[r] = "override_event" /\ arg[r] \in Arg
      /\ ReqOK("override_event", arg[r], held[r])
  BY DEF OverrideEvent, IInv, RequestsOK, TypeOK
<1>1. PICK a \in Arg, h \in SUBSET Lock : a = arg[r] /\ h = held[r]
  BY <1>0 DEF IInv, TypeOK
<1>2. /\ pc' = [pc EXCEPT ![r] = "override_lift"]
      /\ arg' = [arg EXCEPT ![r] = a]
      /\ held' = [held EXCEPT ![r] = h]
  BY <1>1 DEF OverrideEvent, IInv, TypeOK
<1>3. TablesOK'
  <2>1. arg[r].user \in Owner /\ arg[r].date \in Date \cup {0}
    BY <1>0 DEF ReqOK, Arg
  <2> QED BY <2>1 DEF OverrideEvent, TablesOK, IInv, TypeOK
<1>4. UNCHANGED <<txns, approvals, closed>>
  BY DEF OverrideEvent
<1>5. ReqOK("override_lift", a, h)'
  BY <1>0, <1>1 DEF ReqOK, CreateSteps, RowSteps, DateSteps
<1>6. SeparationOfDuties' /\ \A q \in Req \ {r} : Undisturbed(q)
  BY <1>4 DEF SeparationOfDuties, IInv, RequestsOK, ReqOK, IsDraft, Undisturbed,
              SameRow
<1>7. \A t \in TxnId : a.new[t] # NoRow =>
         arg[r].new[t] # NoRow /\ txns'[t] = NoRow
  BY <1>1, <1>4 DEF IInv, IdsReserved
<1> QED BY <1>1, <1>2, <1>3, <1>4, <1>5, <1>6, <1>7, StepOK DEF Steps

(* Lifting the watermark only opens dates. *)
LEMMA LiftType ==
    ASSUME TypeOK, NEW d \in Date \cup {0}, Lift(d)
    PROVE  /\ closed' \in [Year -> Date \cup {0}]
           /\ \A y \in Year : closed'[y] \in {0, closed[y]}
  BY DEF TypeOK, Lift

(* OverrideLift keeps the inductive invariant.                             *)
LEMMA OverrideLiftOK ==
    ASSUME IInv, NEW r \in Req, OverrideLift(r)
    PROVE  IInv'
<1>0. /\ pc[r] = "override_lift" /\ arg[r] \in Arg
      /\ ReqOK("override_lift", arg[r], held[r])
  BY DEF OverrideLift, IInv, RequestsOK, TypeOK
<1>1. PICK a \in Arg, h \in SUBSET Lock :
         /\ a = [arg[r] EXCEPT !.override = FALSE] /\ h = held[r]
         /\ a.new = arg[r].new /\ a.user = arg[r].user
  <2>1. [arg[r] EXCEPT !.override = FALSE] \in Arg /\ held[r] \in SUBSET Lock
    BY <1>0 DEF Arg, IInv, TypeOK
  <2> QED BY <1>0, <2>1 DEF Arg
<1>2. /\ pc' = [pc EXCEPT ![r] = "alter"]
      /\ arg' = [arg EXCEPT ![r] = a]
      /\ held' = [held EXCEPT ![r] = h]
  BY <1>1 DEF OverrideLift, IInv, TypeOK
<1>3. /\ closed' \in [Year -> Date \cup {0}]
      /\ \A y \in Year : closed'[y] \in {0, closed[y]}
  <2>1. Planned(arg[r]) \in Row
    BY <1>0, PlannedType DEF CreateSteps
  <2>2. Planned(arg[r]).date \in Date
    BY <2>1 DEF Row
  <2> QED BY <2>2, LiftType DEF OverrideLift, IInv
<1>4. TablesOK'
  BY <1>3 DEF OverrideLift, TablesOK, IInv, TypeOK
<1>5. UNCHANGED <<txns, approvals>>
  BY DEF OverrideLift
<1>6. ReqOK("alter", a, h)'
  BY <1>0, <1>1 DEF ReqOK, CreateSteps, RowSteps, DateSteps
<1>7. SeparationOfDuties' /\ \A q \in Req \ {r} : Undisturbed(q)
  BY <1>3, <1>5 DEF SeparationOfDuties, IInv, RequestsOK, ReqOK, IsDraft,
                    Undisturbed, SameRow
<1>8. \A t \in TxnId : a.new[t] # NoRow =>
         arg[r].new[t] # NoRow /\ txns'[t] = NoRow
  BY <1>1, <1>5 DEF IInv, IdsReserved
<1> QED BY <1>1, <1>2, <1>4, <1>5, <1>6, <1>7, <1>8, StepOK DEF Steps

(* OverrideRetry keeps the inductive invariant.                            *)
LEMMA OverrideRetryOK ==
    ASSUME IInv, NEW r \in Req, OverrideRetry(r)
    PROVE  IInv'
<1>1. ReqOK("alter", arg[r], held[r])
  BY DEF OverrideRetry, IInv, RequestsOK
<1>2. ReqOK("lock_ledger", arg[r], held[r] \cup {Postings})
  BY <1>1 DEF ReqOK, CreateSteps, RowSteps, DateSteps
<1> QED BY <1>2, AdvanceOK DEF OverrideRetry, Steps, Lock

(* PostDraftLoad keeps the inductive invariant.                            *)
LEMMA PostDraftLoadOK ==
    ASSUME IInv, NEW r \in Req, PostDraftLoad(r)
    PROVE  IInv'
<1>0. /\ pc[r] = "load_draft" /\ arg[r].txn \in TxnId
      /\ ReqOK("load_draft", arg[r], held[r])
  BY DEF PostDraftLoad, IInv, RequestsOK, ReqOK, RowSteps
<1>1. CASE Finish(r)
  BY <1>1, RollbackOK DEF PostDraftLoad, Rollback
<1>2. CASE /\ IsDraft(arg[r].txn) /\ ~IsClosed(txns[arg[r].txn].date)
           /\ Advance(r, "promote", {TxnRow(arg[r].txn)})
  <2>1. ReqOK("promote", arg[r], held[r] \cup {TxnRow(arg[r].txn)})
    BY <1>0, <1>2 DEF ReqOK, CreateSteps, RowSteps, DateSteps
  <2>2. {TxnRow(arg[r].txn)} \in SUBSET Lock
    BY <1>0 DEF Lock, TxnRow
  <2> QED BY <1>2, <2>1, <2>2, AdvanceOK DEF PostDraftLoad, Steps
<1> QED BY <1>1, <1>2 DEF PostDraftLoad, IsDraft

(* The row a request has locked as a draft is nobody else's. *)
LEMMA DraftIsExclusive ==
    ASSUME IInv, NEW r \in Req, NEW q \in Req \ {r}, NEW t \in TxnId,
           TxnRow(t) \in held[r], IsDraft(t)
    PROVE  /\ pc[q] \in {"promote", "discard", "approval"} =>
                 arg[q].txn \in TxnId \ {t} /\ txns[arg[q].txn] # NoRow
           /\ pc[q] \in {"approve", "reject", "approval"} =>
                 arg[q].txn \in TxnId \ {t}
<1>1. ReqOK(pc[q], arg[q], held[q])
  BY DEF IInv, RequestsOK
<1>2. pc[q] \in {"promote", "discard"} => arg[q].txn # t
  <2> SUFFICES ASSUME pc[q] \in {"promote", "discard"} PROVE arg[q].txn # t
    OBVIOUS
  <2>1. TxnRow(arg[q].txn) \in held[q]
    BY <1>1 DEF ReqOK
  <2>2. ~Conflicts(TxnRow(t), TxnRow(arg[q].txn))
    BY <2>1 DEF IInv, LocksExclusive
  <2> QED BY <2>2 DEF Conflicts, TxnRow, LedgerKey
<1>3. pc[q] = "approval" => arg[q].txn # t
  BY <1>1 DEF ReqOK, IsDraft
<1>4. pc[q] \in {"approve", "reject"} => arg[q].txn # t
  BY <1>1 DEF ReqOK, IsDraft, IInv, SeparationOfDuties
<1> QED BY <1>1, <1>2, <1>3, <1>4 DEF ReqOK, RowSteps, IsDraft

(* PostDraftPromote keeps the inductive invariant.                         *)
LEMMA PostDraftPromoteOK ==
    ASSUME IInv, NEW r \in Req, PostDraftPromote(r)
    PROVE  IInv'
<1>0. pc[r] = "promote" /\ ReqOK("promote", arg[r], held[r])
  BY DEF PostDraftPromote, IInv, RequestsOK
<1>1. PICK t \in TxnId : t = arg[r].txn /\ TxnRow(t) \in held[r] /\ IsDraft(t)
  BY <1>0 DEF ReqOK, RowSteps
<1>2. CASE appendOnly
  BY <1>2, RollbackOK DEF PostDraftPromote, Rollback, tables
<1>3. CASE ~appendOnly
  <2>1. PICK new \in Row : /\ new = [txns[t] EXCEPT !.kind = "standard"]
                           /\ new.kind = "standard"
                           /\ new.maker = txns[t].maker
    <3>1. txns[t] \in Row
      BY <1>1 DEF IsDraft, IInv, TypeOK, Table
    <3>2. [txns[t] EXCEPT !.kind = "standard"] \in Row
      BY <3>1 DEF Row, Kind
    <3> QED BY <3>1, <3>2 DEF Row
  <2>2. /\ txns' = [txns EXCEPT ![t] = new]
        /\ Finish(r)
        /\ UNCHANGED <<approvals, closed, reopens, threshold, appendOnly,
                       trigger>>
    BY <1>1, <1>3, <2>1 DEF PostDraftPromote
  <2>3. new # NoRow
    BY BooksAssumption
  <2>4. TablesOK'
    BY <2>2 DEF TablesOK, IInv, TypeOK, Table
  <2>5. /\ txns'[t] = new
        /\ \A x \in TxnId : x # t => txns'[x] = txns[x]
    BY <2>2 DEF IInv, TypeOK, Table
  <2>6. SeparationOfDuties'
    BY <1>1, <2>1, <2>2, <2>3, <2>5 DEF SeparationOfDuties, IInv, IsDraft
  <2>7. \A q \in Req \ {r} : Undisturbed(q)
    BY <1>1, <2>2, <2>5, DraftIsExclusive DEF Undisturbed, SameRow
  <2> QED BY <1>1, <2>2, <2>4, <2>5, <2>6, <2>7, FinishOK DEF IsDraft
<1> QED BY <1>2, <1>3

(* DeleteDraft keeps the inductive invariant.                              *)
LEMMA DeleteDraftOK ==
    ASSUME IInv, NEW r \in Req, DeleteDraft(r)
    PROVE  IInv'
<1>0. pc[r] = "discard" /\ ReqOK("discard", arg[r], held[r])
  BY DEF DeleteDraft, IInv, RequestsOK
<1>1. PICK t \in TxnId : t = arg[r].txn /\ TxnRow(t) \in held[r] /\ IsDraft(t)
  BY <1>0 DEF ReqOK, RowSteps
<1>2. CASE UNCHANGED <<txns, approvals>>
  BY <1>2, RollbackOK DEF DeleteDraft, Rollback, tables
<1>3. CASE /\ txns' = [x \in TxnId |->
                 IF x = t THEN NoRow
                 ELSE IF txns[x] # NoRow /\ txns[x].reverses = t
                      THEN [txns[x] EXCEPT !.reverses = NoTxn]
                      ELSE txns[x]]
           /\ approvals' = [approvals EXCEPT ![t] = NoApproval]
  <2>1. /\ Finish(r)
        /\ UNCHANGED <<closed, reopens, threshold, appendOnly, trigger>>
    BY DEF DeleteDraft
  <2>2. \A x \in TxnId : txns[x] # NoRow =>
           /\ [txns[x] EXCEPT !.reverses = NoTxn] \in Row
           /\ [txns[x] EXCEPT !.reverses = NoTxn].kind = txns[x].kind
           /\ [txns[x] EXCEPT !.reverses = NoTxn].date = txns[x].date
           /\ [txns[x] EXCEPT !.reverses = NoTxn].maker = txns[x].maker
    <3> SUFFICES ASSUME NEW row \in Row
                 PROVE  /\ [row EXCEPT !.reverses = NoTxn] \in Row
                        /\ [row EXCEPT !.reverses = NoTxn].kind = row.kind
                        /\ [row EXCEPT !.reverses = NoTxn].date = row.date
                        /\ [row EXCEPT !.reverses = NoTxn].maker = row.maker
      BY DEF IInv, TypeOK, Table
    <3> QED BY DEF Row
  <2>3. txns' \in Table
    BY <1>3, <2>2 DEF IInv, TypeOK, Table
  <2>4. \A x \in TxnId : x # t =>
           /\ txns[x] = NoRow => txns'[x] = NoRow
           /\ txns[x] # NoRow => SameRow(x)
    BY <1>3, <2>2, BooksAssumption DEF SameRow
  <2>5. /\ approvals'[t] = NoApproval
        /\ \A x \in TxnId : x # t => approvals'[x] = approvals[x]
    BY <1>3 DEF IInv, TypeOK
  <2>6. TablesOK'
    BY <1>3, <2>1, <2>3 DEF TablesOK, IInv, TypeOK
  <2>7. SeparationOfDuties'
    BY <2>4, <2>5 DEF SeparationOfDuties, SameRow, IInv
  <2>8. \A q \in Req \ {r} : Undisturbed(q)
    BY <1>1, <2>1, <2>4, <2>5, DraftIsExclusive DEF Undisturbed
  <2>9. \A x \in TxnId : txns'[x] # NoRow => txns[x] # NoRow
    BY <1>1, <2>4 DEF IsDraft
  <2> QED BY <2>1, <2>6, <2>7, <2>8, <2>9, FinishOK
<1> QED BY <1>1, <1>2, <1>3 DEF DeleteDraft

(* Decide keeps the inductive invariant.                                   *)
LEMMA DecideOK ==
    ASSUME IInv, NEW r \in Req, pc[r] \in {"approve", "reject"},
           NEW kind \in {"standard", "draft"},
           NEW status \in {"approved", "rejected"},
           status = "approved" => kind = "standard", Decide(r, kind, status)
    PROVE  IInv'
<1>0. ReqOK(pc[r], arg[r], held[r])
  BY DEF IInv, RequestsOK
<1>1. PICK t \in TxnId, u \in User :
         /\ t = arg[r].txn /\ u = arg[r].user /\ ApprovalRow(t) \in held[r]
         /\ approvals[t] # NoApproval /\ approvals[t].status = "pending"
         /\ approvals[t].maker # u
  BY <1>0 DEF ReqOK, RowSteps
<1>2. CASE UNCHANGED <<txns, approvals>>
  BY <1>2, RollbackOK DEF Decide, Rollback, tables
<1>3. CASE /\ txns' = [txns EXCEPT ![t].kind = kind]
           /\ approvals' = [approvals EXCEPT ![t].status = status,
                                             ![t].checker = u]
  <2>1. /\ Finish(r)
        /\ UNCHANGED <<closed, reopens, threshold, appendOnly, trigger>>
    BY DEF Decide
  <2>2. txns[t] \in Row /\ txns[t].kind = "pending"
        /\ txns[t].maker = approvals[t].maker
    BY <1>1 DEF IInv, SeparationOfDuties, TypeOK, Table
  <2>3. PICK new \in Row : /\ txns' = [txns EXCEPT ![t] = new]
                           /\ new.kind = kind
                           /\ new.maker = txns[t].maker
    <3>1. [txns[t] EXCEPT !.kind = kind] \in Row
      BY <2>2 DEF Row, Kind
    <3> QED BY <1>3, <2>2, <3>1 DEF Row
  <2>4. PICK ap \in Approval : /\ approvals' = [approvals EXCEPT ![t] = ap]
                               /\ ap.status = status
                               /\ ap.maker = approvals[t].maker
                               /\ ap.checker = u
    <3>1. approvals[t] \in Approval
      BY <1>1 DEF IInv, TypeOK
    <3>2. [approvals[t] EXCEPT !.status = status, !.checker = u] \in Approval
      BY <3>1 DEF Approval
    <3>3. approvals' = [approvals EXCEPT ![t] =
                     [approvals[t] EXCEPT !.status = status, !.checker = u]]
      BY <1>3, <3>1 DEF IInv, TypeOK
    <3> QED BY <3>1, <3>2, <3>3 DEF Approval
  <2>5. new # NoRow
    BY BooksAssumption
  <2>6. /\ txns'[t] = new
        /\ \A x \in TxnId : x # t => txns'[x] = txns[x]
        /\ approvals'[t] = ap
        /\ \A x \in TxnId : x # t => approvals'[x] = approvals[x]
    BY <2>3, <2>4 DEF IInv, TypeOK, Table
  <2>7. TablesOK'
    BY <2>1, <2>3, <2>4 DEF TablesOK, IInv, TypeOK, Table
  <2>8. SeparationOfDuties'
    BY <1>1, <2>2, <2>3, <2>4, <2>5, <2>6 DEF SeparationOfDuties, IInv
  <2>9. \A q \in Req \ {r} : Undisturbed(q)
    <3> SUFFICES ASSUME NEW q \in Req \ {r} PROVE Undisturbed(q)
      OBVIOUS
    <3>1. ReqOK(pc[q], arg[q], held[q])
      BY DEF IInv, RequestsOK
    <3>2. pc[q] \in {"promote", "discard", "approval"} =>
             arg[q].txn \in TxnId \ {t} /\ txns[arg[q].txn] # NoRow
      BY <1>1, <2>2, <3>1 DEF ReqOK, RowSteps, IsDraft
    <3>3. pc[q] \in {"approve", "reject"} => arg[q].txn \in TxnId \ {t}
      <4> SUFFICES ASSUME pc[q] \in {"approve", "reject"}
                   PROVE  arg[q].txn \in TxnId \ {t}
        OBVIOUS
      <4>1. ApprovalRow(arg[q].txn) \in held[q] /\ arg[q].txn \in TxnId
        BY <3>1 DEF ReqOK, RowSteps
      <4>2. ~Conflicts(ApprovalRow(t), ApprovalRow(arg[q].txn))
        BY <1>1, <4>1 DEF IInv, LocksExclusive
      <4> QED BY <4>1, <4>2 DEF Conflicts, ApprovalRow, LedgerKey
    <3> QED BY <2>1, <2>6, <3>2, <3>3 DEF Undisturbed, SameRow
  <2> QED BY <2>1, <2>2, <2>6, <2>7, <2>8, <2>9, FinishOK, BooksAssumption
<1> QED BY <1>1, <1>2, <1>3 DEF Decide

(* Nobody is between the watermark check and the commit of a service write *)
(* while a request has, or can get, the foreign key's lock on the ledger.  *)
LEMMA NoServiceWrite ==
    ASSUME IInv, NEW r \in Req, NEW q \in Req \ {r},
           LedgerKey \in held[r] \/ Free(r, LedgerKey)
    PROVE  pc[q] \notin {"insert", "promote"}
<1> SUFFICES ASSUME pc[q] \in {"insert", "promote"} PROVE FALSE
  OBVIOUS
<1>1. LedgerRow \in held[q]
  BY DEF IInv, RequestsOK, ReqOK
<1>2. Conflicts(LedgerKey, LedgerRow)
  BY DEF Conflicts
<1> QED BY <1>1, <1>2 DEF IInv, LocksExclusive, Free

(* ClosePeriodInsert keeps the inductive invariant.                        *)
LEMMA ClosePeriodInsertOK ==
    ASSUME IInv, NEW r \in Req, ClosePeriodInsert(r)
    PROVE  IInv'
<1>1. PICK d \in Date : d = arg[r].date
  BY DEF ClosePeriodInsert, IInv, RequestsOK, ReqOK, DateSteps
<1>2. YearOf[d] \in Year
  BY DEF Year
<1>3. closed' \in [Year -> Date \cup {0}]
  BY <1>1, <1>2 DEF ClosePeriodInsert, IInv, TypeOK
<1>4. TablesOK' /\ SeparationOfDuties' /\ UNCHANGED <<txns, approvals>>
  BY <1>3 DEF ClosePeriodInsert, TablesOK, SeparationOfDuties, IInv, TypeOK
<1>5. Free(r, LedgerKey)
  BY DEF ClosePeriodInsert, Granted, Wants
<1>6. \A q \in Req \ {r} : Undisturbed(q)
  BY <1>4, <1>5, NoServiceWrite DEF Undisturbed, SameRow, IInv, RequestsOK,
                                    ReqOK, IsDraft
<1> QED BY <1>4, <1>6, FinishOK DEF ClosePeriodInsert

(* ReopenDelete keeps the inductive invariant.                             *)
LEMMA ReopenDeleteOK ==
    ASSUME IInv, NEW r \in Req, NEW u \in User, NEW d \in Date \cup {0},
           ReopenDelete(r, u, d)
    PROVE  IInv'
<1>1. PICK a \in Arg : /\ a = [NoArg EXCEPT !.user = u, !.date = d]
                       /\ a.user = u /\ \A t \in TxnId : a.new[t] = NoRow
  <2>1. [NoArg EXCEPT !.user = u, !.date = d] \in Arg
    BY DEF NoArg, Arg, NoRows, Table
  <2> QED BY <2>1 DEF NoArg, NoRows
<1>2. /\ pc' = [pc EXCEPT ![r] = "reopen_event"]
      /\ arg' = [arg EXCEPT ![r] = a]
      /\ held' = [held EXCEPT ![r] = {}]
  BY <1>1 DEF ReopenDelete, Start
<1>3. /\ closed' \in [Year -> Date \cup {0}]
      /\ \A y \in Year : closed'[y] \in {0, closed[y]}
  BY LiftType DEF ReopenDelete, IInv
<1>4. TablesOK' /\ SeparationOfDuties' /\ UNCHANGED <<txns, approvals>>
  BY <1>3 DEF ReopenDelete, TablesOK, SeparationOfDuties, IInv, TypeOK
<1>5. \A q \in Req \ {r} : Undisturbed(q)
  BY <1>3, <1>4 DEF Undisturbed, SameRow, IInv, RequestsOK, ReqOK, IsDraft
<1>6. ReqOK("reopen_event", a, {})'
  BY <1>1 DEF ReqOK, CreateSteps, RowSteps, DateSteps, ReopenDelete
<1>7. "reopen_event" \in Steps /\ {} \in SUBSET held[r]
  BY DEF Steps
<1>8. \A t \in TxnId : txns'[t] # NoRow =>
         txns[t] # NoRow \/ arg[r].new[t] # NoRow
  BY <1>4
<1> QED BY <1>1, <1>2, <1>4, <1>5, <1>6, <1>7, <1>8, StepOK

(* ReopenEvent keeps the inductive invariant.                              *)
LEMMA ReopenEventOK ==
    ASSUME IInv, NEW r \in Req, ReopenEvent(r)
    PROVE  IInv'
<1>1. arg[r].user \in Owner /\ arg[r].date \in Date \cup {0}
  BY DEF ReopenEvent, IInv, RequestsOK, ReqOK, TypeOK, Arg
<1>2. TablesOK' /\ SeparationOfDuties' /\ UNCHANGED <<txns, approvals, closed>>
  BY <1>1 DEF ReopenEvent, TablesOK, SeparationOfDuties, IInv, TypeOK
<1>3. \A q \in Req \ {r} : Undisturbed(q)
  BY <1>2 DEF Undisturbed, SameRow, IInv, RequestsOK, ReqOK, IsDraft
<1> QED BY <1>2, <1>3, FinishOK DEF ReopenEvent

(* CloseYearTxn keeps the inductive invariant.                             *)
LEMMA CloseYearTxnOK ==
    ASSUME IInv, NEW r \in Req, CloseYearTxn(r)
    PROVE  IInv'
<1>1. ReqOK("close_txn", arg[r], held[r])
  BY DEF CloseYearTxn, IInv, RequestsOK
<1>2. ReqOK("close_postings", arg[r], held[r] \cup {LedgerKey})
  BY <1>1 DEF ReqOK, CreateSteps, RowSteps, DateSteps
<1> QED BY <1>2, AdvanceOK DEF CloseYearTxn, Steps, Lock

(* InsertTxn keeps the inductive invariant.                                *)
LEMMA InsertTxnOK ==
    ASSUME IInv, NEW r \in Req, InsertTxn(r)
    PROVE  IInv'
<1>1. ReqOK("insert_txn", arg[r], held[r])
  BY DEF InsertTxn, IInv, RequestsOK
<1>2. ReqOK("insert_postings", arg[r], held[r] \cup {LedgerKey})
  BY <1>1 DEF ReqOK, CreateSteps, RowSteps, DateSteps
<1> QED BY <1>2, AdvanceOK DEF InsertTxn, Steps, Lock

(* Inserting the planned rows of a request touches no row there is. *)
LEMMA InsertFrame ==
    ASSUME IInv, NEW r \in Req
    PROVE  /\ Insert(txns, arg[r].new) \in Table
           /\ \A t \in TxnId : txns[t] # NoRow =>
                 Insert(txns, arg[r].new)[t] = txns[t]
           /\ \A t \in TxnId : Insert(txns, arg[r].new)[t] # NoRow =>
                 txns[t] # NoRow \/ arg[r].new[t] # NoRow
<1>1. arg[r].new \in Table /\ txns \in Table
  BY DEF IInv, TypeOK, Arg
<1>2. \A t \in TxnId : txns[t] # NoRow => arg[r].new[t] = NoRow
  BY DEF IInv, IdsReserved
<1> QED BY <1>1, <1>2 DEF Insert, Table

(* InsertPostings keeps the inductive invariant.                           *)
LEMMA InsertPostingsOK ==
    ASSUME IInv, NEW r \in Req, InsertPostings(r)
    PROVE  IInv'
<1>1. /\ Finish(r)
      /\ UNCHANGED <<approvals, closed, reopens, threshold, appendOnly, trigger>>
  BY DEF InsertPostings
<1>2. CASE txns' = txns
  BY <1>1, <1>2, RollbackOK DEF Rollback, tables
<1>3. CASE txns' = Insert(txns, arg[r].new)
  <2>1. /\ txns' \in Table
        /\ \A t \in TxnId : txns[t] # NoRow => txns'[t] = txns[t]
        /\ \A t \in TxnId : txns'[t] # NoRow =>
              txns[t] # NoRow \/ arg[r].new[t] # NoRow
    BY <1>3, InsertFrame
  <2>2. TablesOK'
    BY <1>1, <2>1 DEF TablesOK, IInv, TypeOK
  <2>3. SeparationOfDuties'
    BY <1>1, <2>1 DEF SeparationOfDuties, IInv
  <2>4. \A q \in Req \ {r} : Undisturbed(q)
    BY <1>1, <2>1 DEF Undisturbed, SameRow, IInv, RequestsOK, ReqOK, IsDraft,
                      RowSteps
  <2> QED BY <1>1, <2>1, <2>2, <2>3, <2>4, FinishOK
<1> QED BY <1>2, <1>3 DEF InsertPostings

(* CloseYearCommit keeps the inductive invariant.                          *)
LEMMA CloseYearCommitOK ==
    ASSUME IInv, NEW r \in Req, CloseYearCommit(r)
    PROVE  IInv'
<1>1. /\ Finish(r)
      /\ UNCHANGED <<approvals, reopens, threshold, appendOnly, trigger>>
  BY DEF CloseYearCommit
<1>2. PICK d \in Date : d = arg[r].date
  BY DEF CloseYearCommit, IInv, RequestsOK, ReqOK, DateSteps
<1>3. CASE UNCHANGED <<txns, closed>>
  BY <1>1, <1>3, RollbackOK DEF Rollback, tables
<1>4. CASE /\ txns' = Insert(txns, arg[r].new)
           /\ closed' = [closed EXCEPT ![YearOf[d]] = d]
  <2>1. /\ txns' \in Table
        /\ \A t \in TxnId : txns[t] # NoRow => txns'[t] = txns[t]
        /\ \A t \in TxnId : txns'[t] # NoRow =>
              txns[t] # NoRow \/ arg[r].new[t] # NoRow
    BY <1>4, InsertFrame
  <2>2. TablesOK'
    BY <1>1, <1>4, <2>1 DEF TablesOK, IInv, TypeOK
  <2>3. SeparationOfDuties'
    BY <1>1, <2>1 DEF SeparationOfDuties, IInv
  <2>4. LedgerKey \in held[r]
    BY DEF CloseYearCommit, IInv, RequestsOK, ReqOK
  <2>5. \A q \in Req \ {r} : Undisturbed(q)
    BY <1>1, <2>1, <2>4, NoServiceWrite
       DEF Undisturbed, SameRow, IInv, RequestsOK, ReqOK, IsDraft, RowSteps
  <2> QED BY <1>1, <2>1, <2>2, <2>3, <2>5, FinishOK
<1> QED BY <1>2, <1>3, <1>4 DEF CloseYearCommit

(* The two settings of the ledger are part of nobody's promise. *)
LEMMA SettingsOK ==
    ASSUME IInv, \/ \E a \in Threshold : UpdateThreshold(a)
                 \/ ToggleAppendOnly
    PROVE  IInv'
<1>1. /\ UNCHANGED <<txns, approvals, closed, reopens, trigger, pc, arg, held>>
      /\ threshold' \in Threshold /\ appendOnly' \in BOOLEAN
  BY DEF UpdateThreshold, ToggleAppendOnly, IInv, TypeOK
<1>2. TypeOK'
  BY <1>1 DEF IInv, TypeOK
<1>3. RequestsOK'
  BY <1>1, ReqFrame DEF IInv, RequestsOK
<1> QED BY <1>1, <1>2, <1>3 DEF IInv, LocksExclusive, IdsReserved, ApprovalsOwed,
                                SeparationOfDuties

-----------------------------------------------------------------------------
(* The inductive invariant and the theorems. *)

(* The empty ledger satisfies the inductive invariant.                     *)
LEMMA InitOK == Init => IInv
<1> SUFFICES ASSUME Init PROVE IInv
  OBVIOUS
<1> USE DEF Init
<1>0. NoArg \in Arg /\ NoArg.new = NoRows
  BY DEF NoArg, Arg, NoRows, Table
<1>1. TypeOK
  BY <1>0 DEF TypeOK, NoRows, Table, Steps
<1>2. RequestsOK
  BY DEF RequestsOK, ReqOK, CreateSteps, RowSteps, DateSteps
<1>3. LocksExclusive /\ ApprovalsOwed
  BY DEF LocksExclusive, ApprovalsOwed
<1>4. IdsReserved
  BY <1>0 DEF IdsReserved, NoRows
<1>5. SeparationOfDuties
  BY DEF SeparationOfDuties
<1> QED BY <1>1, <1>2, <1>3, <1>4, <1>5 DEF IInv

(* Starting any request keeps the inductive invariant.                     *)
LEMMA BeginOK ==
    ASSUME IInv, NEW r \in Req, Begin(r)
    PROVE  IInv'
<1>1. PICK u \in User :
        \/ CreateBegin(r, u)
        \/ BulkDeleteBegin(r, u)
        \/ ApiCreateBegin(r, u)
        \/ \E t \in TxnId :
              \/ PostDraftBegin(r, u, t)
              \/ DeleteDraftBegin(r, u, t)
              \/ DecideBegin(r, u, t, "approve")
              \/ DecideBegin(r, u, t, "reject")
              \/ ReverseBegin(r, u, t)
              \/ EditBegin(r, u, t)
              \/ ApiReverseBegin(r, u, t)
        \/ \E d \in Date : ClosePeriodBegin(r, u, d)
        \/ \E d \in Date \cup {0} : ReopenDelete(r, u, d)
        \/ \E y \in Year : CloseYearBegin(r, u, y)
  BY DEF Begin
<1> QED BY <1>1, CreateBeginOK, BulkDeleteBeginOK, ApiCreateBeginOK,
           PostDraftBeginOK, DeleteDraftBeginOK, DecideBeginOK, ReverseBeginOK,
           EditBeginOK, ApiReverseBeginOK, ClosePeriodBeginOK, ReopenDeleteOK,
           CloseYearBeginOK

(* Every later step of a request keeps it.                                 *)
LEMMA ContinueOK ==
    ASSUME IInv, NEW r \in Req, Continue(r)
    PROVE  IInv'
<1>1. CASE ApproveJournal(r)
  BY <1>1, DecideOK DEF ApproveJournal
<1>2. CASE RejectJournal(r)
  BY <1>2, DecideOK DEF RejectJournal
<1> QED BY <1>1, <1>2, CreateLockLedgerOK, CreateInsertOK, CreateApprovalOK,
           OverrideEventOK, OverrideLiftOK, OverrideRetryOK, PostDraftLoadOK,
           PostDraftPromoteOK, DeleteDraftOK, ClosePeriodInsertOK, ReopenEventOK,
           CloseYearTxnOK, CloseYearCommitOK, InsertTxnOK, InsertPostingsOK
        DEF Continue

(* Every step of the ledger keeps it: one case per kind of step.           *)
LEMMA NextOK == IInv /\ [Next]_vars => IInv'
<1> SUFFICES ASSUME IInv, [Next]_vars PROVE IInv'
  OBVIOUS
<1>1. CASE UNCHANGED vars
  <2>1. RequestsOK'
    BY <1>1, ReqFrame DEF vars, IInv, RequestsOK
  <2> QED BY <1>1, <2>1 DEF vars, IInv, TypeOK, LocksExclusive, IdsReserved,
                            ApprovalsOwed, SeparationOfDuties
<1>2. CASE \E r \in Req : Begin(r) \/ Continue(r) \/ Fail(r) \/ DeadlockAbort(r)
  BY <1>2, BeginOK, ContinueOK, RollbackOK DEF Fail, DeadlockAbort
<1>3. CASE \/ \E a \in Threshold : UpdateThreshold(a)
           \/ ToggleAppendOnly
  BY <1>3, SettingsOK
<1> QED BY <1>1, <1>2, <1>3 DEF Next

(* The inductive invariant holds throughout: types, separation of duties,  *)
(* and what each request's step says of its locks and of the row it is     *)
(* about to write (PostingService, Closing and TransactionWriters          *)
(* together).                                                              *)
THEOREM Invariant == Spec => []IInv
  BY InitOK, NextOK, PTL DEF Spec

(* Type correctness: for any number of requests interleaved in any way,    *)
(* every table of the ledger holds rows of its type.                       *)
THEOREM TypeCorrect == Spec => []TypeOK
<1>1. IInv => TypeOK
  BY DEF IInv
<1> QED BY <1>1, Invariant, PTL

(* Maker-checker: however create, approve, reject, post_draft and          *)
(* delete_draft interleave, a decided journal was decided by another user  *)
(* than its maker, and its kind agrees with the decision.                  *)
THEOREM Duties == Spec => []SeparationOfDuties
<1>1. IInv => SeparationOfDuties
  BY DEF IInv
<1> QED BY <1>1, Invariant, PTL

(* Starting a request changes no row of the journal and no other request,  *)
(* and does not lead into the middle of the override flow.                 *)
Started(p) ==
    /\ pc[p] = "idle"
    /\ UNCHANGED <<txns, approvals, reopens>>
    /\ \E s \in Steps \ {"override_lift"}, a \in {arg'[p]} :
          /\ pc' = [pc EXCEPT ![p] = s]
          /\ arg' = [arg EXCEPT ![p] = a]

(* Every operation begins that way. *)
LEMMA BeginShape ==
    ASSUME TypeOK, NEW p \in Req, Begin(p)
    PROVE  Started(p)
<1>0. ASSUME NEW s \in Steps \ {"override_lift"}, NEW a, NEW locks,
             Start(p, s, a, locks), UNCHANGED <<txns, approvals, reopens>>
      PROVE  Started(p)
  BY <1>0 DEF Start, Started, TypeOK
<1>1. PICK u \in User :
        \/ CreateBegin(p, u)
        \/ BulkDeleteBegin(p, u)
        \/ ApiCreateBegin(p, u)
        \/ \E t \in TxnId :
              \/ PostDraftBegin(p, u, t)
              \/ DeleteDraftBegin(p, u, t)
              \/ DecideBegin(p, u, t, "approve")
              \/ DecideBegin(p, u, t, "reject")
              \/ ReverseBegin(p, u, t)
              \/ EditBegin(p, u, t)
              \/ ApiReverseBegin(p, u, t)
        \/ \E d \in Date : ClosePeriodBegin(p, u, d)
        \/ \E d \in Date \cup {0} : ReopenDelete(p, u, d)
        \/ \E y \in Year : CloseYearBegin(p, u, y)
  BY DEF Begin
<1>2. ASSUME CreateBegin(p, u) PROVE Started(p)
  BY <1>0, <1>2 DEF CreateBegin, Steps, tables
<1>3. ASSUME BulkDeleteBegin(p, u) PROVE Started(p)
  BY <1>0, <1>3 DEF BulkDeleteBegin, Steps, tables
<1>4. ASSUME ApiCreateBegin(p, u) PROVE Started(p)
  BY <1>0, <1>4 DEF ApiCreateBegin, Steps, tables
<1>5. ASSUME NEW t \in TxnId, PostDraftBegin(p, u, t) PROVE Started(p)
  BY <1>0, <1>5 DEF PostDraftBegin, Steps, tables
<1>6. ASSUME NEW t \in TxnId, DeleteDraftBegin(p, u, t) PROVE Started(p)
  BY <1>0, <1>6 DEF DeleteDraftBegin, Steps, tables
<1>7. ASSUME NEW t \in TxnId, ReverseBegin(p, u, t) PROVE Started(p)
  BY <1>0, <1>7 DEF ReverseBegin, Steps, tables
<1>8. ASSUME NEW t \in TxnId, EditBegin(p, u, t) PROVE Started(p)
  BY <1>0, <1>8 DEF EditBegin, Steps, tables
<1>9. ASSUME NEW t \in TxnId, ApiReverseBegin(p, u, t) PROVE Started(p)
  BY <1>0, <1>9 DEF ApiReverseBegin, Steps, tables
<1>10. ASSUME NEW t \in TxnId, DecideBegin(p, u, t, "approve") PROVE Started(p)
  BY <1>0, <1>10 DEF DecideBegin, Steps, tables
<1>11. ASSUME NEW t \in TxnId, DecideBegin(p, u, t, "reject") PROVE Started(p)
  BY <1>0, <1>11 DEF DecideBegin, Steps, tables
<1>12. ASSUME NEW d \in Date, ClosePeriodBegin(p, u, d) PROVE Started(p)
  BY <1>0, <1>12 DEF ClosePeriodBegin, Steps, tables
<1>13. ASSUME NEW d \in Date \cup {0}, ReopenDelete(p, u, d) PROVE Started(p)
  BY <1>0, <1>13 DEF ReopenDelete, Steps, tables
<1>14. ASSUME NEW y \in Year, CloseYearBegin(p, u, y) PROVE Started(p)
  BY <1>0, <1>14 DEF CloseYearBegin, Steps, tables
<1> QED BY <1>1, <1>2, <1>3, <1>4, <1>5, <1>6, <1>7, <1>8, <1>9, <1>10,
           <1>11, <1>12, <1>13, <1>14

(* A step of a request moves no other request. *)
LEMMA OneMoves ==
    ASSUME TypeOK, NEW p \in Req, NEW r \in Req, r # p,
           Begin(p) \/ Continue(p) \/ Fail(p) \/ DeadlockAbort(p)
    PROVE  pc'[r] = pc[r] /\ arg'[r] = arg[r]
<1> USE DEF TypeOK, Advance, Finish, Rollback
<1>1. CASE Begin(p)
  BY <1>1, BeginShape DEF Started
<1>2. CASE Continue(p)
  BY <1>2 DEF Continue, CreateLockLedger, CreateInsert, CreateApproval,
      OverrideEvent, OverrideLift, OverrideRetry, PostDraftLoad,
      PostDraftPromote, DeleteDraft, ApproveJournal, RejectJournal, Decide,
      ClosePeriodInsert, ReopenEvent, CloseYearTxn, CloseYearCommit, InsertTxn,
      InsertPostings
<1>3. CASE Fail(p) \/ DeadlockAbort(p)
  BY <1>3 DEF Fail, DeadlockAbort
<1> QED BY <1>1, <1>2, <1>3

(* The hard close: a row that create or post_draft adds to the reports is  *)
(* not on a closed date, whatever ran since the watermark was read.        *)
THEOREM HardClose == Spec => ServiceRespectsHardClose
<1> DEFINE Step == \A r \in Req, t \in TxnId :
              /\ ServiceStep(r) /\ pc'[r] # pc[r]
              /\ ~Posted(txns[t]) /\ Posted(txns'[t])
              => ~IsClosed(txns'[t].date)
<1>1. IInv /\ [Next]_vars => [Step]_vars
  <2> SUFFICES ASSUME IInv, Next, NEW r \in Req, NEW t \in TxnId,
                      pc[r] \in {"insert", "promote"}, pc'[r] # pc[r],
                      ~Posted(txns[t]), Posted(txns'[t])
               PROVE  ~IsClosed(txns'[t].date)
    BY DEF ServiceStep
  <2>0. ReqOK(pc[r], arg[r], held[r]) /\ TypeOK /\ pc[r] # "idle"
    BY DEF IInv, RequestsOK
  <2>1. Continue(r) \/ Fail(r) \/ DeadlockAbort(r)
    <3>1. ~ ((\E a \in Threshold : UpdateThreshold(a)) \/ ToggleAppendOnly)
      BY DEF UpdateThreshold, ToggleAppendOnly
    <3>2. Begin(r) \/ Continue(r) \/ Fail(r) \/ DeadlockAbort(r)
      BY <2>0, <3>1, OneMoves DEF Next
    <3>3. ~Begin(r)
      BY <2>0, BeginShape DEF Started
    <3> QED BY <3>2, <3>3
  <2>2. txns' # txns
    OBVIOUS
  <2>3. CreateInsert(r) \/ PostDraftPromote(r)
    BY <2>1, <2>2 DEF Continue, Fail, DeadlockAbort, Rollback, tables,
      CreateLockLedger, CreateApproval, OverrideEvent, OverrideLift,
      OverrideRetry, PostDraftLoad, DeleteDraft, ApproveJournal, RejectJournal,
      ClosePeriodInsert, ReopenEvent, CloseYearTxn, CloseYearCommit, InsertTxn,
      InsertPostings
  <2>4. CASE CreateInsert(r)
    <3>1. pc[r] = "insert"
      BY <2>4 DEF CreateInsert
    <3>2. PICK row \in Row, n \in TxnId : row = Planned(arg[r]) /\ n = NewId(arg[r])
      BY <3>1, PlannedType DEF CreateSteps
    <3>3. PICK new : /\ txns' = [txns EXCEPT ![n] = new]
                     /\ new = [row EXCEPT !.number = ResolvedNumber(row),
                            !.kind = IF MustHold(row) THEN "pending" ELSE @]
      BY <2>2, <2>4, <3>2 DEF CreateInsert, Rollback, tables
    <3>4. t = n /\ txns'[t] = new
      BY <3>3, <2>0 DEF TypeOK, Table
    <3>5. new.date = row.date /\ new.kind \in {row.kind, "pending"}
      BY <3>3 DEF Row
    <3>6. row.kind # "draft"
      BY <3>4, <3>5 DEF Posted
    <3> QED BY <2>0, <3>1, <3>2, <3>4, <3>5, <3>6 DEF ReqOK
  <2>5. CASE PostDraftPromote(r)
    <3>1. pc[r] = "promote"
      BY <2>5 DEF PostDraftPromote
    <3>2. PICK x \in TxnId : /\ x = arg[r].txn /\ txns[x] \in Row
                             /\ ~IsClosed(txns[x].date)
      BY <2>0, <3>1 DEF ReqOK, RowSteps, IsDraft, TypeOK, Table
    <3>3. txns' = [txns EXCEPT ![x].kind = "standard"]
      BY <2>2, <2>5, <3>2 DEF PostDraftPromote
    <3>4. t = x /\ txns'[t].date = txns[x].date
      BY <2>0, <3>2, <3>3 DEF TypeOK, Table, Row
    <3> QED BY <3>2, <3>4
  <2> QED BY <2>3, <2>4, <2>5
<1> QED BY <1>1, Invariant, PTL DEF Spec, ServiceRespectsHardClose

(* A step leaves the content of a row as it is. *)
Kept(t) == txns'[t] # NoRow /\ Content(txns'[t]) = Content(txns[t])

(* Finality: once a row is in the reports, no step of any request changes  *)
(* what it says or removes it.                                             *)
THEOREM Final == Spec => PostedIsFinal
<1> DEFINE Step == \A t \in TxnId : Posted(txns[t]) =>
              txns'[t] # NoRow /\ Content(txns'[t]) = Content(txns[t])
<1>1. IInv /\ [Next]_vars => [Step]_vars
  <2> SUFFICES ASSUME IInv, Next, NEW t \in TxnId, Posted(txns[t])
               PROVE  Kept(t)
    BY DEF Kept
  <2>0. txns \in Table /\ txns[t] \in Row /\ txns[t] # NoRow
    BY DEF IInv, TypeOK, Table, Posted
  <2>1. CASE txns'[t] = txns[t]
    BY <2>0, <2>1 DEF Kept
  <2>2. ASSUME NEW r \in Req, Begin(r) PROVE Kept(t)
    BY <2>1, <2>2, BeginShape DEF Started, IInv
  <2>3. ASSUME NEW r \in Req, CreateInsert(r) PROVE Kept(t)
    <3>1. NewId(arg[r]) # t
      BY <2>0, <2>3, PlannedType DEF CreateInsert, CreateSteps
    <3> QED BY <2>0, <2>1, <2>3, <3>1 DEF CreateInsert, Rollback, tables, Table
  <2>4. ASSUME NEW r \in Req, PostDraftPromote(r) PROVE Kept(t)
    <3>1. arg[r].txn # t
      BY <2>4 DEF PostDraftPromote, IInv, RequestsOK, ReqOK, IsDraft, Posted
    <3> QED BY <2>0, <2>1, <2>4, <3>1 DEF PostDraftPromote, Table
  <2>5. ASSUME NEW r \in Req, DeleteDraft(r) PROVE Kept(t)
    <3>1. arg[r].txn # t
      BY <2>5 DEF DeleteDraft, IInv, RequestsOK, ReqOK, IsDraft, Posted
    <3>2. CASE txns'[t] = [txns[t] EXCEPT !.reverses = NoTxn]
      <4>1. [txns[t] EXCEPT !.reverses = NoTxn] \in Row
        BY <2>0 DEF Row
      <4>2. txns'[t] # NoRow
        BY <3>2, <4>1, BooksAssumption
      <4> QED BY <2>0, <3>2, <4>2 DEF Kept, Content, Row
    <3> QED BY <2>1, <2>5, <3>1, <3>2 DEF DeleteDraft
  <2>6. ASSUME NEW r \in Req, pc[r] \in {"approve", "reject"},
               NEW kind, NEW status, Decide(r, kind, status)
        PROVE  Kept(t)
    <3>1. arg[r].txn # t
      BY <2>6 DEF IInv, RequestsOK, ReqOK, RowSteps, SeparationOfDuties, Posted
    <3> QED BY <2>0, <2>1, <2>6, <3>1 DEF Decide, Table
  <2>7. ASSUME NEW r \in Req, InsertPostings(r) \/ CloseYearCommit(r)
        PROVE  Kept(t)
    BY <2>0, <2>1, <2>7, InsertFrame DEF InsertPostings, CloseYearCommit
  <2>8. ASSUME NEW r \in Req, Continue(r) PROVE Kept(t)
    BY <2>1, <2>3, <2>4, <2>5, <2>6, <2>7, <2>8 DEF Continue, CreateLockLedger,
      CreateApproval, OverrideEvent, OverrideLift, OverrideRetry, PostDraftLoad,
      ApproveJournal, RejectJournal, ClosePeriodInsert, ReopenEvent,
      CloseYearTxn, InsertTxn, tables
  <2>9. ASSUME NEW r \in Req, Fail(r) \/ DeadlockAbort(r) PROVE Kept(t)
    BY <2>1, <2>9 DEF Fail, DeadlockAbort, Rollback, tables
  <2> QED BY <2>1, <2>2, <2>8, <2>9 DEF Next, UpdateThreshold, ToggleAppendOnly
<1> QED BY <1>1, Invariant, PTL DEF Spec, PostedIsFinal

-----------------------------------------------------------------------------
(* An override about to delete watermarks has recorded its reopening. *)
OverridesRecorded ==
    \A r \in Req : pc[r] = "override_lift" =>
        <<arg[r].user, arg[r].date>> \in reopens

(* reopen_events only grows. *)
LEMMA ReopensGrow ==
    ASSUME TypeOK, Next
    PROVE  reopens \subseteq reopens'
<1>1. ASSUME NEW r \in Req, Begin(r) PROVE reopens \subseteq reopens'
    BY <1>1, BeginShape DEF Started
<1>2. ASSUME NEW r \in Req, Continue(r) PROVE reopens \subseteq reopens'
    BY <1>2 DEF Continue, tables, Rollback, CreateLockLedger, CreateInsert,
        CreateApproval, OverrideEvent, OverrideLift, OverrideRetry,
        PostDraftLoad, PostDraftPromote, DeleteDraft, ApproveJournal,
        RejectJournal, Decide, ClosePeriodInsert, ReopenEvent, CloseYearTxn,
        CloseYearCommit, InsertTxn, InsertPostings
<1> QED BY <1>1, <1>2 DEF Next, Fail, DeadlockAbort, Rollback, tables,
                          UpdateThreshold, ToggleAppendOnly

(* Only OverrideEvent leads to the deletion of an override. *)
LEMMA OnlyRecordedLift ==
    ASSUME TypeOK, NEW r \in Req, Continue(r), pc'[r] = "override_lift"
    PROVE  OverrideEvent(r)
<1> USE DEF TypeOK, Advance, Finish, Rollback
<1> QED BY DEF Continue, CreateLockLedger, CreateInsert, CreateApproval,
        OverrideLift, OverrideRetry, PostDraftLoad, PostDraftPromote,
        DeleteDraft, ApproveJournal, RejectJournal, Decide, ClosePeriodInsert,
        ReopenEvent, CloseYearTxn, CloseYearCommit, InsertTxn, InsertPostings

(* OverridesRecorded is inductive next to IInv. *)
LEMMA RecordedOK == IInv /\ OverridesRecorded /\ [Next]_vars => OverridesRecorded'
<1> SUFFICES ASSUME IInv, OverridesRecorded, Next, NEW r \in Req,
                    pc'[r] = "override_lift"
             PROVE  <<arg'[r].user, arg'[r].date>> \in reopens'
    BY DEF OverridesRecorded, vars
<1>0. TypeOK /\ reopens \subseteq reopens'
    BY ReopensGrow DEF IInv
<1>1. CASE pc[r] = "override_lift" /\ arg'[r] = arg[r]
    BY <1>0, <1>1 DEF OverridesRecorded
<1>2. ASSUME NEW p \in Req \ {r},
             Begin(p) \/ Continue(p) \/ Fail(p) \/ DeadlockAbort(p)
      PROVE  pc'[r] = pc[r] /\ arg'[r] = arg[r]
    BY <1>0, <1>2, OneMoves
<1>3. ~Begin(r)
    BY <1>0, BeginShape DEF Started, TypeOK
<1>4. CASE Continue(r)
    BY <1>0, <1>4, OnlyRecordedLift DEF OverrideEvent
<1>5. ~Fail(r) /\ ~DeadlockAbort(r)
    BY <1>0 DEF Fail, DeadlockAbort, Rollback, Finish, TypeOK
<1>6. CASE (\E a \in Threshold : UpdateThreshold(a)) \/ ToggleAppendOnly
    BY <1>1, <1>6 DEF UpdateThreshold, ToggleAppendOnly
<1> QED BY <1>1, <1>2, <1>3, <1>4, <1>5, <1>6 DEF Next

(* The only steps that take a watermark away. *)
LEMMA OnlyLifts ==
    ASSUME IInv, Next, NEW y \in Year, closed[y] # 0, closed'[y] = 0
    PROVE  \E r \in Req :
              \/ OverrideLift(r)
              \/ \E u \in User, d \in Date \cup {0} : ReopenDelete(r, u, d)
<1>0. closed \in [Year -> Date \cup {0}] /\ 0 \notin Date
    BY BooksAssumption DEF IInv, TypeOK
<1>1. ASSUME NEW r \in Req, ClosePeriodInsert(r) \/ CloseYearCommit(r)
      PROVE  FALSE
    <2>1. arg[r].date # 0
        BY <1>0, <1>1 DEF IInv, RequestsOK, ReqOK, DateSteps,
            ClosePeriodInsert, CloseYearCommit
    <2> QED BY <1>0, <1>1, <2>1 DEF ClosePeriodInsert, CloseYearCommit
<1>2. ASSUME NEW r \in Req, Begin(r)
      PROVE  \E u \in User, d \in Date \cup {0} : ReopenDelete(r, u, d)
    <2>1. ~UNCHANGED tables
        BY DEF tables
    <2>2. ASSUME NEW u \in User
          PROVE  ~(CreateBegin(r, u) \/ BulkDeleteBegin(r, u)
                                     \/ ApiCreateBegin(r, u))
        BY <2>1 DEF CreateBegin, BulkDeleteBegin, ApiCreateBegin
    <2>3. ASSUME NEW u \in User, NEW t \in TxnId
          PROVE  ~(\/ PostDraftBegin(r, u, t)
                   \/ DeleteDraftBegin(r, u, t)
                   \/ DecideBegin(r, u, t, "approve")
                   \/ DecideBegin(r, u, t, "reject"))
        BY <2>1 DEF PostDraftBegin, DeleteDraftBegin, DecideBegin
    <2>4. ASSUME NEW u \in User, NEW t \in TxnId
          PROVE  ~(ReverseBegin(r, u, t) \/ EditBegin(r, u, t)
                                         \/ ApiReverseBegin(r, u, t))
        BY <2>1 DEF ReverseBegin, EditBegin, ApiReverseBegin
    <2>5. ASSUME NEW u \in User, NEW d PROVE ~ClosePeriodBegin(r, u, d)
        BY <2>1 DEF ClosePeriodBegin
    <2>6. ASSUME NEW u \in User, NEW x PROVE ~CloseYearBegin(r, u, x)
        BY <2>1 DEF CloseYearBegin
    <2> QED BY <1>2, <2>2, <2>3, <2>4, <2>5, <2>6 DEF Begin
<1>3. ASSUME NEW r \in Req, Continue(r) PROVE OverrideLift(r)
    BY <1>1, <1>3 DEF Continue, tables, Rollback, CreateLockLedger,
        CreateInsert, CreateApproval, OverrideEvent, OverrideRetry,
        PostDraftLoad, PostDraftPromote, DeleteDraft, ApproveJournal,
        RejectJournal, Decide, ReopenEvent, CloseYearTxn, InsertTxn,
        InsertPostings
<1>4. ~((\E a \in Threshold : UpdateThreshold(a)) \/ ToggleAppendOnly)
    BY DEF UpdateThreshold, ToggleAppendOnly
<1>5. \A r \in Req : ~Fail(r) /\ ~DeadlockAbort(r)
    BY DEF Fail, DeadlockAbort, Rollback, tables
<1> QED BY <1>2, <1>3, <1>4, <1>5 DEF Next

(* A watermark goes away only by reopen_period or by an override of the    *)
(* web form, of an owner, and the override's reopen_events row is on disk  *)
(* before: for any number of requests that fail between any two steps.     *)
THEOREM Attribution == Spec => LiftIsAttributed
<1> DEFINE Step == \A y \in Year : closed[y] # 0 /\ closed'[y] = 0 =>
          \E r \in Req : /\ arg'[r].user \in Owner
                         /\ \/ pc'[r] = "reopen_event"
                            \/ /\ pc[r] = "override_lift"
                               /\ <<arg[r].user, arg[r].date>> \in reopens
<1>1. Init => OverridesRecorded
    BY DEF Init, OverridesRecorded
<1>2. IInv /\ OverridesRecorded /\ [Next]_vars => [Step]_vars
    <2> SUFFICES ASSUME IInv, OverridesRecorded, Next, NEW y \in Year,
                        closed[y] # 0, closed'[y] = 0
                 PROVE  \E r \in Req :
                          /\ arg'[r].user \in Owner
                          /\ \/ pc'[r] = "reopen_event"
                             \/ /\ pc[r] = "override_lift"
                                /\ <<arg[r].user, arg[r].date>> \in reopens
        OBVIOUS
    <2>1. ASSUME NEW r \in Req, OverrideLift(r)
          PROVE  /\ arg'[r].user \in Owner
                 /\ pc[r] = "override_lift"
                 /\ <<arg[r].user, arg[r].date>> \in reopens
        <3>1. pc[r] = "override_lift" /\ arg[r].user \in Owner /\ arg[r] \in Arg
            BY <2>1 DEF OverrideLift, IInv, RequestsOK, ReqOK, TypeOK
        <3>2. arg' = [arg EXCEPT ![r].override = FALSE] /\ arg \in [Req -> Arg]
            BY <2>1 DEF OverrideLift, IInv, TypeOK
        <3>3. arg'[r].user = arg[r].user
            BY <3>1, <3>2 DEF Arg
        <3> QED BY <3>1, <3>3 DEF OverridesRecorded
    <2>2. ASSUME NEW r \in Req, NEW u \in User, NEW d \in Date \cup {0},
                 ReopenDelete(r, u, d)
          PROVE  arg'[r].user \in Owner /\ pc'[r] = "reopen_event"
        <3>1. /\ pc'[r] = "reopen_event" /\ u \in Owner
              /\ arg'[r] = [NoArg EXCEPT !.user = u, !.date = d]
            BY <2>2 DEF ReopenDelete, Start, IInv, TypeOK
        <3> QED BY <3>1 DEF NoArg
    <2> QED BY <2>1, <2>2, OnlyLifts
<1> QED BY <1>1, <1>2, RecordedOK, Invariant, PTL DEF Spec, LiftIsAttributed

-----------------------------------------------------------------------------
(* LedgerSystem implements Journal under the mapping of LedgerSystem. *)

(* An entry that is there differs from none. *)
LEMMA EntryThere ==
    ASSUME NEW row \in Row
    PROVE  /\ EntryOf(row) # NoEntry
           /\ EntryOf(row) = [phase |-> PhaseOf(row.kind), maker |-> row.maker,
                              text |-> <<row.date, row.amount, row.shape,
                                         row.number>>]
<1>1. row # NoRow
    BY BooksAssumption
<1>2. EntryOf(row).phase = PhaseOf(row.kind) /\ NoEntry.phase = "none"
    BY <1>1 DEF EntryOf, NoEntry
<1>3. PhaseOf(row.kind) # "none"
    BY DEF PhaseOf, Row, Kind
<1> QED BY <1>1, <1>2, <1>3 DEF EntryOf

(* Steps that touch neither table, or only the way the mapping cannot see. *)
LEMMA JournalFrame ==
    ASSUME txns' = txns, Checkers' = Checkers
    PROVE  UNCHANGED Promise!journal
BY DEF Promise!journal, Entries, EntryOf

(* A request that inserts the rows it planned records them. *)
LEMMA RecordsNew ==
    ASSUME IInv, approvals' = approvals, txns' \in Table,
           \A t \in TxnId : txns[t] # NoRow => txns'[t] = txns[t]
    PROVE  [Promise!Next]_(Promise!journal)
<1> DEFINE S == {t \in TxnId : txns[t] = NoRow /\ txns'[t] # NoRow}
<1>1. UNCHANGED Checkers
    BY DEF Checkers, CheckerOf
<1>2. \A t \in TxnId \ S : txns'[t] = txns[t]
    OBVIOUS
<1>3. \A t \in TxnId \ S : Entries'[t] = Entries[t]
    BY <1>2 DEF Entries, EntryOf
<1>4. \A t \in S : Entries[t] = NoEntry /\ Entries'[t] # NoEntry
    <2> SUFFICES ASSUME NEW t \in S
                 PROVE  Entries[t] = NoEntry /\ Entries'[t] # NoEntry
        OBVIOUS
    <2>1. txns'[t] \in Row
        BY DEF Table
    <2>2. Entries[t] = EntryOf(txns[t]) /\ Entries'[t] = EntryOf(txns'[t])
        BY DEF Entries, EntryOf
    <2> QED BY <2>1, <2>2, EntryThere DEF EntryOf
<1>5. CASE S = {}
    <2>1. Entries' = Entries
        BY <1>3, <1>5 DEF Entries
    <2> QED BY <1>1, <2>1 DEF Promise!journal
<1>6. CASE S # {}
    <2>1. Promise!Record(S)
        BY <1>1, <1>3, <1>4, <1>6 DEF Promise!Record
    <2>2. S \in SUBSET TxnId
        OBVIOUS
    <2> QED BY <2>1, <2>2 DEF Promise!Next
<1> QED BY <1>5, <1>6

(* create commits its row. *)
LEMMA CreateRecords ==
    ASSUME IInv, NEW r \in Req, CreateInsert(r)
    PROVE  [Promise!Next]_(Promise!journal)
<1>1. approvals' = approvals
    BY DEF CreateInsert, Rollback, tables
<1>2. txns' \in Table
    BY CreateInsertOK DEF IInv, TypeOK
<1>3. NewId(arg[r]) \in TxnId /\ txns[NewId(arg[r])] = NoRow
    BY PlannedType DEF CreateInsert, CreateSteps
<1>4. \A t \in TxnId : txns[t] # NoRow => txns'[t] = txns[t]
    BY <1>3 DEF CreateInsert, Rollback, tables, IInv, TypeOK, Table
<1> QED BY <1>1, <1>2, <1>4, RecordsNew

(* edit, reverse, bulk delete, the REST create and close_year commit       *)
(* theirs.                                                                 *)
LEMMA WritersRecord ==
    ASSUME IInv, NEW r \in Req, InsertPostings(r) \/ CloseYearCommit(r)
    PROVE  [Promise!Next]_(Promise!journal)
<1>1. approvals' = approvals
    BY DEF InsertPostings, CloseYearCommit
<1>2. txns' = txns \/ txns' = Insert(txns, arg[r].new)
    BY DEF InsertPostings, CloseYearCommit
<1>3. txns' \in Table /\ \A t \in TxnId : txns[t] # NoRow => txns'[t] = txns[t]
    BY <1>2, InsertFrame DEF IInv, TypeOK
<1> QED BY <1>1, <1>3, RecordsNew

(* A new kind changes the phase of the entry and nothing else. *)
LEMMA KindIsPhase ==
    ASSUME txns \in Table, NEW t \in TxnId, txns[t] # NoRow, NEW kind \in Kind,
           txns' = [txns EXCEPT ![t].kind = kind]
    PROVE  /\ Entries' = [Entries EXCEPT ![t].phase = PhaseOf(kind)]
           /\ Entries[t] # NoEntry
           /\ Entries[t].phase = PhaseOf(txns[t].kind)
           /\ Entries[t].maker = txns[t].maker
<1>1. PICK row \in Row : row = txns[t]
    BY DEF Table
<1>2. PICK new \in Row : /\ new = [row EXCEPT !.kind = kind]
                         /\ new.kind = kind /\ new.maker = row.maker
                         /\ new.date = row.date /\ new.amount = row.amount
                         /\ new.shape = row.shape /\ new.number = row.number
    <2>1. [row EXCEPT !.kind = kind] \in Row
        BY DEF Row
    <2> QED BY <2>1 DEF Row
<1>3. txns' = [txns EXCEPT ![t] = new]
    BY <1>1, <1>2 DEF Table
<1>4. /\ txns'[t] = new
      /\ \A x \in TxnId : x # t => txns'[x] = txns[x]
    BY <1>3 DEF Table
<1>5. EntryOf(new) = [EntryOf(row) EXCEPT !.phase = PhaseOf(kind)]
    <2>1. PICK text : text = <<row.date, row.amount, row.shape, row.number>>
        OBVIOUS
    <2>2. /\ EntryOf(row) = [phase |-> PhaseOf(row.kind), maker |-> row.maker,
                             text |-> text]
          /\ EntryOf(new) = [phase |-> PhaseOf(kind), maker |-> row.maker,
                             text |-> text]
        BY <1>2, <2>1, EntryThere
    <2> QED BY <2>2
<1>6. /\ Entries = [x \in TxnId |-> EntryOf(txns[x])]
      /\ Entries' = [x \in TxnId |-> EntryOf(txns'[x])]
    BY DEF Entries, EntryOf
<1>7. Entries' = [Entries EXCEPT ![t] = EntryOf(new)]
    BY <1>4, <1>6
<1>8. Entries[t] = EntryOf(row)
    BY <1>1, <1>6
<1> QED BY <1>1, <1>5, <1>6, <1>7, <1>8, EntryThere

(* post_draft promotes its draft, or does nothing on an append-only ledger. *)
LEMMA PromotePromotes ==
    ASSUME IInv, NEW r \in Req, PostDraftPromote(r)
    PROVE  [Promise!Next]_(Promise!journal)
<1>1. Checkers' = Checkers
    BY DEF PostDraftPromote, Checkers, CheckerOf
<1>2. PICK t \in TxnId : t = arg[r].txn /\ IsDraft(t)
    BY DEF PostDraftPromote, IInv, RequestsOK, ReqOK, RowSteps
<1>3. CASE appendOnly
    BY <1>1, <1>3, JournalFrame DEF PostDraftPromote
<1>4. CASE ~appendOnly
    <2>1. txns' = [txns EXCEPT ![t].kind = "standard"]
        BY <1>2, <1>4 DEF PostDraftPromote
    <2>2. PhaseOf("standard") = "posted" /\ PhaseOf("draft") = "draft"
        BY DEF PhaseOf
    <2>3. /\ Entries' = [Entries EXCEPT ![t].phase = "posted"]
          /\ Entries[t] # NoEntry
          /\ Entries[t].phase = "draft"
        BY <1>2, <2>1, <2>2, KindIsPhase DEF IsDraft, IInv, TypeOK, Kind
    <2>4. Promise!Promote(t)
        BY <1>1, <2>3 DEF Promise!Promote
    <2> QED BY <2>4 DEF Promise!Next
<1> QED BY <1>3, <1>4

(* delete_draft discards its draft; the reversals that lose their          *)
(* reference to it are the same entries as before.                         *)
LEMMA DeleteDiscards ==
    ASSUME IInv, NEW r \in Req, DeleteDraft(r)
    PROVE  [Promise!Next]_(Promise!journal)
<1>1. PICK t \in TxnId : t = arg[r].txn /\ IsDraft(t)
    BY DEF DeleteDraft, IInv, RequestsOK, ReqOK, RowSteps
<1>2. CASE UNCHANGED <<txns, approvals>>
    BY <1>2, JournalFrame DEF Checkers, CheckerOf
<1>3. CASE /\ txns' = [x \in TxnId |->
                 IF x = t THEN NoRow
                 ELSE IF txns[x] # NoRow /\ txns[x].reverses = t
                      THEN [txns[x] EXCEPT !.reverses = NoTxn]
                      ELSE txns[x]]
           /\ approvals' = [approvals EXCEPT ![t] = NoApproval]
    <2>1. ASSUME NEW row \in Row
          PROVE  EntryOf([row EXCEPT !.reverses = NoTxn]) = EntryOf(row)
        <3>1. PICK new \in Row :
                 /\ new = [row EXCEPT !.reverses = NoTxn]
                 /\ new.kind = row.kind /\ new.maker = row.maker
                 /\ new.date = row.date /\ new.amount = row.amount
                 /\ new.shape = row.shape /\ new.number = row.number
            <4>1. [row EXCEPT !.reverses = NoTxn] \in Row
                BY DEF Row
            <4> QED BY <4>1 DEF Row
        <3> QED BY <3>1, EntryThere
    <2>2. \A x \in TxnId \ {t} : EntryOf(txns'[x]) = EntryOf(txns[x])
        BY <1>3, <2>1 DEF IInv, TypeOK, Table
    <2>3. EntryOf(txns'[t]) = NoEntry
        BY <1>3 DEF EntryOf
    <2>4. /\ Entries = [x \in TxnId |-> EntryOf(txns[x])]
          /\ Entries' = [x \in TxnId |-> EntryOf(txns'[x])]
        BY DEF Entries, EntryOf
    <2>5. Entries' = [Entries EXCEPT ![t] = NoEntry]
        BY <2>2, <2>3, <2>4
    <2>6. Checkers' = [Checkers EXCEPT ![t] = NoUser]
        BY <1>3 DEF Checkers, CheckerOf, IInv, TypeOK
    <2>7. Entries[t] # NoEntry /\ Entries[t].phase = "draft"
        BY <1>1, <2>4, EntryThere DEF IsDraft, PhaseOf, IInv, TypeOK, Table
    <2>8. Promise!Discard(t)
        BY <2>5, <2>6, <2>7 DEF Promise!Discard
    <2> QED BY <2>8 DEF Promise!Next
<1> QED BY <1>1, <1>2, <1>3 DEF DeleteDraft

(* approve_journal and reject_journal let a held entry go in the checker's *)
(* name.                                                                   *)
LEMMA DecideDecides ==
    ASSUME IInv, NEW r \in Req, pc[r] \in {"approve", "reject"},
           NEW kind \in {"standard", "draft"},
           NEW status \in {"approved", "rejected"}, Decide(r, kind, status)
    PROVE  [Promise!Next]_(Promise!journal)
<1>1. PICK t \in TxnId, u \in User :
         /\ t = arg[r].txn /\ u = arg[r].user
         /\ approvals[t] # NoApproval /\ approvals[t].status = "pending"
         /\ approvals[t].maker # u
    BY DEF IInv, RequestsOK, ReqOK, RowSteps
<1>2. CASE UNCHANGED <<txns, approvals>>
    BY <1>2, JournalFrame DEF Checkers, CheckerOf
<1>3. CASE /\ txns' = [txns EXCEPT ![t].kind = kind]
           /\ approvals' = [approvals EXCEPT ![t].status = status,
                                             ![t].checker = u]
    <2>1. txns[t] # NoRow /\ txns[t].kind = "pending"
          /\ txns[t].maker = approvals[t].maker
        BY <1>1 DEF IInv, SeparationOfDuties
    <2>2. /\ Entries' = [Entries EXCEPT ![t].phase = PhaseOf(kind)]
          /\ Entries[t] # NoEntry
          /\ Entries[t].phase = "held" /\ Entries[t].maker # u
        <3>1. PhaseOf("pending") = "held" /\ kind \in Kind
            BY DEF PhaseOf, Kind
        <3> QED BY <1>1, <1>3, <2>1, <3>1, KindIsPhase DEF IInv, TypeOK
    <2>3. Checkers' = [Checkers EXCEPT ![t] = u]
        <3>1. /\ approvals \in [TxnId -> Approval \cup {NoApproval}]
              /\ approvals[t] \in Approval
            BY <1>1 DEF IInv, TypeOK
        <3>2. /\ approvals'[t].checker = u
              /\ \A x \in TxnId : x # t => approvals'[x] = approvals[x]
            BY <1>3, <3>1 DEF Approval
        <3>3. [approvals[t] EXCEPT !.status = status, !.checker = u] \in Approval
            BY <3>1 DEF Approval
        <3>4. approvals'[t] = [approvals[t] EXCEPT !.status = status, !.checker = u]
            BY <1>3, <3>1
        <3>5. approvals'[t] # NoApproval
            BY <3>3, <3>4, BooksAssumption
        <3> QED BY <3>1, <3>2, <3>5 DEF Checkers, CheckerOf
    <2>4. PhaseOf(kind) \in {"draft", "posted"}
        BY DEF PhaseOf
    <2>5. Promise!Decide(t, u, PhaseOf(kind))
        BY <2>2, <2>3 DEF Promise!Decide
    <2> QED BY <2>4, <2>5 DEF Promise!Next
<1> QED BY <1>1, <1>2, <1>3 DEF Decide

(* The approval row of a new held journal has no checker yet. *)
LEMMA ApprovalIsQuiet ==
    ASSUME IInv, NEW r \in Req, CreateApproval(r)
    PROVE  UNCHANGED Promise!journal
<1>1. PICK t \in TxnId : t = arg[r].txn /\ approvals[t] = NoApproval
    BY DEF CreateApproval, IInv, RequestsOK, ReqOK, RowSteps
<1>2. PICK ap \in Approval : ap.checker = NoUser
                             /\ approvals' = [approvals EXCEPT ![t] = ap]
    <2>1. arg[r].user \in User
        BY DEF CreateApproval, IInv, RequestsOK, ReqOK
    <2>2. [status |-> "pending", maker |-> arg[r].user, checker |-> NoUser]
            \in Approval
        BY <2>1 DEF Approval
    <2> QED BY <1>1, <2>2 DEF CreateApproval
<1>3. ap # NoApproval
    BY BooksAssumption
<1>4. Checkers' = Checkers
    BY <1>1, <1>2, <1>3 DEF Checkers, CheckerOf, IInv, TypeOK
<1> QED BY <1>4, JournalFrame DEF CreateApproval

(* Refinement: every step of every handler, with any number of requests in *)
(* flight and failures between any two of their steps, is a step of        *)
(* Journal or invisible in it.                                             *)
THEOREM KeepsJournal == Spec => JournalKept
<1>1. Init => Promise!Init
    BY DEF Init, Promise!Init, Entries, Checkers, EntryOf, CheckerOf, NoRows
<1>2. IInv /\ [Next]_vars => [Promise!Next]_(Promise!journal)
    <2> SUFFICES ASSUME IInv, [Next]_vars
                 PROVE  [Promise!Next]_(Promise!journal)
        OBVIOUS
    <2>1. CASE UNCHANGED <<txns, approvals>>
        BY <2>1, JournalFrame DEF Checkers, CheckerOf
    <2>2. ASSUME NEW r \in Req, Begin(r)
          PROVE  [Promise!Next]_(Promise!journal)
        BY <2>1, <2>2, BeginShape DEF Started, IInv
    <2>3. ASSUME NEW r \in Req, ApproveJournal(r) \/ RejectJournal(r)
          PROVE  [Promise!Next]_(Promise!journal)
        BY <2>3, DecideDecides DEF ApproveJournal, RejectJournal
    <2>4. ASSUME NEW r \in Req, Continue(r)
          PROVE  [Promise!Next]_(Promise!journal)
        <3>1. CASE \/ CreateLockLedger(r) \/ OverrideEvent(r) \/ OverrideLift(r)
                   \/ OverrideRetry(r) \/ PostDraftLoad(r) \/ ReopenEvent(r)
                   \/ ClosePeriodInsert(r) \/ CloseYearTxn(r) \/ InsertTxn(r)
            BY <2>1, <3>1 DEF CreateLockLedger, OverrideEvent, OverrideLift,
                OverrideRetry, PostDraftLoad, ReopenEvent, ClosePeriodInsert,
                CloseYearTxn, InsertTxn, tables
        <3> QED BY <2>3, <2>4, <3>1, CreateRecords, WritersRecord,
                   PromotePromotes, DeleteDiscards, ApprovalIsQuiet
                DEF Continue
    <2>5. ASSUME NEW r \in Req, Fail(r) \/ DeadlockAbort(r)
          PROVE  [Promise!Next]_(Promise!journal)
        BY <2>1, <2>5 DEF Fail, DeadlockAbort, Rollback, tables
    <2>6. CASE (\E a \in Threshold : UpdateThreshold(a)) \/ ToggleAppendOnly
        BY <2>1, <2>6 DEF UpdateThreshold, ToggleAppendOnly
    <2>7. CASE UNCHANGED vars
        BY <2>1, <2>7 DEF vars
    <2> QED BY <2>2, <2>4, <2>5, <2>6, <2>7 DEF Next
<1> QED BY <1>1, <1>2, Invariant, PTL DEF Spec, JournalKept, Promise!Spec
=============================================================================
