------------------------------ MODULE Banking ------------------------------
(***************************************************************************)
(* What the bank says: feeds (workers/sync.rs, handlers/bank_feeds.rs),    *)
(* uploaded statements (handlers/reconciliation.rs), the sessions that     *)
(* reconcile one account (handlers/rec_sessions.rs) and the rules applied  *)
(* to booked transactions (handlers/rules_apply.rs).                       *)
(***************************************************************************)
EXTENDS Requests, FiniteSetsExt

CONSTANTS
    MaxFeed,        \* bound: transactions the provider comes to have
    ZeroItem,       \* feed transactions of amount zero
    Unreadable,     \* those without an id, a date or an amount to read
    Statement,      \* lines of the bank's statements
    BankId,         \* those that carry an id of the bank
    PlainText,      \* those whose description normalising leaves as it is
    Row,            \* rows of bank_statement_lines of the account
    RowAmount,      \* their amounts
    StmtSession,    \* rec_sessions of the account
    CloseDate,      \* their stmt_close_date
    CloseBalance,   \* values of stmt_close_balance
    Category,       \* income and expense accounts
    BankTxn,        \* booked transactions
    TxnDate,        \* their dates, in half-years: 2y and 2y + 1 are of year y
    Watermarks      \* dates users close through

ASSUME BankingAssumption ==
    /\ MaxFeed \in Nat
    /\ BankId \cup PlainText \subseteq Statement

VARIABLES
    provider,       \* transactions 1..provider exist at the bank
    link,           \* bank_feed_links: [status, cursor]
    feedTxn,        \* bank_feed_transactions: item -> transactions made
    lines,          \* bank_statement_lines: statement line -> rows
    recon,          \* rec_sessions: [status, opening, close]
    cleared,        \* rec_lines that are cleared
    matched,        \* bank_statement_lines.status and matched_transaction_id
    reconciled,     \* transactions.is_reconciled
    category,       \* the contra account of each booked transaction
    closedThrough   \* closed_periods: the closed_through of its rows

feedVars == <<provider, link, feedTxn>>
reconVars == <<recon, cleared>>
bookVars == <<matched, reconciled, category, closedThrough>>
bankVars == <<feedVars, lines, reconVars, bookVars>>

Absent == [status |-> "none"]

InitBanking ==
    /\ provider = 0
    /\ link = [status |-> "active", cursor |-> 0]
    /\ feedTxn = [i \in 1..MaxFeed |-> 0]
    /\ lines = [e \in Statement |-> 0]
    /\ recon = [s \in StmtSession |-> Absent]
    /\ cleared = [s \in StmtSession |-> {}]
    /\ matched = [x \in Row |-> Absent]
    /\ reconciled = {}
    /\ category \in [BankTxn -> Category]
    /\ closedThrough = {}

-----------------------------------------------------------------------------
(* Feeds.  The worker and the webhook sync active links, the button any.   *)
ProviderBooks ==
    /\ provider < MaxFeed
    /\ provider' = provider + 1
    /\ UNCHANGED <<reqVars, link, feedTxn, lines, reconVars, bookVars>>

SyncStart(r, by) ==
    /\ Begin(r, "fetch", [on |-> "link", by |-> by, cursor |-> link.cursor])
    /\ UNCHANGED bankVars

(* run_once: the round of the worker. *)
SyncBegin(r) == link.status = "active" /\ SyncStart(r, "worker")

(* sync: the button. *)
SyncNow(r) == SyncStart(r, "request")

(* webhook_plaid: run_for_link reads the link again, and syncs it although *)
(* it may have been unlinked by then.                                      *)
WebhookFind(r) ==
    /\ link.status = "active"
    /\ Begin(r, "webhook", [on |-> "link"])
    /\ UNCHANGED bankVars
WebhookSync(r) ==
    /\ pc[r] = "webhook"
    /\ Goto(r, "fetch", [on |-> "link", by |-> "request", cursor |-> link.cursor])
    /\ UNCHANGED bankVars

(* The worker marks the link; it is never picked up again, for a later     *)
(* success does not set the status back.  A sync asked for only logs.      *)
SyncFails(r) ==
    /\ link' = IF loc[r].by = "worker" THEN [link EXCEPT !.status = "error"] ELSE link
    /\ End(r)

(* fetch_transactions: everything after the cursor, or an error.  Items    *)
(* that filter_map drops are passed over below; the cursor passes them too. *)
SyncFetch(r) ==
    /\ pc[r] = "fetch"
    /\ \/ /\ Goto(r, "import", [on |-> "link", by |-> loc[r].by,
                                next |-> loc[r].cursor + 1, upto |-> provider])
          /\ UNCHANGED link
       \/ SyncFails(r)
    /\ UNCHANGED <<provider, feedTxn, lines, reconVars, bookVars>>

(* import_transaction: the item is looked up ... *)
ImportCheck(r) ==
    /\ pc[r] = "import"
    /\ loc[r].next <= loc[r].upto
    /\ IF loc[r].next \in Unreadable \/ feedTxn[loc[r].next] > 0
       THEN Goto(r, "import", [loc[r] EXCEPT !.next = @ + 1])
       ELSE Goto(r, "import_write", loc[r])
    /\ UNCHANGED bankVars

(* ... and booked with its id: a CHECK refuses a leg of zero, the unique   *)
(* constraint an item another sync has booked meanwhile.                   *)
ImportWrite(r) ==
    /\ pc[r] = "import_write"
    /\ LET i == loc[r].next
       IN  IF i \in ZeroItem \/ feedTxn[i] > 0
           THEN SyncFails(r) /\ UNCHANGED feedTxn
           ELSE /\ feedTxn' = [feedTxn EXCEPT ![i] = @ + 1]
                /\ Goto(r, "import", [loc[r] EXCEPT !.next = @ + 1])
                /\ UNCHANGED link
    /\ UNCHANGED <<provider, lines, reconVars, bookVars>>

(* Fault: the cursor is the provider's newest, not that of the page read. *)
SyncCursorNewest(r) ==
    /\ pc[r] = "import" /\ loc[r].next > loc[r].upto
    /\ link' = [link EXCEPT !.cursor = provider]
    /\ End(r)
    /\ UNCHANGED <<provider, feedTxn, lines, reconVars, bookVars>>

SyncCursor(r) ==
    /\ pc[r] = "import" /\ loc[r].next > loc[r].upto
    /\ link' = [link EXCEPT !.cursor = loc[r].upto]
    /\ End(r)
    /\ UNCHANGED <<provider, feedTxn, lines, reconVars, bookVars>>

Unlink(r) ==
    /\ link' = [link EXCEPT !.status = "disconnected"]
    /\ Serve(r, "link")
    /\ UNCHANGED <<provider, feedTxn, lines, reconVars, bookVars>>

BankCutOff(r) == CutOff(r) /\ UNCHANGED bankVars

FeedNext ==
    \/ ProviderBooks
    \/ \E r \in Req :
          \/ SyncFetch(r) \/ ImportCheck(r) \/ ImportWrite(r) \/ SyncCursor(r)
          \/ Unlink(r) \/ BankCutOff(r)
          \/ SyncBegin(r) \/ SyncNow(r) \/ WebhookFind(r) \/ WebhookSync(r)

-----------------------------------------------------------------------------
Known(e) == lines[e] > 0 /\ e \in BankId \cup PlainText

(* upload_csv: lookups and inserts in one transaction, a file of one line. *)
UploadRead(r, e) ==
    /\ IF Known(e) THEN Serve(r, e) ELSE Begin(r, "upload", [on |-> e])
    /\ UNCHANGED bankVars

(* The commit: uq_bsl_external refuses an id another upload has brought.   *)
UploadCommit(r) ==
    /\ pc[r] = "upload"
    /\ LET e == loc[r].on
       IN  /\ lines[e] < 2
           /\ lines' = IF e \in BankId /\ lines[e] > 0 THEN lines ELSE [lines EXCEPT ![e] = @ + 1]
    /\ End(r)
    /\ UNCHANGED <<feedVars, reconVars, bookVars>>

StatementNext ==
    \E r \in Req : \/ UploadCommit(r) \/ BankCutOff(r)
                   \/ \E e \in Statement : UploadRead(r, e)

-----------------------------------------------------------------------------
(* Sessions. *)
Closed(s) == recon[s].status = "closed"
AmountOf(rows) == FoldSet(LAMBDA x, n : n + RowAmount[x], 0, rows)
ClearedSum(s) == AmountOf(cleared[s])

(* compute_difference *)
Difference(s) == recon[s].close - (recon[s].opening + ClearedSum(s))

(* create_session: the opening is the close of the latest closed session;  *)
CreateRead(r, s, close) ==
    LET prior == {t \in StmtSession : Closed(t)}
        latest == CHOOSE t \in prior : \A u \in prior : CloseDate[u] <= CloseDate[t]
    IN  /\ Begin(r, "create", [on |-> s, close |-> close,
                               opening |-> IF prior = {} THEN 0 ELSE recon[latest].close])
        /\ UNCHANGED bankVars

(* then the INSERT, refused when the account has a session of that date.   *)
CreateWrite(r) ==
    /\ pc[r] = "create"
    /\ LET d == loc[r]
       IN  recon' = IF recon[d.on] # Absent THEN recon
                    ELSE [recon EXCEPT ![d.on] =
                            [status |-> "open", close |-> d.close, opening |-> d.opening]]
    /\ End(r)
    /\ UNCHANGED <<feedVars, lines, cleared, bookVars>>

(* Fault: a line of a closed session can be changed. *)
MarkReadAnyStatus(r, s, x, on) ==
    /\ recon[s] # Absent
    /\ Begin(r, "mark", [on |-> s, row |-> x, clear |-> on])
    /\ UNCHANGED bankVars

(* clear and unclear: load_session, then the upsert. *)
MarkRead(r, s, x, on) ==
    /\ recon[s] # Absent
    /\ IF Closed(s) THEN Serve(r, s)
       ELSE Begin(r, "mark", [on |-> s, row |-> x, clear |-> on])
    /\ UNCHANGED bankVars

MarkWrite(r) ==
    /\ pc[r] = "mark"
    /\ cleared' = [cleared EXCEPT ![loc[r].on] =
                     IF loc[r].clear THEN @ \cup {loc[r].row} ELSE @ \ {loc[r].row}]
    /\ End(r)
    /\ UNCHANGED <<feedVars, lines, recon, bookVars>>

FinishLoad(r, s) ==
    /\ recon[s] # Absent
    /\ IF Closed(s) THEN Serve(r, s) ELSE Begin(r, "finish_sum", [on |-> s])
    /\ UNCHANGED bankVars

(* validate_finish *)
FinishSum(r) ==
    /\ pc[r] = "finish_sum"
    /\ IF Difference(loc[r].on) = 0 THEN Goto(r, "finish_write", loc[r]) ELSE End(r)
    /\ UNCHANGED bankVars

FinishWrite(r) ==
    /\ pc[r] = "finish_write"
    /\ recon' = [recon EXCEPT ![loc[r].on].status = "closed"]
    /\ End(r)
    /\ UNCHANGED <<feedVars, lines, cleared, bookVars>>

UnreconcileLoad(r, s) ==
    /\ recon[s] # Absent
    /\ IF Closed(s) THEN Begin(r, "unreconcile", [on |-> s]) ELSE Serve(r, s)
    /\ UNCHANGED bankVars

(* The session and its lines, in one transaction. *)
UnreconcileCommit(r) ==
    /\ pc[r] = "unreconcile"
    /\ recon' = [recon EXCEPT ![loc[r].on].status = "open"]
    /\ cleared' = [cleared EXCEPT ![loc[r].on] = {}]
    /\ End(r)
    /\ UNCHANGED <<feedVars, lines, bookVars>>

ReconcileNext ==
    \E r \in Req :
       \/ CreateWrite(r) \/ MarkWrite(r) \/ FinishSum(r) \/ FinishWrite(r) \/ UnreconcileCommit(r)
       \/ BankCutOff(r)
       \/ \E s \in StmtSession :
             \/ \E close \in CloseBalance : CreateRead(r, s, close)
             \/ \E x \in Row, on \in BOOLEAN : MarkRead(r, s, x, on)
             \/ FinishLoad(r, s) \/ UnreconcileLoad(r, s)

-----------------------------------------------------------------------------
(* match_line: no look at what the line or the transaction was before. *)
MatchLine(r, x, t) ==
    /\ matched' = [matched EXCEPT ![x] = [status |-> "matched", txn |-> t]]
    /\ reconciled' = reconciled \cup {t}
    /\ Serve(r, t)
    /\ UNCHANGED <<feedVars, lines, reconVars, category, closedThrough>>

ExcludeLine(r, x) ==
    /\ matched' = [matched EXCEPT ![x] =
                     IF @ = Absent THEN @ ELSE [@ EXCEPT !.status = "excluded"]]
    /\ Serve(r, x)
    /\ UNCHANGED <<feedVars, lines, reconVars, reconciled, category, closedThrough>>

(* A row of closed_periods is of the transaction's year.  The watermark    *)
(* itself, which closes every date up to it, is not looked at here.        *)
YearOf(d) == d \div 2
InClosedYear(t) == \E c \in closedThrough : YearOf(c) = YearOf(TxnDate[t])

(* apply_rules: the guard on closed years, the rules and the differences   *)
(* are read first; one transaction of such a year refuses them all.        *)
ApplyRulesRead(r, chosen, to) ==
    /\ IF \E t \in chosen : InClosedYear(t) THEN Serve(r, "books")
       ELSE Begin(r, "apply_rules", [on |-> "books", chosen |-> chosen, to |-> to])
    /\ UNCHANGED bankVars

ApplyRulesCommit(r) ==
    /\ pc[r] = "apply_rules"
    /\ category' = [t \in BankTxn |-> IF t \in loc[r].chosen THEN loc[r].to ELSE category[t]]
    /\ End(r)
    /\ UNCHANGED <<feedVars, lines, reconVars, matched, reconciled, closedThrough>>

(* close_period, and close_year for the end of a year: UNIQUE (ledger_id,  *)
(* period_year).  close_period looks at the watermark before it inserts,   *)
(* so that the rows may come in any order.                                 *)
CloseThrough(r, d) ==
    /\ \A c \in closedThrough : YearOf(c) # YearOf(d)
    /\ closedThrough' = closedThrough \cup {d}
    /\ Serve(r, "books")
    /\ UNCHANGED <<feedVars, lines, reconVars, matched, reconciled, category>>

(* reopen_period: the rows of that date and later ones. *)
ReopenFrom(r, d) ==
    /\ closedThrough' = {c \in closedThrough : c < d}
    /\ Serve(r, "books")
    /\ UNCHANGED <<feedVars, lines, reconVars, matched, reconciled, category>>

RulesNext ==
    \E r \in Req :
       \/ ApplyRulesCommit(r) \/ BankCutOff(r)
       \/ \E d \in Watermarks : CloseThrough(r, d) \/ ReopenFrom(r, d)
       \/ \E x \in Row : ExcludeLine(r, x) \/ \E t \in BankTxn : MatchLine(r, x, t)
       \/ \E chosen \in SUBSET BankTxn \ {{}}, to \in Category : ApplyRulesRead(r, chosen, to)

BankingNext == FeedNext \/ StatementNext \/ ReconcileNext \/ RulesNext
BankingSpec ==
    InitRequests /\ InitBanking /\ [][BankingNext]_<<reqVars, bankVars>>

-----------------------------------------------------------------------------
(* The rows of links and sessions: a cursor is one the provider has given   *)
(* out, and marks belong to a session that exists.                          *)
BankingTypeOK ==
    /\ provider \in 0..MaxFeed /\ link.cursor \in 0..provider
    /\ link.status \in {"active", "error", "disconnected"}
    /\ \A s \in StmtSession : cleared[s] # {} => recon[s] # Absent
    /\ \A t \in BankTxn : category[t] \in Category

(* A transaction of the bank is booked once for a link, also when syncs    *)
(* overlap, are cut off half way or read from a cursor that went back      *)
(* (workers/sync.rs::import_transaction).                                  *)
FeedBookedOnce == \A i \in DOMAIN feedTxn : feedTxn[i] <= 1

(* The cursor never passes a transaction that is not booked: an error in   *)
(* the middle of a page, or a crash, loses none of it                      *)
(* (workers/sync.rs::sync_one saves the cursor last), apart from items     *)
(* that fetch_transactions could not read, which are lost.                 *)
CursorPassesBooked == \A i \in (1..link.cursor) \ Unreadable : feedTxn[i] > 0

(* "Cross-format duplicate detection" (handlers/reconciliation.rs): a line *)
(* with the bank's id is kept once whatever overlaps; one with a plain     *)
(* description is, if its uploads do not overlap.                          *)
StatementLineOnce ==
    \A e \in BankId \cup (PlainText \ raced) : lines[e] <= 1

(* "Finishing a session SHALL require difference exactly zero"             *)
(* (openspec statement-reconciliation): a closed session still ties out    *)
(* whatever came after, if requests on it do not overlap.                  *)
ClosedSessionTies ==
    \A s \in StmtSession \ raced : Closed(s) => Difference(s) = 0

(* "Closed sessions SHALL lock their lines against unclear": they change   *)
(* with the reopening only.                                                *)
ClosedSessionLocked ==
    [][\A s \in StmtSession \ raced' :
          Closed(s) /\ cleared'[s] # cleared[s] => recon'[s].status = "open"]_reconVars

(* A matched line's transaction stays marked as reconciled, whatever other *)
(* lines are matched, moved or excluded after it.                          *)
MatchedIsReconciled ==
    \A x \in Row : matched[x] # Absent => matched[x].txn \in reconciled

(* Rules change no transaction of a year that closed_periods has a row of, *)
(* unless it is closed under them (handlers/rules_apply.rs).  Its "refuses *)
(* closed periods" would be every date up to the watermark: years before   *)
(* the last one that was closed part of the way are rewritten.             *)
RulesKeepClosedYears ==
    [][\A t \in BankTxn :
          InClosedYear(t) /\ "books" \notin raced' => category'[t] = category[t]]_bookVars

(* What the bank says is in the ledger once: nothing of a feed is lost or  *)
(* doubled, and a finished statement ties out.                             *)
BankTies ==
    /\ BankingTypeOK
    /\ FeedBookedOnce
    /\ CursorPassesBooked
    /\ StatementLineOnce
    /\ ClosedSessionTies
    /\ MatchedIsReconciled

(* What was closed stays as it was: the lines of a session, the categories *)
(* of a year with a row of its own.                                        *)
ClosedStays == ClosedSessionLocked /\ RulesKeepClosedYears
=============================================================================
