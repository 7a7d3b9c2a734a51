# OpenAccounting in TLA+

OpenAccounting is a multi-user double-entry bookkeeping server: Rust, axum,
sqlx and one PostgreSQL database. Handlers of web requests, handlers of the
REST API and a background scheduler share nothing but the database, so what can
go wrong is what several of them do to the same rows between each other's
statements. This directory models that, checks it with TLC on small instances
and proves the central properties with TLAPS for every instance.

Paths below are relative to `src/src/` unless they begin with `migrations/`,
`docs/` or `openspec/`.

## 1. The system

### Parts, state, operations

| Part | State it keeps | Operations |
|---|---|---|
| PostingService (`domain/posting_service.rs`) | `transactions`, `postings`, `journal_approvals` | create, create_draft, post_draft, delete_draft, approve_journal, reject_journal |
| Web form (`handlers/transactions.rs`) | - | create through the service; the override of a closed period |
| Closing (`handlers/closing.rs`, `domain/close_controls.rs`) | `closed_periods`, `reopen_events`, `ledgers.approval_threshold`, `invoice_sequences` | close_period, reopen_period, close_year, update_threshold, next_invoice_number |
| Ledgers (`handlers/ledgers.rs`) | `ledgers`, `ledger_members` | roles, toggle_append_only |
| Edit, reverse, bulk (`handlers/transactions_edit.rs`, `transactions_bulk.rs`) | `transactions`, `postings` | reverse, edit, bulk delete, tags |
| REST API (`api/`) | the same, `api_idempotency` | create, reverse, replay by key, reads |
| Job queue (`jobs/mod.rs`, `workers/scheduler.rs`) | `jobs` | enqueue, claim, execute, retry, purge |
| Events (`jobs/events.rs`, `jobs/webhook_delivery.rs`, `handlers/webhooks_out.rs`) | `webhook_subscriptions`, `webhook_deliveries` | emit, deliver, next attempt, replay, toggle |
| Audit chain (`audit.rs`, `audit/chain.rs`, `workers/audit_anchor.rs`) | `audit_entries` with hashes, the anchor file | log, append, backfill, verify, anchor |
| Recurring work (`jobs/template_run.rs`, `jobs/recurring_invoices.rs`, `handlers/templates.rs`, `handlers/recurring_journals.rs`, `workers/amortization.rs`) | templates, runs, schedules, posted periods | daily scan, manual run, preview, skip, post, sweep |
| Invoices (`handlers/invoices.rs`, `estimates.rs`, `payments.rs`, `api/invoices.rs`, `api/payments.rs`, `jobs/invoice_reminders.rs`) | `invoices`, `payments`, `invoice_sequences`, `invoice_reminders` | create, transition, convert, decide, pay, apply, remind |
| Reimbursements (`handlers/reimbursement.rs`, `domain/reimbursement.rs`, `approval_routing.rs`, `policies.rs`) | claims, lines, steps, levels, rules | create, add lines, submit, approve by levels, reject, pay |
| Inventory, assets, lots (`handlers/inventory.rs`, `fixed_assets.rs`, `domain/inventory_valuation.rs`, `investment_lot.rs`) | items, layers, assets, lots | purchase, adjust, depreciate, dispose, match |
| Accounts and budgets (`handlers/accounts.rs`, `budgets.rs`, `ledgers.rs`) | `accounts`, `budgets`, `budget_alerts` | create, edit, archive, opening balances, alerts |
| Banking (`workers/sync.rs`, `handlers/reconciliation.rs`, `rec_sessions.rs`, `rules_apply.rs`) | links with cursors, feed items, statement lines, sessions | sync, upload, match, clear, finish, unreconcile, apply rules |
| Access (`auth/`, `handlers/admin.rs`, `sharing.rs`, `api/mod.rs`) | login attempts, TOTP state, recovery codes, sessions, tokens, users, members | sign in, second factor, time-outs, rate limit, administer, invite |
| Automation (`jobs/automation.rs`, `jobs/digest.rs`, `workers/scheduler.rs`) | rules, action jobs, the day's marker | match, enqueue, act, housekeep, digest |
| Import and export (`import/`, `export/`, `handlers/import*.rs`) | transactions, saved mappings | preview, commit, wizard, plain-text import, export |
| Exchange (`domain/fx.rs`, `handlers/fx.rs`, `handlers/transfers.rs`) | `fx_rates`, `fx_override_audit`, `fx_revaluations`, transfers | override, feed, look up, revalue, transfer, reverse |
| Documents and backups (`handlers/documents.rs`, `storage/`, `workers/backup.rs`, `jobs/restore_verify.rs`) | `documents`, files, OCR results, `backups`, `backup_runs` | upload, bind, delete, OCR, dump, pack, prune, verify |
| Reports (`reports/`, `handlers/reports.rs`, `api/reports.rs`) | - | trial balance, balance sheet, income statement, general ledger, cash flow, forecast |
| Entry form and taxes (`handlers/transactions.rs`, `taxes.rs`, `contacts.rs`, `transactions_bulk.rs`) | `tax_rates`, `posting_taxes`, `tags`, `contacts` | tax legs and links, report, export, bulk actions |

The complete list, with what of each part is modelled, is `components` in
PROJECT.json.

### Interaction and what makes it hard

* A request is a handler that runs several statements, in one or several
  database transactions and some of them outside any (`state.pool`). Two
  requests interleave between any two of them, and a request may end after any
  of them (an error, a lost connection, a restart).
* PostgreSQL at READ COMMITTED: what was read is stale unless a lock is held.
  `SELECT ... FOR UPDATE` on the ledger row is the service's mutual exclusion;
  a row that references the ledger takes a key lock on it (the foreign key), so
  `INSERT INTO closed_periods` waits for the service although nobody wrote that
  down. `ALTER TABLE postings` locks the table.
* Every server instance runs the scheduler loop; they meet in table `jobs`
  (`FOR UPDATE SKIP LOCKED`). A job's row is its only memory.
* Liveness depends on retries (the override, the queue's backoff, the
  delivery's next attempt) and on PostgreSQL's deadlock detector.

### What makes each part correct

* the books: a posted row never changes or goes away; nothing is posted into a
  closed period; a large journal is posted by two people; a lifted close is on
  record; requests end;
* the queue: a job is in one instance's hands, its handler is called a bounded
  number of times; an event ends somewhere;
* what runs on a clock: an occurrence is posted once, in order, and none is
  skipped, whatever overlaps or dies;
* what comes from outside (feeds, statements, files, calls with a key): each
  item is booked once, and no cursor passes one that is not;
* what is shown: reports agree with one another and with what is posted, a
  closed session ties out, an untouched audit log verifies;
* what is kept: a listed document has its file, a backup holds the files of the
  rows it dumped, retention keeps the newest;
* who gets in: throttles and one-time codes hold, an administrator remains.

PROJECT.json lists the hazards at their lines, with the property that would
catch each one.

## 2. Modules

```
Books --- PostingService --- Closing --- TransactionWriters --- LedgerSystem --- LedgerClaims --- MCLedger
                                                                 |     |
                                                     Journal ----+     +--- LedgerSystemProofs
JobQueue --- EventDelivery --- DeliveryClaims --- MCDelivery
                   |
                   +--- JobQueueProofs
```

```
Requests --+-- Reimbursements, Invoicing, Stock, Accounts ----------------------- MCOffice
Sums, Legs +-- Recurring, Banking, AuditChain, Access, Automation, Interchange -- MCSchedules
Calendar --+-- Imports, Exchange, Documents -- Backups, RestApi, Reports,
               TransactionForm -------------------------------------------------- MCFiles

Requests --- RequestsProofs --+-- InvoicingProofs  (also Invoicing, Reimbursements, Stock, Accounts)
                              +-- BankingProofs    (also Banking)
                              +-- FilesProofs      (also Backups and so Documents, RestApi, Exchange,
                                                    Imports)
                              +-- ControlsProofs   (also Access, AuditChain)
                              +-- AutomationProofs (also Automation, Recurring and so Calendar)
```

(`---` is EXTENDS; Journal is instantiated; Sums, Legs and Calendar are extended by the
modules that add amounts, post legs or step through dates.)

### The books

**Books** is the state: `txns` (a row of `transactions` with what its
`postings` come to), `approvals`, `closed` (per year, 0 without a row),
`reopens`, `threshold`, `appendOnly`, `trigger` (the balance trigger is
enabled), and for each request `pc`, `arg` (its local variables) and `held` (its
locks). A database transaction shows nothing before it commits, so its writes
happen together in its last step; the steps before it take locks and read. A
statement on the pool is a step of its own. `Fail` ends a request at any step,
`DeadlockAbort` is PostgreSQL's detector. Locks are named by what they are on;
`Conflicts` says which exclude each other, `Wants` for which a request waits.

Data: amounts are the journal's total, dates positive numbers with a year and a
year end; the legs are abstracted to their *shape*: two that balance, more that
balance, or legs whose debits differ from credits. That is what the trigger of
`migrations/0001_init.sql` distinguishes: it fires per row and raises as soon as
two or more legs do not balance, so under it a balanced entry of three legs is
refused too - the reason why the service disables it. A threshold above every
amount stands for NULL. Rows of `closed_periods` from before
`closed_through` existed are not modelled (migration 0058 fills them in).

**PostingService**: `CreateBegin` (validated lines, BEGIN, DISABLE TRIGGER),
`CreateLockLedger` (FOR UPDATE and the watermark check), `CreateInsert` (number,
maker-checker, INSERTs, COMMIT), `CreateApproval` (the row inserted on the pool
afterwards); `OverrideEvent`, `OverrideLift`, `OverrideRetry` (the web form);
`PostDraftBegin/Load/Promote`, `DeleteDraftBegin`, `DeleteDraft`, `DecideBegin`,
`ApproveJournal`, `RejectJournal`. Checks of accounts, dimensions and tax codes
only decide whether a create goes on; a create that does not is a `Fail`.

**Closing**: `ClosePeriodBegin/Insert`, `ReopenDelete`, `ReopenEvent`,
`CloseYearBegin/Txn/Commit`, `UpdateThreshold`, `ToggleAppendOnly`. The closing
entry's total and shape are free: its arithmetic is not modelled.

**TransactionWriters**: `ReverseBegin`, `EditBegin`, `BulkDeleteBegin`,
`ApiCreateBegin`, which share `InsertTxn` and `InsertPostings`; and
`ApiReverseBegin`, which goes on with the service's steps.

**LedgerSystem** puts them together, with the properties. **Journal** is what
the books promise, without requests, locks or tables: entries are drafts, held
or posted; `Record`, `Promote`, `Discard`, `Decide`. **LedgerClaims** has the
statements of documents and comments that the code does not keep.

Permissions are the sets `User` (ensure_writer) and `Owner`
(ensure_owner_or_admin): a role is read once, when the request starts. The audit
rows written at the end of most handlers change nothing here and are left to the
audit chain.

### The queue

**JobQueue** (`jobs/mod.rs`): `Enqueue`, `ClaimLock` (the SELECT with SKIP
LOCKED), `ClaimCommit`, `Take`, `Return` (the handler's Ok or Err), `Finalize`,
`FinalizeFails` (its UPDATE's error is dropped), `Crash`, `Purge`, `Tick`. What a
handler does is open, so the module is also the abstract specification for each
user of the queue. Time is counted in units of the backoff table and passes only
while a pending job waits for it; ids are not used twice; the 30 days of the
purge are not counted. `runs` and `faults` are history.

**EventDelivery** refines the handler to `webhook_delivery::deliver`, statement
by statement (`DeliverPost`, `DeliverRecord`, `DeliverNext`, `DeliverEnqueue`,
`DeliverReturn`), and adds `Emit`, `ReplayLatest`, `EnqueueOwed` (their second
statement), `LoseOwed`, `Toggle` and jobs of all other kinds (`EnqueueScan`,
`RunScan`), for one subscription. An attempt is the pair <<event, number>>, which
the table's unique key makes it. **DeliveryClaims** has what the documents say
and the code does not keep.

### The other components

They share four small modules. **Requests** is a handler in flight: `pc` its next
statement, `loc` what it has read, `Begin`, `Goto`, `End` and `Serve` (a single
statement). A transaction's writes are the step of its commit; a statement on the
pool is a step. `CutOff` ends a request between any two steps. `raced` is a history
variable, the rows on which two requests overlapped: most handlers outside the
service read on the pool and write later, so many of their promises hold only for
requests that come one at a time, and a property that says so says it with
`raced`. Where a hazard is just that overlap, its entry in PROJECT.json says so: the
property covers the sequential case, and section 5 what happens otherwise. **Legs** is
what a handler inserts into `postings` itself, with the CHECK and the row trigger of
the schema, over **Sums** (sums of a sequence, `round_dp`'s half-to-even). **Calendar**
has the three copies of the date arithmetic.

| Module | Actions stand for | Data left out |
|---|---|---|
| **Reimbursements** | the handlers of a claim from load to commit: `AddLine*`, `Submit*`, `Approve*` (policy, eligibility, step, commit of the last level), `Reject*`, `Pay*`; the owner's levels and the operator's rules | wording, receipts' pictures |
| **Invoicing** | `InvoiceCreateLock/Commit` with the sequence, the API's create and its two-statement transition, `ConvertClaim/Insert`, links and decisions, `ApiPayment`, `ApplyRead/Commit`, reminders | lines of an invoice (their total is kept) |
| **Stock** | purchases, adjustments in their four steps, the method, valuate_fifo with its refusal to oversell, depreciation rounded half to even and disposal, lots and `fifo_match` | decimals: small integers |
| **Accounts** | chart edits of page and API in their steps, opening balances, which may be held for approval and decided later (`DecideHeld`), budgets with their alerts | codes, colours |
| **Recurring** | template scan and manual run, invoice scan, journal preview (of the next period or a typed one; draft, run, and the draft of a lost race)/skip/post, amortization sweep in three transactions | amounts |
| **Banking** | worker, button and webhook syncs (`Unreadable` items are those filter_map drops), statement upload, sessions, matching, rules against `closedThrough`, the watermarks of closed_periods by half-years | payees, dates of lines |
| **AuditChain** | `AuditLog` (time), `LogHashed` (lock, tail, insert), `BackfillRead/Commit`, `Anchor`; a hash is the sequence of all that was hashed into it, so two are equal when their histories are; ids (`Uuid`) come in any order; verify compares the first row's link only | bytes |
| **Access** | sign-in with its throttle, TOTP and recovery codes, session windows, token limiter, administration, invitations (`Invitee`), `AccessCutOff` at any step | hashing |
| **Automation** | rules, `match_and_enqueue` with its budget and the count that fails, action jobs with retries, housekeeping and its marker, digests | mail |
| **Interchange** | snapshot, Beancount and hledger files as lines of tokens, the way back with fingerprints, the base currency in place of the file's, inserts that fail | layout |
| **Imports** | previews, commits, wizard and saved mappings, plain-text files | the parsers of bank formats |
| **Exchange** | overrides and their audit, feed upserts, the two reads of a lookup, revaluation, whose journal may be held, transfers, and the form that reverses two ids | currencies beyond one pair |
| **Documents**, **Backups** | upload (file, then row), binding, both deletions, the cascade, OCR tasks; dump, pack (nothing where documents are in S3), open and write the tarball, record, list and prune on several instances, manual backups in the same steps, the restore drill; files have the times at which they were written, and `LeastKept` is the smaller of BACKUP_KEEP and the 30 of the manual backups | bytes; a type is a name, and the page and the REST interface (`ApiMime`) accept different ones |
| **RestApi** | lookup, execute and store around a call with a key, a path and a body, window and purge; paging | problem documents |
| **Reports** | each statement as an operator over the postings with the join it uses, the page's two reads, the forecast's two reads against the template engine | pages |
| **TransactionForm** | lines, tax legs and links, entries that are drafts, held or posted and change between them (`FormDecide`), toggles, the tax report and its CSV, bulk actions | locks (PostingService has them) |

**MCOffice**, **MCSchedules** and **MCFiles** put components side by side for TLC.
The components of one run share no table that one writes and another reads, so a
behaviour is one of a single component: `part` is chosen in Init and never
changes, and the state spaces add up instead of multiplying. Where a component
has several independent uses (numbers, estimates, settlement and reminders of
Invoicing) each is a part of its own.

Each module ends with its promise, a conjunction of named parts that each have a
comment of their own: `ClaimsSound`, `InvoicesSound`, `BankTies` and so on. A run
checks the conjunction.

Operators marked *Fault* are mutated forms of the operator after them; nothing
uses them but the mutants of PROJECT.json.

## 3. Runs

Passing runs, with the distinct states TLC found:

| Run | States | Shows |
|---|---|---|
| `close_race` | 143,890 | create, drafts, promotion and override against close and reopen, two years, an owner and an ordinary writer: `TypeOK`; `ServiceRespectsHardClose` (no row enters the reports on a date closed at that moment); `LiftIsAttributed` (only owners lift a watermark, the override after its record is on disk) |
| `maker_checker` | 81,144 | totals above and below a changing threshold, two users, append-only on and off, failures: `SeparationOfDuties` and `JournalKept` (refinement of Journal) |
| `writers` | 202,755 | the handlers that bypass the service beside those that use it: they break neither `PostedIsFinal` nor the service's hard close |
| `requests_end` | 20,156 | `RequestsEnd`: every request ends, though create takes postings before the ledger and the REST create the ledger before postings |
| `deliveries` | 793,090 | two instances, an event with its retry and its replay, another job, one crash or failed statement anywhere: `DeliveryTypeOK`, `OneRunner`, `RunsBounded`, `AttemptHasJob`, `OneJobPerAttempt`, `QueueKept` (refinement of JobQueue) |
| `events_end` | 11,260 | `EventsEnd`: without a fault, every event reaches the receiver, its last attempt or a disabled subscription |
| `office` | 1,085,395 | twelve parts of Reimbursements, Invoicing, Stock and Accounts, two requests in flight: `ClaimsSound` (a claim is posted once, approved by others, and paid to zero), `ClaimsTakeEachLevel`, `InvoiceNumbers` (no number behind the sequence, no gap), `InvoicesSound` (one invoice per estimate, paid is what came in, a reminder once), `HoldingsTie` (stock, layers and ledger agree; no asset below salvage, no lot oversold), `AccountsSound`, `BalancesKept` (typed opening balances are reached) |
| `schedules` | 836,395 | nineteen parts of Recurring, Banking, AuditChain, Access, Automation and Interchange: `SchedulesSound` (occurrences in order, none lost, none twice), `BankTies` (a feed booked once, no cursor ahead of it, a closed session ties), `ClosedStays`, `LogProvesItself`, `AccessSound`, `ServedWithinWindows`, `AutomationSound`, `RulesRestrained`, `InterchangeSound` (an export comes back as it left, in the base currency, unless an insert was refused) |
| `files` | 825,098 | sixteen parts of Imports, Exchange, Documents, Backups, RestApi, Reports and TransactionForm: `ImportsSound`, `PlainLeavesNothingOut`, `ExchangeSound`, `DocumentsSound`, `BackupsSound`, `PruneKeepsNewest`, `ApiSound` (one execution per key, a walk reads each row once), `ReportsTie` (the statements agree and the forecast comes true), `FormSound` |

Runs that expect a counterexample; each is a `finding` that quotes the line it
contradicts:

| Run | The statement | The counterexample |
|---|---|---|
| `unbalanced_edit` | a transaction can only be committed if debits equal credits (`migrations/0001_init.sql:128`) | a create commits DISABLE TRIGGER; no statement enables it again; edit does not compare debits with credits |
| `closed_writes` | every write path rejects closed dates (`openspec/specs/period-hard-close/spec.md:23`) | a close commits between edit's check and edit's commit; approve_journal and the REST create do not check |
| `delivery_lost` | events are delivered at least once (`docs/event-catalog.md:7`) | an instance dies with a claimed job, which stays 'running' |

### Bounds, and why they are enough

Books: two requests in flight, two or three transaction rows, one or two users
and dates. The hazards are between a check and a commit of one request and a
commit of another, so two requests meet in every order; a third request adds
nothing that two in turn do not, because a request leaves nothing behind but its
tables and there is no bound on how many run one after the other. Three rows are
what an edit needs (original, reversal, correction). Two years of one date and
one year of two dates cover the two ways in which a watermark can be before or
after a date. Requests and rows are symmetric in the safety runs; the liveness
runs use no symmetry. `CustomNumber` is empty in these runs: numbers typed in
only make more inserts fail.

Queue: two instances; `MaxJobs` 3, which is the two attempts of one event and
another job; `MaxAttempts`, `MaxTries` and `Limit` 2 instead of 5, 5 and 50, so
that each is reached and passed; `Backoff` <<1, 2>>; one fault at any point
(`MaxFaults`). `Replays` 0 still lets the owner's replay race the worker for the
next attempt. Nothing else is bounded.

The other components: two requests in flight, one or two rows of each table, and
amounts from the smallest sets in which the cases differ (a total that a payment
covers and one it does not, a due date on the 31st and in February, a rate that
rounds up, down and to zero). `MaxMoves`, `MaxLots`, `MaxEntries`, `MaxBook`,
`MaxTrail`, `MaxReversed`, `MaxManual`, `MaxTick`, `MaxAct` and so on bound what would grow for
ever; each is above what the property's counterexamples need, which the mutants
show. Where a part is too large the MC module restricts its steps and says why:
`ClaimsStep` (the second level only beside the first), `ChartStep` (one account is
edited) and `OpeningStep` (the accounts are there before the first form),
`JournalsStep` (one limit of a recurring journal at a time), `ReconcileStep` (requests
overlap on one session), `ActionsStep` (one job), `InterchangeStep` (accounts in one
order, the first entry in a foreign currency, one refused insert), `BillsStep` and
`WizardStep` (one period to close, one bill beside the wizard), `RatesStep` (one
direction of the pair), `PostingStep` (the feed brings one rate and overrides another),
`RevaluationStep` (one held journal), `TransfersStep` (one ledger in the form),
`BackupsStep` and `RetentionStep` (documents over one tick; retention over two ticks
and two manual backups without documents), `IdempotencyStep` (a later call differs from
the first in path or in body), `FormsStep` and `BulkStep` (held entries in one of the
two), `SheetStep` and `ForecastStep` (few entries while pages are read). The only
symmetry there is of the requests, which no step tells apart.

Some bounds are there for one case. `Idle` 4, `Absolute` 6 and `MaxTime` 8: last_seen_at
lags by half the idle window, and a session that is refreshed in time still meets its
absolute window. `Keep` 1, `ManualKeep` 2, `MaxTick` 2 and `MaxManual` 2: a file is
written while a list is being worked through, and one on the list is written again
(`overtaken`). `Unreadable` has the first item of the feed. `Watermarks` and `TxnDate`
count half-years, so that a transaction of the first year lies under a watermark in the
second. `MCPlain` has an entry without postings, `Path` two ledgers of one token. The
twelve periods run_due catches up in one call are not reached.

`InvTotal` has 0, because an estimate without a positive total is paid by any
payment that names it and can then be converted twice, the exception in
`EstimateConvertedOnce`. `MaxAnchors` 2 lets an anchor be written before and
after the chain grows. The backups part of `files` moves documents by uploads and
by deletions on the page (`BackupsNext`); the proofs are about `BackupsSpec`, in
which REST removals happen too.

Deadlock is not checked: all requests may be done, all ids used, all jobs
finished.

### Fairness

`FairSpec`: strong fairness of each request's next step, because PostgreSQL
queues the waiters of a lock, so one whose lock becomes free again and again gets
it; weak fairness of the deadlock detector, which runs after
`deadlock_timeout`. A request that may begin need not. `FairDelivery`: weak
fairness of each instance's loop (`workers/scheduler.rs:18-35` sleeps 30 s and
starts over), of a web request's second statement and of the clock. Faults are
never fair.

## 4. Proofs

All with TLAPS, for any sets (finite where they are counted) of rows, requests,
users, dates and amounts, any choice of operations, any number of instances, jobs
and faults.

The assumptions are named in the module that declares the constants:
`BooksAssumption`, `QueueAssumption`, `NoAssumption`, `DeliveryAssumption`,
`InvoicingAssumption`, `ClaimsAssumption`, `BankingAssumption`,
`DocumentsAssumption`, `BackupsAssumption`, `AccessAssumption`,
`AuditAssumption`, `ApiAssumption`, `ExchangeAssumption`, `AutomationBounds`,
`AccountsAssumption`, `StockAssumption`, `RecurringAssumption` and `ImportsAssumption`. They give the types of the constants, say that a model value
for "no row" is not a row, that dates are positive and not after their year's
end, that rates are positive, that what is counted is finite, that ids are distinct, and that the types the
REST interface accepts are among those the page accepts. Each is true of every run
that uses it.

### Books

**LedgerSystemProofs**. `Invariant`: IInv is inductive. IInv is TypeOK,
SeparationOfDuties and what these need:

* `RequestsOK`: what a request at a step relies on - the locks it holds, that the
  row it will promote is still a draft on an open date, that the approval it will
  decide is still pending and not its user's, that the date a create checked is
  still open;
* `LocksExclusive`: no two requests hold conflicting locks; it is what makes
  RequestsOK survive the others' steps (`Undisturbed`);
* `IdsReserved`, `ApprovalsOwed`: two requests never insert the same row.

From it: `TypeCorrect`; `Duties` ([]SeparationOfDuties); `HardClose`
(ServiceRespectsHardClose: between check and commit the request holds the ledger
row, every step that closes needs its key lock, `NoServiceWrite`); `Final`
(PostedIsFinal).

Of the same invariant: `Attribution` (LiftIsAttributed), from IInv and
`OverridesRecorded`: an override about to delete has its record on disk.
`KeepsJournal`: Spec => JournalKept, the refinement of Journal; one lemma per
step that the mapping sees, and every other step leaves the mapped state alone.

### Queue

**JobQueueProofs**. `QueueSafe`: QueueSpec => [](OneRunner /\ RunsBounded). The
inductive invariant adds `HandsOK` (what stage, hand and cur say of one another)
and `Counted` (attempts counts the calls of the handler but for the one under
way or hidden by a fault); OneRunner is needed for the value read at the claim to
be the row's. `DeliveriesKeepQueue`: DeliverySpec => QueueKept, with `StepOK`
(inside deliver a worker is at a handler whose payload is a delivery); hence
`DeliveriesSafe`, the queue's properties for the deliveries.

`DeliveryInvariant` adds `AttemptsOK`: an attempt has its row first, then one
request or worker that owes it a job, then the job, and no two of the three at
once. From it `DeliveryTyped`, `AttemptsOnce` (OneJobPerAttempt) and
`AttemptsHaveJobs` (AttemptHasJob: without a fault an attempt has a job or somebody
about to enqueue it).

### Requests in flight

**RequestsProofs** has what the other proofs share. Its `RequestsOK` says when a
promise "unless requests overlapped" may be used: two busy requests on one row have
put the row into `raced`. `Keeps(r)` and `StaysOrEnds(r)` are what a step of
request r leaves to the others; the components' frame lemmas are stated with them,
so that an action's proof is about the parts it disturbs only. `LargestOfBounded`
finds the largest member of a bounded set of numbers by a least counterexample: no
induction theorem is cited. The same way gives what the proofs need of sums: the fold
behind `Summed` adds a sequence from the left, so that the legs of an entry and of its
reversal cancel and a sequence put together of two sums to the two sums.

**InvoicingProofs**, invoices. `InvoicingInvariant`; the parts are `TablesOK`,
`HeldOK` (what a handler holds at each statement), and one part for each promise:

* `NumbersOK`: a number drawn by a create in flight was typed in or leaves no hole
  below it;
* `ConvertOK`: an estimate has one invoice or one request about to insert it, and
  is then converted;
* `PaidOK`: the sum that apply read is at most what will have come in, and equal to
  it if nothing overlapped;
* `CoveredOK`: a paid invoice is covered, or marked by a transition in its second
  statement or one that was cut off there;
* `RemindersOK`: whoever sends a reminder has claimed it, alone.

From it `NumbersSound` (InvoiceNumbers) and `InvoicesAreSound` (InvoicesSound).

**InvoicingProofs**, claims. `ClaimsInvariant`: for each claim `ClaimOK` (its row,
a journal that follows its status, steps by eligible people other than the author)
and for each request `ClaimHeld` (what it has checked, which stays true if nothing
overlapped, and the levels recorded so far, which stay whatever overlaps:
`ClaimGrows`). From it `ClaimsPostedByOthers` (ClaimsTypeOK, ClaimPostedOnce,
ApprovedByOthers and OfferedIsAccepted, all of ClaimsSound but
PaidClaimOwesNothing) and `ClaimsTakeEachLevelAlways`.

**InvoicingProofs**, accounts. `AccountsInvariant`: what a form read before its
write is still so, unless another request overlapped on the row. The type that an
edit read is the account's; a contra or opening form that found no entry finds none
when it posts, other than held ones; a budget sweep inserts an alert, and emits its event, where there is
none yet. From it `AccountsAreSound` (AccountsSound) and `TypesAreKept`
(TypeKeptWithPostings, the part of BalancesKept that sums nothing).

**InvoicingProofs**, assets and lots. `HoldingsInvariant`: what is written off an asset
is nothing or leaves its salvage value, and so does what a run of
calculate_depreciation has computed and not yet written: another run may have written
the row since, but cost and salvage are the same; the quantity a sell is about to take from a lot
is what the lot still holds, unless two sells overlapped. From it `HoldingsAreBounded`
(AboveSalvage and LotNotOversold, the parts of HoldingsTie that sum nothing). The first
attempt showed that the property had to be restated: create does not ask that the
salvage value is below the cost, so an asset may start with nothing to write off, and
it is never depreciated then.

**BankingProofs**. `BankingInvariant`; `FeedOK`: every item before the page a sync
holds is booked once, whatever other syncs did since it read the cursor;
`LinesOK`, `SessionsOK` (on a session nothing overlapped on, a difference found zero
is still zero when finish writes), `MatchesOK`, `RulesOK`. From it `BankTiesAlways`
and `ClosedStaysAlways` (ClosedStays).

**FilesProofs**. `DocumentsInvariant`: `PapersOK` and `PaperHeld` (an upload at its
row has its file in the store, unless a REST removal took it); from it
`DocumentsAreSound`. `BackupsInvariant` adds `ArchiveOK` and, for every worker and
manual backup, what it holds: the rows a worker dumped have their files in the store
while the backend is the file system, then in its tarball; `WritersApart` - a tarball
that was opened once has one writer, so what it writes is whole; the file it will record
is there, was pruned or was opened again; each file on a list to delete has `LeastKept`
newer ones that stay, as long as no file on a list was written. The lemmas before it
count the newer files of a directory when one is added or several go. From it
`BackupsAreSound` and `PruneKeepsNewestAlways`.

**FilesProofs**, the REST interface. `ApiInvariant`: an answer stored under a key is
that of an execution under the key; `OncePer` - a key has been executed once, or one
request is about to store the answer, unless two overlapped on the key or a row past
its window blocked it; a walk has read a prefix of the rows in the order of their
names, if these differ and none was inserted since, and its offset is their number.
From it `ApiIsSound` (ApiSound).

**FilesProofs**, exchange rates and transfers. `ExchangeInvariant`, for a pair and day
that no two overrides overlapped on and none was cut off on: the rate an override read
is what the last row of the trail left, and the stored rate is what the override about
to write its row set (`TrailAt`). A lookup whose two reads saw one rate in force has
that rate the right way round (`Agrees`, which asks that a rate is positive). Without
overlapping revaluations, the account and month under way has neither row nor posting,
and a posting has its row, the request about to write it, or was cut off. Of each pair
of ids that a form carried, the first has been reversed once more often than the second
for each request that is halfway. From it `ExchangeIsSound` (ExchangeSound); that an
entry and its reversal leave nothing on any account is `NetConcat` and `NetTwo`.

**FilesProofs**, imports. `ImportsInvariant`: every row of the books has what its kind
promises (`RowOK`), and a request holds a page whose marks are those of the books as
they were when it was made (`HeldAt`): a duplicate of a row before that is marked, so
that a commit with skip_duplicates passes it over. A plain-text import holds the entries
it has still to do, and every bookable one of the others is in the books. Books only
grow, so what was true of their beginning stays. From it `ImportsAreSound`
(ImportsSound) and `PlainLeavesNothingOutAlways` (PlainLeavesNothingOut).

**ControlsProofs**, access. `AccessInvariant`: `LoginOK` (failures of the window and
sign-ins past the throttle together are at most Limit - 1 and one for each
request), `FactorOK` (a step that verify_code took is later than every used one,
recovery codes in hand are unused and in one hand), `SessionsOK`, `TokensOK` (the
limiter knows every accepted call of the window), `AdminsOK` (who changes an
administrator is another one), `SharingOK`. From it `AccessIsSound` and
`ServedWithinWindowsAlways`.

**ControlsProofs**, the log. `AuditInvariant`: `ChainOK` says that each hashed entry
names the hash of the one before it (`Linked`) unless the history variables
`crossed` or `rehashed` say that an append came before an older one or that entries
were hashed beside appends, that hashes are of their own rows, and that anchors
stay in the log; `AuditHeld` that an id in flight is nobody else's. An append that is
neither is the last entry, and the tail it read is its predecessor's hash; a backfill
places its rows in the order of (created_at, id), so each follows the one placed
before it (`PlaceOrder`, `ChainedRows`). From it `LogProvesItselfAlways`.

**AutomationProofs**, jobs and rules. `AutomationInvariant`: a job is in one holder's
hands; each event has slack left in the hourly budget for the actions its rules have
still to run, unless its count failed (`uncounted`); the i-th digest job was queued by one of the schedulers that saw its
Monday (`Doers`), and digests sent, dead or lost are conserved against it; ids of cost centres are
unique. From it `AutomationIsSound` (AutomationSound) and `RulesAreRestrained`
(RulesRestrained).

**AutomationProofs**, the calendar. The dates of a schedule form a strictly
increasing chain: lemmas for each frequency of `AdvanceFrequency`, with the `Week` measure for
weekly ones, which shows that five occurrences a month (`Occurrences`) miss none.
`NthFrom` is a recursive function; that it satisfies its equation is shown by a least
counterexample (`SmallestNat`), which needs no operator parameter.

**AutomationProofs**, schedules. `RecurringInvariant`: the cursor a scan holds is
never ahead of the template, so one whose occurrence is not posted is exactly the
template's next date; every period before a held cursor has its run; a draft without
a run belongs to the request about to write it or to delete it after a lost race, unless
one was cut off or its deletion failed; an amortized
period has a record or a request about to record it, unless two overlapped or one was
cut off. From it `SchedulesAreSound` (SchedulesSound: in order, none lost, none
twice).

### Only model-checked

* `RequestsEnd` and `EventsEnd`: liveness under fairness is out of the prover's
  reach.
* What compares sums over sequences of any length, or computes recursively:
  PaidClaimOwesNothing of ClaimsSound, OpeningReached of BalancesKept, the quantities and
  values of `HoldingsTie`, `ReportsTie`, `InterchangeSound`. They need induction over
  data.
* Not proved: `FormSound`.

## 5. Disagreements met that no run shows

Seen while reading the source for these modules; each is a
hazard in PROJECT.json or belongs to a run above.

Books and queue

* reverse never looks for an earlier reversal, though `handlers/transactions_edit.rs:89`
  says "Lock the original row to prevent double-reversal."; it accepts drafts and
  held rows (`:101`), whose reversal is then posted without an original.
* Drafts skip the maker-checker gate and post_draft does not apply it, against
  `period-hard-close/spec.md:51`; a rejected journal is a draft again.
* A reopening is recorded after its DELETE (`handlers/closing.rs:320`): a failure
  in between leaves no record, which `period-hard-close/spec.md:37` asks for.
* The approval row is inserted after the commit (`domain/posting_service.rs:709`):
  a failure leaves a held journal nobody can decide; line 81 says "The service
  never leaves a partial state".
* COUNT(*) + 1 (`domain/posting_service.rs:588`) may name a number already used,
  for instance after a discarded draft, and every create of the year then fails
  until the count moves.
* close_year reads its balances before its transaction (`handlers/closing.rs:51`).
* `handlers/transfers.rs:179,290` disable the balance trigger as well.
* A database error after the POST makes deliver return Err, and the queue sends
  the same attempt again, which the comment at `jobs/webhook_delivery.rs:66-70`
  wants to avoid; the next attempt is enqueued for now, not with a backoff.

Claims, invoices, stock, accounts

* The tax of a claim is debited and not credited; pay inserts an extra empty
  transaction; auditors are eligible approvers; overlapping approvals post twice or
  leave the claim partially approved; deleting a policy can strand a claim; a stale
  update can move a paid claim back; the OCR route says "draft/submitted" and
  checks no status.
* `handlers/payments.rs::create` inserts a column `postings` does not have and
  always rolls back; the status 'partial' violates the CHECK of migration 0053; a
  number typed in through the API does not advance the sequence; mark_paid, void
  and apply work on estimates; convert claims and inserts in two transactions.
* Average-cost sales consume no layers and positive adjustments add none; an adjustment
  consumes the oldest layers (`handlers/inventory.rs:390-410`), as valuate_fifo does,
  though the comment at `domain/inventory_valuation.rs:64-65` and
  the archived design of accounting-dimensions (`design.md:27`) say that adjustments
  consume the newest layer first: `StockTies` compares the two pieces of code, not the
  comment; adjust writes back a stale sum; `domain/depreciation.rs:19` says "half-up" and
  round_dp rounds half to even; a disposal without gain posts nothing, one with zero
  proceeds fails the CHECK, and depreciation racing a disposal reactivates the
  asset; depreciation is never posted; fifo_match has no caller.
* "Reverse the existing entry to change them", but a reversed opening entry still
  counts as existing; two opening forms that overlap post twice; opening balances above
  the approval threshold are held and do not count (`handlers/accounts.rs:544`), so a
  second form is taken and both can be approved, against
  `account-management/spec.md:39-50`: `OpeningOnce` excepts a ledger with held ones; the API's account
  create does not compare subtype and type, its ledger create seeds no chart;
  nothing acknowledges a budget alert, so a budget alerts once for ever.

Schedules, bank, log, access, automation, interchange

* The manual run posts without a template_id and never advances the template
  (`handlers/templates.rs:429`, `WHERE id = txn_id`); one unsound template ends the
  scan; the amortization date of a 31st stays where the month has none
  (`workers/amortization.rs:243`), the sweep posts twice when it overlaps itself or
  dies between its transactions, and has no caller outside tests.
* Recurring invoices stop after the first: nothing writes next_date back, and the
  occurrence that exists ends every later scan (`jobs/recurring_invoices.rs:33-37`),
  though lines 3-4 and 14 promise one invoice per due occurrence. `InvoicesInOrder` says
  that what is issued has no hole, not that all of it is.
* A preview that loses the race ignores the error of its delete_draft
  (`handlers/recurring_journals.rs:399`), which leaves a draft without a run.
* Two appends can read the same tail because created_at is taken before the lock
  (`audit.rs:42`, against `audit/chain.rs:16-17`); backfill takes no lock.
* A feed import books a single leg; items that the adapter cannot read are dropped by
  filter_map and the cursor passes them (`bank_feeds/plaid.rs:94-110`, `salt_edge.rs`),
  so they are never booked; an item of zero fails every sync; a link in
  'error' is never picked up again; identical statement lines collapse; a line can be
  cleared in two sessions; re-matching leaves the old transaction reconciled; a line cleared between the sum and
  the UPDATE of finish closes a session with a difference.
* apply_rules "refuses closed periods" (`handlers/rules_apply.rs:71`) by the year of a
  row of closed_periods (95-99), while a close is a watermark
  (`domain/close_controls.rs:4-7, 86-91`): a transaction of 2025 under a close through
  2026-06-30 is changed. `RulesKeepClosedYears` is about the years the code looks at.
* "never leave the system without an active admin" fails for overlapping requests
  and for the session of a suspended admin; invitations never expire; the answer of
  advance_counter is ignored; accept is two statements.
* "every handler is idempotent" (`workers/scheduler.rs:7`), but digests go out again
  after a failed housekeeping or from two instances; the hourly cap of rules is
  counted once per event and can be exceeded, and a count that fails is taken for 0
  (`jobs/automation.rs:133`); a cut-off worker leaves its job 'running'. "never silently
  lost" (`jobs/digest.rs:70-71`) does not hold of a digest whose job dies after
  max_attempts, nor of in-app rows whose INSERT fails.
* The hledger export writes rows of different length with a writer that refuses
  them and drops the error, so a ledger of two or more transactions does not come
  back (`openspec/specs/pta-export-import/spec.md:28-31`); Beancount names with '-'
  or ':' do not resolve; drafts are exported and come back as standard entries. Names are
  written without one of the five root accounts Beancount requires, and two that mangle
  alike are opened twice (`export/beancount.rs:160-183`), so "loads cleanly in bean-check"
  (line 3) does not hold and `OpensBeforeUse` says only that a name is opened before its
  first use. An imported entry gets the ledger's base currency (`import/pta.rs:121-127,
  291`), against "imported rows equal the original" (`pta-export-import/spec.md:25-31`),
  and an insert that fails is counted and passed over (190-196): `RoundTrip` compares in
  the base currency and excepts the refused ones.

Files, rates, documents, API, reports, forms

* Duplicates within a file, and rows of CSV, OFX, QIF and MT940, are never marked
  (`import/dedup.rs:4-6`); a page submitted twice books twice; a plain-text entry
  without postings is accepted (`import/beancount.rs:82-113`, `hledger.rs:71-73`) and,
  because existing_fingerprints joins postings (`import/pta.rs:243-248`), booked again by
  every import, against `pta-export-import/spec.md:33-40`; the wizard posts one
  leg without a duplicate or close check; a saved mapping loses amount_in.
* LOOKBACK_DAYS is never applied (`domain/fx.rs:7-8`); two reads of a lookup can
  straddle a rate change; the book value ignores earlier revaluations, so the same
  gain is posted every month; a revaluation is recorded although its journal is held and
  may be rejected; the target side of a transfer debits to_account where it should
  credit. Reversing a transfer reverses whichever two ids the form carries, without
  loading the transfer (`handlers/transfers.rs:283-316`), both in the form's ledger;
  nothing is marked reversed, which `inter-ledger-transfers/spec.md:48-49` asks for, and
  nothing guards against a second reversal.
* An upload writes the file and then the row (`handlers/documents.rs:241, 256`), without
  cleanup when the INSERT fails; `documents/spec.md:20-23` has the file written only
  after the row. `FiledHasFile` is what the code's order gives, and the spec's would not:
  a row would be listed before its file is there.
* Deletion on the page and the cascade leave the file, after which the restore
  drill's count fails. With STORAGE_BACKEND=s3 a tarball holds no document
  (`workers/backup.rs:337-350`), against `scheduled-backups/spec.md:17`. Two instances
  write one tarball name, and the second may leave it torn; a file written while it is on
  a list can be deleted although it is the newest; manual backups hold row counts only
  and evict real ones.
* A key is looked up by token and body (`api/helpers.rs:202-208`), while
  `docs/api-reference.md:33` and `openapi-sdk/spec.md:31` scope it "per API token +
  ledger": the same key and body for another ledger replays the first answer, which
  `ReplayAnswersSameBody` excepts. A reversal's fingerprint is that of `{}`; a row past its window blocks storing, so
  retries execute again; two calls with one key both execute.
* `reports/trial_balance.rs:54-57` (and balance_sheet, general_ledger) filter in the
  ON clause of a LEFT JOIN, which keeps the postings of drafts and of later days;
  the trial balance drops balances on the wrong side; employee advances are in no
  section; the API's net income adds expenses.
* The cash flow's opening balance includes the first day (`reports/cash_flow.rs:82-92`,
  `<= from`), whose flows are counted again; `reports/spec.md:93-94` puts it on the day
  before. `CashFlowTies` is exact about it: movement and the first day's flows together
  are inflows less outflows. Only this report takes accounts whose code begins with 1
  for cash (line 50). The forecast reads the balance and the templates in two queries
  (`reports/cash_flow_forecast.rs:254-255`): an occurrence posted between them is in
  neither.
* A tax that rounds to zero makes the entry fail the CHECK; reversals write no
  posting_taxes, so the tax report still counts reversed tax.

## 6. Not modelled, and the plan

Not modelled, with the reasons in PROJECT.json: reports that are one query
(holdings, realized gains, inter-entity), the layout of PDF, DATEV, SAF-T, XBRL and
e-invoices, notifications (dispatch has no caller), user settings and saved
searches (one upsert each), OIDC redirects, cookies and CSRF tokens, the restore of
a whole database, pages and texts, routing and start-up.

Next: the sums of `HoldingsTie` and `BalancesKept` by the least counterexamples of
RequestsProofs, and `FormSound`; further expected violations from section 5, the
closed years of apply_rules and the second opening entry first.
