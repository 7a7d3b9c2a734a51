------------------------------ MODULE Exchange ------------------------------
(***************************************************************************)
(* Money that crosses a currency or a ledger: the rate store, its lookup   *)
(* and the month-end revaluation of domain/fx.rs with handlers/fx.rs and   *)
(* workers/fx_refresh.rs, and the transfers between two ledgers of         *)
(* handlers/transfers.rs.                                                  *)
(*                                                                         *)
(* fx_rates is seen through one pair of currencies: a key is one of its    *)
(* rows, KeyDay its rate_date, and KeyDirect says which of the two         *)
(* currencies is the base of the row.  A rate is a fraction.  What         *)
(* domain/posting_service.rs itself refuses is in PostingService; here a   *)
(* request that it refuses is one that is cut off.                         *)
(***************************************************************************)
EXTENDS Requests, Legs

CONSTANTS
    RateKey, KeyDay, KeyDirect,     \* rows of fx_rates of the pair
    FeedKey,        \* the keys the ECB feed can fill: EUR is their base
    RateValue,      \* rates that are typed in or fed
    FxDay, FxMonth, \* dates of postings, and the month of each
    FxAccount,      \* monetary accounts in the foreign currency
    Foreign,        \* foreign amounts that are posted
    MaxForeign,     \* bound: foreign postings
    MaxReval,       \* bound: revaluations posted
    MaxTrail,       \* bound: overrides, in fx_override_audit or not
    Transfer,       \* ids of transfers
    MaxReversed     \* bound: reversing transactions, when another reversal may be sent

(* create_rate and parse_ecb_csv refuse a rate that is not positive. *)
ASSUME ExchangeAssumption ==
    /\ RateValue \subseteq Nat \ {0}
    /\ KeyDirect \in [RateKey -> BOOLEAN]
    /\ IsFiniteSet(Req)

VARIABLES
    rates,          \* fx_rates: the rate and its source, or NoRate
    trail,          \* fx_override_audit
    fxBook,         \* foreign postings and revaluations, in base currency
    revaluations,   \* fx_revaluations: account and month
    fxAccounts,     \* which of the two P&L accounts exist
    transfers,      \* inter_ledger_transfers with the legs of both sides
    reversals,      \* the transactions that reverse one: reverses_id, legs
    cashIn,         \* ledgers with an account named Cash on Hand
    untold,         \* history: keys overridden by a request that was cut off
    unrecorded,     \* history: revaluations posted by one that was cut off
    halved          \* history: pairs of which only the first was reversed

exchangeVars == <<rates, trail, fxBook, revaluations, fxAccounts, transfers, reversals,
                  cashIn, untold, unrecorded, halved, balanceTrigger>>
fxVars == <<rates, trail, fxBook, revaluations, fxAccounts, untold, unrecorded>>
transferVars == <<transfers, reversals, cashIn, halved, balanceTrigger>>

Side == {"from", "to"}      \* the two ledgers of a transfer
Txn == Transfer \X Side     \* transactions.id
NoRate == [rate |-> 0, source |-> "none"]
NoTransfer == [legs |-> <<>>]

InitExchange ==
    /\ rates = [k \in RateKey |-> NoRate]
    /\ trail = <<>> /\ fxBook = <<>>
    /\ revaluations = {} /\ fxAccounts = {}
    /\ transfers = [t \in Transfer |-> NoTransfer]
    /\ reversals = {}
    /\ cashIn \in {Side, {}}
    /\ untold = {} /\ unrecorded = {} /\ halved = {}
    /\ balanceTrigger \in BOOLEAN

-----------------------------------------------------------------------------
(* create_rate: three statements on the pool. *)
RateRead(r, k, n) ==
    /\ Len(trail) + Cardinality(untold) < MaxTrail
    /\ Begin(r, "rate upsert", [on |-> k, old |-> rates[k].rate, new |-> n])
    /\ UNCHANGED exchangeVars

RateUpsert(r) ==
    /\ pc[r] = "rate upsert"
    /\ rates' = [rates EXCEPT ![loc[r].on] = [rate |-> loc[r].new, source |-> "manual"]]
    /\ Goto(r, "rate audit", loc[r])
    /\ UNCHANGED <<trail, fxBook, revaluations, fxAccounts, untold, unrecorded, transferVars>>

(* Fault: the audit row holds the rate that is now stored as the old one. *)
RateAuditNew(r) ==
    /\ pc[r] = "rate audit" /\ Len(trail) < MaxTrail
    /\ trail' = Append(trail, [key |-> loc[r].on, old |-> rates[loc[r].on].rate,
                               new |-> loc[r].new])
    /\ End(r)
    /\ UNCHANGED <<rates, fxBook, revaluations, fxAccounts, untold, unrecorded, transferVars>>

RateAudit(r) ==
    /\ pc[r] = "rate audit" /\ Len(trail) < MaxTrail
    /\ trail' = Append(trail, [key |-> loc[r].on, old |-> loc[r].old, new |-> loc[r].new])
    /\ End(r)
    /\ UNCHANGED <<rates, fxBook, revaluations, fxAccounts, untold, unrecorded, transferVars>>

(* refresh_once and upsert_ecb_rates: one database transaction, ON CONFLICT *)
(* DO NOTHING.  parse_ecb_csv lets only positive rates through.             *)
FeedUpsert(batch, n) ==
    /\ rates' = [k \in RateKey |->
                    IF k \in batch /\ rates[k] = NoRate
                    THEN [rate |-> n, source |-> "ecb"] ELSE rates[k]]
    /\ UNCHANGED <<reqVars, trail, fxBook, revaluations, fxAccounts, untold, unrecorded,
                   transferVars>>

-----------------------------------------------------------------------------
Dated(day) == {k \in RateKey : rates[k] # NoRate /\ KeyDay[k] <= day}

(* The rows that ORDER BY rate_date DESC, manual first LIMIT 1 may return: *)
(* more than one when the pair and its inverse tie.                        *)
InForce(day) ==
    LET latest == {k \in Dated(day) : \A j \in Dated(day) : KeyDay[j] <= KeyDay[k]}
        manual == {k \in latest : rates[k].source = "manual"}
    IN  IF manual = {} THEN latest ELSE manual

Fraction(n, direct) == IF direct THEN [num |-> n, den |-> 1] ELSE [num |-> 1, den |-> n]
RatesInForce(day) == {Fraction(rates[k].rate, KeyDirect[k]) : k \in InForce(day)}

(* derive_base_amount: half is rounded away from zero. *)
DeriveBaseAmount(n, f) ==
    LET size == IF n < 0 THEN -n ELSE n
        up == (2 * size * f.num + f.den) \div (2 * f.den)
    IN  IF n < 0 THEN -up ELSE up

(* What a lookup has read: the rate, then the rate the right way round;    *)
(* seen is a history: what was in force at the two reads.                  *)
Look(row, seen, got) == [stored |-> row, seen |-> seen, got |-> got]

(* A request that looks a rate up and goes on at next with it, for the     *)
(* amount and its earlier value in item.                                   *)
Looking(row, day, next, item, left, todo) ==
    [on |-> row, day |-> day, next |-> next, look |-> Look(0, {}, Fraction(0, TRUE)),
     item |-> item, left |-> left, todo |-> todo]

Item(account, foreign, book) == [account |-> account, foreign |-> foreign, book |-> book]

(* lookup, in its two SELECTs. *)
LookupRate(r) ==
    /\ pc[r] = "lookup"
    /\ IF Dated(loc[r].day) = {} THEN End(r)        \* MissingRate
       ELSE \E k \in InForce(loc[r].day) :
                Goto(r, "lookup base",
                     [loc[r] EXCEPT !.look = Look(rates[k].rate, RatesInForce(loc[r].day),
                                                  Fraction(0, TRUE))])
    /\ UNCHANGED exchangeVars

LookupBase(r) ==
    /\ pc[r] = "lookup base"
    /\ \E k \in InForce(loc[r].day) :
        LET d == loc[r] IN
        Goto(r, d.next, [d EXCEPT !.look = Look(d.look.stored,
                                                d.look.seen \cup RatesInForce(d.day),
                                                Fraction(d.look.stored, KeyDirect[k]))])
    /\ UNCHANGED exchangeVars

Posted(kind) == Len(SelectSeq(fxBook, LAMBDA e : e.kind = kind))

(* PostingService::create with a foreign line and its counterpart: each of *)
(* the two lines looks the rate up, and the two must agree.                *)
ForeignBegin(r, a, n, day) ==
    /\ Begin(r, "lookup", Looking(a, day, "line 1", Item(a, n, 0), {}, {}))
    /\ UNCHANGED exchangeVars

ForeignLine(r) ==
    /\ pc[r] = "line 1"
    /\ LET d == loc[r]
           base == DeriveBaseAmount(d.item.foreign, d.look.got)
       IN  Goto(r, "lookup", Looking(d.on, d.day, "line 2",
                                     Item(d.item.account, d.item.foreign, base), {}, {}))
    /\ UNCHANGED exchangeVars

ForeignPost(r) ==
    /\ pc[r] = "line 2"
    /\ LET d == loc[r]
           base == DeriveBaseAmount(d.item.foreign, d.look.got)
       IN  \/ /\ base = d.item.book /\ base # 0 /\ Posted("foreign") < MaxForeign
              /\ fxBook' = Append(fxBook,
                    [kind |-> "foreign", account |-> d.item.account,
                     foreign |-> d.item.foreign, base |-> base, month |-> FxMonth[d.day],
                     rate |-> d.look.got, seen |-> d.look.seen])
           \/ /\ base # d.item.book \/ base = 0      \* Unbalanced, or the CHECK
              /\ UNCHANGED fxBook
    /\ End(r)
    /\ UNCHANGED <<rates, trail, revaluations, fxAccounts, untold, unrecorded, transferVars>>

-----------------------------------------------------------------------------
(* What the foreign postings of an account come to, in either currency. *)
ForeignOn(a) ==
    FoldLeft(LAMBDA sum, e : IF e.kind = "foreign" /\ e.account = a THEN sum + e.foreign
                             ELSE sum, 0, fxBook)
BaseOn(a) ==
    FoldLeft(LAMBDA sum, e : IF e.kind = "foreign" /\ e.account = a THEN sum + e.base
                             ELSE sum, 0, fxBook)

(* The candidates: revaluations carry no foreign_amount, so the book value *)
(* is that of the foreign postings alone, of a held journal or not.        *)
Candidates == {Item(a, ForeignOn(a), BaseOn(a)) : a \in {b \in FxAccount : ForeignOn(b) # 0}}

(* run_revaluation: the candidates, then a SELECT for each of them. *)
RevalBegin(r, day) ==
    /\ Begin(r, "reval check", Looking("reval", day, "reval value", Item("none", 0, 0),
                                       Candidates, {}))
    /\ UNCHANGED exchangeVars

RevalCheck(r) ==
    /\ pc[r] = "reval check" /\ loc[r].left # {}
    /\ \E c \in loc[r].left :
        LET d == loc[r]
            done == <<c.account, FxMonth[d.day]>> \in revaluations
        IN  Goto(r, "reval check",
                 Looking(d.on, d.day, d.next, d.item, d.left \ {c},
                         d.todo \cup (IF done THEN {} ELSE {c})))
    /\ UNCHANGED exchangeVars

(* The next pending account; with none left, or none at all                *)
(* (AlreadyRevalued), the request ends.                                    *)
RevalNext(r) ==
    /\ pc[r] = "reval check" /\ loc[r].left = {}
    /\ IF loc[r].todo = {} THEN End(r)
       ELSE \E c \in loc[r].todo :
                Goto(r, "lookup", Looking(loc[r].on, loc[r].day, loc[r].next, c, {},
                                          loc[r].todo \ {c}))
    /\ UNCHANGED exchangeVars

Diff(d) == DeriveBaseAmount(d.item.foreign, d.look.got) - d.item.book

RevalValue(r) ==
    /\ pc[r] = "reval value"
    /\ Goto(r, IF Diff(loc[r]) = 0 THEN "reval check" ELSE "gain", loc[r])
    /\ UNCHANGED exchangeVars

(* ensure_fx_accounts: find, else insert, first "gain" and then "loss";    *)
(* UNIQUE (ledger_id, name) fails the slower of two that insert.           *)
AfterEnsure(name) == IF name = "gain" THEN "loss" ELSE "reval post"
EnsureFind(r) ==
    /\ pc[r] \in {"gain", "loss"}
    /\ Goto(r, IF pc[r] \in fxAccounts THEN AfterEnsure(pc[r])
               ELSE IF pc[r] = "gain" THEN "insert gain" ELSE "insert loss", loc[r])
    /\ UNCHANGED exchangeVars
EnsureInsert(r) ==
    /\ pc[r] \in {"insert gain", "insert loss"}
    /\ LET name == IF pc[r] = "insert gain" THEN "gain" ELSE "loss"
       IN  /\ fxAccounts' = fxAccounts \cup {name}
           /\ IF name \in fxAccounts THEN End(r) ELSE Goto(r, AfterEnsure(name), loc[r])
    /\ UNCHANGED <<rates, trail, fxBook, revaluations, untold, unrecorded, transferVars>>

(* PostingService::create commits on its own, perhaps held for a second    *)
(* person; the row follows either way.                                     *)
RevalPost(r) ==
    /\ pc[r] = "reval post" /\ Posted("reval") < MaxReval
    /\ \E held \in BOOLEAN :
        fxBook' = Append(fxBook,
            [kind |-> "reval", account |-> loc[r].item.account, foreign |-> 0,
             base |-> Diff(loc[r]), month |-> FxMonth[loc[r].day],
             rate |-> loc[r].look.got, seen |-> loc[r].look.seen, held |-> held])
    /\ Goto(r, "reval record", loc[r])
    /\ UNCHANGED <<rates, trail, revaluations, fxAccounts, untold, unrecorded, transferVars>>

RevalRecord(r) ==
    /\ pc[r] = "reval record"
    /\ LET row == <<loc[r].item.account, FxMonth[loc[r].day]>>
       IN  /\ revaluations' = revaluations \cup {row}
           /\ IF row \in revaluations THEN End(r) ELSE Goto(r, "reval check", loc[r])
    /\ UNCHANGED <<rates, trail, fxBook, fxAccounts, untold, unrecorded, transferVars>>

(* Cut off; what it leaves half done is remembered. *)
ExchangeCutOff(r) ==
    /\ CutOff(r)
    /\ untold' = untold \cup (IF pc[r] = "rate audit" THEN {loc[r].on} ELSE {})
    /\ unrecorded' = unrecorded \cup
            (IF pc[r] = "reval record" THEN {<<loc[r].item.account, FxMonth[loc[r].day]>>}
             ELSE {})
    /\ halved' = halved \cup (IF pc[r] = "reverse" /\ loc[r].half = 2
                              THEN {loc[r].pair} ELSE {})
    /\ UNCHANGED <<rates, trail, fxBook, revaluations, fxAccounts, transfers, reversals,
                   cashIn, balanceTrigger>>

ForeignNext(r) ==
    \/ LookupRate(r) \/ LookupBase(r)
    \/ \E a \in FxAccount, n \in Foreign, day \in FxDay : ForeignBegin(r, a, n, day)
    \/ ForeignLine(r) \/ ForeignPost(r)
    \/ ExchangeCutOff(r)

FeedNext == \E batch \in SUBSET FeedKey \ {{}}, n \in RateValue : FeedUpsert(batch, n)

OverrideNext(r) ==
    \/ \E k \in RateKey, n \in RateValue : RateRead(r, k, n)
    \/ RateUpsert(r) \/ RateAudit(r)

(* Owners override rates beside the feed. *)
RatesNext ==
    \/ \E r \in Req : OverrideNext(r) \/ ExchangeCutOff(r)
    \/ FeedNext

(* Someone posts at the rates meanwhile; one override and one posting at a *)
(* time are enough here, since a posting reads nothing but the rates.      *)
PostingNext ==
    /\ fxBook = <<>>
    /\ \/ \E r \in Req : \/ (trail = <<>> /\ untold = {}) /\ OverrideNext(r)
                         \/ /\ \A q \in Req \ {r} : loc[q].on \notin FxAccount
                            /\ ForeignNext(r)
       \/ FeedNext

(* Revaluations of a month, beside postings and the feed. *)
RevaluationNext ==
    \/ \E r \in Req :
        \/ \E day \in FxDay : RevalBegin(r, day)
        \/ RevalCheck(r) \/ RevalNext(r) \/ RevalValue(r)
        \/ EnsureFind(r) \/ EnsureInsert(r)
        \/ RevalPost(r) \/ RevalRecord(r)
        \/ ForeignNext(r)
    \/ FeedNext

-----------------------------------------------------------------------------
(* insert_simple_txn: the account and Cash on Hand, or the account twice. *)
SimpleLegs(side) ==
    LET picked == <<side, "picked">>
        cash == IF side \in cashIn THEN <<side, "cash">> ELSE picked
    IN  <<Debit(picked, 1), Credit(cash, 1)>>

(* create: the trigger is disabled on a connection of its own, for good; *)
(* then both sides and the link row are one database transaction.        *)
TransferBegin(r, t) ==
    /\ transfers[t] = NoTransfer
    /\ Begin(r, "transfer", [on |-> "transfers", id |-> t])
    /\ balanceTrigger' = FALSE
    /\ UNCHANGED <<transfers, reversals, cashIn, halved, fxVars>>

TransferCommit(r) ==
    /\ pc[r] = "transfer" /\ transfers[loc[r].id] = NoTransfer
    /\ transfers' = [transfers EXCEPT ![loc[r].id] =
                        [legs |-> [s \in Side |-> SimpleLegs(s)]]]
    /\ End(r)
    /\ UNCHANGED <<reversals, cashIn, halved, balanceTrigger, fxVars>>

Flip(leg) == Leg(leg.account, IF leg.dir = "DEBIT" THEN "CREDIT" ELSE "DEBIT", leg.amount)

Reversed(legs) == [i \in DOMAIN legs |-> Flip(legs[i])]

(* reverse: the form names a ledger and two transactions, whichever they   *)
(* are: inter_ledger_transfers is neither read nor written, and nothing    *)
(* keeps the form from being sent again.                                   *)
ReverseBegin(r, ledger, pair) ==
    /\ Cardinality(reversals) <= MaxReversed
    /\ Begin(r, "reverse", [on |-> "transfers", pair |-> pair, half |-> 1,
                            ledger |-> ledger])
    /\ UNCHANGED exchangeVars

(* Each is reversed, in the ledger of the form, by a database transaction  *)
(* of its own with the trigger disabled in it; reverses_id refuses an id   *)
(* that is not there.                                                      *)
ReverseSide(r) ==
    /\ pc[r] = "reverse"
    /\ LET d == loc[r]
           x == d.pair[d.half]
       IN  \/ /\ transfers[x[1]] # NoTransfer
              /\ reversals' = reversals \cup
                    {[of |-> x, pair |-> d.pair, half |-> d.half, ledger |-> d.ledger,
                      nth |-> Cardinality(reversals),
                      legs |-> Reversed(transfers[x[1]].legs[x[2]])]}
              /\ IF d.half = 2 THEN End(r)
                 ELSE Goto(r, "reverse", [on |-> "transfers", pair |-> d.pair, half |-> 2,
                                          ledger |-> d.ledger])
              /\ balanceTrigger' = FALSE
              /\ UNCHANGED halved
           \/ /\ transfers[x[1]] = NoTransfer /\ End(r)
              /\ halved' = halved \cup (IF d.half = 2 THEN {d.pair} ELSE {})
              /\ UNCHANGED <<reversals, balanceTrigger>>
    /\ UNCHANGED <<transfers, cashIn, fxVars>>

TransfersNext ==
    \E r \in Req :
        \/ \E t \in Transfer : TransferBegin(r, t)
        \/ \E ledger \in Side, pair \in Txn \X Txn : ReverseBegin(r, ledger, pair)
        \/ TransferCommit(r) \/ ReverseSide(r) \/ ExchangeCutOff(r)

ExchangeNext == RatesNext \/ RevaluationNext \/ TransfersNext

ExchangeSpec ==
    InitRequests /\ InitExchange /\ [][ExchangeNext]_<<reqVars, exchangeVars>>

-----------------------------------------------------------------------------
(* The store, the postings and the audit trail have the shape their tables  *)
(* ask for; a derived base amount is never zero (CHECK (amount > 0)).       *)
ExchangeTypeOK ==
    /\ \A k \in RateKey :
        rates[k] = NoRate \/ (rates[k].rate \in RateValue /\ rates[k].source \in {"manual", "ecb"})
    /\ \A i \in DOMAIN trail : trail[i].key \in RateKey /\ trail[i].new \in RateValue
    /\ \A i \in DOMAIN fxBook :
        fxBook[i].account \in FxAccount /\ fxBook[i].base # 0 /\ fxBook[i].rate.num > 0
    /\ revaluations \subseteq FxAccount \X {FxMonth[d] : d \in FxDay}
    /\ fxAccounts \subseteq {"gain", "loss"}
    /\ \A v \in reversals : v.of \in Txn /\ transfers[v.of[1]] # NoTransfer

(* A base amount is derived from a rate that was in force on its day, the   *)
(* right way round, when nothing about the pair changed between the two     *)
(* SELECTs of lookup and no inverse pair ties with it.                      *)
LookedUpInForce ==
    \A i \in DOMAIN fxBook :
        \A f \in fxBook[i].seen : fxBook[i].seen = {f} => fxBook[i].rate = f

(* The audit trail of a pair and day explains its rate: each override       *)
(* starts from what the one before it left, and the last one left what is   *)
(* stored, unless two requests overlapped on it or one was cut off.         *)
TrailExplains ==
    \A k \in RateKey \ (raced \cup untold) :
        LET rows == {i \in DOMAIN trail : trail[i].key = k}
            told == \A r \in Req : ~(pc[r] = "rate audit" /\ loc[r].on = k)
        IN  /\ \A i, j \in rows :
                    (i < j /\ \A m \in rows : ~(i < m /\ m < j)) => trail[j].old = trail[i].new
            /\ \A i \in rows : (told /\ \A j \in rows : j <= i) => rates[k].rate = trail[i].new
            /\ (rates[k].source = "manual" /\ told) => rows # {}

(* An account is revalued at most once for a month, unless two revaluations *)
(* overlapped or one was cut off between the posting and its row.           *)
RevaluedOnce ==
    "reval" \notin raced =>
        \A i, j \in DOMAIN fxBook :
            LET month(e) == <<e.account, e.month>>
            IN  /\ fxBook[i].kind = "reval" /\ fxBook[j].kind = "reval"
                /\ month(fxBook[i]) = month(fxBook[j]) /\ month(fxBook[i]) \notin unrecorded
                => i = j

(* The two transactions a form names, the sides of a transfer among others, *)
(* have been reversed equally often by it once its requests are over,       *)
(* unless one failed or was cut off between the two; and a reversal leaves  *)
(* nothing of its transaction on any account.  It does not say that a       *)
(* transfer is reversed once, or in its own two ledgers: nothing sees to it *)
(* (handlers/transfers.rs::reverse).                                        *)
ReversedWhole ==
    /\ \A pair \in (Txn \X Txn) \ halved :
        LET by(half) == {v \in reversals : v.pair = pair /\ v.half = half}
            over == \A r \in Req : ~(pc[r] = "reverse" /\ loc[r].pair = pair)
        IN  over => Cardinality(by(1)) = Cardinality(by(2))
    /\ \A v \in reversals :
        LET t == v.of[1]
            s == v.of[2]
        IN  \A a \in {<<s, "picked">>, <<s, "cash">>} : Net(transfers[t].legs[s] \o v.legs, a) = 0

(* Amounts in the base currency can be explained: by the rate in force, by *)
(* the trail of overrides, by one revaluation a month, and a reversal      *)
(* leaves nothing behind.                                                  *)
ExchangeSound ==
    /\ ExchangeTypeOK
    /\ LookedUpInForce
    /\ TrailExplains
    /\ RevaluedOnce
    /\ ReversedWhole
=============================================================================
