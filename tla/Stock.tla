------------------------------- MODULE Stock -------------------------------
(***************************************************************************)
(* What a ledger owns beside money: one inventory item with its purchase   *)
(* layers (handlers/inventory.rs, domain/inventory_valuation.rs), fixed    *)
(* assets and their depreciation (handlers/fixed_assets.rs,                *)
(* domain/depreciation.rs) and investment lots (domain/investment_lot.rs). *)
(*                                                                         *)
(* adjust, calculate_depreciation and dispose write back numbers that they *)
(* computed from what they read on the pool; fifo_match reads and inserts  *)
(* lot by lot.                                                             *)
(***************************************************************************)
EXTENDS Requests, Sums

CONSTANTS
    Purchases,      \* quantity and unit cost of the purchases users enter
    Adjustments,    \* quantities of the adjustments users enter
    MaxMoves,       \* bound: stock movements
    Asset,          \* ids of fixed_assets
    AssetTerms,     \* cost, salvage, months of life and method of new assets
    Proceeds,       \* amounts an asset is disposed for
    LotQty,         \* quantities of buys and sells
    MaxLots         \* bound: investment lots

(* create in handlers/fixed_assets.rs asks for a positive life, but not    *)
(* that the salvage value is below the cost; a lot's CHECK (qty > 0).      *)
ASSUME StockAssumption ==
    /\ AssetTerms \subseteq [cost : Int, salvage : Int, months : Nat \ {0},
                             method : {"straight_line", "declining_balance"}]
    /\ LotQty \subseteq Nat \ {0}

VARIABLES
    method,         \* ledgers.inventory_method
    qty, unitCost,  \* inventory_items.quantity_on_hand and .unit_cost
    layers,         \* inventory_layers, oldest first
    stockGl,        \* net of the item's asset account
    moves, drift,   \* history: the movements; and whether any was not costed by layers
    asset,          \* fixed_assets
    assetGl,        \* history: the disposal postings of each asset
    lots            \* investment_lots with the quantity disposed of

stockVars == <<method, qty, unitCost, layers, stockGl, moves, drift, asset, assetGl, lots>>

NoAsset == [status |-> "none"]
SumOver(s, Value(_)) == FoldLeft(LAMBDA sum, x : sum + Value(x), 0, s)

InitStock ==
    /\ method \in {"average", "fifo"}
    /\ qty = 0 /\ unitCost = 0
    /\ layers = <<>> /\ stockGl = 0
    /\ moves = <<>> /\ drift = FALSE
    /\ asset = [a \in Asset |-> NoAsset]
    /\ assetGl = [a \in Asset |-> <<>>]
    /\ lots = <<>>

-----------------------------------------------------------------------------
(* Division of money, half up in the last place a NUMERIC column keeps. *)
Quotient(total, n) == (2 * total + n) \div (2 * n)

Left(l) == IF l.remaining > 0 THEN l.remaining ELSE 0
Remaining(ls) == SumOver(ls, LAMBDA l : l.remaining)
Available(ls) == SumOver(ls, Left)
LayerValue(ls) == SumOver(ls, LAMBDA l : l.remaining * l.cost)

(* Fault: the average is taken over the purchase alone. *)
PurchaseNoLayer(r, p) ==
    /\ Serve(r, "stock")
    /\ Len(moves) < MaxMoves /\ p.n * p.cost > 0
    /\ qty' = qty + p.n
    /\ unitCost' = p.cost
    /\ stockGl' = stockGl + p.n * p.cost
    /\ moves' = Append(moves, p)
    /\ UNCHANGED <<method, layers, drift, asset, assetGl, lots>>

(* purchase: one database transaction that starts with the UPDATE of the   *)
(* item.  The average counts every layer that is left.  A total that is    *)
(* not positive is refused by the CHECK of its postings.                   *)
Purchase(r, p) ==
    /\ Serve(r, "stock")
    /\ Len(moves) < MaxMoves /\ p.n * p.cost > 0
    /\ qty' = qty + p.n
    /\ layers' = Append(layers, [remaining |-> p.n, cost |-> p.cost])
    /\ LET left == SelectSeq(layers', LAMBDA l : l.remaining > 0)
       IN  unitCost' = IF qty' > 0 THEN Quotient(LayerValue(left), qty') ELSE 0
    /\ stockGl' = stockGl + p.n * p.cost
    /\ moves' = Append(moves, p)
    /\ UNCHANGED <<method, drift, asset, assetGl, lots>>

(* adjust reads the item, then the method, on the pool. *)
AdjustRead(r, n) ==
    /\ Len(moves) < MaxMoves /\ qty + n >= 0
    /\ Begin(r, "adjust method", [on |-> "stock", n |-> n, qty |-> qty + n, cost |-> unitCost])
    /\ UNCHANGED stockVars

AdjustMethod(r) ==
    /\ pc[r] = "adjust method"
    /\ Goto(r, "adjust layers", [on |-> "stock", n |-> loc[r].n, qty |-> loc[r].qty,
                                 cost |-> loc[r].cost, method |-> method])
    /\ UNCHANGED stockVars

Lesser(a, b) == IF a < b THEN a ELSE b

(* Oldest first: what is taken of each layer when need units leave. *)
TakeFrom(ls, need) ==
    [i \in DOMAIN ls |->
        LET before == Available(SubSeq(ls, 1, i - 1))
        IN  IF before >= need THEN 0 ELSE Lesser(Left(ls[i]), need - before)]

(* Inside the transaction the layers are read without a lock. *)
AdjustLayers(r) ==
    /\ pc[r] = "adjust layers"
    /\ LET d == loc[r]
           fifo == d.method = "fifo" /\ d.n < 0
           take == IF fifo THEN TakeFrom(layers, -d.n) ELSE [i \in DOMAIN layers |-> 0]
           cogs == FoldLeft(LAMBDA sum, i : sum + take[i] * layers[i].cost, 0,
                            [i \in DOMAIN layers |-> i])
       IN  Goto(r, "adjust write",
                [on |-> "stock", n |-> d.n, qty |-> d.qty, method |-> d.method,
                 take |-> take, diff |-> IF fifo THEN -cogs ELSE d.n * d.cost])
    /\ UNCHANGED stockVars

(* The layers lose what was taken, the quantity is set to the sum computed *)
(* at the start, and the difference is posted.                             *)
AdjustWrite(r) ==
    /\ pc[r] = "adjust write" /\ Len(moves) < MaxMoves
    /\ qty' = loc[r].qty
    /\ stockGl' = stockGl + loc[r].diff
    /\ layers' = [i \in DOMAIN layers |->
                    IF i \in DOMAIN loc[r].take
                    THEN [layers[i] EXCEPT !.remaining = @ - loc[r].take[i]] ELSE layers[i]]
    /\ moves' = Append(moves, [n |-> loc[r].n, cost |-> 0])
    /\ drift' = (drift \/ loc[r].method # "fifo" \/ loc[r].n > 0)
    /\ End(r)
    /\ UNCHANGED <<method, unitCost, asset, assetGl, lots>>

(* set_method: 409 while there is stock on hand. *)
SetMethodRead(r, m) ==
    /\ m # method /\ qty = 0
    /\ Begin(r, "set method", [on |-> "stock", m |-> m])
    /\ UNCHANGED stockVars

SetMethod(r) ==
    /\ pc[r] = "set method"
    /\ method' = loc[r].m
    /\ End(r)
    /\ UNCHANGED <<qty, unitCost, layers, stockGl, moves, drift, asset, assetGl, lots>>

Oversold == <<-1, 0>>

(* valuate_fifo of domain/inventory_valuation.rs: quantity and value after *)
(* the movements ms, or an error when one takes more than there is.        *)
ValuateFifo(ms) ==
    LET eat(acc, l) ==
            LET take == Lesser(l.remaining, acc.need)
            IN  [need |-> acc.need - take,
                 left |-> Append(acc.left, [l EXCEPT !.remaining = @ - take])]
        step(acc, m) ==
            IF m.n >= 0
            THEN [acc EXCEPT !.ls = Append(@, [remaining |-> m.n, cost |-> m.cost])]
            ELSE LET eaten == FoldLeft(eat, [need |-> -m.n, left |-> <<>>], acc.ls)
                 IN  [ok |-> acc.ok /\ -m.n <= Remaining(acc.ls),
                      ls |-> SelectSeq(eaten.left, LAMBDA l : l.remaining > 0)]
        final == FoldLeft(step, [ok |-> TRUE, ls |-> <<>>], ms)
    IN  IF final.ok THEN <<Remaining(final.ls), LayerValue(final.ls)>> ELSE Oversold

StockNext ==
    \E r \in Req :
        \/ \E p \in Purchases : Purchase(r, p)
        \/ \E n \in Adjustments : AdjustRead(r, n)
        \/ AdjustMethod(r) \/ AdjustLayers(r) \/ AdjustWrite(r)
        \/ \E m \in {"average", "fifo"} : SetMethodRead(r, m)
        \/ SetMethod(r)
        \/ CutOff(r) /\ UNCHANGED stockVars

-----------------------------------------------------------------------------
AssetCreate(r, a, t) ==
    /\ asset[a].status = "none"
    /\ Serve(r, a)
    /\ asset' = [asset EXCEPT ![a] =
                    [status |-> "active", accumulated |-> 0, cost |-> t.cost,
                     salvage |-> t.salvage, months |-> t.months, method |-> t.method]]
    /\ UNCHANGED <<method, qty, unitCost, layers, stockGl, moves, drift, assetGl, lots>>

(* straight_line_monthly, which the column rounds, and                     *)
(* declining_balance_monthly, which rounds to the even one of two cents.   *)
Charge(t) ==
    IF t.method = "declining_balance"
    THEN LET nbv == t.cost - t.accumulated
         IN  IF nbv <= 0 THEN 0 ELSE RoundHalfEven(2 * nbv, t.months)
    ELSE Quotient(t.cost - t.salvage, t.months)

CapAtDepreciable(proposed, t) ==
    LET left == t.cost - t.salvage - t.accumulated
    IN  IF left <= 0 \/ proposed < 0 THEN 0 ELSE Lesser(proposed, left)

MayDepreciate(t) == t.status = "active"

(* calculate_depreciation reads the asset, then writes the new total and   *)
(* status over whatever is there.                                          *)
DepreciateRead(r, a) ==
    /\ MayDepreciate(asset[a])
    /\ LET total == asset[a].accumulated + CapAtDepreciable(Charge(asset[a]), asset[a])
       IN  Begin(r, "depreciate", [on |-> a, total |-> total])
    /\ UNCHANGED stockVars

DepreciateWrite(r) ==
    /\ pc[r] = "depreciate"
    /\ LET a == loc[r].on
           done == loc[r].total >= asset[a].cost - asset[a].salvage
       IN  asset' = [asset EXCEPT ![a].accumulated = loc[r].total,
                        ![a].status = IF done THEN "fully_depreciated" ELSE "active"]
    /\ End(r)
    /\ UNCHANGED <<method, qty, unitCost, layers, stockGl, moves, drift, assetGl, lots>>

(* The lines of a disposal, signed; a gain is a credit, a loss a debit. *)
DisposalLines(t, proceeds) ==
    LET nbv == t.cost - t.accumulated
    IN  <<proceeds, -nbv, nbv - proceeds>>

(* dispose reads the asset, whatever its status. *)
DisposeRead(r, a, proceeds) ==
    /\ asset[a].status # "none" /\ Len(assetGl[a]) < 2
    /\ Begin(r, "dispose post",
             [on |-> a, proceeds |-> proceeds, lines |-> DisposalLines(asset[a], proceeds)])
    /\ UNCHANGED stockVars

(* Without a gain or a loss nothing is posted, not even the proceeds; with *)
(* one PostingService::create posts, and a line of zero fails its CHECK.   *)
DisposePost(r) ==
    /\ pc[r] = "dispose post"
    /\ LET d == loc[r]
           posts == d.lines[3] # 0
       IN  \/ ~posts /\ Goto(r, "dispose mark", d) /\ UNCHANGED assetGl
           \/ /\ posts /\ \A i \in 1..3 : d.lines[i] # 0
              /\ assetGl' = [assetGl EXCEPT ![d.on] = Append(@, d.lines)]
              /\ Goto(r, "dispose mark", d)
           \/ posts /\ (\E i \in 1..3 : d.lines[i] = 0) /\ End(r) /\ UNCHANGED assetGl
    /\ UNCHANGED <<method, qty, unitCost, layers, stockGl, moves, drift, asset, lots>>

DisposeMark(r) ==
    /\ pc[r] = "dispose mark"
    /\ asset' = [asset EXCEPT ![loc[r].on].status = "disposed"]
    /\ End(r)
    /\ UNCHANGED <<method, qty, unitCost, layers, stockGl, moves, drift, assetGl, lots>>

AssetsNext ==
    \E r \in Req :
        \/ \E a \in Asset :
            \/ \E t \in AssetTerms : AssetCreate(r, a, t)
            \/ DepreciateRead(r, a)
            \/ \E p \in Proceeds : DisposeRead(r, a, p)
        \/ DepreciateWrite(r) \/ DisposePost(r) \/ DisposeMark(r)
        \/ CutOff(r) /\ UNCHANGED stockVars

-----------------------------------------------------------------------------
(* insert_lot; lots are kept in the order of acquired_at and id. *)
InsertLot(r, n) ==
    /\ Len(lots) < MaxLots
    /\ Serve(r, "lots")
    /\ lots' = Append(lots, [n |-> n, gone |-> 0])
    /\ UNCHANGED <<method, qty, unitCost, layers, stockGl, moves, drift, asset, assetGl>>

Open == {i \in DOMAIN lots : lots[i].n > lots[i].gone}

FifoBegin(r, n) ==
    /\ Begin(r, "fifo pick", [on |-> "lots", left |-> n])
    /\ UNCHANGED stockVars

(* fifo_match: the oldest lot with something left, or the end. *)
FifoPick(r) ==
    /\ pc[r] = "fifo pick"
    /\ IF loc[r].left > 0 /\ Open # {}
       THEN LET i == CHOOSE i \in Open : \A k \in Open : i <= k
                has == lots[i].n - lots[i].gone
            IN  Goto(r, "fifo insert",
                     [on |-> "lots", lot |-> i, left |-> loc[r].left,
                      take |-> Lesser(has, loc[r].left)])
       ELSE End(r)
    /\ UNCHANGED stockVars

FifoInsert(r) ==
    /\ pc[r] = "fifo insert"
    /\ lots' = [lots EXCEPT ![loc[r].lot].gone = @ + loc[r].take]
    /\ Goto(r, "fifo pick", [on |-> "lots", left |-> loc[r].left - loc[r].take])
    /\ UNCHANGED <<method, qty, unitCost, layers, stockGl, moves, drift, asset, assetGl>>

LotsNext ==
    \E r \in Req :
        \/ \E n \in LotQty : InsertLot(r, n) \/ FifoBegin(r, n)
        \/ FifoPick(r) \/ FifoInsert(r)
        \/ CutOff(r) /\ UNCHANGED stockVars

HoldingsNext == StockNext \/ AssetsNext \/ LotsNext

HoldingsSpec == InitRequests /\ InitStock /\ [][HoldingsNext]_<<reqVars, stockVars>>

-----------------------------------------------------------------------------
(* The types of the stock, the assets and the lots; a quantity below zero *)
(* cannot be adjusted to.                                                 *)
StockTypeOK ==
    /\ method \in {"average", "fifo"}
    /\ qty \in Nat /\ unitCost \in Nat
    /\ \A a \in Asset :
        asset[a].status \in {"none", "active", "fully_depreciated", "disposed"}
    /\ \A i \in DOMAIN lots : lots[i].n \in Nat \ {0} /\ lots[i].gone \in Nat

(* While every withdrawal was costed by layers, the layers are worth what  *)
(* the asset account says, even when adjustments that read the same layers *)
(* both take from them.  When no two requests met at the item, the         *)
(* quantity and the valuation that domain/inventory_valuation.rs computes  *)
(* from the movements say the same too (purchase and adjust against        *)
(* valuate_fifo; both take the oldest layer first).                        *)
StockTies ==
    ~drift =>
        /\ LayerValue(layers) = stockGl
        /\ "stock" \notin raced =>
              /\ Remaining(layers) = qty
              /\ ValuateFifo(moves) = <<qty, stockGl>>

(* Depreciation never takes the book value of an asset below its salvage   *)
(* value, however many runs of calculate_depreciation overlap              *)
(* (cap_at_depreciable); an asset that is entered with a salvage value     *)
(* above its cost is never depreciated.                                    *)
AboveSalvage ==
    \A a \in Asset :
        (asset[a].status # "none" /\ asset[a].accumulated # 0) =>
            asset[a].cost - asset[a].accumulated >= asset[a].salvage

(* No more is sold from a lot than it held, unless two sells of the        *)
(* account overlapped (fifo_match).                                        *)
LotNotOversold ==
    "lots" \notin raced => \A i \in DOMAIN lots : lots[i].gone <= lots[i].n

(* What is held agrees with its records: stock with layers, movements and  *)
(* ledger, an asset with its salvage value, a lot with what was sold.      *)
HoldingsTie ==
    /\ StockTypeOK
    /\ StockTies
    /\ AboveSalvage
    /\ LotNotOversold
=============================================================================
