SPECIFICATION Spec
CONSTANTS
    Req = {r1, r2}
    Claim = {c1}
    ClaimUser = {"own", "ed", "view"}
    Access <- MCAccess
    GlobalAdmin = {}
    Line <- MCLine
    OcrLine <- MCOcrLine
    Levels <- MCLevels
    Rules <- MCRules
    MaxLines = 2
    Doc = {i1, i2, i3}
    Payment = {p1, p2}
    InvTotal = {0, 2}
    PayAmount = {1, 2}
    NumberTyped = {2, 3}
    Offsets = {1, 2}
    MaxCredit = 3
    Purchases <- MCPurchases
    Adjustments <- MCAdjustments
    MaxMoves = 4
    Asset = {"a1"}
    AssetTerms <- MCAssetTerms
    Proceeds = {0, 3, 7}
    LotQty = {1, 2}
    MaxLots = 3
    AcctId = {"cash", "loan", "equity"}
    AcctName = {"cash", "loan"}
    Classes <- MCClasses
    OpeningForms <- MCOpeningForms
    BudgetId = {"b1"}
    BudgetTerms <- MCBudgetTerms
    MaxPosted = 2
SYMMETRY Symmetry
INVARIANTS
    ClaimsSound InvoiceNumbers InvoicesSound HoldingsTie AccountsSound
PROPERTIES
    ClaimsTakeEachLevel BalancesKept
CHECK_DEADLOCK FALSE
