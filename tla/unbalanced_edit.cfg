SPECIFICATION Spec
CONSTANTS
    Req = {r1, r2}
    TxnId = {t1, t2, t3}
    User = {u1}
    Owner = {u1}
    Date = {1}
    YearOf <- MCOneDay
    YearEnd <- MCOneDay
    Today = 1
    Amount = {1}
    Kinds = {"standard"}
    ApiKinds = {"standard"}
    Shapes = {"pair", "skew"}
    Threshold = {2}
    CustomNumber = {}
    Ops = {"create", "edit"}
    NoTxn = NoTxn
    NoRow = NoRow
    NoUser = NoUser
    NoApproval = NoApproval
SYMMETRY TxnSymmetry
INVARIANTS JournalBalances
CHECK_DEADLOCK FALSE
