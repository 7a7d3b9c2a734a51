SPECIFICATION Spec
CONSTANTS
    Req = {r1, r2}
    TxnId = {t1, t2, t3}
    User = {u1, u2}
    Owner = {u1}
    Date = {1}
    YearOf <- MCOneDay
    YearEnd <- MCOneDay
    Today = 1
    Amount = {1}
    Kinds = {"standard"}
    ApiKinds = {"standard"}
    Shapes = {"pair"}
    Threshold = {1, 2}
    CustomNumber = {}
    Ops = {"create", "edit", "approve", "close_period"}
    NoTxn = NoTxn
    NoRow = NoRow
    NoUser = NoUser
    NoApproval = NoApproval
SYMMETRY TxnSymmetry
PROPERTIES EveryPathRespectsHardClose
CHECK_DEADLOCK FALSE
