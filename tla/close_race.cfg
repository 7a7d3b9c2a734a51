SPECIFICATION Spec
CONSTANTS
    Req = {r1, r2}
    TxnId = {t1, t2}
    User = {u1, u2}
    Owner = {u1}
    Date = {1, 2}
    YearOf <- MCTwoYears
    YearEnd <- MCTwoYears
    Today = 1
    Amount = {1}
    Kinds = {"standard"}
    ApiKinds = {"standard"}
    Shapes = {"pair"}
    Threshold = {2}
    CustomNumber = {}
    Ops = {"create", "draft", "override", "post_draft", "close_period",
           "reopen"}
    NoTxn = NoTxn
    NoRow = NoRow
    NoUser = NoUser
    NoApproval = NoApproval
SYMMETRY TxnSymmetry
INVARIANTS TypeOK
PROPERTIES ServiceRespectsHardClose LiftIsAttributed
CHECK_DEADLOCK FALSE
