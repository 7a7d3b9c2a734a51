SPECIFICATION Spec
CONSTANTS
    Req = {r1, r2}
    TxnId = {t1, t2}
    User = {u1, u2}
    Owner = {u1}
    Date = {1}
    YearOf <- MCOneDay
    YearEnd <- MCOneDay
    Today = 1
    Amount = {1, 2}
    Kinds = {"adjusting"}
    ApiKinds = {"standard"}
    Shapes = {"pair"}
    Threshold = {1, 2}
    CustomNumber = {}
    Ops = {"create", "draft", "post_draft", "delete_draft", "approve",
           "reject", "threshold", "append_only"}
    NoTxn = NoTxn
    NoRow = NoRow
    NoUser = NoUser
    NoApproval = NoApproval
SYMMETRY TxnSymmetry
INVARIANTS SeparationOfDuties
PROPERTIES JournalKept
CHECK_DEADLOCK FALSE
