SPECIFICATION Spec
CONSTANTS
    Req = {r1, r2}
    TxnId = {t1, t2, t3}
    User = {u1}
    Owner = {u1}
    Date = {1, 2}
    YearOf <- MCOneYear
    YearEnd <- MCOneYearEnd
    Today = 1
    Amount = {1}
    Kinds = {"standard"}
    ApiKinds = {"standard", "draft", "pending"}
    Shapes = {"pair", "skew"}
    Threshold = {2}
    CustomNumber = {}
    Ops = {"create", "draft", "delete_draft", "reverse", "edit",
           "bulk_delete", "api_create", "api_reverse", "close_period", "close_year"}
    NoTxn = NoTxn
    NoRow = NoRow
    NoUser = NoUser
    NoApproval = NoApproval
SYMMETRY TxnSymmetry
PROPERTIES PostedIsFinal ServiceRespectsHardClose
CHECK_DEADLOCK FALSE
