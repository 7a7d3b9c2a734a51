SPECIFICATION FairSpec
CONSTANTS
    Req = {r1, r2}
    TxnId = {t1, t2}
    User = {u1}
    Owner = {u1}
    Date = {1, 2}
    YearOf <- MCOneYear
    YearEnd <- MCOneYearEnd
    Today = 1
    Amount = {1}
    Kinds = {"standard"}
    ApiKinds = {"standard"}
    Shapes = {"pair"}
    Threshold = {2}
    CustomNumber = {}
    Ops = {"create", "override", "api_create", "close_period"}
    NoTxn = NoTxn
    NoRow = NoRow
    NoUser = NoUser
    NoApproval = NoApproval
PROPERTIES RequestsEnd
CHECK_DEADLOCK FALSE
