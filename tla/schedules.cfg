SPECIFICATION Spec
CONSTANTS
    Req = {r1, r2}
    Tmpl = {t1}
    Frequencies = {"monthly"}
    StartDates <- MCStartDates
    EndDates <- MCEndDates
    Days <- MCDays
    MaxEntries = 2
    MaxPeriods = 2
    Caps = {0, 1}
    MaxFeed = 3
    ZeroItem = {3}
    Unreadable = {1}
    Statement = {"id", "id_odd", "plain", "odd"}
    BankId = {"id", "id_odd"}
    PlainText = {"id", "plain"}
    Row = {"x1", "x2"}
    RowAmount <- MCRowAmount
    StmtSession = {"s1", "s2"}
    CloseDate <- MCCloseDate
    CloseBalance = {1, 3}
    Category = {"rent", "meals"}
    BankTxn = {"b1", "b2"}
    TxnDate <- MCTxnDate
    Watermarks = {1, 2}
    Entry = {e1, e2, e3, e4}
    Uuid <- MCUuid
    LastUuid = 4
    Legacy = {e1, e2}
    MaxClock = 2
    MaxAnchors = 2
    User = {u1, u2, u3}
    FirstAdmins = {u1, u2}
    Account = {u1}
    Invitee = {u2}
    Limit = 2
    Window = 3
    PerSecond = 2
    Idle = 4
    Absolute = 6
    MaxTime = 8
    RecoveryCode = {c1}
    MaxPassword = 2
    ApiToken = {k1, k2}
    MaxTracked = 1
    Rule = {"hook", "food"}
    RuleConditions <- MCRuleConditions
    RuleAction <- MCRuleAction
    EventData <- MCEventData
    Posting = {p1, p2}
    ByHand = {p1}
    ActionBudget = 1
    MaxAttempts = 2
    MaxAct = 3
    MaxId = 2
    LastDay = 2
    MaxFault = 1
    AcctNames <- MCAcctNames
    TargetCharts <- MCTargetCharts
    LastIxDay = 2
    IxTexts = {"x"}
    Currencies = {"USD", "EUR"}
    BaseCurrency = "USD"
    MaxSource = 2
    MaxTarget = 3
SYMMETRY Symmetry
INVARIANTS
    SchedulesSound BankTies LogProvesItself AccessSound AutomationSound InterchangeSound
PROPERTIES
    ClosedStays ServedWithinWindows RulesRestrained
CHECK_DEADLOCK FALSE
