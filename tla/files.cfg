SPECIFICATION Spec
CONSTANTS
    Req = {r1, r2}
    Bill <- MCBill
    BillOption <- MCBillOption
    Statement7 <- MCStatement7
    Plain <- MCPlain
    WizardFile <- MCWizardFile
    Normal <- MCNormal
    MappingName = {"m"}
    MaxBook = 2
    RateKey = {"d1", "i1", "d2"}
    KeyDay <- MCKeyDay
    KeyDirect <- MCKeyDirect
    FeedKey = {"d1", "d2"}
    RateValue = {1, 2}
    FxDay = {1, 2}
    FxMonth <- MCFxMonth
    FxAccount = {"usd"}
    Foreign = {3}
    MaxForeign = 1
    MaxReval = 2
    MaxTrail = 2
    Transfer = {"t1"}
    MaxReversed = 2
    Paper = {d1}
    PaperTxn = {"t1", "t2"}
    Upload <- MCUpload
    AllowedMime = {"image", "plain", "csv", "sheet"}
    ApiMime = {"image", "csv"}
    ExtensionWins <- MCExtensionWins
    MaxOcr = 2
    Instance = {i1, i2}
    Keep = 1
    ManualKeep = 2
    MaxTick = 2
    MaxManual = 2
    Key = {k1}
    NoKey = nokey
    Path = {"l1", "l2"}
    Body = {"b1", "b2"}
    MaxMade = 2
    Row = {w1, w2, w3}
    Name = {1, 2, 3}
    PageLimits = {1, 2}
    RepAccount <- MCRepAccount
    Shapes <- MCShapes
    Centers = {"c1", "c2"}
    RepDays = {1, 2, 3}
    FirstOfYear = 2
    Today = 3
    MaxBooks = 3
    Every = 2
    Horizon = 4
    TemplateLegs <- MCTemplateLegs
    TaxId = {"v1", "v2"}
    RateUnit = 10
    RateTerms <- MCRateTerms
    TxnForms <- MCTxnForms
    Tag = {"tag"}
    Contact = {"p", "q"}
    ContactName = {"n"}
    MaxForms = 2
SYMMETRY Symmetry
INVARIANTS
    ImportsSound ExchangeSound DocumentsSound BackupsSound ApiSound ReportsTie FormSound
PROPERTIES
    PlainLeavesNothingOut PruneKeepsNewest
CHECK_DEADLOCK FALSE
