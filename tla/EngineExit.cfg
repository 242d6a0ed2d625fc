CONSTANTS
    s1 = s1  s2 = s2  s3 = s3
    Accounts = {a1}
    Codes = {s1, s2, s3}
    OrderIds = {o1}
    NoAccount = NoAccount
    NoCode = NoCode
    Themes <- MCThemes
    BuyAmount = 100
    Ticks <- MCLossTicks
    SellPrices = {80}
    InitialCash = 100
    DryRun = FALSE
    ActionCap = 1
    RefreshCap = 1
    ResultCap = 2
    BaselineCap = 1
    MaxActions = 2
    MaxRefresh = 1
    MaxExec = 2
    MaxStatus = 1
SPECIFICATION Spec
PROPERTIES ExitAtThresholds
