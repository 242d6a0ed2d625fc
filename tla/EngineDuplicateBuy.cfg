CONSTANTS
    s1 = s1  s2 = s2  s3 = s3
    Accounts = {a1}
    Codes = {s1, s2, s3}
    OrderIds = {o1, o2}
    NoAccount = NoAccount
    NoCode = NoCode
    Themes <- MCThemes
    BuyAmount = 1
    Ticks <- MCTicks
    SellPrices = {3}
    InitialCash = 4
    DryRun = FALSE
    ActionCap = 1
    RefreshCap = 1
    ResultCap = 3
    BaselineCap = 1
    MaxActions = 3
    MaxRefresh = 1
    MaxExec = 2
    MaxStatus = 1
SPECIFICATION Spec
INVARIANTS NoDuplicateBuy
