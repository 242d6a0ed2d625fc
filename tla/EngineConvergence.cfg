CONSTANTS
    s1 = s1  s2 = s2  s3 = s3
    Accounts = {a1}
    Codes = {s1, s2, s3}
    OrderIds = {o1}
    NoAccount = NoAccount
    NoCode = NoCode
    Themes <- MCThemes
    BuyAmount = 2
    Ticks <- MCTicks
    SellPrices = {3}
    InitialCash = 4
    DryRun = FALSE
    ActionCap = 1
    RefreshCap = 1
    ResultCap = 1
    BaselineCap = 1
    MaxActions = 3
    MaxRefresh = 1
    MaxExec = 1
    MaxStatus = 1
SPECIFICATION FairSpec
INVARIANTS TypeOK TrackerTruthful 
PROPERTIES  BalanceConverges
