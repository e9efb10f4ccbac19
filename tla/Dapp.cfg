SPECIFICATION FairSpec
CONSTANTS
    t1 = t1
    t2 = t2
    MXT = MXT
    WBTC = WBTC
    Tabs = {t1, t2}
    Tokens = {MXT, WBTC}
    FirstToken = MXT
    Offered <- OneChanges
    Null = Null
    MaxClicks = 2
CHECK_DEADLOCK FALSE
INVARIANTS
    TypeOK
    RecordsSucceeded
    BalanceOfSelected
PROPERTIES
    ReloadKeepsRecords
    SuccessIsStored
