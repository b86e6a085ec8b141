SPECIFICATION Spec
CONSTANTS
    d1 = d1
    d2 = d2
    Deposits = {d1, d2}
    Sigsets = {0, 1}
    CreateTime <- MCCreateTime
    MaxAge = 2
    Routes <- MCRoutes
    Value <- MCValue
    MinerFee = 2
    MaxDepositAge = 1
    PruneLag = 1
    Configs <- MCConfigs
    Factories = {"f1", "f2"}
    Quotes = {0, 3}
    Unit = 10
    MinMint = 1
    MaxTime = 3
INVARIANTS
    TypeOK
    CreditedOnce
    PaidInFull
    EndBlockPays
    StaysWatched
PROPERTIES
    CleansUp
