SPECIFICATION FairSpec
CONSTANTS
    s1 = s1
    s2 = s2
    Signers = {s1, s2}
    Power <- MCPower
    Values = {4, 8}
    FeeRates = {1, 2}
    DustValue = 2
    TxVsize = 1
    SigVsize = 1
    WitVsize = 1
    MaxRecoveries = 3
    Outputs = 4
    Value = 6
    Fee = 13
INVARIANTS
    OnlyDustIsLost
PROPERTIES
    NothingLeftBehind
    EventuallySigned
