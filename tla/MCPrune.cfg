SPECIFICATION Spec
CONSTANTS
    s1 = s1
    s2 = s2
    Signers = {s1}
    Deposits = {d1, d2}
    Withdrawals = {}
    Power <- MCPower
    DepositValue <- MCLargeDeposit
    WithdrawalAmount <- MCWithdrawalAmount
    MaxInputs = 2
    MaxOutputs = 3
    MinFeeRate = 1
    MaxFeeRate = 2
    DefaultFeeRate = 1
    UserFeeFactor = 27000
    UnitsPerSat = 2
    TxVsize = 1
    InVsize = 2
    UserInVsize = 1
    OutVsize = 1
    SigVsize = 3
    WitVsize = 1
    DustValue = 1
    MinCheckpoints = 3
    MaxAge = 2
    MinInterval = 1
    MaxInterval = 1
    MaxUnconfirmed = 5
    TargetInclusion = 1
    MaxSignatories = 2
    MaxDepositAge = 2
    MinConfirmations = 0
    MinCheckpointConfirmations = 0
    MinWithdrawalCheckpoints = 2
    MaxOffline = 2
    CapacityLimit = 60
    Intervals = {}
    MaxReorg = 1
    MaxHeight = 1
    MaxTime = 5
INVARIANTS
    TypeOK
    UntilPruned
