SPECIFICATION Spec
CONSTANTS
    s1 = s1
    s2 = s2
    Signers = {s1}
    Deposits = {d1, d2, d3}
    Withdrawals = {w1, w2}
    Power <- MCPower
    DepositValue <- MCDepositValue
    WithdrawalAmount <- MCWithdrawalAmount
    MaxInputs = 2
    MaxOutputs = 3
    MinFeeRate = 1
    MaxFeeRate = 2
    DefaultFeeRate = 1
    UserFeeFactor = 27000
    UnitsPerSat = 2
    TxVsize = 1
    InVsize = 2
    UserInVsize = 1
    OutVsize = 1
    SigVsize = 3
    WitVsize = 1
    DustValue = 1
    MinCheckpoints = 3
    MaxAge = 10
    MinInterval = 1
    MaxInterval = 2
    MaxUnconfirmed = 2
    TargetInclusion = 1
    MaxSignatories = 2
    MaxDepositAge = 5
    MinConfirmations = 0
    MinCheckpointConfirmations = 0
    MinWithdrawalCheckpoints = 1
    MaxOffline = 2
    CapacityLimit = 500
    Intervals = {0, 1, 2, 3}
    MaxReorg = 0
    MaxHeight = 1
    MaxTime = 4
SYMMETRY Symmetry
INVARIANTS
    NoDoubleSpend
    ReserveChain
    Backed
    FeeRatePaid
    EndBlockSucceeds
    LooksBackFarEnough
    RateIsOutflow
PROPERTIES
    PushPaidByFees
