SPECIFICATION Spec
CONSTANTS
    TrustedHeight = 4
    TrustedTime = 2
    TrustedBits = 12
    RetargetInterval = 4
    TargetSpacing = 1
    TargetTimespan = 4
    MaxTarget = 12
    MaxLength = 6
    Retargeting = TRUE
    MinDifficultyBlocks = TRUE
    MaxRelay = 2
    MedianSpan = 3
    HashSpace = 64
    Mantissa = 4
    Scales <- MCScales
    Times = {0, 1, 3, 6}
    Targets = {3, 6, 12}
    MaxBest = 10
INVARIANTS
    TypeOK
    Linked
    MedianTime
    TargetsRight
    OrderedIsAccepted
PROPERTIES
    BestBranch
