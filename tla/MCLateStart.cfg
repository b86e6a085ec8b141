SPECIFICATION Spec
CONSTANTS
    TrustedHeight = 4
    TrustedTime = 3
    TrustedBits = 8
    RetargetInterval = 4
    TargetSpacing = 2
    TargetTimespan = 8
    MaxTarget = 12
    MaxLength = 8
    Retargeting = TRUE
    MinDifficultyBlocks = FALSE
    MaxRelay = 1
    MedianSpan = 3
    HashSpace = 64
    Mantissa = 4
    Scales <- MCScales
    Times = {0, 1, 2, 4}
    Targets = {2, 4, 6, 8, 12}
    MaxBest = 8
INVARIANTS
    ValidIsAccepted
