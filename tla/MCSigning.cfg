SPECIFICATION Spec
CONSTANTS
    s1 = s1
    s2 = s2
    s3 = s3
    s4 = s4
    Signers = {s1, s2, s3, s4}
    Power <- MCPower
    Rank <- MCRank
    Ratio <- TwoThirds
    Heights = {5, 6}
    MaxInputs = 2
    Precision = 5
    Opcodes = 1
    MaxSearch = 10
    Dest = "dest"
INVARIANTS
    AllOrNothing
    SpendNeedsThreshold
    SignedIsSpendable
    ScriptIsReadBack
PROPERTIES
    ImplementsRule
