SPECIFICATION Spec
CONSTANTS
    ConsKeys = {c1, c2, c3}
    Addrs = {a1}
    Powers = {1, 3}
    Keys = {k1, k2, k3, k4}
    Paths = {root}
    Root = root
    Networks = {bitcoin}
    Network = bitcoin
    MaxSignatories = 2
    MaxOffline = 1
    Ratio <- TwoThirds
    Accuracy = 1000
    MaxEntries = 1
    MaxIndex = 2
SYMMETRY Symmetry
INVARIANTS
    SignedCanSpend
    SignedNeedsThird
    LeaversCount
