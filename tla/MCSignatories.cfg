SPECIFICATION Spec
CONSTANTS
    ConsKeys = {c1, c2}
    Addrs = {a1, a2}
    Powers = {1, 3}
    Keys = {k1, k2, k3}
    Paths = {root, account}
    Root = root
    Networks = {bitcoin, testnet}
    Network = bitcoin
    MaxSignatories = 2
    MaxOffline = 1
    Ratio <- TwoThirds
    Accuracy = 1000
    MaxEntries = 1
    MaxIndex = 3
SYMMETRY Symmetry
INVARIANTS
    KeysReserved
    DistinctPubkeys
    LeaversCount
