\* Two workers and a crash.
SPECIFICATION Spec
CONSTANTS
    alice = alice
    bob = bob
    grda = grda
    Asset = {grda}
    Address = {alice, bob}
    Worker = {w1, w2}
    w1 = w1
    w2 = w2
    Amounts = {1, 2}
    Prices = {1, 2}
    Int64Max = 100
    InitAsset <- MCInitAsset
    InitGrd <- MCInitGrd
    Deposits = {1}
    Creator <- MCCreator
    Grants = {1}
    MaxSupply = 2
    MaxOrders = 3
    MaxGrd = 1
    MaxTime = 1
    MaxCalls = 4
    MaxCrashes = 1
SYMMETRY WorkerSymmetry
INVARIANTS Solvent FillConsistent CrashDriftBounded
CHECK_DEADLOCK FALSE
