\* Two workers place orders at once.
SPECIFICATION Spec
CONSTANTS
    alice = alice
    bob = bob
    grda = grda
    Asset = {grda}
    Address = {alice, bob}
    Worker = {w1, w2}
    w1 = w1
    w2 = w2
    Amounts = {1, 2}
    Prices = {1, 2}
    Int64Max = 100
    InitAsset <- MCInitAsset
    InitGrd <- MCInitGrd
    Deposits = {1}
    Creator <- MCCreator
    Grants = {}
    MaxSupply = 3
    MaxOrders = 3
    MaxGrd = 5
    MaxTime = 1
    MaxCalls = 2
    MaxCrashes = 0
INVARIANT EscrowConserved
CHECK_DEADLOCK FALSE
