\* One worker, no crash.
SPECIFICATION SSpec
CONSTANTS
    alice = alice
    bob = bob
    grda = grda
    Asset = {grda}
    Address = {alice, bob}
    Worker = {w1}
    w1 = w1
    Amounts = {1, 2}
    Prices = {1, 2}
    Int64Max = 100
    InitAsset <- MCInitAsset
    InitGrd <- MCInitGrd
    Deposits = {1}
    Creator <- MCCreator
    Grants = {}
    MaxSupply = 3
    MaxOrders = 3
    MaxGrd = 4
    MaxTime = 1
    MaxCalls = 5
    MaxCrashes = 0
PROPERTIES ImplementsEscrow UncrossedAfterMatch HandlersReturn
CHECK_DEADLOCK FALSE
