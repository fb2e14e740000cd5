CONSTANTS
    alice = alice
    bob = bob
    grda = grda
    Asset = {grda}
    Address = {alice, bob}
    Amounts = {1, 3}
    Prices = {1, 3}
    Int64Max = 3
    InitAsset <- MCInitAsset
    InitGrd <- MCInitGrd
    Deposits = {1}
    MaxOrders = 3
    MaxGrd = 1
    MaxTime = 1
    MaxWrapped = 3
SPECIFICATION MCSpec
INVARIANTS ATypeOK Solvent FillConsistent EscrowBacked AssetConserved GrdConserved
CHECK_DEADLOCK FALSE
