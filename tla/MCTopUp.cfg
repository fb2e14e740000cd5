\* Two deposits, one poller, two ledger requests at a time.
SPECIFICATION MCSpec
CONSTANTS
    Deposit = {"d1", "d2"}
    AddressOf <- MCAddressOf
    AmountOf <- MCAmountOf
    Address = {"l1", "l2"}
    Account = {"t1"}
    Poller = {"p1"}
    Clerk = {"c1", "c2"}
    Amount = {1}
    MaxAmount = 1
    Reward = 1
    MaxTries = 1
    MaxRequests = 4
INVARIANTS PaidOnce StatusTrue TradingBacked OverdraftBounded
PROPERTY DepositSettles
CHECK_DEADLOCK FALSE
