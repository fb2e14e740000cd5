\* Two goroutines serve three deliveries; one restart; a clock of five ticks.
SPECIFICATION Spec
CONSTANTS
    h1 = h1
    h2 = h2
    Handler = {h1, h2}
    Nonce = {"n1", "n2", "n3"}
    NoNonce = "none"
    replayWindow = 1
    nonceCacheTTL = 2
    nonceCacheSize = 2
    Strict = FALSE
    MaxTime = 5
    Message <- MCMessage
    Key = {"k1"}
    NoKey = "none"
    idemTTL = 2
    maxIdemEntries = 1
    MaxDeliveries = 3
    MaxRestarts = 1
SYMMETRY HandlerSymmetry
INVARIANTS MintsOnce ToldMeansDone CachesBounded
PROPERTY AcceptedOnce
CHECK_DEADLOCK FALSE
