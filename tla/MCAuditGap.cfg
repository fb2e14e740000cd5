\* Writes may fail, nothing else does.
SPECIFICATION MCSpec
CONSTANTS
    w1 = w1
    w2 = w2
    Worker = {w1, w2}
    Faults = {"write"}
    MaxEntries = 5
    MaxWitnessed = 3
    MaxRestarts = 0
INVARIANT FailureLeavesGap
CHECK_DEADLOCK FALSE
