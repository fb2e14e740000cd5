\* Two orders, the user holds the asset of one of them; two tasks at a time.
SPECIFICATION MCSpec
CONSTANTS
    Order = {1, 2}
    Holder = {1}
    Task = {1, 2}
    MaxClicks = 4
    MaxFaults = 1
    MaxTime = 2
PROPERTIES OrderProgress ChatCatchesUp
CHECK_DEADLOCK FALSE
