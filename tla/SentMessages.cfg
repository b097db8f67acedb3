SPECIFICATION SentSpec
CONSTANTS
    w1 = w1
    w2 = w2
    Workers <- TwoWorkers
    Messages <- Rows2
    Malformed <- None
    Poison <- None
    Exclusive = FALSE
    MaxFaults = 0
    MaxClears = 1
    Samples = 2
INVARIANTS SentTypeOK ResponseSound LossCharged StaleOnlyInPassing
SYMMETRY WorkerSymmetry
