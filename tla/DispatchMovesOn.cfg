SPECIFICATION Spec
CONSTANTS
    w1 = w1
    w2 = w2
    Workers <- TwoWorkers
    Messages <- Rows3
    Malformed <- None
    Poison <- None
    Exclusive = TRUE
    MaxFaults = 1
PROPERTIES BatchUntilSuccess
