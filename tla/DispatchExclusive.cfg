SPECIFICATION FairSpec
CONSTANTS
    w1 = w1
    w2 = w2
    Workers <- TwoWorkers
    Messages <- Rows4
    Malformed <- Second
    Poison <- First
    Exclusive = TRUE
    MaxFaults = 2
INVARIANTS TypeOK DuplicatesCharged FIFO
PROPERTIES NoSendAfterSent EventuallySent
