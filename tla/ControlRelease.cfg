SPECIFICATION Spec
CONSTANTS
    c1 = c1
    c2 = c2
    Clients <- TwoClients
    Main = Main
    Calls <- StartAndStop
    MaxStarts = 2
    LockEnabled = TRUE
INVARIANTS KeyHeldInBatch
CHECK_DEADLOCK FALSE
