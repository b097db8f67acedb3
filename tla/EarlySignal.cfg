SPECIFICATION ProcSpec
CONSTANTS
    c1 = c1
    c2 = c2
    Clients <- TwoClients
    Main = Main
    Calls <- NoCalls
    MaxStarts = 1
    LockEnabled = TRUE
    PingTime = 5
PROPERTIES SignalFinishesBatch
CHECK_DEADLOCK FALSE
