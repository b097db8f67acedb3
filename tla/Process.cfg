SPECIFICATION ProcSpec
CONSTANTS
    c1 = c1
    c2 = c2
    Clients <- TwoClients
    Main = Main
    Calls <- StartAndStop
    MaxStarts = 3
    LockEnabled = TRUE
    PingTime = 5
INVARIANTS ProcTypeOK StoresAwaited StoppedMeansCancelled RunningHasLoop NoLostWakeup  
PROPERTIES Quiesces StopReturns ShutdownEnds
CHECK_DEADLOCK FALSE
