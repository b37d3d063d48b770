SPECIFICATION FairServerSpec
CONSTANTS
    Callers = {main}
    Main = main
    BatchSize = 2
    MaxPending = 5
    MaxStarts = 2
INVARIANTS ServerTypeOK QuietAfterStop FlushHasDatabase ShutdownSaves
PROPERTIES StopReturns SignalEnds
CHECK_DEADLOCK FALSE
