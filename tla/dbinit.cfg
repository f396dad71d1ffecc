\* Three threads, two processes, a removal and a crash.
CONSTANTS
    t1 = t1
    t2 = t2
    t3 = t3
    server = server
    stdio = stdio
    Threads = {t1, t2, t3}
    Processes = {server, stdio}
    ProcessOf <- McProcessOf
    Nobody = Nobody
    MaxCalls = 3
    MaxRemovals = 1
    MaxCrashes = 1
SPECIFICATION FairSpec
INVARIANTS
    TableUnlessRemoved
    InitializedOnce
    EmptyFileExplained
PROPERTIES
    EveryCallReturns
