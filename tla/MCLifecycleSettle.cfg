SPECIFICATION FairSpec
CONSTANTS
    r1 = r1
    r2 = r2
    h1 = h1
    h2 = h2
    NoRun = NoRun
    NoUpn = NoUpn
    u1 = u1
    Runs = {r1}
    Handlers = {h1}
    Owner <- MCOwner
    MaxConcurrent = 2
    MaxPerUpn = 1
    AsyncStore = FALSE
    FaultPoints <- ExecutorFaults
    MaxFresh = 1
    MaxCrashes = 2
PROPERTIES
    FreshRunsSettle
    
    CancelledInTime
