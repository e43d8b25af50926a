SPECIFICATION Spec
CONSTANTS
    r1 = r1
    r2 = r2
    h1 = h1
    h2 = h2
    NoRun = NoRun
    NoUpn = NoUpn
    u1 = u1
    Runs = {r1, r2}
    Handlers = {}
    Owner <- MCOwner
    MaxConcurrent = 2
    MaxPerUpn = 1
    AsyncStore = FALSE
    FaultPoints <- ExecutorFaults
    MaxFresh = 2
    MaxCrashes = 1
SYMMETRY MCSymmetry
INVARIANTS
    TypeOK
    NothingLeaks
    NoOrphanRows
PROPERTIES
    CompletedNotCancelled
