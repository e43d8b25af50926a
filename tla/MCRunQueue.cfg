SPECIFICATION FairSpec
CONSTANTS
    a1 = a1
    a2 = a2
    b1 = b1
    b2 = b2
    n1 = n1
    ua = ua
    ub = ub
    none = none
    Runs = {a1, a2, b1, b2, n1}
    Upns = {ua, ub}
    NoUpn = none
    Owner <- MCOwner
    Priority <- MCPriority
    MaxConcurrent = 3
    MaxPerUpn = 2
INVARIANTS
    
    Accounting
    WorkConserving
    BandsInOrder
PROPERTIES
    
    
    ImplementsSlotPool
    TopBandServed
