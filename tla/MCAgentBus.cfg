SPECIFICATION FairSpec
CONSTANTS
    None = None
    Protocols = {"question", "answer"}
    Agents = {a1, a2}
    Messages = {m1, m2}
CHECK_DEADLOCK FALSE
INVARIANTS
    NothingMissed
PROPERTIES
    TimeoutOnlyOnCrossing
    WaitsEnd
