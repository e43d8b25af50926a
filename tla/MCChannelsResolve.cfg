SPECIFICATION FairSpec
CONSTANTS
    i1 = i1
    i2 = i2
    i3 = i3
    s1 = s1
    s2 = s2
    None = None
    Inbound = {i1}
    Sender <- MCSender
    MaxRetries = 1
    MaxLost = 0
    MaxCrashes = 0
PROPERTIES
    DeliveredResolves
