SPECIFICATION FairSpec
CONSTANTS
    None = None
    Msgs = {m1, m2}
    Content <- AllValid
    Instances = {i1}
    Concurrency = 2
    ReceiveBatch = 2
    MaxReceive = 2
    MaxFaults = 1
    MaxStops = 0
PROPERTY ReleasesOnlyOnShutdown
