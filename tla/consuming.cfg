SPECIFICATION FairSpec
CONSTANTS
    None = None
    Msgs = {"m1", "m2", "m3"}
    Content <- Mixed
    Instances = {"i1"}
    Concurrency = 2
    ReceiveBatch = 2
    MaxReceive = 2
    MaxFaults = 1
    MaxStops = 1
INVARIANTS DeletedOnlyWhenCommitted DispatchNeverWaits RedeliveriesNeedFailures NoWorkAfterStop
PROPERTIES MessagesEnd ShutdownsEnd
