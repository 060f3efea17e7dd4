SPECIFICATION Spec
CONSTANTS
    None = None
    Msgs = {m1, m2}
    Content <- AllValid
    Instances = {i1}
    Concurrency = 2
    ReceiveBatch = 2
    MaxReceive = 2
    MaxFaults = 0
    MaxStops = 1
INVARIANT ShutdownReturnsMessages
