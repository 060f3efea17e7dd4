SPECIFICATION StreamFairSpec
CONSTANTS
    None = None
    Events = {e1, e2}
    Publishers = {p1, p2}
    MaxFaults = 3
    Amounts = {1}
    MaxMoney = 2
INVARIANTS ExtraCopiesNeedFailures GapsAreOwed
PROPERTIES LatestClaimDecides DeliversEveryEvent
