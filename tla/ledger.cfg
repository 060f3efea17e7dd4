SPECIFICATION ReadSpec
CONSTANTS
    None = None
    Providers = {"acme"}
    Keys = {"k1", "k2", "k3", "k4"}
    Externals = {"e1", "e2", "e3", "e4"}
    Players = {"ann", "bob"}
    Rounds = {"r1", "r2"}
    Currencies = {"BRL"}
    Wallets = {"w1"}
    MaxMoney = 2
    Sessions = {"s1", "s2"}
    Workers = {"v1"}
    Messages = {}
    Message <- AllHTTP
    Offers <- EdgeOffers
    Openings <- EdgeOpenings
    MaxTries = 1
    MaxFaults = 0
    Readers = {"c1"}
    Limits = {1, 2}
INVARIANTS TypeOK LedgerContinuity DomainAccepts ReadsAgree ReconciliationFindsNoFault
