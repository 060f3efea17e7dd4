SPECIFICATION Spec
CONSTANTS
    None = None
    Providers = {"acme"}
    Keys = {"k1", "k2", "k3", "k4"}
    Externals = {"e1", "e2", "e3", "e4"}
    Players = {"ann", "bob"}
    Rounds = {"r1", "r2"}
    Currencies = {"BRL"}
    Wallets = {"w1"}
    MaxMoney = 3
    Sessions = {"s1", "s2", "s3"}
    Workers = {"v1", "v2"}
    Messages = {}
    Message <- AllHTTP
    Offers <- SettlingOffers
    Openings <- SettlingOpenings
    MaxTries = 1
    MaxFaults = 1
INVARIANTS SingleReversal ReversalUndoesReference DatabaseAccepts OneEffectPerWager OutboxTellsHistory
PROPERTIES HistoryIsImmutable ImplementsWalletLedger
