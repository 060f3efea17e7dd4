SPECIFICATION HttpFairSpec
CONSTANTS
    None = None
    Providers = {"acme", "zeta"}
    Keys = {"k1", "k2", "k3", "k4"}
    Externals = {"e1", "e2", "e3", "e4"}
    Players = {"ann", "bob"}
    Rounds = {"r1", "r2"}
    Currencies = {"BRL"}
    Wallets = {"w1"}
    MaxMoney = 3
    Sessions = {"s1", "s2"}
    Workers = {"v1"}
    Messages = {}
    Message <- AllHTTP
    Offers <- ClientOffers
    Openings <- ClientOpenings
    MaxTries = 1
    MaxFaults = 1
    MaxDenials = 1
    Clients = {"c1"}
    Wants <- AnswerWants
    Attempts <- ClientAttempts
PROPERTIES PendingReferencesEnd ClientsGetAnswers
