SPECIFICATION Spec
CONSTANTS
    None = None
    Providers = {"acme"}
    Keys = {"k1", "k2", "k3", "k4"}
    Externals = {"e1", "e2", "e3", "e4"}
    Players = {"ann", "bob"}
    Rounds = {"r1", "r2"}
    Currencies = {"BRL"}
    Wallets = {"w1", "w2"}
    MaxMoney = 3
    Sessions = {"s1", "s2", "s3", "s4"}
    Workers = {}
    Messages = {"m1"}
    Message <- IdentityMessage
    Offers <- IdentityOffers
    Openings <- IdentityOpenings
    MaxTries = 2
    MaxFaults = 1
INVARIANTS IdentityUnique AnswersAreDurable ErrorsAreTrue InboxNamesItsWager RefusalsAreForGood NoCircularWait
