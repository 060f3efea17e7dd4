SPECIFICATION ValuesSpec
CONSTANTS
    None = None
    bet = bet
    loss = loss
    refund = refund
    Submissions = {bet, loss, refund}
    Messages = {refund}
    Losses = {loss}
    Lease = 1
    FirstDelay = 1
    Wait = 2
    Backoffs = {1, 2}
    MaxClock = 3
    ReferenceOf <- RefundOfBet
    MaxInt = 1279
    MaxLength = 6
    Characters = {"0", "1", "2", "8", "9", ".", "-", " "}
    MaxAttempts = 26
INVARIANTS ClocksNeverRefuse TimesFollowCommits ExpiredIsClaimable
INVARIANTS AmountsSurviveText RetriesAreSpaced
CHECK_DEADLOCK FALSE
