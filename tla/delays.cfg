SPECIFICATION RetrySpec
CONSTANT MaxAttempts = 12
INVARIANT BackoffWithinLimits
