CONSTANTS
    ShutdownTimeout = 2
    SQSShutdown = 3
    SQSProcessing = 3
    SQSPing = 1
    ReferenceProcess = 2
    OutboxProcess = 2
    RollbackTimeout = 1
    RetryTimeout = 2
    Slack = 3
    StartTimeout = 3
SPECIFICATION Spec
INVARIANTS PoolOutlivesWorkers WorkersEndWithinBudget EveryStartIsUndone
