SPECIFICATION Spec
CONSTANTS
    Steps = 1
    MaxSendAttempts = 1
    Leads = {l1}
    ReplyIntents = {"positive"}
    Workers = {w1}
    LockingWorkers = {w1}
    Consumers = {r1}
    ReplyBatchSize = 2
    Clients = {c1, c2}
    SlowSends = FALSE
    DailySendCap = 3
    MaxMail = 3
    MaxFaults = 0
INVARIANTS
    StartIsIdempotent
CHECK_DEADLOCK FALSE
