SPECIFICATION Spec
CONSTANTS
    Steps = 1
    MaxSendAttempts = 1
    Leads = {l1, l2}
    ReplyIntents = {"positive"}
    Workers = {w1}
    LockingWorkers = {w1}
    Consumers = {r1}
    ReplyBatchSize = 2
    Clients = {c1, c2}
    SlowSends = FALSE
    DailySendCap = 4
    MaxMail = 4
    MaxFaults = 0
INVARIANTS
    NoStrandedLead
CHECK_DEADLOCK FALSE
