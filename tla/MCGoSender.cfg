SPECIFICATION Spec
CONSTANTS
    Steps = 3
    MaxSendAttempts = 2
    Leads = {l1}
    ReplyIntents = {"bounce"}
    Workers = {w1, w2}
    LockingWorkers = {w1, w2}
    Consumers = {r1}
    ReplyBatchSize = 2
    Clients = {c1}
    SlowSends = TRUE
    DailySendCap = 3
    MaxMail = 4
    MaxFaults = 1
SYMMETRY SlotSymmetry
INVARIANTS
    TypeOK
    NoStrandedLead
    RatesAreShares
CHECK_DEADLOCK FALSE
