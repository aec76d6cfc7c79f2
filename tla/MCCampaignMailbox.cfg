SPECIFICATION Spec
CONSTANTS
    Steps = 1
    MaxSendAttempts = 2
    Leads = {l1, l2}
    ReplyIntents = {"bounce"}
    Workers = {w1, w2}
    LockingWorkers = {w1, w2}
    Consumers = {r1}
    ReplyBatchSize = 2
    Clients = {c1}
    SlowSends = FALSE
    DailySendCap = 1
    MaxMail = 3
    MaxFaults = 1
    NoDraft = NoDraft
INVARIANTS
    CampaignRespectsCap
    CapPlusFaults
PROPERTIES
    MailboxPromise
CHECK_DEADLOCK FALSE
