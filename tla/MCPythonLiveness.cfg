SPECIFICATION FairPythonSpec
CONSTANTS
    Steps = 2
    MaxSendAttempts = 2
    Leads = {l1}
    ReplyIntents = {"positive"}
    Workers = {w1, w2}
    LockingWorkers = {}
    Consumers = {r1}
    ReplyBatchSize = 2
    Clients = {c1}
    SlowSends = FALSE
    DailySendCap = 1
    MaxMail = 4
    MaxFaults = 2
PROPERTIES
    LeadsSettle
    RepliesConsumed
