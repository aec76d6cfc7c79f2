SPECIFICATION PythonSpec
CONSTANTS
    Steps = 2
    MaxSendAttempts = 1
    Leads = {l1, l2}
    ReplyIntents = {"positive", "unsubscribe"}
    Workers = {w1, w2}
    LockingWorkers = {}
    Consumers = {r1}
    ReplyBatchSize = 2
    Clients = {c1}
    SlowSends = FALSE
    DailySendCap = 2
    MaxMail = 3
    MaxFaults = 1
INVARIANTS
    PythonTypeOK
    PendingOnlyInDraft
    StoppedShowsNoSend
    RepliesTakeEffect
PROPERTIES
    WorkerKeepsStopped
    NoMailAfterReply
    NoMailToSuppressed
    CountsNeverDrop
