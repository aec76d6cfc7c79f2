SPECIFICATION Spec
CONSTANTS
    Steps = 2
    MaxSendAttempts = 2
    Leads = {l1}
    ReplyIntents = {"unsubscribe"}
    Workers = {w1, w2}
    LockingWorkers = {}
    Consumers = {r1}
    ReplyBatchSize = 2
    Clients = {c1}
    SlowSends = TRUE
    DailySendCap = 2
    MaxMail = 3
    MaxFaults = 1
SYMMETRY SlotSymmetry
INVARIANTS
    NoPhantomProgress
    LinksAreFaithful
    StepsInOrder
    AttemptsCoverSlots
    DuplicatesNeedFaults
CHECK_DEADLOCK FALSE
