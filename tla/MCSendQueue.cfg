SPECIFICATION FairSpec
CONSTANTS
    w1 = w1
    w2 = w2
    j1 = j1
    jx = jx
    k1 = k1
    s1 = s1
    s2 = s2
    t1 = t1
    Workspaces = {w1, w2}
    None = None
    Malformed = Malformed
    Production = FALSE
    InternalToken = token
    Jobs = {j1, jx, k1}
    Senders = {s1, s2, t1}
    Slots = {1, 2}
    JobWorkspace <- MCJobWorkspace
    SenderWorkspace <- MCSenderWorkspace
    SenderToken <- MCSenderToken
    Unreadable = {jx}
    Users <- MCUsers
    Keys <- MCKeys
    Lease = 1
    HttpTimeout = 1
    BatchSize = 2
    MaxSendAttempts = 2
    MaxLate = 0
    MaxDeferrals = 1
    MaxFaults = 1
    MaxReads = 1
INVARIANTS
    TypeOK
    SentOnce
    GivesUpInTime
    ScopeIsOwn
PROPERTIES
    BackoffHolds
    JobsSettle
