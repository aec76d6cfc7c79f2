SPECIFICATION Spec
CONSTANTS
    Senders = {s1, s2, s3}
    Addresses = {a1, a2}
    Bodies = {b1}
    DailySendCap = 2
    MaxMail = 4
    NoDraft = NoDraft
SYMMETRY SenderSymmetry
INVARIANTS
    TypeOK
    HolderIsSafe
    CapRespected
PROPERTIES
    OrphansStayUnrecorded
