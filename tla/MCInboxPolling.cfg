SPECIFICATION Spec
CONSTANTS
    Pollers = {p1, p2}
    Addresses = {a, b}
    Subjects = {"hello"}
    Answers <- MCAnswers
    LlmAnswers = {"bounce"}
    CandidateLimit = 2
    PageSize = 2
    Owner = owner
    Daemon = daemon
    NoCursor = NoCursor
    MaxSends = 3
    MaxReplies = 2
    MaxMail = 4
    MaxPolls = 2
    MaxIncidents = 1
SYMMETRY PollerSymmetry
INVARIANTS
    TypeOK
    NothingMissed
    OneRowPerMessage
    RightRecipient
    FirstReplyIsMatched
    SecondAnswerNeedsOverlap
    SuppressionsAreJustified
    MatchIsBestEvidence
CHECK_DEADLOCK FALSE
