CONSTANTS
    r1 = r1
    r2 = r2
    q1 = q1
    NoRequest = NoRequest
    NoQuestion = NoQuestion
    Requests = {r1, r2}
    Questions = {q1}
    RememberApprovals = TRUE
    KeyKinds <- OnlyEncrypted
    PassphraseFallback = "ask"
    TouchId = FALSE
    IdleExpires = FALSE
    MaxScreenLocks = 1
SPECIFICATION FairSpec
PROPERTIES EveryRequestEnds LockedScreenDrops
