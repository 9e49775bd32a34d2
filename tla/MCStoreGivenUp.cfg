CONSTANTS
    r1 = r1
    r2 = r2
    q1 = q1
    NoRequest = NoRequest
    NoQuestion = NoQuestion
    Requests = {r1, r2}
    Questions = {q1}
    RememberApprovals = TRUE
    KeyKinds <- OnlyUnconfirmed
    PassphraseFallback = "ask"
    TouchId = TRUE
    IdleExpires = FALSE
    MaxScreenLocks = 0
SPECIFICATION Spec
INVARIANT OnlyABadStoreIsGivenUp
