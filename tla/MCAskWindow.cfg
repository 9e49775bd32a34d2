CONSTANTS
    r1 = r1
    r2 = r2
    r3 = r3
    q1 = q1
    NoRequest = NoRequest
    NoQuestion = NoQuestion
    Requests = {r1, r2, r3}
    Questions = {q1}
    RememberApprovals = TRUE
    KeyKinds <- OnlyConfirmed
    PassphraseFallback = "ask"
    TouchId = FALSE
    IdleExpires = FALSE
    MaxScreenLocks = 0
SPECIFICATION Spec
SYMMETRY RequestSymmetry
PROPERTY ApprovalsEndAtTheAsk
