CONSTANTS
    r1 = r1
    r2 = r2
    q1 = q1
    NoRequest = NoRequest
    NoQuestion = NoQuestion
    Requests = {r1, r2}
    Questions = {q1}
    RememberApprovals = TRUE
    KeyKinds <- ConfirmedOrNot
    PassphraseFallback = "ask"
    TouchId = TRUE
    IdleExpires = TRUE
    MaxScreenLocks = 1
SPECIFICATION Spec
SYMMETRY RequestSymmetry
INVARIANTS IInv OneConversation AskIsOwn RejectedStoreIsNotHeld
PROPERTY PolicySpec
