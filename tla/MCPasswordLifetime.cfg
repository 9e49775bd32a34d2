CONSTANTS
    Enabled = TRUE
    IdleTime = 3
    Poll = 2
    PromptTime = 1
SPECIFICATION Spec
INVARIANTS IdleBound LockBound
