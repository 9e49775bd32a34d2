CONSTANTS
    Enabled = FALSE
    IdleTime = 3
    Poll = 2
    PromptTime = 1
SPECIFICATION Spec
PROPERTY BusyHourNeverAsks
