SPECIFICATION FairSpec
CONSTANTS
    Unset = Unset
    Refused = Refused
    Missing = Missing
    Unreadable = Unreadable
    MaxTyped = 2
    Entered = {"yes", "first", "long"}
    PipeSize = 1
    MaxOut = 2
    MaxErr = 1
    Files <- MCFiles
    Homes <- MCHomes
INVARIANTS
    PassphrasesTypeOK
    AnswersAreFresh
    TerminalIsGivenBack
    NothingLeftUp
    FullPipesAreRead
    VaultDecides
    ConfigServes
PROPERTIES
    NoTypoIsSaved
    StaleIsAskedAgain
    EndsOrWaitsForTheStore
CHECK_DEADLOCK FALSE
