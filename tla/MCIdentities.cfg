CONSTANTS
    k1 = k1
    k2 = k2
    None = None
    Absent = Absent
    Unusable = Unusable
    Items <- TwoItems
    Keys <- TwoKeys
    Pins <- DiscoverOrPin
    MaxEdits = 1
    MaxRuns = 2
SPECIFICATION FairSpec
INVARIANTS TypeOK Unambiguous
PROPERTIES NothingLost RosterSpec Refreshed
