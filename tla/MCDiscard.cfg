CONSTANTS
    k1 = k1
    k2 = k2
    None = None
    Absent = Absent
    Unusable = Unusable
    Items <- TwoItems
    Keys <- TwoKeys
    Pins <- Discover
    MaxEdits = 1
    MaxRuns = 3
SPECIFICATION Spec
SYMMETRY KeySymmetry
PROPERTY DiscardHolds
