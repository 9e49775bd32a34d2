CONSTANTS
    plain = plain
    cert1 = cert1
    cert2 = cert2
    key1 = key1
    key2 = key2
    s1 = s1
    s2 = s2
    s3 = s3
    NoHost = NoHost
    Other = Other
    Unsigned = Unsigned
    NoPid = NoPid
    NoPeer = NoPeer
    NoFile = NoFile
    Hashed = Hashed
    Nobody = Nobody
    NoQuestion = NoQuestion
    Connections = {"c1"}
    Locals = {"local"}
    HostKeys <- ThreeHostKeys
    PlainKeys <- TwoPlainKeys
    KeyOf <- PlainAndCertificates
    Sessions <- ThreeSessions
    Keys <- MCKeys
    Peers <- MCPeers
    Trees <- MCTrees
    Lines <- MCLines
    Contents <- MCContents
    Glyphs <- MCGlyphs
    NumFiles = 2
    MaxBindings = 2
    MaxOriginDepth = 3
    MaxShown = 2
    MaxChanges = 2
    MaxYes = 1
SPECIFICATION MCSpec
SYMMETRY SessionSymmetry
INVARIANTS
    ChainSound
    AcceptedIsBound
    SignedWhereBound
    QuestionsTypeOK
    RememberedAsShown
    HostsAreBound
PROPERTIES
    NamesAsRecorded
    NotAskedTwice
    BindsAsSpecified
CHECK_DEADLOCK FALSE
