CONSTANTS
    p1 = p1
    p2 = p2
    p3 = p3
    Nothing = Nothing
    Stale = Stale
    Processes <- ThreeProcesses
    OneAtATime = TRUE
    MaxEnrolled = 2
SPECIFICATION EnclaveSpec
SYMMETRY ProcessSymmetry
INVARIANTS
    EnclaveTypeOK
    Reachable
    StoredOpens
    KeptIsWhole
    EmptyIsPastSaving
    SuppliesWhatWasSealed
PROPERTY KeptInOneStep
