CONSTANTS
    p1 = p1
    p2 = p2
    p3 = p3
    Nothing = Nothing
    Stale = Stale
    Processes <- ThreeProcesses
    OneAtATime = FALSE
    MaxEnrolled = 1
SPECIFICATION EnclaveSpec
INVARIANT StoredOpens
