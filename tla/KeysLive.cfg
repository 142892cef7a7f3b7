SPECIFICATION FairSpec
CONSTANTS
    b1 = b1  h1 = h1  c1 = c1  c2 = c2  p1 = p1  p2 = p2
    Keys <- MCKeys
    Byok <- MCByok
    Configs <- MCConfigs
    Procs <- MCOneProc
    None = None
    Labelled = {h1}
    MaxKeys = 1
    MaxVersion = 2
    MaxCustomer = 1
    MaxOverlaps = 0
    MaxJobs = 1
    MaxFaults = 1
    Timed = TRUE
    Offboarding = FALSE
    OwnPrimary = TRUE
PROPERTIES PendingEnds 
CHECK_DEADLOCK FALSE
