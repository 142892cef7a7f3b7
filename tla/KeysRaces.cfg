SPECIFICATION Spec
CONSTANTS
    b1 = b1  h1 = h1  c1 = c1  c2 = c2  p1 = p1  p2 = p2
    Keys <- MCKeys
    Byok <- MCByok
    Configs <- MCConfigs
    Procs <- MCProcs
    None = None
    Labelled = {}
    MaxKeys = 1
    MaxVersion = 1
    MaxCustomer = 0
    MaxOverlaps = 1
    MaxJobs = 1
    MaxFaults = 1
    Timed = TRUE
    Offboarding = TRUE
    OwnPrimary = TRUE
SYMMETRY Sym
INVARIANTS KeystoreAgrees NothingDangles OperatorsFollow
CHECK_DEADLOCK FALSE
