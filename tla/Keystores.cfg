SPECIFICATION FairSpec
CONSTANTS
    Tenants = {t1, t2}
    Procs = {p1, p2}
    Workers = {p2}
    Byok = {p1}
    Hyok = {}
    Crypto = {c1}
    PoolSize = 1
    Prepared = FALSE
    IssuesEmpty = FALSE
    MaxKeystores = 2
    MaxAgeing = 1
    MaxFaults = 1
    None = None
INVARIANTS  AccessIsGranted
PROPERTIES Renewed 
CHECK_DEADLOCK FALSE
