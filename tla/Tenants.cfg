SPECIFICATION FairSpec
CONSTANTS
    Workers = {w1, w2}
    Systems = {s1, s2}
    Keys = {k1}
    Primary = {k1}
    Issuers = {i1}
    None = None
    CommandLine = TRUE
    MaxTasks = 3
    MaxFaults = 1
    MaxUses = 2
 
PROPERTIES  TerminationEnds ProvisioningEnds
CHECK_DEADLOCK FALSE
