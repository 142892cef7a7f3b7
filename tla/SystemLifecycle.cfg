SPECIFICATION FairSpec
INVARIANTS SettledAgrees 
 
CONSTANTS
    None = None
    k1 = k1
    k2 = k2
    k3 = k3
    c1 = c1
    c2 = c2
    Systems = {s1}
    Keys = {k1, k2, k3}
    KeyConfigs = {c1, c2}
    KeyConfigOf <- TwoConfigs
    Slots = {j1, j2}
    AskFirst = TRUE
    Decommission = TRUE
    MaxOverlaps = 0
    MaxRotations = 0
    MaxRollbacks = 0
    MaxRedeliveries = 0
