SPECIFICATION Spec
SYMMETRY Symmetric
CONSTRAINT OneFault
INVARIANTS ProcessingInv 
CONSTANTS
    None = None
    k1 = k1
    k2 = k2
    k3 = k3
    c1 = c1
    c2 = c2
    Systems = {s1}
    Keys = {k1, k2}
    KeyConfigs = {c1}
    KeyConfigOf <- OneConfig
    Slots = {j1, j2}
    AskFirst = TRUE
    Decommission = FALSE
    MaxOverlaps = 1
    MaxRotations = 1
    MaxRollbacks = 1
    MaxRedeliveries = 1
