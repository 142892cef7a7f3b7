SPECIFICATION Spec
CONSTRAINT OneDisturbance
CONSTANTS
    i = i
    a = a
    b = b
    g1 = g1
    g2 = g2
    Users = {i, a, b}
    Groups = {g1, g2}
    Initiator = i
    Joined <- TwoGroups
    MinimumApprovals = 2
    PageSize = 2
    Plugins <- BothPlugins
    MaxChanges = 1
    MaxFaults = 1
    UnknownUserName = UNKNOWN
    None = None
  
PROPERTIES  RejectedIsHopeless
CHECK_DEADLOCK FALSE
