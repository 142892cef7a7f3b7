SPECIFICATION FairSpec
INVARIANTS StateFollowsVotes ExecutedOnce
PROPERTIES TerminalIsFinal 
CONSTANTS
    None = None
    Artifacts = {a1}
    Configs <- EnabledTwoOrThree
    Users = {u1, u2, u3}
    Workflows = {w1}
    Clients = {c1}
    Workers = {c1}
    MaxExecutions = 2
    MaxAborts = 1
