SPECIFICATION Spec
SYMMETRY Symmetric
INVARIANTS IndInv DualControl
PROPERTY KeepsPromise
CONSTANTS
    None = None
    Artifacts = {a1}
    Configs <- EnabledTwoOrThree
    Users = {u1, u2, u3}
    Workflows = {w1}
    Clients = {c1, c2}
    Workers = {k1}
    MaxExecutions = 1
    MaxAborts = 0
