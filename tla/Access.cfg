SPECIFICATION Spec
CONSTANTS
    Tenants = {t1, t2}
    Iams = {"adm", "aud", "g1", "g2"}
    Requests = {"r1"}
    Tokens <- OneGroupOrTwo
    Handlers <- AllHandlers
    Sampled <- SampleHandlers
    Tasks <- GrantedTasks
    FanOut = FALSE
    DefaultGroups <- Provisioned
    DefaultLimit = 3
    MaxChanges = 2
SYMMETRY Permuted
INVARIANTS CachedExisted OneRole NotTurnedAway 
