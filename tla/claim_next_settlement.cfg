CONSTANTS
    u1 = u1
    u2 = u2
    Users = {u1, u2}
    MaxBalance = 1
    MaxRequest = 1
    MaxQueue = 2
    MaxPositions = 0
    MaxLag = 1
    BlockSpans = {1}
    Steps <- MCSteps
    ReserveRate = 1
    CommissionRate = 1
    Precision = 1
    FluxLimits = {1}
    MaxOperationalDifference = 1
    DecayBlockSpan = 1
    Disturbances = {"flip"}
SPECIFICATION Spec
INVARIANTS
    ActiveRequestIsQueued
