CONSTANTS
    u1 = u1
    u2 = u2
    Users = {u1, u2}
    MaxBalance = 1
    MaxRequest = 1
    MaxQueue = 2
    MaxPositions = 1
    MaxLag = 1
    BlockSpans = {1}
    Steps = {1}
    ReserveRate = 2
    CommissionRate = 0
    Precision = 2
    FluxLimits = {1, 2}
    MaxOperationalDifference = 1
    DecayBlockSpan = 2
    Disturbances <- WithoutStall
SPECIFICATION FairSpec
PROPERTIES
    SettlementEnds
    RequestsServed
