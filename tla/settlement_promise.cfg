CONSTANTS
    u1 = u1
    u2 = u2
    Users = {u1, u2}
    MaxBalance = 1
    MaxRequest = 2
    MaxQueue = 3
    MaxPositions = 1
    MaxLag = 2
    BlockSpans = {1, 2}
    Steps <- MCSteps
    ReserveRate = 2
    CommissionRate = 1
    Precision = 2
    FluxLimits = {2}
    MaxOperationalDifference = 1
    DecayBlockSpan = 1
    Disturbances <- BetweenSettlements
SPECIFICATION Spec
INVARIANTS
    TypeOK
    RequestsMatchQueue
    CommissionsSettled
PROPERTIES
    ImplementsRedeemRequests
