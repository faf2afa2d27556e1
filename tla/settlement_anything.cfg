CONSTANTS
    u1 = u1
    u2 = u2
    Users = {u1, u2}
    MaxBalance = 1
    MaxRequest = 1
    MaxQueue = 3
    MaxPositions = 1
    MaxLag = 2
    BlockSpans = {1, 2}
    Steps <- MCSteps
    ReserveRate = 1
    CommissionRate = 1
    Precision = 1
    FluxLimits = {1}
    MaxOperationalDifference = 1
    DecayBlockSpan = 1
    Disturbances <- AnyDisturbance
SPECIFICATION Spec
VIEW WithoutCommissions
SYMMETRY MCSymmetry
INVARIANTS
    TasksInOrder
    StepsStayWithinBounds
    ProcessedStayClosed
PROPERTIES
    QueueFrozenWhileRunning
