CONSTANTS
    u1 = u1
    u2 = u2
    u3 = u3
    Users = {u1, u2, u3}
    RiskProxAmounts <- MCAmounts
    Costs = {0, 3}
    LockedReserves = {0, 1, 4}
    MocPrecision = 2
    MaxRiskPro = 4
    MaxReserve = 6
SPECIFICATION Spec
SYMMETRY MCSymmetry
INVARIANTS
    TypeOK
    TrackerConsistent
    DeleveragingNeverReverts
PROPERTIES
    DeleveragingClosesOne
    ImplementsLedger
