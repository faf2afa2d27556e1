CONSTANTS
    Amounts <- MCAmounts
    Limits = {0, 4, 7}
    Spans = {0, 2, 3}
    MaxElapsed = 3
    Precision = 10
SPECIFICATION MCSpec
INVARIANTS
    TypeOK
    DifferentialWithinAbsolute
    PublishedLimitsAreExact
    WindowVolumeBounded
PROPERTIES
    BlockWithinLimits
