CONSTANTS
    Amounts = {1, 2}
    StableAmounts <- MCStableAmounts
    Prices = {2, 3, 4}
    MocPrecision = 4
    Liq = 5
    Protected = 6
    Utpdu = 8
    Cobj = 10
    Discounts = {2}
    InterestRates = {0, 2}
    CommissionRate = 2
    RiskProRate = 1
    DaysToSettlement = {0, 1}
    MaxReserve = 6
    MaxRiskPro = 3
SPECIFICATION Spec
INVARIANTS
    TypeOK
    BooksAgree
    LiquidationPaysHolders
PROPERTIES
    OnlyAboveTarget
    MintKeepsTarget
    LiquidationIsFinal
