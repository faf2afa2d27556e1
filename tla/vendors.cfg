CONSTANTS
    a1 = a1
    a2 = a2
    a3 = a3
    Accounts = {a1, a2, a3}
    NoVendor = NoVendor
    Markups = {1, 2}
    Amounts = {1, 2}
    Stakes = {1}
    Allowances = {0, 1, 4}
    MocRate = 1
    ReserveRate = 1
    Price = 1
    MocPrecision = 2
    VENDOR_MAX_MARKUP = 1
    VENDORS_LIST_ARRAY_MAX_LENGTH = 2
    UserSupply = 4
    VendorSupply = 1
    MaxPaid = 2
SPECIFICATION Spec
SYMMETRY MCSymmetry
INVARIANTS
    TypeOK
    ListIsActive
    MoCAccounted
    MarkupWithinStake
