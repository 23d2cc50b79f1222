SPECIFICATION Spec
CONSTANTS
    a = a
    b = b
    k = k
    sat1 = sat1
    sat2 = sat2
    vndc = vndc
    out = out
    cancel = cancel
    confirm1 = confirm1
    confirm2 = confirm2
    stranger = stranger
    Free = Free
    Request = {sat1, sat2, out, cancel, confirm1, confirm2}
    Key = {k}
    Account = {a, b}
    AccountOf <- MCAccountOf
    Kind <- MCKind
    Target <- MCTarget
    Amount <- MCAmount
    Locked <- MCLocked
    KeyOf <- MCKeyOf
INVARIANTS
    SatoshiSinglePending
    SettledOnce
    SuccessIsPaid
PROPERTY LedgerSpec
SYMMETRY MCSymmetry
CHECK_DEADLOCK FALSE
