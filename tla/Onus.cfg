SPECIFICATION Spec
CONSTANTS
    first = first
    again = again
    other = other
    n1 = n1
    n2 = n2
    a1 = a1
    Free = Free
    Callback = {first, again, other}
    Number = {n1, n2}
    Account = {a1}
    NumberOf <- MCNumberOf
    AccountOf <- MCAccountOf
    Amount <- MCAmount
    Opening = 3
    MaxRetry = 2
INVARIANTS
    PaidAgainOnlyUnrecorded
    RecordedIsPaid
    OverdrawnOnlyByRace
PROPERTIES
    EveryCallbackEnds
CHECK_DEADLOCK FALSE
