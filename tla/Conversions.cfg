SPECIFICATION ConversionsSpec
CONSTANTS
    Earlier = Earlier
    HoldRun = {h1, h2}
    CheckRun = {k1, k2}
    MaxItems = 3
    Conv <- MCConv
    TxOf <- MCTxOf
    Insertable <- MCConv
    Start <- MCStart
INVARIANTS
    InsertedOnce
    PaidOnceConfirmed
    
CONSTRAINT MCRuns
SYMMETRY MCSymmetry
CHECK_DEADLOCK FALSE
