SPECIFICATION ConversionsSpec
CONSTANTS
    Earlier = Earlier
    HoldRun = {h1}
    CheckRun = {k1}
    MaxItems = 3
    Conv <- MCConv
    TxOf <- MCTxOf
    Insertable <- MCConv
    Start <- MCOne
INVARIANTS
    AsksForAll
CHECK_DEADLOCK FALSE
