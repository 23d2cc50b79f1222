SPECIFICATION MCSpec
CONSTANTS
    a = a
    b = b
    o1 = o1
    reward = reward
    referral = referral
    deposit1 = deposit1
    deposit2 = deposit2
    NoMsg = NoMsg
    Account = {a, b}
    Order = {o1}
    Msg = {reward, referral, deposit1, deposit2}
    Leg <- MCLeg
    Pattern <- MCPattern
    MsgOf <- MCMsgOf
    Receiver <- MCReceiver
    Amount <- MCAmount
    Version <- MCVersion
    OrderOf <- MCOrderOf
    ReferralFrom <- MCReferralFrom
    claim = claim
    buy = buy
    sell = sell
    withdraw = withdraw
    NoCall = NoCall
    NoRow = NoRow
    Call = {claim, buy, sell, withdraw}
    Method <- MCMethod
    Egg <- MCEgg
    Bbc <- MCBbc
    IsBbc <- MCIsBbc
    OpeningEgg = 1
    OpeningBbc = 4
INVARIANTS
    AuditTrail
    ReferralPaid
    DepositPaid
    Audited
    RowsExact
PROPERTIES
    EveryMessageSettles
    LedgerSpec
CHECK_DEADLOCK FALSE
