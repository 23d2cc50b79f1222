SPECIFICATION MCSpec
CONSTANTS
    a = a
    b = b
    both1 = both1
    both2 = both2
    stray = stray
    one = one
    c1 = c1
    c2 = c2
    ka = ka
    kb = kb
    Free = Free
    Request = {both1, both2, one, stray}
    Locked = {both1, both2, one, stray}
    Key = {ka, kb}
    Account = {a, b}
    Id = {c1, c2}
    AccountOf <- MCAccountOf
    OwnerOf <- MCOwnerOf
    IdsOf <- MCIdsOf
    KeyOf <- MCKeyOf
    i1 = i1
    i2 = i2
    v1 = v1
    v2 = v2
    s1 = s1
    s2 = s2
    s3 = s3
    Inquiry = {i1, i2}
    Verify = {v1, v2}
    Submit = {s1, s2, s3}
    InquiryOf <- MCInquiryOf
    VerifyOf <- MCVerifyOf
    Amount <- MCAmount
    Initial = 10
    MinHold = 1
INVARIANTS
    PaidAgainOnlyUnmarked
    MarkedIsPaid
    PaidIsEarned
    Covered
    StatusTells
    OverdrawnOnlyByRace
CHECK_DEADLOCK FALSE
