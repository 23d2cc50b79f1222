SPECIFICATION MCSpec
CONSTANTS
    friend = friend
    referrer = referrer
    f1 = f1
    f2 = f2
    r1 = r1
    r2 = r2
    c1 = c1
    c2 = c2
    c3 = c3
    c4 = c4
    u1 = u1
    u2 = u2
    u3 = u3
    NoAccount = NoAccount
    NoUser = NoUser
    NoToken = NoToken
    CmsUser = {u1, u2, u3}
    CmsCall = {c1, c2, c3, c4}
    Callings <- MCCallings
    FirstRole <- MCFirstRole
    Account = {friend, referrer}
    Approval = {f1, f2, r1, r2}
    Row <- MCRow
    AccountOf <- MCAccountOf
    Sender <- MCSender
    Receiver <- MCReceiver
    Alone <- MCAlone
    Referrer <- MCReferrer
INVARIANTS
    RewardSettled
    CreditedAgainOnlyByOverlap
    CreditedForApproved
    KycCounted
    NoRoleGained
    UncoveredOnlyByOverlap
CHECK_DEADLOCK FALSE
