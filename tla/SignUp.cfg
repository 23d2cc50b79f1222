SPECIFICATION Spec
CONSTANTS
    first = first
    again = again
    friend1 = friend1
    friend2 = friend2
    old = old
    t1 = t1
    t2 = t2
    t3 = t3
    i1 = i1
    i2 = i2
    i3 = i3
    Nobody = Nobody
    Signup = {first, again, friend1, friend2}
    Old = {old}
    Token = {t1, t2, t3}
    Ident = {i1, i2, i3}
    TokenOf <- MCTokenOf
    IdentOf <- MCIdentOf
    Referrer <- MCReferrer
INVARIANTS
    RewardOnce
    WalletFindsRows
    StatsMatchLinks
CHECK_DEADLOCK FALSE
