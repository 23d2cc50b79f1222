SPECIFICATION Spec
CONSTANTS
    first = first
    again = again
    friend1 = friend1
    friend2 = friend2
    old = old
    t1 = t1
    t2 = t2
    t3 = t3
    i1 = i1
    i2 = i2
    i3 = i3
    Nobody = Nobody
    Signup = {first}
    Old = {old}
    Token = {t1}
    Ident = {i1, i2, i3}
    TokenOf <- MCTokenOf
    IdentOf <- MCIdentOf
    Referrer <- MCReferrer
INVARIANT RewardAfterKyc
CHECK_DEADLOCK FALSE
