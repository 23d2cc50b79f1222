SPECIFICATION Spec
CONSTANTS
    r1 = r1
    r2 = r2
    r3 = r3
    r4 = r4
    e1 = e1
    e2 = e2
    p1 = p1
    p2 = p2
    first = first
    None = None
    Request = {r1, r2, r3, r4}
    Email = {e1, e2}
    Phone = {p1, p2}
    Key = {e1, e2, p1, p2}
    Status = {"ACTIVE", "INACTIVE"}
    Kindings <- MCKindings
    FirstEmail = e1
    FirstPhone = p1
    FirstPasscode = first
CONSTRAINT MCBounds
INVARIANTS
    HistoryKept
    VerifiedWasConfirmed
    ProofUsedOnce
    LockedSessionOnlyByOverlap
    ReservedOnce
CHECK_DEADLOCK FALSE
