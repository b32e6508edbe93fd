SPECIFICATION Spec
CONSTANTS
    r1 = r1
    r2 = r2
    r3 = r3
    d1 = d1
    d2 = d2
    d3 = d3
    l1 = l1
    l2 = l2
    None = None
    Requests = {r1, r2, r3}
    Devices = {d1, d2}
    Locks = {l1, l2}
    LockOf <- MCLockOf
    Wanted <- MCWanted
    ByUdid = {}
    Remote = {d2}
    MaxSessions = 1
    Environment = {"configure", "start", "storage", "block"}
INVARIANT TypeOK
INVARIANT ExclusiveClaim
INVARIANT SessionCap
INVARIANT LocksAreServed
PROPERTY ImplementsLease
PROPERTY DeviceTakenOnlyWhenIdle
\* Once every session is over nothing is left to do.
CHECK_DEADLOCK FALSE
