SPECIFICATION FairSpec
CONSTANTS
    u1 = u1
    u2 = u2
    None = None
    Udids = {u1, u2}
    Ids = {1, 2, 3}
    TwoWays = {u2}
    Pairing = {u2}
    HeaderLength = 2
    BodyLength = 2
    LengthField = 1
    Backlog = 12
    Environment = {"end", "refuse", "noise"}
INVARIANT TypeOK
INVARIANT InStep
INVARIANT GoneIsReported
INVARIANT PresentIsReported
PROPERTY ChangeIsReported
CHECK_DEADLOCK FALSE
