SPECIFICATION FairSpec
CONSTANTS
    n1 = n1
    n2 = n2
    d1 = d1
    d2 = d2
    q1 = q1
    q2 = q2
    None = None
    Nodes = {n1}
    Devices = {d1, d2}
    HostOf <- MCHostOf
    Named <- MCNamed
    Requests = {q1, q2}
    Environment = {"crash", "restart", "slow", "giveup", "fail"}
INVARIANT TypeOK
INVARIANT OneUser
PROPERTY ImplementsNodeLease
PROPERTY DeadNodeLeaves
PROPERTY LiveNodeReturns
