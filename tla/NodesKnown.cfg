SPECIFICATION Spec
CONSTANTS
    n1 = n1
    n2 = n2
    d1 = d1
    d2 = d2
    q1 = q1
    q2 = q2
    None = None
    Nodes = {n1, n2}
    Devices = {d1, d2}
    HostOf <- MCHostOf
    Named <- MCNamed
    Requests = {q1, q2}
    Environment = {"fail", "outage", "giveup"}
INVARIANT HubKnowsSession
