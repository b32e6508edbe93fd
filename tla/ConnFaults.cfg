SPECIFICATION FairSpec
CONSTANTS
    s1 = s1
    s2 = s2
    s3 = s3
    i1 = i1
    i2 = i2
    p1 = p1
    p2 = p2
    p3 = p3
    None = None
    Other = Other
    Sessions = {s1, s2, s3}
    Devices = {i1, i2}
    Ports = {p1, p2, p3}
    LiveVideo = {s1, s2}
    Environment = {"reuse", "program", "fail", "idle"}
INVARIANT TypeOK
INVARIANT CacheMatchesListeners
INVARIANT DeletedLeavesNoListener
PROPERTY ListenerIsKept
PROPERTY SessionSettles
