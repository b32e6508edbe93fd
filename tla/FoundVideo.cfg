SPECIFICATION Spec
CONSTANTS
    s1 = s1
    s2 = s2
    s3 = s3
    i1 = i1
    i2 = i2
    p1 = p1
    p2 = p2
    p3 = p3
    None = None
    Other = Other
    Sessions = {s1, s2}
    Devices = {i1}
    Ports = {p1, p2}
    LiveVideo = {s1, s2}
    Environment = {"overlap"}
PROPERTY ListenerIsKept
\* Once every session is over nothing is left to do.
CHECK_DEADLOCK FALSE
