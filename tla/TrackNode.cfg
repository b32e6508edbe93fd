SPECIFICATION FairSpec
CONSTANTS
    a1 = a1
    i1 = i1
    t1 = t1
    t2 = t2
    t3 = t3
    None = None
    Devices = {a1, i1}
    Ios = {i1}
    Hosted = {a1, i1}
    Tasks = {t1, t2}
    MaxListeners = 2
    HasHub = TRUE
    Environment = {"tracker"}
INVARIANT TypeOK
INVARIANT NodeForgets
INVARIANT HubForgets
PROPERTY AttachedIsListed
