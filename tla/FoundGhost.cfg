SPECIFICATION Spec
CONSTANTS
    a1 = a1
    i1 = i1
    t1 = t1
    t2 = t2
    t3 = t3
    None = None
    Devices = {a1}
    Ios = {}
    Hosted = {a1}
    Tasks = {t1, t2}
    MaxListeners = 2
    HasHub = TRUE
    Environment = {"race"}
INVARIANT NodeForgets
