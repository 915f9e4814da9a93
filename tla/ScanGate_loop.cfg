SPECIFICATION FairSpec
CONSTANTS
    t1 = t1
    t2 = t2
    t3 = t3
    t4 = t4
    s1 = s1
    s2 = s2
    NoScan = NoScan
    Beat = Beat
    Api = Api
    Operator = Operator
    Scan = {t1, t2, t3}
    Slot = {s1}
    MaxRetries = 1
    MaxUpsets = 2
PROPERTIES
    LoopKeepsScanning
    DeadLeaseEnds
CHECK_DEADLOCK FALSE
