\* Two requests on one serialised unit that two locations may hold.
CONSTANTS
    r1 = r1  r2 = r2  r3 = r3
    k1 = k1  k2 = k2  s1 = s1  s2 = s2
    MaxInt <- MCMaxInt
    Keys <- SerialKeys
    Serial = {s1, s2}
    IndexEntry <- OneSerial
    HoldOnReceipt = {s2}
    Requests = {r1, r2}
    Openings <- SerialOpenings
    Operations <- SerialOperations
SPECIFICATION Spec
INVARIANTS StockWithinLimits IInv
CHECK_DEADLOCK FALSE
