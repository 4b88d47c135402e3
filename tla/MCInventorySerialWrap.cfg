\* Whether the aggregate alone keeps a serialised position to one unit.
CONSTANTS
    r1 = r1  r2 = r2  r3 = r3
    k1 = k1  k2 = k2  s1 = s1  s2 = s2
    MaxInt <- MCMaxInt
    Keys <- SerialKeys
    Serial = {s1, s2}
    IndexEntry <- OneSerial
    HoldOnReceipt = {}
    Requests = {r1}
    Openings <- SerialOpenings
    Operations <- SerialOperations
SPECIFICATION Spec
INVARIANTS AggregateKeepsSerialRule
CHECK_DEADLOCK FALSE
