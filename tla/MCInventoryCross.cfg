\* Three requests whose transfers cross: waiting, deadlock and termination.
CONSTANTS
    r1 = r1  r2 = r2  r3 = r3
    k1 = k1  k2 = k2  s1 = s1  s2 = s2
    MaxInt <- MCMaxInt
    Keys <- PoolKeys
    Serial = {}
    IndexEntry <- Distinct
    HoldOnReceipt = {}
    Requests = {r1, r2, r3}
    Openings <- CrossOpenings
    Operations <- CrossOperations
SPECIFICATION FairSpec
PROPERTIES AllEnd
CHECK_DEADLOCK FALSE
