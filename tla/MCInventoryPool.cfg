\* Two requests, all operations, on two positions of a pooled product.
CONSTANTS
    r1 = r1  r2 = r2  r3 = r3
    k1 = k1  k2 = k2  s1 = s1  s2 = s2
    MaxInt <- MCMaxInt
    Keys <- PoolKeys
    Serial = {}
    IndexEntry <- Distinct
    HoldOnReceipt = {}
    Requests = {r1, r2}
    Openings <- PoolOpenings
    Operations <- PoolOperations
SPECIFICATION Spec
INVARIANTS TypeOK StockWithinLimits LedgerExplainsRow OneEntryPerMovement TransferConserves
PROPERTIES EncumberedStockStays ConflictHasWinner ImplementsBook
CHECK_DEADLOCK FALSE
