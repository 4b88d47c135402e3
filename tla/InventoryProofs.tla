--------------------------- MODULE InventoryProofs ---------------------------
(***************************************************************************)
(* Proofs about Inventory for every set of requests, keys and operations   *)
(* and every MaxInt.                                                       *)
(***************************************************************************)
EXTENDS Inventory, FiniteSetTheorems, TLAPS

(***************************************************************************)
(* Balances.  A behaviour the aggregate accepts leaves four balances that  *)
(* are again non-negative int64s (value_objects.go Add, Sub).              *)
(***************************************************************************)
LEMMA PlusInRange ==
    ASSUME NEW x \in Int, NEW y \in Int, MinInt <= x, x <= MaxInt, MinInt <= y, y <= MaxInt + 1
    PROVE  Plus(x, y) \in Int /\ MinInt <= Plus(x, y) /\ Plus(x, y) <= MaxInt
BY MaxIntAssumption DEF Plus, MinInt

LEMMA BalanceType ==
    ASSUME NEW b \in Buckets, NEW x \in Bucket
    PROVE  b[x] \in Int /\ 0 <= b[x] /\ b[x] <= MaxInt
BY MaxIntAssumption DEF Buckets

LEMMA EncumberedInRange ==
    ASSUME NEW b \in Buckets
    PROVE  Encumbered(b) \in Int /\ MinInt <= Encumbered(b) /\ Encumbered(b) <= MaxInt
<1> DEFINE promised == Plus(b["reserved"], b["allocated"])
<1>1. ASSUME NEW x \in Bucket
      PROVE  b[x] \in Int /\ MinInt <= b[x] /\ b[x] <= MaxInt /\ b[x] <= MaxInt + 1
    BY BalanceType, MaxIntAssumption DEF MinInt
<1>2. "reserved" \in Bucket /\ "allocated" \in Bucket /\ "quarantined" \in Bucket
    BY DEF Bucket
<1>3. promised \in Int /\ MinInt <= promised /\ promised <= MaxInt
    BY <1>1, <1>2, PlusInRange, Zenon
<1>4. /\ Plus(promised, b["quarantined"]) \in Int
      /\ MinInt <= Plus(promised, b["quarantined"])
      /\ Plus(promised, b["quarantined"]) <= MaxInt
    <2> HIDE DEF promised
    <2>1. QED
        BY <1>1, <1>2, <1>3, PlusInRange, Zenon
<1>5. QED
    BY <1>4 DEF Encumbered

LEMMA CreditType ==
    ASSUME NEW b \in Buckets, NEW x \in Bucket, NEW n \in Nat, Holds(b, x, n)
    PROVE  Credit(b, x, n) \in Buckets
BY BalanceType, MaxIntAssumption DEF Credit, Holds, Buckets

LEMMA DebitType ==
    ASSUME NEW b \in Buckets, NEW x \in Bucket, NEW n \in Nat, Covers(b, x, n)
    PROVE  Debit(b, x, n) \in Buckets
BY BalanceType, MaxIntAssumption DEF Debit, Covers, Buckets

LEMMA MoveEnds ==
    ASSUME NEW kind \in Moves
    PROVE  Source[kind] \in Bucket /\ Sink[kind] \in Bucket /\ Source[kind] # Sink[kind]
BY DEF Moves, Source, Sink, Bucket

LEMMA ResultType ==
    ASSUME NEW kind, NEW serial, NEW b \in Buckets, NEW n \in 0 .. MaxInt,
           Accepts(kind, serial, b, n)
    PROVE  Result(kind, b, n) \in Buckets
<1>1. CASE kind = "ReceiveStock"
    BY <1>1, CreditType, MaxIntAssumption DEF Accepts, Result, Bucket, Moves
<1>2. CASE kind = "ReceiveAndHold"
    BY <1>2, CreditType, MaxIntAssumption DEF Accepts, Result, Bucket, Moves
<1>3. CASE kind = "IssueStock"
    BY <1>3, DebitType, MaxIntAssumption DEF Accepts, Result, Bucket, Moves
<1>4. CASE kind = "AdjustStock"
    <2>1. Plus(n, -Encumbered(b)) \in 0 .. MaxInt
        BY <1>4, EncumberedInRange, PlusInRange, MaxIntAssumption DEF Accepts, MinInt, Moves
    <2>2. QED
        BY <2>1, <1>4 DEF Result, Buckets, Bucket
<1>5. CASE kind \in Moves
    <2>1. Debit(b, Source[kind], n) \in Buckets
        BY <1>5, MoveEnds, DebitType, MaxIntAssumption DEF Accepts, Moves
    <2>2. Holds(Debit(b, Source[kind], n), Sink[kind], n)
        BY <1>5, MoveEnds, MaxIntAssumption DEF Accepts, Moves, Holds, Debit, Buckets
    <2>3. Credit(Debit(b, Source[kind], n), Sink[kind], n) \in Buckets
        BY <2>1, <2>2, MoveEnds, CreditType, <1>5, MaxIntAssumption
    <2>4. QED
        BY <2>3, <1>5 DEF Result, Moves
<1>6. QED
    BY <1>1, <1>2, <1>3, <1>4, <1>5 DEF Accepts

LEMMA LegType ==
    ASSUME NEW o \in Operations, NEW k \in Touches(o), NEW b \in Buckets, LegAccepted(o, k, b)
    PROVE  LegResult(o, k, b) \in Buckets
<1>1. o.amount \in 0 .. MaxInt
    BY OperationsAssumption DEF OperationType
<1>2. Accepts(Leg(o, k), k \in Serial, b, o.amount)
    BY Zenon DEF LegAccepted
<1>3. Result(Leg(o, k), b, o.amount) \in Buckets
    BY <1>1, <1>2, ResultType, Zenon
<1>4. QED
    BY <1>3, Zenon DEF LegResult

LEMMA TouchesType ==
    ASSUME NEW o \in Operations
    PROVE  o.key \in Keys /\ o.to \in Keys /\ Touches(o) \subseteq Keys
BY OperationsAssumption DEF OperationType, Touches

LEMMA NoRowType == NoRow \in Rows /\ NoRow.version = 0 /\ NoRow.b = Empty
BY MaxIntAssumption DEF NoRow, Rows, Empty, Buckets

(***************************************************************************)
(* The inductive invariant.                                                *)
(***************************************************************************)
LEMMA InitIInv == Init => IInv
<1> SUFFICES ASSUME Init PROVE IInv
    OBVIOUS
<1>1. TypeOK
    <2>1. row \in [Keys -> Rows]
        BY NoRowType, OpeningsAssumption DEF Init, Rows
    <2>2. ledger \in [Keys -> Seq(Entries)]
        BY DEF Init
    <2>3. loaded \in [Requests -> [Keys -> Rows]]
        BY NoRowType DEF Init
    <2>4. QED
        BY <2>1, <2>2, <2>3 DEF Init, TypeOK, Running
<1>2. \A k \in Keys : row[k] = NoRow \/ (row[k].version = 1 /\ row[k].b \in Openings)
    BY DEF Init
<1>3. StockWithinLimits
    BY <1>2, NoRowType, OpeningsAssumption, MaxIntAssumption
    DEF Init, StockWithinLimits, Total, Empty, Bucket
<1>4. SnapshotsArePast /\ AbsentIsEmpty
    <2>1. \A r \in Requests, k \in Keys : loaded[r][k] = NoRow
        BY DEF Init
    <2>2. SnapshotsArePast
        BY <1>2, <2>1, NoRowType DEF SnapshotsArePast
    <2>3. AbsentIsEmpty
        BY <1>2, NoRowType DEF AbsentIsEmpty, Exists
    <2>4. QED
        BY <2>2, <2>3
<1>5. ProgramOrder /\ WritesWereAccepted /\ LockedRowsAreCurrent /\ WitnessedFits /\ LocksExclude
    BY DEF Init, ProgramOrder, WritesWereAccepted, LockedRowsAreCurrent, WitnessedFits, LocksExclude
<1>6. QED
    BY <1>1, <1>3, <1>4, <1>5 DEF IInv

\* Ending a transaction without effect.
LEMMA RollBackKeepsIInv ==
    ASSUME IInv, NEW r \in Requests, NEW outcome \in Refusals, RollBack(r, outcome)
    PROVE  IInv'
<1> USE DEF RollBack, GoTo, db
<1>1. TypeOK'
    BY NoRowType DEF IInv, TypeOK, Refusals
<1>2. StockWithinLimits'
    BY DEF IInv, StockWithinLimits, Exists, OneEntryEach
<1>3. SnapshotsArePast' /\ AbsentIsEmpty'
    <2> SUFFICES ASSUME NEW q \in Requests, NEW k \in Keys
                 PROVE  /\ loaded'[q][k].version <= row'[k].version
                        /\ loaded'[q][k].version = row'[k].version => loaded'[q][k].b = row'[k].b
                        /\ ~(row'[k].version > 0) => row'[k].b = Empty
        BY DEF SnapshotsArePast, AbsentIsEmpty, Exists
    <2>1. row[k].version \in Nat
        BY DEF IInv, TypeOK, Rows
    <2>2. CASE q = r
        BY <2>1, <2>2, NoRowType DEF IInv, TypeOK, AbsentIsEmpty, Exists
    <2>3. CASE q # r
        BY <2>3 DEF IInv, TypeOK, SnapshotsArePast, AbsentIsEmpty, Exists
    <2>4. QED
        BY <2>2, <2>3
<1>4. ProgramOrder' /\ WritesWereAccepted'
    BY DEF IInv, TypeOK, ProgramOrder, WritesWereAccepted, Refusals, Accepted
<1>5. LockedRowsAreCurrent' /\ WitnessedFits'
    BY DEF IInv, TypeOK, LockedRowsAreCurrent, WitnessedFits, Stale, Inserts, Duplicate, Exists, After, Before
<1>6. LocksExclude'
    BY DEF IInv, TypeOK, LocksExclude, Inserts
<1>7. QED
    BY <1>1, <1>2, <1>3, <1>4, <1>5, <1>6 DEF IInv

\* Reading the committed row of a key the request has not written.
LEMMA ReadKeepsData ==
    ASSUME IInv, NEW r \in Requests, NEW k \in Keys, NEW label,
           label \in {"loadDestination", "write"}, pc[r] \in {"load", "loadDestination"},
           Read(r, k), GoTo(r, label), KeepReading(r)
    PROVE  /\ TypeOK' /\ StockWithinLimits' /\ SnapshotsArePast' /\ AbsentIsEmpty'
           /\ ProgramOrder' /\ LockedRowsAreCurrent' /\ WitnessedFits' /\ LocksExclude'
           /\ written[r] = {} /\ witnessed[r] = {}
<1> USE DEF Read, GoTo, KeepReading, db
<1>1. written[r] = {} /\ witnessed[r] = {}
    BY DEF IInv, ProgramOrder
<1>2. TypeOK'
    BY DEF IInv, TypeOK, Running
<1>3. StockWithinLimits'
    BY DEF IInv, StockWithinLimits, Exists, OneEntryEach
<1>4. SnapshotsArePast' /\ AbsentIsEmpty'
    BY DEF IInv, TypeOK, Rows, SnapshotsArePast, AbsentIsEmpty, Exists
<1>5. ProgramOrder'
    BY <1>1 DEF IInv, TypeOK, ProgramOrder
<1>6. \A q \in Requests : q # r => loaded'[q] = loaded[q]
    BY DEF IInv, TypeOK
<1>7. LockedRowsAreCurrent' /\ WitnessedFits'
    BY <1>1, <1>6 DEF IInv, TypeOK, LockedRowsAreCurrent, WitnessedFits, Stale, Inserts,
                      Duplicate, Exists, After, Before
<1>8. LocksExclude'
    BY <1>1, <1>6 DEF IInv, TypeOK, LocksExclude, Inserts
<1>9. QED
    BY <1>1, <1>2, <1>3, <1>4, <1>5, <1>7, <1>8

LEMMA LoadKeepsIInv ==
    ASSUME IInv, NEW r \in Requests, LoadPosition(r) \/ LoadOrigin(r) \/ LoadDestination(r)
    PROVE  IInv'
<1> DEFINE o == op[r]
<1>1. o \in Operations /\ o.key \in Keys /\ o.to \in Keys
    BY TouchesType DEF IInv, TypeOK
<1>2. ASSUME NEW q \in Requests, q # r, loaded'[q] = loaded[q], pc'[q] = pc[q], op' = op
      PROVE  /\ pc'[q] = "loadDestination" =>
                  op'[q].kind = "TransferStock" /\ op'[q].key # op'[q].to
                  /\ loaded'[q][op'[q].key].version > 0
             /\ pc'[q] \in {"write", "append", "commit"} =>
                  /\ op'[q].kind = "TransferStock" => op'[q].key # op'[q].to
                  /\ \A k \in Touches(op'[q]) : Accepted(op'[q], k, loaded'[q][k])
    BY <1>2 DEF IInv, WritesWereAccepted
<1>3. CASE LoadPosition(r)
    <2>1. CASE Accepted(o, o.key, row[o.key])
        <3>1. Read(r, o.key) /\ GoTo(r, "write") /\ KeepReading(r) /\ pc[r] = "load"
            BY <1>3, <2>1 DEF LoadPosition
        <3>2. WritesWereAccepted'
            <4>1. Touches(o) = {o.key} /\ o.kind # "TransferStock"
                BY <1>1, <1>3, OperationsAssumption DEF LoadPosition, Touches
            <4>2. loaded'[r][o.key] = row[o.key] /\ pc'[r] = "write" /\ op' = op
                BY <1>1, <3>1 DEF Read, GoTo, KeepReading, IInv, TypeOK
            <4>3. \A q \in Requests : q # r => loaded'[q] = loaded[q] /\ pc'[q] = pc[q]
                BY <3>1 DEF Read, GoTo, IInv, TypeOK
            <4>4. \A k \in Touches(o) : Accepted(o, k, loaded'[r][k])
                BY <4>1, <4>2, <2>1
            <4>5. QED
                BY <1>2, <4>1, <4>2, <4>3, <4>4 DEF WritesWereAccepted
        <3>3. QED
            BY <1>1, <3>1, <3>2, ReadKeepsData DEF IInv
    <2>2. CASE ~Accepted(o, o.key, row[o.key])
        BY <1>3, <2>2, RollBackKeepsIInv DEF LoadPosition, Refusals
    <2>3. QED
        BY <2>1, <2>2
<1>4. CASE LoadOrigin(r)
    <2>1. CASE Exists(o.key) /\ o.key # o.to
        <3>1. /\ Read(r, o.key) /\ GoTo(r, "loadDestination") /\ KeepReading(r)
              /\ pc[r] = "load" /\ o.kind = "TransferStock"
            BY <1>4, <2>1 DEF LoadOrigin
        <3>2. WritesWereAccepted'
            <4>2. loaded'[r][o.key] = row[o.key] /\ pc'[r] = "loadDestination" /\ op' = op
                BY <1>1, <3>1 DEF Read, GoTo, KeepReading, IInv, TypeOK
            <4>3. \A q \in Requests : q # r => loaded'[q] = loaded[q] /\ pc'[q] = pc[q]
                BY <3>1 DEF Read, GoTo, IInv, TypeOK
            <4>5. QED
                BY <1>2, <3>1, <2>1, <4>2, <4>3 DEF WritesWereAccepted, Exists
        <3>3. QED
            BY <1>1, <3>1, <3>2, ReadKeepsData DEF IInv
    <2>2. CASE ~(Exists(o.key) /\ o.key # o.to)
        BY <1>4, <2>2, RollBackKeepsIInv DEF LoadOrigin, Refusals
    <2>3. QED
        BY <2>1, <2>2
<1>5. CASE LoadDestination(r)
    <2>1. CASE Accepted(o, o.key, loaded[r][o.key]) /\ Accepted(o, o.to, row[o.to])
        <3>1. /\ Read(r, o.to) /\ GoTo(r, "write") /\ KeepReading(r)
              /\ pc[r] = "loadDestination"
            BY <1>5, <2>1 DEF LoadDestination
        <3>2. WritesWereAccepted'
            <4>1. o.kind = "TransferStock" /\ o.key # o.to
                BY <3>1 DEF IInv, WritesWereAccepted
            <4>2. /\ loaded'[r][o.to] = row[o.to] /\ loaded'[r][o.key] = loaded[r][o.key]
                  /\ pc'[r] = "write" /\ op' = op
                BY <1>1, <3>1, <4>1 DEF Read, GoTo, KeepReading, IInv, TypeOK
            <4>3. \A q \in Requests : q # r => loaded'[q] = loaded[q] /\ pc'[q] = pc[q]
                BY <3>1 DEF Read, GoTo, IInv, TypeOK
            <4>4. \A k \in Touches(o) : Accepted(o, k, loaded'[r][k])
                BY <4>2, <2>1 DEF Touches
            <4>5. QED
                BY <1>2, <4>1, <4>2, <4>3, <4>4 DEF WritesWereAccepted
        <3>3. QED
            BY <1>1, <3>1, <3>2, ReadKeepsData DEF IInv
    <2>2. CASE ~(Accepted(o, o.key, loaded[r][o.key]) /\ Accepted(o, o.to, row[o.to]))
        BY <1>5, <2>2, RollBackKeepsIInv DEF LoadDestination, Refusals
    <2>3. QED
        BY <2>1, <2>2
<1>6. QED
    BY <1>3, <1>4, <1>5

\* The statement takes the row's lock, or the index entry's, with a current version.
LEMMA WriteRowKeepsIInv ==
    ASSUME IInv, NEW r \in Requests, WriteRow(r)
    PROVE  IInv'
<1>1. PICK k \in Touches(op[r]) :
        /\ Writing(r, k)
        /\ IF Inserts(r, k) THEN ~Duplicate(k) ELSE ~Stale(r, k)
        /\ RowCheck(k \in Serial, After(r, k))
        /\ written' = [written EXCEPT ![r] = @ \cup {k}]
        /\ GoTo(r, IF Touches(op[r]) \subseteq written[r] \cup {k} THEN "append" ELSE "write")
        /\ UNCHANGED <<db, op, loaded, witnessed, published>>
    BY DEF WriteRow
<1>2. /\ pc[r] = "write" /\ Blockers(r, k) = {} /\ k \in Keys /\ op[r] \in Operations
      /\ Touches(op[r]) \subseteq Keys
    BY <1>1, TouchesType DEF Writing, IInv, TypeOK
<1>3. /\ row' = row /\ ledger' = ledger /\ opening' = opening /\ op' = op /\ loaded' = loaded
      /\ witnessed' = witnessed /\ published' = published
    BY <1>1 DEF db
<1>4. /\ written'[r] = written[r] \cup {k}
      /\ \A q \in Requests : q # r => written'[q] = written[q] /\ pc'[q] = pc[q]
      /\ pc'[r] \in {"append", "write"}
      /\ pc'[r] = "append" => Touches(op[r]) \subseteq written[r] \cup {k}
    BY <1>1 DEF GoTo, IInv, TypeOK
<1>5. TypeOK'
    BY <1>1, <1>2, <1>3 DEF IInv, TypeOK, GoTo, Running
<1>6. StockWithinLimits' /\ SnapshotsArePast' /\ AbsentIsEmpty' /\ WitnessedFits'
    BY <1>3 DEF IInv, StockWithinLimits, SnapshotsArePast, AbsentIsEmpty, WitnessedFits,
                Exists, OneEntryEach, Before, After
<1>7. ProgramOrder' /\ WritesWereAccepted'
    BY <1>2, <1>3, <1>4 DEF IInv, ProgramOrder, WritesWereAccepted
<1>8. loaded[r][k].version \in Nat /\ row[k].version \in Nat
    BY <1>2 DEF IInv, TypeOK, Rows
<1>9. LockedRowsAreCurrent'
    <2>1. Inserts(r, k) => ~Stale(r, k)
        BY <1>1, <1>2, <1>8 DEF Inserts, Duplicate, Exists, Stale
    <2>2. QED
        BY <1>1, <1>2, <1>3, <1>4, <2>1
        DEF IInv, LockedRowsAreCurrent, Stale, Inserts, Duplicate, Exists, After, Before
<1>10. ASSUME NEW q \in Requests, q # r, NEW j \in written[q]
       PROVE  j # k /\ (Inserts(q, j) /\ Inserts(r, k) => IndexEntry[j] # IndexEntry[k])
    <2>1. IF Inserts(r, k) THEN ~(Inserts(q, j) /\ IndexEntry[j] = IndexEntry[k]) ELSE j # k
        BY <1>2, <1>10 DEF Blockers
    <2>2. ~Stale(q, j) /\ j \in Keys
        BY <1>10 DEF IInv, LockedRowsAreCurrent, TypeOK
    <2>3. CASE Inserts(r, k)
        <3>1. ~Exists(k)
            BY <2>3, <1>1, <1>2 DEF Duplicate
        <3>2. j = k => Inserts(q, j)
            BY <3>1, <2>2, <1>8 DEF Exists, Stale, Inserts
        <3>3. QED
            BY <3>2, <2>1, <2>3
    <2>4. QED
        BY <2>1, <2>3
<1>11. LocksExclude'
    <2> SUFFICES ASSUME NEW q \in Requests, NEW s \in Requests, q # s,
                        NEW i \in written'[q], NEW j \in written'[s]
                 PROVE  i # j /\ (Inserts(q, i) /\ Inserts(s, j) => IndexEntry[i] # IndexEntry[j])
        BY <1>3 DEF LocksExclude, Inserts
    <2>1. CASE q # r /\ s # r
        BY <2>1, <1>4 DEF IInv, LocksExclude
    <2>2. CASE q = r
        <3>1. i \in written[r] \/ i = k
            BY <2>2, <1>4
        <3>2. j \in written[s]
            BY <2>2, <1>4
        <3>3. QED
            BY <3>1, <3>2, <2>2, <1>10 DEF IInv, LocksExclude
    <2>3. CASE s = r
        <3>1. j \in written[r] \/ j = k
            BY <2>3, <1>4
        <3>2. i \in written[q]
            BY <2>3, <1>4
        <3>3. QED
            BY <3>1, <3>2, <2>3, <1>10 DEF IInv, LocksExclude
    <2>4. QED
        BY <2>1, <2>2, <2>3
<1>12. QED
    BY <1>5, <1>6, <1>7, <1>9, <1>11 DEF IInv

LEMMA RefusedWriteKeepsIInv ==
    ASSUME IInv, NEW r \in Requests,
           WriteStale(r) \/ WriteDuplicate(r) \/ WriteRefused(r) \/ KeyRefused(r)
             \/ Fail(r) \/ DeadlockVictim(r)
    PROVE  IInv'
<1>1. \E outcome \in Refusals : RollBack(r, outcome)
    BY DEF WriteStale, WriteDuplicate, WriteRefused, KeyRefused, Fail, DeadlockVictim, Refusals
<1>2. QED
    BY <1>1, RollBackKeepsIInv

LEMMA AppendEntryKeepsIInv ==
    ASSUME IInv, NEW r \in Requests, AppendEntry(r)
    PROVE  IInv'
<1> DEFINE k == NextLeg(r, witnessed[r])
<1>1. k \in Touches(op[r]) /\ Touches(op[r]) \subseteq Keys /\ pc[r] = "append"
    BY TouchesType DEF NextLeg, Touches, AppendEntry, IInv, TypeOK
<1>2. CASE EntryCheck(Before(r, k), After(r, k))
    <2>1. /\ witnessed' = [witnessed EXCEPT ![r] = @ \cup {k}]
          /\ GoTo(r, IF Touches(op[r]) \subseteq witnessed[r] \cup {k} THEN "commit" ELSE "append")
          /\ UNCHANGED <<db, op, loaded, written, published>>
        BY <1>2 DEF AppendEntry
    <2>2. /\ row' = row /\ ledger' = ledger /\ opening' = opening /\ op' = op /\ loaded' = loaded
          /\ written' = written /\ published' = published
        BY <2>1 DEF db
    <2>3. /\ witnessed'[r] = witnessed[r] \cup {k}
          /\ \A q \in Requests : q # r => witnessed'[q] = witnessed[q] /\ pc'[q] = pc[q]
          /\ pc'[r] \in {"append", "commit"}
          /\ pc'[r] = "commit" => Touches(op[r]) \subseteq witnessed[r] \cup {k}
        BY <2>1 DEF GoTo, IInv, TypeOK
    <2>4. TypeOK'
        BY <1>1, <2>1, <2>2 DEF IInv, TypeOK, GoTo, Running
    <2>5. /\ StockWithinLimits' /\ SnapshotsArePast' /\ AbsentIsEmpty'
          /\ LockedRowsAreCurrent' /\ LocksExclude'
        BY <2>2 DEF IInv, StockWithinLimits, SnapshotsArePast, AbsentIsEmpty, LockedRowsAreCurrent,
                    LocksExclude, Exists, OneEntryEach, Before, After, Stale, Inserts, Duplicate
    <2>6. ProgramOrder' /\ WritesWereAccepted'
        BY <1>1, <2>2, <2>3 DEF IInv, ProgramOrder, WritesWereAccepted
    <2>7. WitnessedFits'
        BY <1>2, <2>2, <2>3 DEF IInv, WitnessedFits, Before, After
    <2>8. QED
        BY <2>4, <2>5, <2>6, <2>7 DEF IInv
<1>3. CASE ~EntryCheck(Before(r, k), After(r, k))
    BY <1>3, RollBackKeepsIInv DEF AppendEntry, Refusals
<1>4. QED
    BY <1>2, <1>3

\* What a commit does to the rows: the written ones advance by one version, from
\* the balances their writer read to ones the tables accept.
LEMMA CommittedRows ==
    ASSUME IInv, NEW r \in Requests, Commit(r)
    PROVE  /\ op[r] \in Operations /\ Touches(op[r]) \subseteq Keys
           /\ written[r] = Touches(op[r]) /\ witnessed[r] = Touches(op[r])
           /\ op[r].kind = "TransferStock" => op[r].key # op[r].to
           /\ \A k \in written[r] :
                /\ row'[k] = NewRow(r, k) /\ row'[k] \in Rows
                /\ loaded[r][k] \in Rows /\ loaded[r][k] = row[k]
                /\ row'[k].b = After(r, k) /\ row'[k].version = row[k].version + 1
                /\ Accepted(op[r], k, loaded[r][k])
                /\ RowCheck(k \in Serial, After(r, k))
                /\ EntryCheck(Before(r, k), After(r, k))
           /\ \A k \in Keys \ written[r] : row'[k] = row[k]
<1>1. op[r] \in Operations /\ Touches(op[r]) \subseteq Keys
    BY TouchesType DEF IInv, TypeOK
<1>2. written[r] = Touches(op[r]) /\ witnessed[r] = Touches(op[r])
    BY DEF IInv, ProgramOrder, Commit
<1>3. op[r].kind = "TransferStock" => op[r].key # op[r].to
    BY DEF IInv, WritesWereAccepted, Commit
<1>4. \A k \in Keys : row'[k] = IF k \in written[r] THEN NewRow(r, k) ELSE row[k]
    BY DEF Commit
<1>5. ASSUME NEW k \in written[r]
      PROVE  /\ row'[k] = NewRow(r, k) /\ row'[k] \in Rows
             /\ loaded[r][k] \in Rows /\ loaded[r][k] = row[k]
             /\ row'[k].b = After(r, k) /\ row'[k].version = row[k].version + 1
             /\ Accepted(op[r], k, loaded[r][k])
             /\ RowCheck(k \in Serial, After(r, k))
             /\ EntryCheck(Before(r, k), After(r, k))
    <2>1. k \in Keys /\ k \in Touches(op[r]) /\ k \in witnessed[r]
        BY <1>1, <1>2
    <2>2. loaded[r][k] \in Rows /\ row[k] \in Rows
        BY <2>1 DEF IInv, TypeOK
    <2>3. loaded[r][k].version = row[k].version /\ RowCheck(k \in Serial, After(r, k))
        BY DEF IInv, LockedRowsAreCurrent, Stale
    <2>4. loaded[r][k] = row[k]
        BY <2>1, <2>2, <2>3 DEF IInv, SnapshotsArePast, Rows
    <2>5. Accepted(op[r], k, loaded[r][k])
        BY <2>1 DEF IInv, WritesWereAccepted, Commit
    <2>6. After(r, k) \in Buckets
        BY <1>1, <2>1, <2>2, <2>5, LegType DEF After, Before, Accepted, Rows
    <2>7. EntryCheck(Before(r, k), After(r, k))
        BY <2>1 DEF IInv, WitnessedFits
    <2>8. QED
        BY <1>4, <2>1, <2>2, <2>3, <2>4, <2>5, <2>6, <2>7 DEF NewRow, Rows
<1>6. QED
    BY <1>1, <1>2, <1>3, <1>4, <1>5

LEMMA CommitKeepsIInv ==
    ASSUME IInv, NEW r \in Requests, Commit(r)
    PROVE  IInv'
<1>1. /\ pc[r] = "commit" /\ opening' = opening /\ op' = op /\ published' = published
      /\ written' = [written EXCEPT ![r] = {}]
      /\ witnessed' = [witnessed EXCEPT ![r] = {}]
      /\ loaded' = [loaded EXCEPT ![r] = [k \in Keys |-> NoRow]]
      /\ pc' = [pc EXCEPT ![r] = "publish"]
    BY DEF Commit, GoTo
<1>2. /\ written'[r] = {} /\ witnessed'[r] = {} /\ pc'[r] = "publish"
      /\ \A k \in Keys : loaded'[r][k] = NoRow
      /\ \A q \in Requests : q # r => /\ written'[q] = written[q] /\ witnessed'[q] = witnessed[q]
                                      /\ loaded'[q] = loaded[q] /\ pc'[q] = pc[q]
    BY <1>1 DEF IInv, TypeOK
<1>3. \A k \in Keys : row[k] \in Rows /\ row[k].version \in Nat
    BY DEF IInv, TypeOK, Rows
<1>4. \A k \in Keys : row'[k] \in Rows
    BY <1>3, CommittedRows
<1>5. TypeOK'
    <2>1. row' \in [Keys -> Rows]
        BY <1>4 DEF Commit
    <2>2. ledger' \in [Keys -> Seq(Entries)]
        <3>1. ASSUME NEW k \in witnessed[r]
              PROVE  k \in Keys /\ NewEntry(r, k) \in Entries
            <4>1. k \in Keys /\ loaded[r][k] \in Rows /\ row'[k] \in Rows /\ row'[k].b = After(r, k)
                BY <3>1, CommittedRows
            <4>2. QED
                BY <4>1 DEF NewEntry, Entries, Before, Rows
        <3>2. QED
            BY <3>1 DEF Commit, IInv, TypeOK
    <2>3. QED
        BY <2>1, <2>2, <1>1, NoRowType DEF IInv, TypeOK, Committed
<1>6. ASSUME NEW k \in Keys
      PROVE  /\ row[k].version <= row'[k].version
             /\ row'[k].version = row[k].version => row'[k] = row[k]
             /\ Exists(k) => row'[k].version > 0
             /\ row'[k].version > 0 => Exists(k) \/ (k \in written[r] /\ Inserts(r, k))
    BY <1>3, CommittedRows DEF Exists, Inserts
<1>7. StockWithinLimits'
    <2>1. ASSUME NEW k \in Keys
          PROVE  Total(row'[k].b) <= MaxInt /\ RowCheck(k \in Serial, row'[k].b)
        BY CommittedRows DEF EntryCheck, IInv, StockWithinLimits
    <2>2. ASSUME NEW j \in Keys, NEW k \in Keys, row'[j].version > 0, row'[k].version > 0,
                 IndexEntry[j] = IndexEntry[k]
          PROVE  j = k
        <3>1. CASE Exists(j) /\ Exists(k)
            BY <2>2, <3>1 DEF IInv, StockWithinLimits, OneEntryEach
        <3>2. \A i \in written[r] : Inserts(r, i) => ~Duplicate(i)
            BY DEF IInv, LockedRowsAreCurrent
        <3>3. ASSUME NEW i \in written[r], Inserts(r, i)
              PROVE  MayOpen(op[r], i) /\ i \in Touches(op[r])
            BY <3>3, CommittedRows DEF Accepted, Inserts
        <3>4. CASE j \in written[r] /\ Inserts(r, j) /\ k \in written[r] /\ Inserts(r, k)
            BY <3>3, <3>4, CommittedRows, OperationsAssumption DEF MayOpen, Touches
        <3>5. CASE j \in written[r] /\ Inserts(r, j) /\ Exists(k)
            BY <2>2, <3>2, <3>5 DEF Duplicate
        <3>6. CASE k \in written[r] /\ Inserts(r, k) /\ Exists(j)
            BY <2>2, <3>2, <3>6 DEF Duplicate
        <3>7. QED
            BY <1>6, <2>2, <3>1, <3>4, <3>5, <3>6
    <2>3. QED
        BY <2>1, <2>2 DEF StockWithinLimits, OneEntryEach, Exists
<1>8. SnapshotsArePast' /\ AbsentIsEmpty'
    <2>1. ASSUME NEW q \in Requests, NEW k \in Keys
          PROVE  /\ loaded'[q][k].version <= row'[k].version
                 /\ loaded'[q][k].version = row'[k].version => loaded'[q][k].b = row'[k].b
        <3>1. CASE q = r
            <4>1. row'[k].version = 0 => row'[k].b = Empty
                BY <1>3, <1>6 DEF IInv, AbsentIsEmpty, Exists
            <4>2. row'[k].version \in Nat
                BY <1>4 DEF Rows
            <4>3. QED
                BY <4>1, <4>2, <3>1, <1>2, NoRowType
        <3>2. CASE q # r
            <4>1. loaded'[q][k] = loaded[q][k] /\ loaded[q][k].version \in Nat
                BY <3>2, <1>2 DEF IInv, TypeOK, Rows
            <4>2. row'[k].version \in Nat
                BY <1>4 DEF Rows
            <4>3. QED
                BY <4>1, <4>2, <1>3, <1>6 DEF IInv, SnapshotsArePast
        <3>3. QED
            BY <3>1, <3>2
    <2>2. ASSUME NEW k \in Keys, ~(row'[k].version > 0)
          PROVE  row'[k].b = Empty
        BY <2>2, <1>3, <1>4, <1>6 DEF IInv, AbsentIsEmpty, Exists, Rows
    <2>3. QED
        BY <2>1, <2>2 DEF SnapshotsArePast, AbsentIsEmpty, Exists
<1>9. ProgramOrder' /\ WritesWereAccepted'
    BY <1>1, <1>2 DEF IInv, ProgramOrder, WritesWereAccepted
<1>10. WitnessedFits'
    BY <1>1, <1>2 DEF IInv, WitnessedFits, After, Before
<1>11. LocksExclude'
    BY <1>2 DEF IInv, LocksExclude, Inserts
<1>12. LockedRowsAreCurrent'
    <2> SUFFICES ASSUME NEW q \in Requests, NEW k \in written'[q]
                 PROVE  /\ row'[k].version = loaded'[q][k].version
                        /\ loaded'[q][k].version = 0 =>
                             ~ \E j \in Keys : row'[j].version > 0 /\ IndexEntry[j] = IndexEntry[k]
                        /\ RowCheck(k \in Serial, After(q, k)')
        BY DEF LockedRowsAreCurrent, Stale, Inserts, Duplicate, Exists
    <2>1. q # r /\ k \in written[q] /\ k \in Keys /\ loaded'[q] = loaded[q]
        BY <1>2 DEF IInv, TypeOK
    <2>2. k \notin written[r]
        BY <2>1 DEF IInv, LocksExclude
    <2>3. row'[k].version = loaded'[q][k].version /\ RowCheck(k \in Serial, After(q, k)')
        BY <1>1, <2>1, <2>2, CommittedRows DEF IInv, LockedRowsAreCurrent, Stale, After, Before
    <2>4. ASSUME Inserts(q, k), NEW j \in Keys, row'[j].version > 0, IndexEntry[j] = IndexEntry[k]
          PROVE  FALSE
        <3>1. ~Exists(j)
            BY <2>1, <2>4 DEF IInv, LockedRowsAreCurrent, Duplicate
        <3>2. j \in written[r] /\ Inserts(r, j)
            BY <3>1, <2>4, <1>6
        <3>3. QED
            BY <3>2, <2>1, <2>4 DEF IInv, LocksExclude
    <2>5. QED
        BY <2>1, <2>3, <2>4 DEF Inserts
<1>13. QED
    BY <1>5, <1>7, <1>8, <1>9, <1>10, <1>11, <1>12 DEF IInv

LEMMA PublishKeepsIInv ==
    ASSUME IInv, NEW r \in Requests, Publish(r) \/ LoseEvents(r)
    PROVE  IInv'
<1>1. \E label \in {"published", "lost"} : pc[r] = "publish" /\ GoTo(r, label)
    BY DEF Publish, LoseEvents
<1>2. /\ UNCHANGED <<row, ledger, opening, op, loaded, written, witnessed>>
      /\ published' \in SUBSET Requests
    BY DEF Publish, LoseEvents, db, IInv, TypeOK
<1>3. TypeOK'
    BY <1>1, <1>2 DEF IInv, TypeOK, GoTo, Committed
<1>4. StockWithinLimits' /\ SnapshotsArePast' /\ AbsentIsEmpty' /\ LocksExclude'
    BY <1>2 DEF IInv, StockWithinLimits, SnapshotsArePast, AbsentIsEmpty, LocksExclude,
                Exists, OneEntryEach, Inserts
<1>5. LockedRowsAreCurrent' /\ WitnessedFits'
    BY <1>2 DEF IInv, LockedRowsAreCurrent, WitnessedFits, Stale, Inserts, Duplicate,
                Exists, After, Before
<1>6. ProgramOrder' /\ WritesWereAccepted'
    BY <1>1, <1>2 DEF IInv, TypeOK, ProgramOrder, WritesWereAccepted, GoTo
<1>7. QED
    BY <1>3, <1>4, <1>5, <1>6 DEF IInv

LEMMA StutterKeepsIInv == IInv /\ UNCHANGED vars => IInv'
BY DEF vars, IInv, TypeOK, StockWithinLimits, SnapshotsArePast, AbsentIsEmpty, ProgramOrder,
       WritesWereAccepted, LockedRowsAreCurrent, WitnessedFits, LocksExclude,
       Exists, OneEntryEach, Stale, Inserts, Duplicate, After, Before

\* The invariant that carries the others: what a request read is a past version
\* of the row, current while it holds the row's lock, and what it writes was accepted.
THEOREM InductiveInvariant == Spec => []IInv
<1>1. Init => IInv
    BY InitIInv
<1>2. IInv /\ [Next]_vars => IInv'
    <2> SUFFICES ASSUME IInv, Next PROVE IInv'
        BY StutterKeepsIInv
    <2>1. PICK r \in Requests :
            Step(r) \/ KeyRefused(r) \/ Fail(r) \/ LoseEvents(r) \/ DeadlockVictim(r)
        BY DEF Next
    <2>2. QED
        BY <2>1, LoadKeepsIInv, WriteRowKeepsIInv, RefusedWriteKeepsIInv, AppendEntryKeepsIInv,
           CommitKeepsIInv, PublishKeepsIInv DEF Step
<1>3. QED
    BY <1>1, <1>2, PTL DEF Spec

\* The tables and the requests keep their types: no balance is ever negative or
\* beyond an int64 (value_objects.go Add, Sub; the CHECKs of inventory_positions).
THEOREM TypeCorrect == Spec => []TypeOK
<1>1. IInv => TypeOK
    BY DEF IInv
<1>2. QED
    BY <1>1, InductiveInvariant, PTL

\* No position ever holds more than an int64 counts, no serialised one more than
\* one unit, and no two positions share a serial number, whatever races.
THEOREM LimitsHold == Spec => []StockWithinLimits
<1>1. IInv => StockWithinLimits
    BY DEF IInv
<1>2. QED
    BY <1>1, InductiveInvariant, PTL

-----------------------------------------------------------------------------
(***************************************************************************)
(* The ledger.  Only a commit touches a row or the ledger, and it appends  *)
(* to the ledger of the rows it writes the balances its writer read, which *)
(* IInv says are the committed ones.                                       *)
(***************************************************************************)
LEMMA OnlyCommitWrites ==
    ASSUME [Next]_vars, ~ \E r \in Requests : Commit(r)
    PROVE  UNCHANGED <<row, ledger, opening>>
BY DEF Next, Step, vars, db, LoadPosition, LoadOrigin, LoadDestination, KeyRefused, WriteRow,
       WriteStale, WriteDuplicate, WriteRefused, AppendEntry, Publish, Fail, LoseEvents,
       DeadlockVictim, RollBack, KeepReading

LEMMA CommitExtendsLedger ==
    ASSUME IInv, NEW r \in Requests, Commit(r), LedgerExplainsRow
    PROVE  LedgerExplainsRow'
<1> SUFFICES ASSUME NEW k \in Keys
             PROVE  /\ \A i \in 1 .. Len(ledger'[k]) :
                         ledger'[k][i].before =
                           IF i - 1 = 0 THEN opening'[k].b ELSE ledger'[k][i - 1].after
                    /\ row'[k].b = IF Len(ledger'[k]) = 0 THEN opening'[k].b
                                   ELSE ledger'[k][Len(ledger'[k])].after
                    /\ row'[k].version = opening'[k].version + Len(ledger'[k])
    BY DEF LedgerExplainsRow, BalanceAt
<1> DEFINE n == Len(ledger[k])
           e == NewEntry(r, k)
           at(i) == IF i = 0 THEN opening[k].b ELSE ledger[k][i].after
<1>1. ledger[k] \in Seq(Entries) /\ n \in Nat /\ opening' = opening /\ opening[k].version \in Nat
    BY DEF IInv, TypeOK, Rows, Commit
<1>2. /\ \A i \in 1 .. n : ledger[k][i].before = at(i - 1)
      /\ row[k].b = at(n)
      /\ row[k].version = opening[k].version + n
    BY DEF LedgerExplainsRow, BalanceAt
<1>3. CASE k \notin written[r]
    <2>1. ledger'[k] = ledger[k] /\ row'[k] = row[k]
        BY <1>3, CommittedRows DEF Commit
    <2>2. QED
        BY <2>1, <1>1, <1>2
<1>4. CASE k \in written[r]
    <2>1. row'[k].version = row[k].version + 1 /\ row'[k].b = e.after /\ e.before = row[k].b
        BY <1>4, CommittedRows DEF NewEntry, Before
    <2>2. ledger'[k] = Append(ledger[k], e) /\ e \in Entries
        BY <1>4, CommittedRows DEF Commit, NewEntry, Entries, Before, Rows
    <2>3. /\ Len(ledger'[k]) = n + 1 /\ ledger'[k][n + 1] = e
          /\ \A i \in 1 .. n : ledger'[k][i] = ledger[k][i]
        BY <2>2, <1>1
    <2>4. ASSUME NEW i \in 1 .. n + 1
          PROVE  ledger'[k][i].before = IF i - 1 = 0 THEN opening'[k].b ELSE ledger'[k][i - 1].after
        <3>1. CASE i \in 1 .. n
            <4>1. ledger'[k][i] = ledger[k][i] /\ ledger[k][i].before = at(i - 1)
                BY <3>1, <2>3, <1>2
            <4>2. i - 1 # 0 => ledger'[k][i - 1] = ledger[k][i - 1]
                <5>1. i - 1 # 0 => i - 1 \in 1 .. n
                    BY <3>1, <1>1
                <5>2. QED
                    BY <5>1, <2>3
            <4>3. QED
                BY <4>1, <4>2, <1>1
        <3>2. CASE i = n + 1
            <4>1. ledger'[k][i] = e /\ e.before = at(n) /\ i - 1 = n
                BY <3>2, <2>1, <2>3, <1>2, <1>1
            <4>2. n # 0 => n \in 1 .. n
                BY <1>1
            <4>3. n # 0 => ledger'[k][n] = ledger[k][n]
                BY <4>2, <2>3
            <4>4. QED
                BY <4>1, <4>3, <1>1
        <3>3. QED
            BY <3>1, <3>2, <1>1
    <2>5. n + 1 # 0 /\ row'[k].version = opening'[k].version + (n + 1)
        BY <2>1, <1>1, <1>2
    <2>6. QED
        BY <2>1, <2>3, <2>4, <2>5
<1>5. QED
    BY <1>3, <1>4

\* The ledger is each position's whole history, in order and without a gap, and
\* ends at its row, whatever the interleaving: no update is lost, none unrecorded.
THEOREM LedgerIsHistory == Spec => []LedgerExplainsRow
<1>1. Init => LedgerExplainsRow
    BY OpeningsAssumption, NoRowType DEF Init, LedgerExplainsRow, BalanceAt
<1>2. IInv /\ LedgerExplainsRow /\ [Next]_vars => LedgerExplainsRow'
    <2>1. CASE \E r \in Requests : Commit(r)
        BY <2>1, CommitExtendsLedger
    <2>2. CASE ~ \E r \in Requests : Commit(r)
        BY <2>2, OnlyCommitWrites DEF LedgerExplainsRow, BalanceAt
    <2>3. QED
        BY <2>1, <2>2
<1>3. QED
    BY <1>1, <1>2, InductiveInvariant, PTL DEF Spec

-----------------------------------------------------------------------------
(***************************************************************************)
(* What a step may never do.                                               *)
(***************************************************************************)

\* A behaviour that takes units out takes them from the available balance.
LEMMA OnlyAvailableLeaves ==
    ASSUME NEW kind, NEW serial, NEW b \in Buckets, NEW n \in 0 .. MaxInt,
           Accepts(kind, serial, b, n), Total(Result(kind, b, n)) < Total(b),
           NEW x \in Bucket \ {"available"}
    PROVE  Result(kind, b, n)[x] = b[x]
<1>1. \A y \in Bucket : b[y] \in Int
    BY BalanceType
<1>2. b \in [Bucket -> Int]
    BY <1>1 DEF Buckets
<1>3. CASE kind = "ReceiveStock" \/ kind = "ReceiveAndHold"
    <2>1. \E y \in {"available", "quarantined"} : Result(kind, b, n) = Credit(b, y, n)
        BY <1>3 DEF Result
    <2>2. Total(Result(kind, b, n)) = Total(b) + n
        BY <1>1, <1>2, <2>1, MaxIntAssumption DEF Credit, Total, Bucket
    <2>3. QED
        BY <1>1, <2>2, MaxIntAssumption DEF Total, Bucket
<1>4. CASE kind = "IssueStock"
    <2>1. Result(kind, b, n) = [b EXCEPT !["available"] = @ - n]
        BY <1>4 DEF Result, Debit
    <2>2. QED
        BY <2>1, <1>2
<1>5. CASE kind = "AdjustStock"
    <2>1. Result(kind, b, n) = [b EXCEPT !["available"] = Plus(n, -Encumbered(b))]
        BY <1>5 DEF Result
    <2>2. QED
        BY <2>1, <1>2
<1>6. CASE kind \in Moves
    <2>1. Result(kind, b, n) = Credit(Debit(b, Source[kind], n), Sink[kind], n)
        BY <1>6 DEF Result, Moves
    <2>2. /\ Source[kind] \in Bucket /\ Sink[kind] \in Bucket /\ Source[kind] # Sink[kind]
        BY <1>6, MoveEnds
    <2>3. Total(Result(kind, b, n)) = Total(b)
        BY <1>1, <1>2, <2>1, <2>2, MaxIntAssumption DEF Credit, Debit, Total, Bucket
    <2>4. QED
        BY <1>1, <2>3 DEF Total, Bucket
<1>7. QED
    BY <1>3, <1>4, <1>5, <1>6 DEF Accepts

\* Stock leaves a position only from its available balance: no race lets an issue,
\* a transfer or a count take what is reserved, allocated or quarantined.
THEOREM PromisesAreKept == Spec => EncumberedStockStays
<1>1. IInv /\ [Next]_vars =>
        [\A k \in Keys : Total(row'[k].b) < Total(row[k].b) =>
            \A x \in Bucket \ {"available"} : row'[k].b[x] = row[k].b[x]]_vars
    <2> SUFFICES ASSUME IInv, [Next]_vars, NEW k \in Keys, Total(row'[k].b) < Total(row[k].b),
                        NEW x \in Bucket \ {"available"}
                 PROVE  row'[k].b[x] = row[k].b[x]
        OBVIOUS
    <2>1. CASE row'[k] = row[k]
        BY <2>1
    <2>2. CASE row'[k] # row[k]
        <3>1. PICK r \in Requests : Commit(r)
            BY <2>2, OnlyCommitWrites
        <3>2. k \in written[r]
            BY <2>2, <3>1, CommittedRows
        <3>3. /\ op[r] \in Operations /\ Accepted(op[r], k, loaded[r][k])
              /\ loaded[r][k] = row[k] /\ row'[k].b = After(r, k) /\ row[k].b \in Buckets
            BY <3>1, <3>2, CommittedRows DEF Rows
        <3>4. /\ Accepts(Leg(op[r], k), k \in Serial, row[k].b, op[r].amount)
              /\ row'[k].b = Result(Leg(op[r], k), row[k].b, op[r].amount)
              /\ op[r].amount \in 0 .. MaxInt
            BY <3>3, OperationsAssumption
            DEF Accepted, LegAccepted, After, Before, LegResult, OperationType
        <3>5. QED
            BY <3>3, <3>4, OnlyAvailableLeaves
    <2>3. QED
        BY <2>1, <2>2
<1>2. QED
    BY <1>1, InductiveInvariant, PTL DEF Spec, EncumberedStockStays

\* Only committed requests have entries in the ledger.
EntriesAreCommitted == \A k \in Keys : \A i \in DOMAIN ledger[k] : pc[ledger[k][i].by] \in Committed

\* Only the request that steps moves, and a committed one only publishes or dies.
LEMMA StepMovesOne ==
    ASSUME IInv, NEW r \in Requests,
           Step(r) \/ KeyRefused(r) \/ Fail(r) \/ LoseEvents(r) \/ DeadlockVictim(r)
    PROVE  \E label : /\ pc' = [pc EXCEPT ![r] = label]
                      /\ pc[r] \in Committed => label \in Committed
                      /\ label = "conflict" => WriteStale(r)
<1>1. CASE LoadPosition(r) \/ LoadOrigin(r) \/ LoadDestination(r) \/ KeyRefused(r) \/ Fail(r)
    BY <1>1 DEF LoadPosition, LoadOrigin, LoadDestination, KeyRefused, Fail, RollBack, GoTo,
                Committed, Running
<1>2. CASE WriteRow(r) \/ WriteStale(r) \/ WriteDuplicate(r) \/ WriteRefused(r)
    <2>1. pc[r] = "write" /\ \E label : GoTo(r, label) /\ (label = "conflict" => WriteStale(r))
        <3>1. CASE WriteRow(r)
            BY <3>1 DEF WriteRow, Writing
        <3>2. CASE WriteStale(r)
            BY <3>2 DEF WriteStale, Writing, RollBack
        <3>3. CASE WriteDuplicate(r) \/ WriteRefused(r)
            BY <3>3 DEF WriteDuplicate, WriteRefused, Writing, RollBack
        <3>4. QED
            BY <1>2, <3>1, <3>2, <3>3
    <2>2. QED
        BY <2>1 DEF GoTo, Committed
<1>3. CASE AppendEntry(r) \/ Commit(r) \/ Publish(r) \/ LoseEvents(r)
    BY <1>3 DEF AppendEntry, Commit, Publish, LoseEvents, RollBack, GoTo, Committed
<1>4. CASE DeadlockVictim(r)
    <2>1. pc[r] = "write"
        BY <1>4 DEF DeadlockVictim, Deadlocked, Waits
    <2>2. pc' = [pc EXCEPT ![r] = "failed"]
        BY <1>4 DEF DeadlockVictim, RollBack, GoTo
    <2>3. pc[r] \notin Committed /\ "failed" # "conflict"
        BY <2>1 DEF Committed
    <2>4. QED
        BY <2>2, <2>3, Zenon
<1>5. QED
    BY <1>1, <1>2, <1>3, <1>4 DEF Step

LEMMA StepKeepsEntriesCommitted ==
    ASSUME IInv, EntriesAreCommitted, [Next]_vars
    PROVE  EntriesAreCommitted'
<1>1. ASSUME NEW q \in Requests, pc[q] \in Committed
      PROVE  pc'[q] \in Committed
    <2>1. CASE UNCHANGED vars
        BY <1>1, <2>1 DEF vars
    <2>2. CASE Next
        <3>1. PICK r \in Requests :
                Step(r) \/ KeyRefused(r) \/ Fail(r) \/ LoseEvents(r) \/ DeadlockVictim(r)
            BY <2>2 DEF Next
        <3>2. PICK label : /\ pc' = [pc EXCEPT ![r] = label]
                           /\ pc[r] \in Committed => label \in Committed
            BY <3>1, StepMovesOne
        <3>3. QED
            BY <1>1, <3>2 DEF IInv, TypeOK
    <2>3. QED
        BY <2>1, <2>2
<1>2. \A k \in Keys : \A i \in DOMAIN ledger[k] : ledger[k][i].by \in Requests
    <2> SUFFICES ASSUME NEW k \in Keys, NEW i \in DOMAIN ledger[k]
                 PROVE  ledger[k][i].by \in Requests
        OBVIOUS
    <2>1. ledger[k] \in Seq(Entries)
        BY DEF IInv, TypeOK
    <2>2. ledger[k][i] \in Entries
        BY <2>1
    <2>3. QED
        BY <2>2 DEF Entries
<1>3. CASE \E r \in Requests : Commit(r)
    <2>1. PICK r \in Requests : Commit(r)
        BY <1>3
    <2>2. pc'[r] \in Committed
        BY <2>1 DEF Commit, GoTo, IInv, TypeOK, Committed
    <2>3. SUFFICES ASSUME NEW k \in Keys, NEW i \in DOMAIN ledger'[k]
                   PROVE  pc'[ledger'[k][i].by] \in Committed
        BY DEF EntriesAreCommitted
    <2>4. ledger[k] \in Seq(Entries)
        BY DEF IInv, TypeOK
    <2>5. CASE k \notin witnessed[r]
        BY <2>1, <2>5, <1>1, <1>2 DEF Commit, EntriesAreCommitted
    <2>6. CASE k \in witnessed[r]
        <3>1. ledger'[k] = Append(ledger[k], NewEntry(r, k)) /\ NewEntry(r, k).by = r
            BY <2>1, <2>6 DEF Commit, NewEntry
        <3>2. i \in DOMAIN ledger[k] \/ ledger'[k][i].by = r
            BY <2>4, <3>1
        <3>3. i \in DOMAIN ledger[k] => ledger'[k][i] = ledger[k][i]
            BY <2>4, <3>1
        <3>4. QED
            BY <3>2, <3>3, <2>2, <1>1, <1>2 DEF EntriesAreCommitted
    <2>7. QED
        BY <2>5, <2>6
<1>4. CASE ~ \E r \in Requests : Commit(r)
    BY <1>4, <1>1, <1>2, OnlyCommitWrites DEF EntriesAreCommitted
<1>5. QED
    BY <1>3, <1>4

\* A snapshot is no older than the behaviour.
SnapshotsAreRecent ==
    \A r \in Requests, k \in Keys : loaded[r][k] = NoRow \/ loaded[r][k].version >= opening[k].version

LEMMA StepKeepsSnapshotsRecent ==
    ASSUME IInv, LedgerExplainsRow, SnapshotsAreRecent, [Next]_vars
    PROVE  SnapshotsAreRecent'
<1>1. opening' = opening
    BY OnlyCommitWrites DEF Commit
<1>2. ASSUME NEW k \in Keys
      PROVE  row[k].version >= opening[k].version
    BY <1>2 DEF LedgerExplainsRow, IInv, TypeOK, Rows
<1>3. ASSUME NEW q \in Requests, NEW k \in Keys
      PROVE  loaded'[q][k] \in {loaded[q][k], NoRow, row[k]}
    <2>1. CASE UNCHANGED vars
        BY <2>1 DEF vars
    <2>2. CASE Next
        <3>1. PICK r \in Requests :
                Step(r) \/ KeyRefused(r) \/ Fail(r) \/ LoseEvents(r) \/ DeadlockVictim(r)
            BY <2>2 DEF Next
        <3>2. \/ loaded' = loaded
              \/ loaded' = [loaded EXCEPT ![r] = [j \in Keys |-> NoRow]]
              \/ \E j \in Keys : Read(r, j)
            <4>1. CASE LoadPosition(r) \/ LoadOrigin(r) \/ LoadDestination(r)
                BY <4>1, TouchesType DEF LoadPosition, LoadOrigin, LoadDestination, RollBack, IInv, TypeOK
            <4>2. CASE WriteRow(r) \/ WriteStale(r) \/ WriteDuplicate(r) \/ WriteRefused(r) \/ AppendEntry(r)
                BY <4>2 DEF WriteRow, WriteStale, WriteDuplicate, WriteRefused, AppendEntry, RollBack
            <4>3. CASE Commit(r) \/ Publish(r) \/ KeyRefused(r) \/ Fail(r) \/ LoseEvents(r) \/ DeadlockVictim(r)
                BY <4>3 DEF Commit, Publish, KeyRefused, Fail, LoseEvents, DeadlockVictim, RollBack
            <4>4. QED
                BY <3>1, <4>1, <4>2, <4>3 DEF Step
        <3>3. loaded \in [Requests -> [Keys -> Rows]]
            BY DEF IInv, TypeOK
        <3>4. CASE loaded' = loaded
            BY <3>4
        <3>5. CASE loaded' = [loaded EXCEPT ![r] = [j \in Keys |-> NoRow]]
            BY <3>3, <3>5
        <3>6. CASE \E j \in Keys : Read(r, j)
            <4>1. PICK j \in Keys : loaded' = [loaded EXCEPT ![r][j] = row[j]]
                BY <3>6 DEF Read
            <4>2. loaded'[q] = IF q = r THEN [loaded[r] EXCEPT ![j] = row[j]] ELSE loaded[q]
                BY <3>3, <4>1
            <4>3. loaded[r] \in [Keys -> Rows]
                BY <3>3
            <4>4. QED
                BY <4>2, <4>3
        <3>7. QED
            BY <3>2, <3>4, <3>5, <3>6
    <2>3. QED
        BY <2>1, <2>2
<1>4. QED
    BY <1>1, <1>2, <1>3 DEF SnapshotsAreRecent

\* A request is refused with "changed by another request" only after another one's
\* movement of the same position committed behind its read: a race for a row
\* always has a winner, and a conflict is never spurious.
THEOREM ConflictsAreReal == Spec => ConflictHasWinner
<1> DEFINE J == EntriesAreCommitted /\ SnapshotsAreRecent
<1>1. Init => J
    BY DEF Init, EntriesAreCommitted, SnapshotsAreRecent
<1>2. IInv /\ LedgerExplainsRow /\ J /\ [Next]_vars => J'
    BY StepKeepsEntriesCommitted, StepKeepsSnapshotsRecent
<1>3. IInv /\ LedgerExplainsRow /\ J /\ [Next]_vars =>
        [\A r \in Requests : pc[r] # "conflict" /\ pc'[r] = "conflict" =>
            \E k \in Touches(op[r]) : \E i \in DOMAIN ledger[k] :
                /\ ledger[k][i].by # r
                /\ opening[k].version + i > loaded[r][k].version]_vars
    <2> SUFFICES ASSUME IInv, LedgerExplainsRow, J, Next, NEW r \in Requests,
                        pc[r] # "conflict", pc'[r] = "conflict"
                 PROVE  \E k \in Touches(op[r]) : \E i \in DOMAIN ledger[k] :
                            /\ ledger[k][i].by # r
                            /\ opening[k].version + i > loaded[r][k].version
        BY DEF vars
    <2>1. WriteStale(r)
        <3>1. PICK q \in Requests :
                Step(q) \/ KeyRefused(q) \/ Fail(q) \/ LoseEvents(q) \/ DeadlockVictim(q)
            BY DEF Next
        <3>2. PICK label : /\ pc' = [pc EXCEPT ![q] = label]
                           /\ label = "conflict" => WriteStale(q)
            BY <3>1, StepMovesOne
        <3>3. QED
            BY <3>2 DEF IInv, TypeOK
    <2>2. PICK k \in Touches(op[r]) : Writing(r, k) /\ ~Inserts(r, k) /\ Stale(r, k)
        BY <2>1 DEF WriteStale
    <2>3. k \in Keys
        BY TouchesType DEF IInv, TypeOK
    <2>4. /\ ledger[k] \in Seq(Entries) /\ opening[k].version \in Nat
          /\ row[k].version \in Nat /\ loaded[r][k].version \in Nat
        BY <2>3 DEF IInv, TypeOK, Rows
    <2>5. loaded[r][k].version < row[k].version
        BY <2>2, <2>3, <2>4 DEF Stale, IInv, SnapshotsArePast
    <2>6. opening[k].version <= loaded[r][k].version
        BY <2>2, <2>3, NoRowType DEF SnapshotsAreRecent, Inserts
    <2>7. row[k].version = opening[k].version + Len(ledger[k])
        BY <2>3 DEF LedgerExplainsRow
    <2>8. Len(ledger[k]) \in DOMAIN ledger[k]
        <3>1. Len(ledger[k]) \in Nat /\ Len(ledger[k]) > 0
            BY <2>4, <2>5, <2>6, <2>7
        <3>2. QED
            BY <2>4, <3>1
    <2>9. ledger[k][Len(ledger[k])].by # r
        <3>1. pc[r] \notin Committed
            BY <2>2 DEF Writing, Committed
        <3>2. QED
            BY <2>3, <2>8, <3>1 DEF EntriesAreCommitted
    <2>10. QED
        BY <2>5, <2>7, <2>8, <2>9
<1>4. QED
    <2> HIDE DEF J
    <2>1. QED
        BY <1>1, <1>2, <1>3, LedgerIsHistory, InductiveInvariant, PTL DEF Spec, ConflictHasWinner

-----------------------------------------------------------------------------
(***************************************************************************)
(* What each movement leaves in the ledger.                                *)
(***************************************************************************)

\* A request that committed has one entry on each position it touches.
Recorded ==
    \A r \in Requests :
        /\ \A k \in Keys : IF pc[r] \in Committed /\ k \in Touches(op[r])
                           THEN \E i \in DOMAIN ledger[k] : EntriesOf(r, k) = {i}
                           ELSE EntriesOf(r, k) = {}
        /\ r \in published => pc[r] \in Committed

\* Every entry is of an accepted movement, and holds the balances it computed.
Computed ==
    \A k \in Keys : \A i \in DOMAIN ledger[k] :
        LET e == ledger[k][i]
        IN  /\ op[e.by].kind = "TransferStock" => op[e.by].key # op[e.by].to
            /\ e.before \in Buckets
            /\ e.after = LegResult(op[e.by], k, e.before)

\* The step of one request: a commit appends an entry of its own to the ledger of each
\* position it touches, and nothing else appends.
LEMMA OnlyCommitAppends ==
    ASSUME IInv, NEW r \in Requests,
           Step(r) \/ KeyRefused(r) \/ Fail(r) \/ LoseEvents(r) \/ DeadlockVictim(r)
    PROVE  /\ op' = op
           /\ Commit(r) => /\ pc' = [pc EXCEPT ![r] = "publish"] /\ pc[r] = "commit"
                           /\ published' = published
                           /\ \A k \in Keys :
                                ledger'[k] = IF k \in Touches(op[r])
                                             THEN Append(ledger[k], NewEntry(r, k)) ELSE ledger[k]
           /\ ~Commit(r) => /\ ledger' = ledger
                            /\ \E label : /\ pc' = [pc EXCEPT ![r] = label]
                                          /\ label \in Committed <=> pc[r] \in Committed
           /\ published' = published \/ (published' = published \cup {r} /\ pc[r] = "publish")
<1>1. CASE LoadPosition(r) \/ LoadOrigin(r) \/ LoadDestination(r)
  <2>1. ~Commit(r) /\ pc[r] \notin Committed
    BY <1>1 DEF LoadPosition, LoadOrigin, LoadDestination, Commit, Committed
  <2> QED
    BY <1>1, <2>1 DEF LoadPosition, LoadOrigin, LoadDestination, KeepReading, RollBack, GoTo, db, Committed
<1>2. CASE WriteRow(r) \/ WriteStale(r) \/ WriteDuplicate(r) \/ WriteRefused(r)
  <2>1. ~Commit(r) /\ pc[r] \notin Committed
    BY <1>2 DEF WriteRow, WriteStale, WriteDuplicate, WriteRefused, Writing, Commit, Committed
  <2> QED
    BY <1>2, <2>1 DEF WriteRow, WriteStale, WriteDuplicate, WriteRefused, RollBack, GoTo, db, Committed
<1>3. CASE AppendEntry(r)
  <2>1. ~Commit(r) /\ pc[r] \notin Committed
    BY <1>3 DEF AppendEntry, Commit, Committed
  <2> QED
    BY <1>3, <2>1 DEF AppendEntry, RollBack, GoTo, db, Committed
<1>4. CASE KeyRefused(r) \/ Fail(r) \/ DeadlockVictim(r)
  <2>1. \E outcome \in {"refused", "failed"} : RollBack(r, outcome)
    BY <1>4 DEF KeyRefused, Fail, DeadlockVictim
  <2>2. pc[r] \notin Committed
    BY <1>4 DEF KeyRefused, Fail, DeadlockVictim, Deadlocked, Waits, Running, Committed
  <2>3. ~Commit(r)
    BY <2>1 DEF Commit, RollBack, GoTo, IInv, TypeOK
  <2> QED
    BY <2>1, <2>2, <2>3 DEF RollBack, GoTo, db, Committed
<1>5. CASE Publish(r) \/ LoseEvents(r)
  <2>1. ~Commit(r) /\ pc[r] = "publish"
    BY <1>5 DEF Publish, LoseEvents, Commit
  <2> QED
    BY <1>5, <2>1 DEF Publish, LoseEvents, GoTo, db, Committed
<1>6. CASE Commit(r)
  <2>1. witnessed[r] = Touches(op[r])
    BY <1>6, CommittedRows
  <2> QED
    BY <1>6, <2>1 DEF Commit, GoTo
<1> QED
  BY <1>1, <1>2, <1>3, <1>4, <1>5, <1>6 DEF Step

\* An entry of r is added at the end, and to nobody else's.
LEMMA AppendedEntries ==
    ASSUME IInv, NEW r \in Requests, NEW k \in Keys, NEW e, e.by = r,
           ledger'[k] = Append(ledger[k], e)
    PROVE  /\ Len(ledger[k]) + 1 \in DOMAIN ledger'[k]
           /\ ledger'[k][Len(ledger[k]) + 1] = e
           /\ DOMAIN ledger'[k] = DOMAIN ledger[k] \cup {Len(ledger[k]) + 1}
           /\ \A i \in DOMAIN ledger[k] : ledger'[k][i] = ledger[k][i]
           /\ EntriesOf(r, k) = {} => EntriesOf(r, k)' = {Len(ledger[k]) + 1}
           /\ \A q \in Requests \ {r} : EntriesOf(q, k)' = EntriesOf(q, k)
<1>1. ledger[k] \in Seq(Entries) /\ Len(ledger[k]) \in Nat
  BY DEF IInv, TypeOK
<1>2. /\ Len(ledger[k]) + 1 \in DOMAIN ledger'[k]
      /\ ledger'[k][Len(ledger[k]) + 1] = e
      /\ DOMAIN ledger'[k] = DOMAIN ledger[k] \cup {Len(ledger[k]) + 1}
      /\ \A i \in DOMAIN ledger[k] : ledger'[k][i] = ledger[k][i]
  BY <1>1
<1> QED
  BY <1>2 DEF EntriesOf

LEMMA StepKeepsRecorded ==
    ASSUME IInv, Recorded, [Next]_vars
    PROVE  Recorded'
<1>1. CASE UNCHANGED vars
  BY <1>1 DEF vars, Recorded, EntriesOf
<1>2. CASE Next
  <2>1. PICK r \in Requests :
            Step(r) \/ KeyRefused(r) \/ Fail(r) \/ LoseEvents(r) \/ DeadlockVictim(r)
    BY <1>2 DEF Next
  <2>2. op' = op /\ pc \in [Requests -> Running \cup Committed \cup Refusals]
    BY <2>1, OnlyCommitAppends DEF IInv, TypeOK
  <2>3. CASE Commit(r)
    <3>1. /\ pc' = [pc EXCEPT ![r] = "publish"] /\ pc[r] = "commit" /\ published' = published
          /\ \A k \in Keys : ledger'[k] = IF k \in Touches(op[r])
                                          THEN Append(ledger[k], NewEntry(r, k)) ELSE ledger[k]
      BY <2>1, <2>3, OnlyCommitAppends
    <3>2. /\ pc[r] \notin Committed /\ pc'[r] \in Committed
          /\ \A q \in Requests \ {r} : pc'[q] = pc[q]
      BY <2>2, <3>1 DEF Committed
    <3>3. ASSUME NEW q \in Requests, NEW k \in Keys
          PROVE  IF pc'[q] \in Committed /\ k \in Touches(op'[q])
                 THEN \E i \in DOMAIN ledger'[k] : EntriesOf(q, k)' = {i}
                 ELSE EntriesOf(q, k)' = {}
      <4>1. CASE k \notin Touches(op[r])
        BY <2>2, <3>1, <3>2, <4>1 DEF Recorded, EntriesOf
      <4>2. CASE k \in Touches(op[r])
        <5>1. ledger'[k] = Append(ledger[k], NewEntry(r, k)) /\ NewEntry(r, k).by = r
          BY <3>1, <4>2 DEF NewEntry
        <5>2. CASE q = r
          <6>1. EntriesOf(r, k) = {}
            BY <3>2 DEF Recorded
          <6>2. Len(ledger[k]) + 1 \in DOMAIN ledger'[k] /\ EntriesOf(r, k)' = {Len(ledger[k]) + 1}
            BY <5>1, <6>1, AppendedEntries
          <6> QED
            BY <2>2, <3>2, <4>2, <5>2, <6>2
        <5>3. CASE q # r
          <6>1. EntriesOf(q, k)' = EntriesOf(q, k) /\ DOMAIN ledger[k] \subseteq DOMAIN ledger'[k]
            BY <5>1, <5>3, AppendedEntries
          <6> QED
            BY <2>2, <3>2, <5>3, <6>1 DEF Recorded
        <5> QED
          BY <5>2, <5>3
      <4> QED
        BY <4>1, <4>2
    <3>4. ASSUME NEW q \in Requests, q \in published'
          PROVE  pc'[q] \in Committed
      BY <3>1, <3>2, <3>4 DEF Recorded
    <3> QED
      BY <3>3, <3>4 DEF Recorded
  <2>4. CASE ~Commit(r)
    <3>1. /\ ledger' = ledger
          /\ \A q \in Requests : pc'[q] \in Committed <=> pc[q] \in Committed
      BY <2>1, <2>2, <2>4, OnlyCommitAppends
    <3>2. published' = published \/ (published' = published \cup {r} /\ pc[r] = "publish")
      BY <2>1, OnlyCommitAppends
    <3>3. \A q \in Requests, k \in Keys : EntriesOf(q, k)' = EntriesOf(q, k)
      BY <3>1 DEF EntriesOf
    <3> QED
      BY <2>2, <3>1, <3>2, <3>3 DEF Recorded, Committed
  <2> QED
    BY <2>3, <2>4
<1> QED
  BY <1>1, <1>2

\* "Every movement that changes a position appends EXACTLY ONE ledger entry"
\* (service/ledger.go), whatever races, fails or dies; a movement that did not commit
\* appends none, and events are published of committed movements only.
THEOREM OneEntryEachMovement == Spec => []OneEntryPerMovement
<1>1. Init => Recorded
  BY DEF Init, Recorded, EntriesOf, Committed
<1>2. IInv /\ Recorded /\ [Next]_vars => Recorded'
  BY StepKeepsRecorded
<1>3. Recorded => OneEntryPerMovement
  <2> SUFFICES ASSUME Recorded, NEW r \in Requests, NEW k \in Keys
               PROVE  Cardinality(EntriesOf(r, k)) =
                          IF pc[r] \in Committed /\ k \in Touches(op[r]) THEN 1 ELSE 0
    BY DEF Recorded, OneEntryPerMovement
  <2>1. CASE pc[r] \in Committed /\ k \in Touches(op[r])
    <3>1. PICK i \in DOMAIN ledger[k] : EntriesOf(r, k) = {i}
      BY <2>1 DEF Recorded
    <3> QED
      BY <2>1, <3>1, FS_Singleton
  <2>2. CASE ~(pc[r] \in Committed /\ k \in Touches(op[r]))
    <3>1. EntriesOf(r, k) = {}
      BY <2>2 DEF Recorded
    <3> QED
      BY <2>2, <3>1, FS_EmptySet
  <2> QED
    BY <2>1, <2>2
<1> QED
  BY <1>1, <1>2, <1>3, InductiveInvariant, PTL DEF Spec

LEMMA StepKeepsComputed ==
    ASSUME IInv, Computed, [Next]_vars
    PROVE  Computed'
<1>1. CASE UNCHANGED vars
  BY <1>1 DEF vars, Computed
<1>2. CASE Next
  <2>1. PICK r \in Requests :
            Step(r) \/ KeyRefused(r) \/ Fail(r) \/ LoseEvents(r) \/ DeadlockVictim(r)
    BY <1>2 DEF Next
  <2>2. op' = op
    BY <2>1, OnlyCommitAppends
  <2>3. CASE Commit(r)
    <3> SUFFICES ASSUME NEW k \in Keys, NEW i \in DOMAIN ledger'[k]
                 PROVE  LET e == ledger'[k][i]
                        IN  /\ op[e.by].kind = "TransferStock" => op[e.by].key # op[e.by].to
                            /\ e.before \in Buckets
                            /\ e.after = LegResult(op[e.by], k, e.before)
      BY <2>2, Zenon DEF Computed
    <3>1. ledger'[k] = IF k \in Touches(op[r]) THEN Append(ledger[k], NewEntry(r, k)) ELSE ledger[k]
      BY <2>1, <2>3, OnlyCommitAppends
    <3>2. CASE i \in DOMAIN ledger[k] /\ ledger'[k][i] = ledger[k][i]
      BY <3>2 DEF Computed
    <3>3. CASE k \in Touches(op[r]) /\ ledger'[k][i] = NewEntry(r, k)
      <4>1. /\ op[r].kind = "TransferStock" => op[r].key # op[r].to
            /\ loaded[r][k] \in Rows
        BY <2>3, <3>3, CommittedRows
      <4> QED
        BY <3>3, <4>1 DEF NewEntry, Before, After, Rows
    <3>4. CASE k \notin Touches(op[r])
      BY <3>1, <3>2, <3>4
    <3>5. CASE k \in Touches(op[r])
      <4>1. /\ DOMAIN ledger'[k] = DOMAIN ledger[k] \cup {Len(ledger[k]) + 1}
            /\ ledger'[k][Len(ledger[k]) + 1] = NewEntry(r, k)
            /\ \A j \in DOMAIN ledger[k] : ledger'[k][j] = ledger[k][j]
        BY <3>1, <3>5, AppendedEntries DEF NewEntry
      <4> QED
        BY <3>2, <3>3, <3>5, <4>1
    <3> QED
      BY <3>4, <3>5
  <2>4. CASE ~Commit(r)
    <3>1. ledger' = ledger
      BY <2>1, <2>4, OnlyCommitAppends
    <3> QED
      BY <2>2, <3>1 DEF Computed
  <2> QED
    BY <2>3, <2>4
<1> QED
  BY <1>1, <1>2

\* The two legs of a transfer move the same number of units.
LEMMA LegsBalance ==
    ASSUME NEW o \in Operations, o.kind = "TransferStock", o.key # o.to,
           NEW b \in Buckets, NEW c \in Buckets
    PROVE  Total(b) + Total(c) = Total(LegResult(o, o.key, b)) + Total(LegResult(o, o.to, c))
<1>1. o.amount \in Int
  BY OperationsAssumption, MaxIntAssumption DEF OperationType
<1>2. /\ LegResult(o, o.key, b) = [b EXCEPT !["available"] = @ - o.amount]
      /\ LegResult(o, o.to, c) = [c EXCEPT !["available"] = @ + o.amount]
  BY DEF LegResult, Leg, Result, Credit, Debit
<1>3. /\ b \in [Bucket -> Int] /\ c \in [Bucket -> Int]
  BY BalanceType DEF Buckets
<1> QED
  BY <1>1, <1>2, <1>3 DEF Total, Bucket

\* A transfer neither makes nor loses stock, however its two legs interleave with other
\* movements of the same positions (service.go TransferStock).
THEOREM TransfersConserve == Spec => []TransferConserves
<1>1. Init => Computed
  BY DEF Init, Computed
<1>2. IInv /\ Computed /\ [Next]_vars => Computed'
  BY StepKeepsComputed
<1>3. IInv /\ Computed => TransferConserves
  <2> SUFFICES ASSUME IInv, Computed, NEW r \in Requests, op[r].kind = "TransferStock",
                      NEW i \in EntriesOf(r, op[r].key), NEW j \in EntriesOf(r, op[r].to)
               PROVE  LET out == ledger[op[r].key][i]
                          in  == ledger[op[r].to][j]
                      IN  Total(out.before) + Total(in.before) = Total(out.after) + Total(in.after)
    BY Zenon DEF TransferConserves
  <2>1. op[r] \in Operations /\ op[r].key \in Keys /\ op[r].to \in Keys
    BY TouchesType DEF IInv, TypeOK
  <2>2. /\ op[r].key # op[r].to
        /\ ledger[op[r].key][i].before \in Buckets
        /\ ledger[op[r].key][i].after = LegResult(op[r], op[r].key, ledger[op[r].key][i].before)
    BY <2>1 DEF Computed, EntriesOf
  <2>3. /\ ledger[op[r].to][j].before \in Buckets
        /\ ledger[op[r].to][j].after = LegResult(op[r], op[r].to, ledger[op[r].to][j].before)
    BY <2>1 DEF Computed, EntriesOf
  <2> QED
    BY <2>1, <2>2, <2>3, LegsBalance
<1> QED
  BY <1>1, <1>2, <1>3, InductiveInvariant, PTL DEF Spec

-----------------------------------------------------------------------------
(***************************************************************************)
(* Inventory implements StockBook: a commit is one whole operation, every  *)
(* other step a stutter.  The Book operators below are the same arithmetic *)
(* reached through the instance.                                           *)
(***************************************************************************)
LEMMA SameArithmetic ==
    ASSUME NEW o, NEW k, NEW b
    PROVE  /\ Book!Touches(o) = Touches(o)
           /\ Book!MayOpen(o, k) = MayOpen(o, k)
           /\ Book!LegAccepted(o, k, b) = LegAccepted(o, k, b)
           /\ Book!LegResult(o, k, b) = LegResult(o, k, b)
           /\ Book!LegStorable(o, k, b) = LegStorable(o, k, b)
           /\ Book!RowCheck(k, b) = RowCheck(k, b)
           /\ Book!Empty = Empty
<1>1. Book!Touches(o) = Touches(o) /\ Book!MayOpen(o, k) = MayOpen(o, k)
    BY DEF Book!Touches, Touches, Book!MayOpen, MayOpen
<1>2. Book!Leg(o, k) = Leg(o, k)
    BY Zenon DEF Book!Leg, Leg
<1>3. /\ Book!Empty = Empty
      /\ \A serial, c : Book!RowCheck(serial, c) = RowCheck(serial, c)
      /\ \A c, d : Book!EntryCheck(c, d) = EntryCheck(c, d)
    <2>1. Book!Bucket = Bucket /\ \A c : Book!Total(c) = Total(c)
        BY Zenon DEF Book!Bucket, Bucket, Book!Total, Total
    <2>2. \A serial, c : Book!RowCheck(serial, c) = RowCheck(serial, c)
        BY <2>1, Zenon DEF Book!RowCheck, RowCheck
    <2>3. QED
        BY <2>1, <2>2, Zenon DEF Book!Empty, Empty, Book!EntryCheck, EntryCheck
<1>4. ASSUME NEW kind, NEW c, NEW m
      PROVE  /\ Book!Result(kind, c, m) = Result(kind, c, m)
             /\ \A serial : Book!Accepts(kind, serial, c, m) = Accepts(kind, serial, c, m)
    <2>1. \A x, y : Book!Plus(x, y) = Plus(x, y)
        BY Zenon DEF Book!Plus, Plus, Book!MinInt, MinInt
    <2>2. Book!Encumbered(c) = Encumbered(c)
        BY <2>1, Zenon DEF Book!Encumbered, Encumbered
    <2>3. \A d : Book!OnHand(d) = OnHand(d)
        BY <2>1, Zenon DEF Book!OnHand, OnHand
    <2>4. Book!Source = Source /\ Book!Sink = Sink /\ Book!Moves = Moves
        BY Zenon DEF Book!Source, Source, Book!Sink, Sink, Book!Moves, Moves
    <2>5. \A d, x : /\ Book!Credit(d, x, m) = Credit(d, x, m) /\ Book!Debit(d, x, m) = Debit(d, x, m)
                    /\ Book!Holds(d, x, m) = Holds(d, x, m) /\ Book!Covers(d, x, m) = Covers(d, x, m)
        BY Zenon DEF Book!Credit, Credit, Book!Debit, Debit, Book!Holds, Holds, Book!Covers, Covers
    <2>6. \A s, d : Book!SerialLimit(s, d) = SerialLimit(s, d)
        BY <2>3, Zenon DEF Book!SerialLimit, SerialLimit
    <2>7. Book!Plus(m, -Book!Encumbered(c)) = Plus(m, -Encumbered(c))
        BY <2>1, <2>2
    <2>8. Book!Result(kind, c, m) = Result(kind, c, m)
        BY <2>4, <2>5, <2>7, Zenon DEF Book!Result, Result
    <2>9. \A serial : Book!Accepts(kind, serial, c, m) = Accepts(kind, serial, c, m)
        BY <2>2, <2>4, <2>5, <2>6, <2>7, <2>8, Zenon DEF Book!Accepts, Accepts
    <2>10. QED
        BY <2>8, <2>9
<1>5. Book!LegResult(o, k, b) = LegResult(o, k, b)
    BY <1>2, <1>4, Zenon DEF Book!LegResult, LegResult
<1>6. Book!LegStorable(o, k, b) = LegStorable(o, k, b)
    BY <1>3, <1>5, Zenon DEF Book!LegStorable, LegStorable
<1>7. Book!LegAccepted(o, k, b) = LegAccepted(o, k, b)
    BY <1>2, <1>4, Zenon DEF Book!LegAccepted, LegAccepted
<1>8. QED
    BY <1>1, <1>3, <1>5, <1>6, <1>7

LEMMA CommitPerforms ==
    ASSUME IInv, NEW r \in Requests, Commit(r), StockWithinLimits'
    PROVE  Book!Perform(op[r])
<1> DEFINE o == op[r]
           before == [k \in Keys |-> row[k].b]
           after == [k \in Keys |-> row'[k].b]
<1>1. /\ o \in Operations /\ Touches(o) \subseteq Keys /\ written[r] = Touches(o)
      /\ o.kind = "TransferStock" => o.key # o.to
    BY CommittedRows
<1>2. \A k \in Keys : row[k].version \in Nat
    BY DEF IInv, TypeOK, Rows
<1>3. \A k \in Touches(o) : before[k] = loaded[r][k].b /\ loaded[r][k].version = row[k].version
    BY <1>1, CommittedRows
<1>4. \A k \in Touches(o) \ {k \in Keys : Exists(k)} : MayOpen(o, k)
    BY <1>1, <1>2, <1>3, CommittedRows DEF Accepted, Exists
<1>5. {k \in Keys : Exists(k)}' = {k \in Keys : Exists(k)} \cup Touches(o)
    BY <1>1, <1>2, CommittedRows DEF Exists
<1>6. OneEntryEach({k \in Keys : Exists(k)} \cup Touches(o))
    <2>1. \A j, k \in Keys : row'[j].version > 0 /\ row'[k].version > 0
                               /\ IndexEntry[j] = IndexEntry[k] => j = k
        BY DEF StockWithinLimits, OneEntryEach, Exists
    <2>2. \A k \in {k \in Keys : Exists(k)} \cup Touches(o) : k \in Keys /\ row'[k].version > 0
        BY <1>5, <1>1 DEF Exists
    <2>3. QED
        BY <2>1, <2>2 DEF OneEntryEach
<1>7. ASSUME NEW k \in Touches(o)
      PROVE  /\ LegAccepted(o, k, before[k]) /\ LegStorable(o, k, before[k])
             /\ after[k] = LegResult(o, k, before[k])
    BY <1>1, <1>3, CommittedRows DEF Accepted, LegStorable, After, Before
<1>8. \A k \in Keys \ Touches(o) : after[k] = before[k]
    BY <1>1, CommittedRows
<1>9. after = [k \in Keys |-> IF k \in Touches(o) THEN LegResult(o, k, before[k]) ELSE before[k]]
    BY <1>7, <1>8
<1>10. /\ Book!Touches(o) = Touches(o)
       /\ \A k : Book!MayOpen(o, k) = MayOpen(o, k)
       /\ \A k, b : /\ Book!LegAccepted(o, k, b) = LegAccepted(o, k, b)
                    /\ Book!LegResult(o, k, b) = LegResult(o, k, b)
                    /\ Book!LegStorable(o, k, b) = LegStorable(o, k, b)
    BY SameArithmetic
<1>11. \A S : Book!OneEntryEach(S) = OneEntryEach(S)
    BY DEF Book!OneEntryEach, OneEntryEach
<1>12. /\ o.kind = "TransferStock" => o.key # o.to
       /\ \A k \in Book!Touches(o) \ {k \in Keys : Exists(k)} : Book!MayOpen(o, k)
       /\ Book!OneEntryEach({k \in Keys : Exists(k)} \cup Book!Touches(o))
       /\ \A k \in Book!Touches(o) : Book!LegAccepted(o, k, before[k]) /\ Book!LegStorable(o, k, before[k])
    <2>1. \A k \in Book!Touches(o) \ {j \in Keys : Exists(j)} : Book!MayOpen(o, k)
        BY <1>4, <1>10
    <2>2. Book!OneEntryEach({k \in Keys : Exists(k)} \cup Book!Touches(o))
        BY <1>6, <1>10, <1>11
    <2>3. \A k \in Book!Touches(o) : Book!LegAccepted(o, k, before[k]) /\ Book!LegStorable(o, k, before[k])
        <3>1. ASSUME NEW k \in Touches(o)
              PROVE  Book!LegAccepted(o, k, before[k]) /\ Book!LegStorable(o, k, before[k])
            <4>1. LegAccepted(o, k, before[k]) /\ LegStorable(o, k, before[k])
                BY <1>7
            <4>2. /\ Book!LegAccepted(o, k, before[k]) = LegAccepted(o, k, before[k])
                  /\ Book!LegStorable(o, k, before[k]) = LegStorable(o, k, before[k])
                BY <1>10, Zenon
            <4>3. QED
                BY <4>1, <4>2, Zenon
        <3>2. QED
            BY <3>1, <1>10
    <2>4. QED
        BY <1>1, <2>1, <2>2, <2>3
<1>13. after = [k \in Keys |-> IF k \in Book!Touches(o) THEN Book!LegResult(o, k, before[k]) ELSE before[k]]
    BY <1>9, <1>10
<1>14. {k \in Keys : Exists(k)}' = {k \in Keys : Exists(k)} \cup Book!Touches(o)
    BY <1>5, <1>10
<1>15. QED
    BY <1>12, <1>13, <1>14 DEF Book!Perform

\* Stock movements are serializable: every behaviour of the statements, locks and
\* versions of the service is one of a book on which operations happen whole, one
\* at a time (service.go mutate, TransferStock; base.go UpdateOptimistic).
THEOREM MovementsAreAtomic == Spec => ImplementsBook
<1>1. Init => Book!BookInit
    <2> SUFFICES ASSUME Init PROVE Book!BookInit
        OBVIOUS
    <2> DEFINE there == {k \in Keys : Exists(k)}
    <2>1. \A k \in Keys : IF Exists(k) THEN row[k].b \in Openings ELSE row[k].b = Empty
        BY NoRowType DEF Init, Exists
    <2>2. OneEntryEach(there) /\ \A k \in Keys : RowCheck(k \in Serial, row[k].b)
        BY DEF Init
    <2>3. Book!Empty = Empty /\ \A k, b : Book!RowCheck(k, b) = RowCheck(k, b)
        BY SameArithmetic
    <2>4. Book!OneEntryEach(there)
        BY <2>2 DEF Book!OneEntryEach, OneEntryEach
    <2>5. [k \in Keys |-> row[k].b] \in [Keys -> Openings \cup {Book!Empty}]
        BY <2>1, <2>3
    <2>6. \A k \in Keys : IF k \in there THEN row[k].b \in Openings /\ Book!RowCheck(k \in Serial, row[k].b)
                                       ELSE row[k].b = Book!Empty
        BY <2>1, <2>2, <2>3
    <2>7. QED
        BY <2>4, <2>5, <2>6 DEF Book!BookInit
<1>2. IInv /\ IInv' /\ [Next]_vars => [Book!BookNext]_(Book!bookVars)
    <2> SUFFICES ASSUME IInv, IInv', [Next]_vars PROVE [Book!BookNext]_(Book!bookVars)
        OBVIOUS
    <2>1. CASE \E r \in Requests : Commit(r)
        <3>1. PICK r \in Requests : Commit(r)
            BY <2>1
        <3>2. StockWithinLimits' /\ op[r] \in Operations
            BY DEF IInv, TypeOK
        <3>3. Book!Perform(op[r])
            BY <3>1, <3>2, CommitPerforms
        <3>4. \E o \in Operations : Book!Perform(o)
            BY <3>2, <3>3, Zenon DEF Book!Perform
        <3>5. QED
            BY <3>4, Zenon DEF Book!BookNext
    <2>2. CASE ~ \E r \in Requests : Commit(r)
        <3>1. row' = row
            BY <2>2, OnlyCommitWrites
        <3>2. QED
            BY <3>1 DEF Book!bookVars, Exists
    <2>3. QED
        BY <2>1, <2>2
<1>3. QED
    BY <1>1, <1>2, InductiveInvariant, PTL DEF Spec, ImplementsBook, Book!BookSpec
=============================================================================
