---------------------------- MODULE StockMovements ----------------------------
(***************************************************************************)
(* The arithmetic of an inventory position: four balances, the ten         *)
(* operations the inventory service offers on them, and the constraints    *)
(* the two tables put on what may be stored.  Everything here is pure; the *)
(* atomic specification StockBook and the interleaved one Inventory are    *)
(* both written with it.                                                   *)
(*                                                                         *)
(* Go computes in int64.  MaxInt stands for math.MaxInt64, and Plus wraps  *)
(* around as the machine does; PostgreSQL instead raises an error when a   *)
(* bigint sum leaves the range, which is why the CHECKs use Total, the     *)
(* exact sum.                                                              *)
(***************************************************************************)
EXTENDS Integers

CONSTANTS
    MaxInt,         \* the largest int64
    Keys,           \* stock keys: (company, warehouse, location, product, attributes)
    Serial,         \* the keys whose attributes carry a serial number
    IndexEntry,     \* the entry of the unique indexes each key occupies
    HoldOnReceipt,  \* keys whose product the stock policy quarantines on receipt
    Operations      \* the requests clients may send

ASSUME MaxIntAssumption == MaxInt \in Nat \ {0}

-----------------------------------------------------------------------------
(* Balances *)

Bucket == {"available", "reserved", "allocated", "quarantined"}

Buckets == [Bucket -> 0 .. MaxInt]

Empty == [x \in Bucket |-> 0]

MinInt == -MaxInt - 1

\* int64 addition: the sum, wrapped into MinInt .. MaxInt.
Plus(x, y) ==
    LET width == MaxInt - MinInt + 1
    IN  IF x + y > MaxInt THEN x + y - width
        ELSE IF x + y < MinInt THEN x + y + width ELSE x + y

Encumbered(b) == Plus(Plus(b["reserved"], b["allocated"]), b["quarantined"])

OnHand(b) ==
    Plus(Plus(Plus(b["available"], b["reserved"]), b["allocated"]), b["quarantined"])

\* The exact number of units, which the database computes or fails on.
Total(b) == b["available"] + b["reserved"] + b["allocated"] + b["quarantined"]

SerialLimit(serial, b) == serial => OnHand(b) <= 1

-----------------------------------------------------------------------------
(* The behaviours of the aggregate *)

\* Bucket-to-bucket moves: the balance each draws from and the one it feeds.
Source == [ReserveStock |-> "available", ReleaseReservation |-> "reserved",
           AllocateStock |-> "reserved", DeallocateStock |-> "allocated",
           MoveToQuarantine |-> "available", ReleaseFromQuarantine |-> "quarantined"]

Sink == [ReserveStock |-> "reserved", ReleaseReservation |-> "available",
         AllocateStock |-> "allocated", DeallocateStock |-> "reserved",
         MoveToQuarantine |-> "quarantined", ReleaseFromQuarantine |-> "available"]

Moves == {"ReserveStock", "ReleaseReservation", "AllocateStock",
          "DeallocateStock", "MoveToQuarantine", "ReleaseFromQuarantine"}

Covers(b, x, n) == b[x] >= n

Holds(b, x, n) == b[x] <= MaxInt - n

Credit(b, x, n) == [b EXCEPT ![x] = @ + n]

\* Slips, here and in Inventory: what a careless change could make of the next
\* definition.  No specification uses them; mutation runs put them in its place.
DebitNothing(b, x, n) == b

DebitReservedFirst(b, x, n) ==
    [b EXCEPT ![IF x = "available" /\ b["reserved"] >= n THEN "reserved" ELSE x] = @ - n]

Debit(b, x, n) == [b EXCEPT ![x] = @ - n]

\* The balances a behaviour leaves, should it be accepted.
Result(kind, b, n) ==
    CASE kind = "ReceiveStock" -> Credit(b, "available", n)
      [] kind = "ReceiveAndHold" -> Credit(b, "quarantined", n)
      [] kind = "IssueStock" -> Debit(b, "available", n)
      [] kind = "AdjustStock" -> [b EXCEPT !["available"] = Plus(n, -Encumbered(b))]
      [] OTHER -> Credit(Debit(b, Source[kind], n), Sink[kind], n)

\* Whether the aggregate accepts a behaviour in the state b.
Accepts(kind, serial, b, n) ==
    \/ /\ kind \in {"ReceiveStock", "ReceiveAndHold"}
       /\ Holds(b, "available", n)
       /\ SerialLimit(serial, Credit(b, "available", n))
       /\ kind = "ReceiveAndHold" => Holds(b, "quarantined", n)
    \/ /\ kind = "IssueStock"
       /\ Covers(b, "available", n)
    \/ /\ kind \in Moves
       /\ Covers(b, Source[kind], n)
       /\ Holds(b, Sink[kind], n)
    \/ /\ kind = "AdjustStock"
       /\ n >= Encumbered(b)
       /\ Plus(n, -Encumbered(b)) >= 0
       /\ SerialLimit(serial, Result(kind, b, n))

-----------------------------------------------------------------------------
(* What the tables accept *)

\* inventory_positions_buckets_check and inventory_positions_attributes_check
RowCheck(serial, b) == (\A x \in Bucket : b[x] >= 0) /\ (serial => Total(b) <= 1)

\* Slip: the delta columns without their CHECK.
EntryUnchecked(before, after) == TRUE

\* inventory_ledger_delta_check: evaluating it fails when a total overflows.
EntryCheck(before, after) == Total(before) <= MaxInt /\ Total(after) <= MaxInt

-----------------------------------------------------------------------------
(* Requests *)

Kinds == Moves \cup {"ReceiveStock", "IssueStock", "AdjustStock", "TransferStock"}

\* A request names its position by a key; to is its own key except in a
\* transfer.  Only a count may be zero.
OperationType ==
    [kind : Kinds, key : Keys, to : Keys, amount : 0 .. MaxInt]

ASSUME OperationsAssumption ==
    /\ Operations \subseteq OperationType
    /\ \A o \in Operations :
         /\ o.kind # "AdjustStock" => o.amount > 0
         /\ o.kind # "TransferStock" => o.to = o.key

\* One position per key; a serial number is unique wherever it lies.
ASSUME IndexAssumption ==
    /\ Serial \subseteq Keys
    /\ HoldOnReceipt \subseteq Keys
    /\ \A j, k \in Keys :
         IndexEntry[j] = IndexEntry[k] => j = k \/ {j, k} \subseteq Serial

Touches(o) == {o.key, o.to}

\* The aggregate behaviour an operation calls on the position of key k.
Leg(o, k) ==
    CASE o.kind = "TransferStock" -> IF k = o.key THEN "IssueStock" ELSE "ReceiveStock"
      [] o.kind = "ReceiveStock" /\ k \in HoldOnReceipt -> "ReceiveAndHold"
      [] OTHER -> o.kind

\* The operations that go through GetOrCreatePosition for key k.
MayOpen(o, k) == o.kind = "ReceiveStock" \/ (o.kind = "TransferStock" /\ k # o.key)

LegAccepted(o, k, b) == Accepts(Leg(o, k), k \in Serial, b, o.amount)

LegResult(o, k, b) == Result(Leg(o, k), b, o.amount)

LegStorable(o, k, b) ==
    /\ RowCheck(k \in Serial, LegResult(o, k, b))
    /\ EntryCheck(b, LegResult(o, k, b))
=============================================================================
