---------------------------- MODULE ReceivingRules ----------------------------
(***************************************************************************)
(* The rules of inbound goods: purchase orders, goods receipts and the     *)
(* stock a receipt posts.  Everything here is pure; the atomic             *)
(* specification ReceivingBook and the interleaved one Receiving are both  *)
(* written with it.                                                        *)
(*                                                                         *)
(* A receipt's lines are kept as the postings arrivalsFor makes of them: a *)
(* line that names serial numbers stands as one arrival of one unit each.  *)
(* An order's lines are a function of the product, as the order lists a    *)
(* product at most once; nothing ordered means no line.  Of a stock        *)
(* position, modelled in full by Inventory, only its units are kept.       *)
(***************************************************************************)
EXTENDS Integers, FiniteSets, SequencesExt

CONSTANTS
    MaxInt,      \* the largest int64
    Receipts,    \* goods receipts
    Orders,      \* purchase orders
    Positions,   \* stock positions
    Products,
    ProductOf,   \* the product of each position
    Capacity,    \* the units a position may hold: MaxInt, or 1 with a serial number
    Number,      \* the document number of each receipt and order
    NoOrder,     \* the reference of a receipt that names no purchase order
    Operations   \* the requests clients may send

ASSUME RulesAssumption ==
    /\ MaxInt \in Nat \ {0}
    /\ Receipts \cap Orders = {} /\ Positions \cap (Receipts \cup Orders) = {}
    /\ NoOrder \notin Orders
    /\ ProductOf \in [Positions -> Products]
    /\ Capacity \in [Positions -> 0 .. MaxInt]

Documents == Receipts \cup Orders

Items == Documents \cup Positions

-----------------------------------------------------------------------------
(* Documents *)

ReceiptStatus == {"DRAFT", "CONFIRMED", "RECEIVED", "CANCELLED"}

OrderStatus == {"DRAFT", "APPROVED", "PARTIALLY_RECEIVED", "COMPLETED", "CANCELLED"}

\* Not created yet, and softly deleted.
Absent == {"NONE", "DELETED"}

Arrivals == [position : Positions, units : 1 .. MaxInt]

OrderLines == [Products -> [ordered : 0 .. MaxInt, received : 0 .. MaxInt]]

Lines(x) == IF x \in Receipts THEN Seq(Arrivals) ELSE OrderLines

NoLines(x) ==
    IF x \in Receipts THEN <<>> ELSE [p \in Products |-> [ordered |-> 0, received |-> 0]]

Data(x) ==
    IF x \in Positions
    THEN 0 .. MaxInt
    ELSE [status : Absent \cup (IF x \in Receipts THEN ReceiptStatus ELSE OrderStatus),
          order : IF x \in Receipts THEN Orders \cup {NoOrder} ELSE {NoOrder},
          lines : Lines(x)]

NoData(x) ==
    IF x \in Positions THEN 0 ELSE [status |-> "NONE", order |-> NoOrder, lines |-> NoLines(x)]

SameNumber(x, y) ==
    /\ {x, y} \subseteq Receipts \/ {x, y} \subseteq Orders
    /\ Number[x] = Number[y]

HasLines(x, d) ==
    IF x \in Receipts THEN d.lines # <<>> ELSE \E p \in Products : d.lines[p].ordered > 0

HasReceipts(lines) == \E p \in Products : lines[p].received > 0

FullyReceived(lines) ==
    /\ \E p \in Products : lines[p].ordered > 0
    /\ \A p \in Products : lines[p].received = lines[p].ordered

\* Slip: an order is complete with its first complete line.
DeriveEagerly(lines) ==
    IF \E p \in Products : lines[p].ordered > 0 /\ lines[p].received = lines[p].ordered
    THEN "COMPLETED"
    ELSE IF HasReceipts(lines) THEN "PARTIALLY_RECEIVED" ELSE "APPROVED"

DeriveStatus(lines) ==
    IF FullyReceived(lines) THEN "COMPLETED"
    ELSE IF HasReceipts(lines) THEN "PARTIALLY_RECEIVED" ELSE "APPROVED"

\* The status of a document fits its lines: no approved or confirmed document is
\* empty, an order's status says what arrived, and nothing arrives for the others.
StatusFits(x, d) ==
    IF x \in Receipts
    THEN d.status \in {"CONFIRMED", "RECEIVED"} => HasLines(x, d)
    ELSE /\ d.status = "APPROVED" => HasLines(x, d)
         /\ d.status = "COMPLETED" <=> FullyReceived(d.lines)
         /\ d.status \in {"PARTIALLY_RECEIVED", "COMPLETED"} <=> HasReceipts(d.lines)

NeverOverReceived(lines) == \A p \in Products : lines[p].received <= lines[p].ordered

\* Documents and stock the services could have left behind.
WellFormed(w) ==
    /\ w = [x \in Items |-> w[x]]
    /\ \A x \in Items : w[x] \in Data(x)
    /\ \A x \in Documents : StatusFits(x, w[x]) /\ (w[x].status = "NONE" => w[x] = NoData(x))
    /\ \A x \in Orders : NeverOverReceived(w[x].lines)
    /\ \A x \in Positions : w[x] <= Capacity[x]
    /\ \A x, y \in Documents :
         SameNumber(x, y) /\ {w[x].status, w[y].status} \cap Absent = {} => x = y

-----------------------------------------------------------------------------
(* Commands: what a request, or a call nested in Receive, does to one item *)

Kinds == {"Create", "Update", "Confirm", "Receive", "Approve", "Cancel", "Delete"}

\* A request to edit a document carries its whole new content: the lines of a
\* receipt, the quantities an order asks for; other requests carry nothing.  What
\* the services refuse of a content by itself (a line twice, no supplier) is not sent.
IsOperation(o) ==
    /\ o.kind \in Kinds
    /\ o.item \in Documents
    /\ o.kind \in {"Confirm", "Receive"} => o.item \in Receipts
    /\ o.kind = "Approve" => o.item \in Orders
    /\ o.order \in (IF o.item \in Receipts THEN Orders \cup {NoOrder} ELSE {NoOrder})
    /\ o.lines \in Seq(Arrivals)
    /\ o.ordered \in [Products -> 0 .. MaxInt]

ASSUME OperationsAssumption == \A o \in Operations : IsOperation(o)

Post(arrival) == [kind |-> "Post", item |-> arrival.position, units |-> arrival.units]

Record(order, product, n) == [kind |-> "Record", item |-> order, product |-> product, units |-> n]

\* Slip: a received receipt can be cancelled.
FromStatusLoosely(x, kind) ==
    IF kind = "Cancel" THEN ReceiptStatus \cup OrderStatus ELSE
    CASE kind \in {"Update", "Confirm", "Approve"} -> {"DRAFT"}
      [] kind = "Receive" -> {"CONFIRMED"}
      [] OTHER -> {"APPROVED", "PARTIALLY_RECEIVED"}

\* The statuses from which the aggregate allows a command.
FromStatus(x, kind) ==
    CASE kind \in {"Update", "Confirm", "Approve"} -> {"DRAFT"}
      [] kind = "Receive" -> {"CONFIRMED"}
      [] kind = "Cancel" -> IF x \in Receipts THEN {"DRAFT", "CONFIRMED"} ELSE {"DRAFT", "APPROVED"}
      [] OTHER -> {"APPROVED", "PARTIALLY_RECEIVED"}

\* Slip: no check of the room left.
RoomUnchecked(c, units) == TRUE

Room(c, units) == units <= Capacity[c.item] - c.units

\* An order lists the product, and the amount is a quantity it still expects.
LineAccepts(lines, product, n) ==
    /\ product \in DOMAIN lines
    /\ lines[product].ordered > 0
    /\ n \in 1 .. MaxInt
    /\ lines[product].received + n <= lines[product].ordered

\* Whether the aggregate accepts the command when its item is d.
Accepts(c, d) ==
    IF c.kind = "Post" THEN Room(c, d)
    ELSE /\ d.status \in FromStatus(c.item, c.kind)
         /\ c.kind \in {"Confirm", "Approve"} => HasLines(c.item, d)
         /\ c.kind = "Cancel" /\ c.item \in Orders => ~HasReceipts(d.lines)
         /\ c.kind = "Record" => LineAccepts(d.lines, c.product, c.units)

Booked(lines, product, n) == [lines EXCEPT ![product].received = @ + n]

\* The lines an edited document gets.
Edited(c) ==
    IF c.item \in Receipts THEN c.lines
    ELSE [p \in Products |-> [ordered |-> c.ordered[p], received |-> 0]]

\* What an accepted command leaves.
Result(c, d) ==
    CASE c.kind = "Post" -> d + c.units
      [] c.kind = "Create" -> [status |-> "DRAFT", order |-> c.order, lines |-> Edited(c)]
      [] c.kind = "Update" -> [d EXCEPT !.order = c.order, !.lines = Edited(c)]
      [] c.kind = "Confirm" -> [d EXCEPT !.status = "CONFIRMED"]
      [] c.kind = "Receive" -> [d EXCEPT !.status = "RECEIVED"]
      [] c.kind = "Approve" -> [d EXCEPT !.status = "APPROVED"]
      [] c.kind = "Cancel" -> [d EXCEPT !.status = "CANCELLED"]
      [] c.kind = "Delete" -> [d EXCEPT !.status = "DELETED", !.lines = NoLines(c.item)]
      [] c.kind = "Record" -> LET lines == Booked(d.lines, c.product, c.units)
                              IN  [d EXCEPT !.lines = lines, !.status = DeriveStatus(lines)]

\* A file of documents and stock on which the command was carried out.
Apply(b, c) == [b EXCEPT ![c.item] = Result(c, @)]

\* The file after each of the calls, run one after another.
Replay(b, calls) ==
    LET after[k \in 0 .. Len(calls)] == IF k = 0 THEN b ELSE Apply(after[k - 1], calls[k])
    IN  after

\* Each call is accepted on what the ones before it left.
AllAccepted(b, calls) ==
    \A k \in 1 .. Len(calls) : Accepts(calls[k], Replay(b, calls)[k - 1][calls[k].item])

-----------------------------------------------------------------------------
(* What receiving a receipt calls *)

\* int64 arithmetic, once the exact sum is known.
Wrap(n) == ((n + MaxInt + 1) % (2 * MaxInt + 2)) - (MaxInt + 1)

\* The exact number of units of a product on a receipt.
Units(lines, product) ==
    SumFunctionOnSet([i \in DOMAIN lines |-> lines[i].units],
                     {i \in DOMAIN lines : ProductOf[lines[i].position] = product})

\* The products in the order of their first line.
ProductsOf(lines) ==
    LET product(i) == ProductOf[lines[i].position]
        firsts     == {i \in DOMAIN lines : \A j \in 1 .. (i - 1) : product(j) # product(i)}
        nth(k)     == CHOOSE i \in firsts : Cardinality({j \in firsts : j <= i}) = k
    IN  [k \in 1 .. Cardinality(firsts) |-> product(nth(k))]

\* Slip: the order is told of the first line of each product.
RecordsOfFirstLine(d) ==
    LET products == ProductsOf(d.lines)
    IN  [i \in DOMAIN products |->
            Record(d.order, products[i],
                   Head(SelectSeq(d.lines, LAMBDA a : ProductOf[a.position] = products[i])).units)]

\* recordAgainstPurchaseOrder: one call per product, with the sum of its lines.
Records(d) ==
    LET products == ProductsOf(d.lines)
    IN  [i \in DOMAIN products |->
            Record(d.order, products[i], Wrap(Units(d.lines, products[i])))]

\* PostArrival for every line, then the order's receipts if one is referenced.
Calls(d) ==
    [i \in DOMAIN d.lines |-> Post(d.lines[i])]
        \o (IF d.order = NoOrder THEN <<>> ELSE Records(d))
=============================================================================
