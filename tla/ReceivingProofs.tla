--------------------------- MODULE ReceivingProofs ---------------------------
(***************************************************************************)
(* Proofs about receipts and orders, for every set of documents, requests, *)
(* operations and openings.                                                *)
(***************************************************************************)
EXTENDS Receiving, FiniteSetTheorems, SequenceTheorems, TLAPS

RowOf(x) == [version : Nat, data : Data(x)]

\* The calls a receipt makes, and the commands that load their document first.
IsNested(c) == (c.kind = "Post" /\ c.item \in Positions) \/ (c.kind = "Record" /\ c.item \in Orders)

Changes(c) ==
    \/ c \in Operations /\ c.kind \notin {"Create", "Delete"}
    \/ c.kind = "Record" /\ c.item \in Orders

-----------------------------------------------------------------------------
(* What the aggregates do to a document *)

LEMMA DataShape ==
    ASSUME NEW x \in Documents, NEW d \in Data(x)
    PROVE  /\ d = [status |-> d.status, order |-> d.order, lines |-> d.lines]
           /\ d.status \in Absent \cup (IF x \in Receipts THEN ReceiptStatus ELSE OrderStatus)
           /\ d.order \in (IF x \in Receipts THEN Orders \cup {NoOrder} ELSE {NoOrder})
           /\ d.lines \in Lines(x)
<1>1. x \notin Positions
    BY RulesAssumption DEF Documents
<1>2. QED
    BY <1>1 DEF Data

LEMMA IsData ==
    ASSUME NEW x \in Documents, NEW d,
           d = [status |-> d.status, order |-> d.order, lines |-> d.lines],
           d.status \in Absent \cup (IF x \in Receipts THEN ReceiptStatus ELSE OrderStatus),
           d.order \in (IF x \in Receipts THEN Orders \cup {NoOrder} ELSE {NoOrder}),
           d.lines \in Lines(x)
    PROVE  d \in Data(x)
<1>1. x \notin Positions
    BY RulesAssumption DEF Documents
<1>2. QED
    BY <1>1 DEF Data

LEMMA DocumentsDiffer == \A x \in Documents : (x \in Orders <=> x \notin Receipts) /\ x \notin Positions
BY RulesAssumption DEF Documents

\* Booking an arrival leaves an order whose status says what arrived.
LEMMA RecordFits ==
    ASSUME NEW x \in Orders, NEW d \in Data(x), NEW c, c.kind = "Record", c.item = x,
           Accepts(c, d), StatusFits(x, d)
    PROVE  /\ Result(c, d) \in Data(x) /\ StatusFits(x, Result(c, d))
           /\ Stands(x, d, Result(c, d)) /\ Result(c, d).status \notin Absent \cup {"DRAFT"}
<1>1. x \in Documents /\ x \notin Receipts
    BY RulesAssumption DEF Documents
<1>2. /\ d = [status |-> d.status, order |-> d.order, lines |-> d.lines] /\ d.order = NoOrder
      /\ d.lines \in OrderLines
    BY <1>1, DataShape DEF Lines
<1>3. /\ d.status \in {"APPROVED", "PARTIALLY_RECEIVED"}
      /\ LineAccepts(d.lines, c.product, c.units)
    BY <1>1 DEF Accepts, FromStatus
<1> DEFINE p == c.product
           n == c.units
           lines == Booked(d.lines, p, n)
<1>4. p \in Products /\ n \in 1 .. MaxInt /\ d.lines[p].ordered > 0 /\ d.lines[p].received + n <= d.lines[p].ordered
    BY <1>2, <1>3 DEF LineAccepts, OrderLines
<1>5. /\ lines \in OrderLines
      /\ \A q \in Products : lines[q].ordered = d.lines[q].ordered
      /\ \A q \in Products \ {p} : lines[q].received = d.lines[q].received
      /\ lines[p].received = d.lines[p].received + n
    BY <1>2, <1>4, RulesAssumption DEF Booked, OrderLines
<1>6. Result(c, d) = [status |-> DeriveStatus(lines), order |-> d.order, lines |-> lines]
    BY <1>2 DEF Result
<1> HIDE DEF p, n, lines
<1>7. HasReceipts(lines)
    BY <1>2, <1>4, <1>5, RulesAssumption DEF HasReceipts, OrderLines
<1>8. DeriveStatus(lines) \in {"PARTIALLY_RECEIVED", "COMPLETED"}
      /\ (DeriveStatus(lines) = "COMPLETED" <=> FullyReceived(lines))
    BY <1>7 DEF DeriveStatus
<1>9. Result(c, d) \in Data(x)
    BY <1>1, <1>2, <1>5, <1>6, <1>8, IsData DEF OrderStatus, Lines
<1>10. StatusFits(x, Result(c, d))
    BY <1>1, <1>6, <1>7, <1>8 DEF StatusFits
<1>11. \A q \in Products : lines[q].received >= d.lines[q].received
    BY <1>2, <1>4, <1>5, RulesAssumption DEF OrderLines
<1>12. Stands(x, d, Result(c, d))
    BY <1>1, <1>2, <1>3, <1>5, <1>6, <1>8, <1>11 DEF Stands, Frozen, Absent
<1>13. QED
    BY <1>6, <1>8, <1>9, <1>10, <1>12 DEF Absent

LEMMA EditedLines ==
    ASSUME NEW x \in Documents, NEW c, c.item = x, IsOperation(c)
    PROVE  Edited(c) \in Lines(x)
<1>1. CASE x \in Receipts
    BY <1>1 DEF Edited, Lines, IsOperation
<1>2. CASE x \notin Receipts
    <2>1. c.ordered \in [Products -> 0 .. MaxInt] /\ 0 \in 0 .. MaxInt
        BY RulesAssumption DEF IsOperation
    <2>2. \A p \in Products : [ordered |-> c.ordered[p], received |-> 0]
              \in [ordered : 0 .. MaxInt, received : 0 .. MaxInt]
        BY <2>1
    <2>3. QED
        BY <1>2, <2>2 DEF Edited, Lines, OrderLines
<1>3. QED
    BY <1>1, <1>2

\* Any other change keeps what was already settled.
LEMMA ChangeFits ==
    ASSUME NEW x \in Documents, NEW d \in Data(x), NEW c \in Operations, c.item = x,
           c.kind \notin {"Create", "Delete"}, Accepts(c, d), StatusFits(x, d)
    PROVE  /\ Result(c, d) \in Data(x) /\ StatusFits(x, Result(c, d))
           /\ Stands(x, d, Result(c, d)) /\ Result(c, d).status \notin Absent
<1>1. /\ d = [status |-> d.status, order |-> d.order, lines |-> d.lines]
      /\ d.status \in Absent \cup (IF x \in Receipts THEN ReceiptStatus ELSE OrderStatus)
      /\ d.order \in (IF x \in Receipts THEN Orders \cup {NoOrder} ELSE {NoOrder})
      /\ d.lines \in Lines(x)
    BY DataShape
<1>2. IsOperation(c) /\ c.kind \in {"Update", "Confirm", "Receive", "Approve", "Cancel"}
    BY OperationsAssumption DEF IsOperation, Kinds
<1>3. d.status \in FromStatus(x, c.kind) /\ (c.kind \in {"Confirm", "Approve"} => HasLines(x, d))
      /\ (c.kind = "Cancel" /\ x \in Orders => ~HasReceipts(d.lines))
    BY <1>2 DEF Accepts
<1>4. x \in Orders <=> x \notin Receipts
    BY DocumentsDiffer
<1>5. CASE c.kind = "Update"
    <2>1. d.status = "DRAFT"
        BY <1>3, <1>5 DEF FromStatus
    <2>2. Result(c, d) = [status |-> "DRAFT", order |-> c.order, lines |-> Edited(c)]
        BY <1>1, <1>5, <2>1 DEF Result
    <2>3. Edited(c) \in Lines(x)
        BY <1>2, EditedLines
    <2>4. Result(c, d) \in Data(x)
        BY <1>2, <2>2, <2>3, IsData DEF IsOperation, ReceiptStatus, OrderStatus
    <2>5. x \in Orders => ~HasReceipts(Edited(c)) /\ ~FullyReceived(Edited(c))
        BY <1>2, <1>4 DEF Edited, HasReceipts, FullyReceived, IsOperation
    <2>6. QED
        BY <1>4, <2>1, <2>2, <2>4, <2>5 DEF StatusFits, Stands, Frozen, Absent
<1>6. CASE c.kind = "Confirm"
    <2>1. d.status = "DRAFT" /\ x \in Receipts
        BY <1>2, <1>3, <1>6 DEF FromStatus, IsOperation
    <2>2. Result(c, d) = [status |-> "CONFIRMED", order |-> d.order, lines |-> d.lines]
        BY <1>1, <1>6 DEF Result
    <2>3. Result(c, d) \in Data(x)
        BY <1>1, <2>1, <2>2, IsData DEF ReceiptStatus
    <2>4. QED
        BY <1>3, <1>6, <2>1, <2>2, <2>3 DEF StatusFits, HasLines, Stands, Frozen, Absent
<1>7. CASE c.kind = "Receive"
    <2>1. d.status = "CONFIRMED" /\ x \in Receipts
        BY <1>2, <1>3, <1>7 DEF FromStatus, IsOperation
    <2>2. Result(c, d) = [status |-> "RECEIVED", order |-> d.order, lines |-> d.lines]
        BY <1>1, <1>7 DEF Result
    <2>3. Result(c, d) \in Data(x)
        BY <1>1, <2>1, <2>2, IsData DEF ReceiptStatus
    <2>4. QED
        BY <2>1, <2>2, <2>3 DEF StatusFits, HasLines, Stands, Frozen, Absent
<1>8. CASE c.kind = "Approve"
    <2>1. d.status = "DRAFT" /\ x \in Orders
        BY <1>2, <1>3, <1>8 DEF FromStatus, IsOperation
    <2>2. Result(c, d) = [status |-> "APPROVED", order |-> d.order, lines |-> d.lines]
        BY <1>1, <1>8 DEF Result
    <2>3. Result(c, d) \in Data(x)
        BY <1>1, <1>4, <2>1, <2>2, IsData DEF OrderStatus
    <2>4. QED
        BY <1>3, <1>4, <1>8, <2>1, <2>2, <2>3 DEF StatusFits, HasLines, Stands, Frozen, Absent
<1>9. CASE c.kind = "Cancel"
    <2>1. d.status \in {"DRAFT", "CONFIRMED", "APPROVED"}
        BY <1>3, <1>9 DEF FromStatus
    <2>2. Result(c, d) = [status |-> "CANCELLED", order |-> d.order, lines |-> d.lines]
        BY <1>1, <1>9 DEF Result
    <2>3. Result(c, d) \in Data(x)
        BY <1>1, <2>2, IsData DEF ReceiptStatus, OrderStatus
    <2>4. x \in Orders => \A p \in Products : d.lines[p].received \in Nat
        BY <1>1, <1>4, RulesAssumption DEF Lines, OrderLines
    <2>5. QED
        BY <1>4, <2>1, <2>2, <2>3, <2>4 DEF StatusFits, HasLines, Stands, Frozen, Absent
<1>10. QED
    BY <1>2, <1>5, <1>6, <1>7, <1>8, <1>9

LEMMA NoLinesAreLines == \A x \in Documents : NoLines(x) \in Lines(x)
<1>1. SUFFICES ASSUME NEW x \in Documents PROVE NoLines(x) \in Lines(x)
    OBVIOUS
<1>2. CASE x \in Receipts
    BY <1>2 DEF NoLines, Lines
<1>3. CASE x \notin Receipts
    <2>1. [ordered |-> 0, received |-> 0] \in [ordered : 0 .. MaxInt, received : 0 .. MaxInt]
        BY RulesAssumption
    <2>2. QED
        BY <1>3, <2>1 DEF NoLines, Lines, OrderLines
<1>4. QED
    BY <1>2, <1>3

LEMMA CreationFits ==
    ASSUME NEW x \in Documents, NEW d, NEW c \in Operations, c.item = x, c.kind = "Create"
    PROVE  /\ Result(c, d) \in Data(x) /\ StatusFits(x, Result(c, d)) /\ Result(c, d).status = "DRAFT"
<1>1. IsOperation(c) /\ (x \in Orders <=> x \notin Receipts)
    BY OperationsAssumption, DocumentsDiffer
<1>2. Result(c, d) = [status |-> "DRAFT", order |-> c.order, lines |-> Edited(c)] /\ Edited(c) \in Lines(x)
    BY <1>1, EditedLines DEF Result
<1>3. Result(c, d) \in Data(x)
    BY <1>1, <1>2, IsData DEF IsOperation, ReceiptStatus, OrderStatus
<1>4. x \in Orders => ~HasReceipts(Edited(c)) /\ ~FullyReceived(Edited(c))
    BY <1>1 DEF Edited, HasReceipts, FullyReceived, IsOperation
<1>5. QED
    BY <1>1, <1>2, <1>3, <1>4 DEF StatusFits

LEMMA DeletionFits ==
    ASSUME NEW x \in Documents, NEW d \in Data(x), NEW c, c.item = x, c.kind = "Delete", d.status = "DRAFT"
    PROVE  /\ Result(c, d) \in Data(x) /\ StatusFits(x, Result(c, d)) /\ Stands(x, d, Result(c, d))
           /\ Result(c, d).status = "DELETED"
<1>1. /\ d = [status |-> d.status, order |-> d.order, lines |-> d.lines]
      /\ d.order \in (IF x \in Receipts THEN Orders \cup {NoOrder} ELSE {NoOrder})
      /\ x \in Orders <=> x \notin Receipts
    BY DataShape, DocumentsDiffer
<1>2. Result(c, d) = [status |-> "DELETED", order |-> d.order, lines |-> NoLines(x)]
    BY <1>1 DEF Result
<1>3. NoLines(x) \in Lines(x)
    BY NoLinesAreLines
<1>4. Result(c, d) \in Data(x)
    BY <1>1, <1>2, <1>3, IsData DEF Absent
<1>5. x \in Orders => ~HasReceipts(NoLines(x)) /\ ~FullyReceived(NoLines(x))
    BY <1>1 DEF NoLines, HasReceipts, FullyReceived
<1>6. QED
    BY <1>1, <1>2, <1>4, <1>5 DEF StatusFits, Stands, Frozen, Absent

LEMMA StandsStill ==
    ASSUME NEW x \in Documents, NEW d \in Data(x)
    PROVE  Stands(x, d, d)
<1>1. x \notin Receipts => \A p \in Products : d.lines[p].received \in Nat
    BY DataShape, RulesAssumption DEF Lines, OrderLines
<1>2. QED
    BY <1>1 DEF Stands

LEMMA StandsOn ==
    ASSUME NEW x \in Documents, NEW d \in Data(x), NEW e \in Data(x), NEW f \in Data(x),
           Stands(x, d, e), Stands(x, e, f)
    PROVE  Stands(x, d, f)
<1>1. CASE d.status \in Frozen
    BY <1>1 DEF Stands
<1>2. CASE d.status \in Absent \cup {"DRAFT"}
    BY <1>1, <1>2 DEF Stands
<1>3. CASE d.status \notin Frozen \cup Absent \cup {"DRAFT"}
    <2>1. e.status \notin Absent \cup {"DRAFT"}
        BY <1>3 DEF Stands
    <2>2. f.status \notin Absent \cup {"DRAFT"} /\ e.order = d.order /\ f.order = e.order
        BY <1>3, <2>1 DEF Stands
    <2>3. CASE x \in Receipts
        BY <1>3, <2>1, <2>2, <2>3 DEF Stands
    <2>4. CASE x \notin Receipts
        <3>1. \A p \in Products : d.lines[p].received \in Nat /\ e.lines[p].received \in Nat
                  /\ f.lines[p].received \in Nat
            BY <2>4, DataShape, RulesAssumption DEF Lines, OrderLines
        <3>2. \A p \in Products :
                /\ e.lines[p].ordered = d.lines[p].ordered /\ e.lines[p].received >= d.lines[p].received
                /\ f.lines[p].ordered = e.lines[p].ordered /\ f.lines[p].received >= e.lines[p].received
            BY <1>3, <2>1, <2>4 DEF Stands
        <3>3. \A p \in Products :
                f.lines[p].ordered = d.lines[p].ordered /\ f.lines[p].received >= d.lines[p].received
            BY <3>1, <3>2
        <3>4. QED
            BY <1>3, <2>2, <2>4, <3>3 DEF Stands
    <2>5. QED
        BY <2>3, <2>4
<1>4. QED
    BY <1>1, <1>2, <1>3

\* What receiving a receipt calls is a sequence of postings and order receipts.
LEMMA CallsAreNested ==
    ASSUME NEW d, d.lines \in Seq(Arrivals), d.order \in Orders \cup {NoOrder}
    PROVE  \E S : Calls(d) \in Seq(S) /\ \A c \in S : IsNested(c)
<1> DEFINE posts == [i \in DOMAIN d.lines |-> Post(d.lines[i])]
           S == {c \in {posts[i] : i \in DOMAIN posts} \cup {Records(d)[i] : i \in DOMAIN Records(d)} : IsNested(c)}
<1>1. posts \in Seq(S)
    <2>1. DOMAIN d.lines = 1 .. Len(d.lines) /\ Len(d.lines) \in Nat
          /\ \A i \in DOMAIN d.lines : d.lines[i] \in Arrivals
        OBVIOUS
    <2>2. \A i \in DOMAIN posts : posts[i] \in S
        BY <2>1 DEF IsNested, Post, Arrivals
    <2>3. posts \in [1 .. Len(d.lines) -> S]
        BY <2>1, <2>2
    <2>4. QED
        BY <2>1, <2>3
<1>2. ASSUME d.order \in Orders
      PROVE  Records(d) \in Seq(S)
    <2>1. PICK n \in Nat : DOMAIN Records(d) = 1 .. n
        <3> DEFINE product(i) == ProductOf[d.lines[i].position]
                   firsts == {i \in DOMAIN d.lines : \A j \in 1 .. (i - 1) : product(j) # product(i)}
        <3> DEFINE len == Len(d.lines)
        <3>0. len \in Nat /\ DOMAIN d.lines = 1 .. len
            OBVIOUS
        <3>1. IsFiniteSet(1 .. len) /\ firsts \in SUBSET (1 .. len)
            <4>1. firsts \in SUBSET (1 .. len)
                BY <3>0
            <4> HIDE DEF firsts, len
            <4>2. QED
                BY <3>0, <4>1, FS_Interval
        <3>2. Cardinality(firsts) \in Nat
            BY <3>1, FS_Subset, FS_CardinalityType
        <3>3. DOMAIN Records(d) = 1 .. Cardinality(firsts)
            BY DEF Records, ProductsOf
        <3>4. QED
            BY <3>2, <3>3
    <2>2. \A i \in DOMAIN Records(d) : IsNested(Records(d)[i])
        BY <1>2 DEF Records, Record, IsNested
    <2>3. Records(d) = [i \in DOMAIN Records(d) |-> Records(d)[i]]
        BY DEF Records
    <2>4. \A i \in 1 .. n : Records(d)[i] \in S
        BY <2>1, <2>2
    <2> HIDE DEF S
    <2>5. Records(d) \in [1 .. n -> S]
        BY <2>1, <2>3, <2>4
    <2>6. QED
        BY <2>1, <2>5
<1>3. Calls(d) \in Seq(S)
    <2> HIDE DEF S
    <2>1. Calls(d) = posts \o (IF d.order = NoOrder THEN <<>> ELSE Records(d))
        BY DEF Calls
    <2> HIDE DEF posts
    <2>2. (IF d.order = NoOrder THEN <<>> ELSE Records(d)) \in Seq(S)
        BY <1>2
    <2>3. QED
        BY <1>1, <2>1, <2>2
<1>4. \A c \in S : IsNested(c)
    OBVIOUS
<1>5. QED
    BY <1>3, <1>4

-----------------------------------------------------------------------------
(* The inductive invariant *)

Shape ==
    /\ row = [x \in Items |-> row[x]]
    /\ op \in [Requests -> Operations]
    /\ pc = [r \in Requests |-> pc[r]]
    /\ todo = [r \in Requests |-> todo[r]]
    /\ \A r \in Requests : \E S : todo[r] \in Seq(S) /\ \A c \in S : IsNested(c)
    /\ written \in [Requests -> SUBSET Items]
    /\ loaded = [r \in Requests |-> [x \in Items |-> loaded[r][x]]]
    /\ mine = [r \in Requests |-> [x \in Items |-> mine[r][x]]]

\* Ids are generated.
Distinct ==
    \A q, r \in Requests :
        op[q].kind = "Create" /\ op[r].kind = "Create" /\ op[q].item = op[r].item => q = r

RowsFit ==
    \A x \in Documents :
        /\ row[x] \in RowOf(x)
        /\ StatusFits(x, row[x].data)
        /\ row[x].version = 0 => row[x].data.status = "NONE"

\* A transaction that writes a document holds it: it is still the row that is
\* changed, or, of a new one, still the only document of its number.
DraftFits(r, x, w) ==
    /\ w \in RowOf(x) /\ w.version > 0
    /\ StatusFits(x, w.data)
    /\ Stands(x, row[x].data, w.data)
    /\ \/ w.version > row[x].version
       \/ w.version = row[x].version /\ w.data.status = "DELETED"
    /\ row[x].version > 0 => Exists(x, row[x])
    /\ row[x].version = 0 =>
         /\ op[r].kind = "Create" /\ op[r].item = x
         /\ \A y \in Documents : SameNumber(x, y) => ~Exists(y, row[y])

DraftOf(r) == \A x \in written[r] \cap Documents : DraftFits(r, x, mine[r][x])

Locks ==
    \A q, r \in Requests :
        q # r => /\ written[q] \cap written[r] = {}
                 /\ \A x \in written[q], y \in written[r] : SameNumber(x, y) => row[x].version > 0

\* What a request read of a document is what it would read now, or the row has a
\* newer version or is gone; between its two reads the lines are still missing.
SnapshotOf(r) ==
    \A x \in Documents :
        loaded[r][x].version > 0 =>
            LET now == Seen(r, x)
            IN  /\ loaded[r][x] \in RowOf(x)
                /\ loaded[r][x].version <= now.version
                /\ loaded[r][x].version = now.version /\ Exists(x, now) =>
                     \/ loaded[r][x].data = now.data
                     \/ /\ pc[r] = "loadLines" /\ x = Target(r)
                        /\ loaded[r][x].data = [now.data EXCEPT !.lines = NoLines(x)]

\* The aggregate accepted the command on what was read.
Carried(r, c) == loaded[r][c.item].version > 0 /\ Accepts(c, loaded[r][c.item].data)

ReadyOf(r) ==
    /\ op[r].kind = "Create" /\ pc[r] \in {"load", "write"} =>
         /\ row[op[r].item].version = 0 /\ loaded[r][op[r].item].version = 0
         /\ op[r].item \notin written[r]
    /\ op[r].kind = "Delete" /\ pc[r] = "load" => op[r].item \notin written[r]
    /\ pc[r] = "commit" => todo[r] = <<>>
    /\ todo[r] # <<>> => op[r].kind = "Receive"
    /\ op[r].kind = "Receive" /\ (todo[r] # <<>> \/ pc[r] = "write") => Carried(r, op[r])
    /\ pc[r] = "write" =>
         /\ Current(r).kind # "Delete"
         /\ Current(r).kind # "Create" /\ Target(r) \in Documents => Carried(r, Current(r))
    /\ pc[r] = "loadLines" =>
         /\ Target(r) \in Documents /\ Current(r).kind \notin {"Create", "Delete"}
         /\ loaded[r][Target(r)].version > 0

IInv ==
    /\ Shape
    /\ Distinct
    /\ RowsFit
    /\ Locks
    /\ NumbersUnique
    /\ \A r \in Requests : DraftOf(r) /\ SnapshotOf(r) /\ ReadyOf(r)

LEMMA InitIInv == Init => IInv
<1> SUFFICES ASSUME Init PROVE IInv
    OBVIOUS
<1>1. PICK w \in Openings :
        row = [x \in Items |-> [version |-> IF w[x] = NoData(x) THEN 0 ELSE 1, data |-> w[x]]]
    BY DEF Init
<1>2. WellFormed(w)
    BY OpeningsAssumption
<1>3. \A x \in Documents : x \in Items /\ row[x].version = (IF w[x] = NoData(x) THEN 0 ELSE 1) /\ row[x].data = w[x]
          /\ NoData(x).status = "NONE"
    BY <1>1, DocumentsDiffer DEF Items, NoData
<1>4. Shape
    <2>1. \A r \in Requests : \E S : todo[r] \in Seq(S) /\ \A c \in S : IsNested(c)
        <3>1. \A r \in Requests : todo[r] \in Seq({}) /\ \A c \in {} : IsNested(c)
            BY DEF Init
        <3>2. QED
            BY <3>1
    <2>2. QED
        BY <1>1, <2>1 DEF Init, Shape, NoRows
<1>5. Distinct
    BY DEF Init, Distinct
<1>6. RowsFit
    <2>1. ASSUME NEW x \in Documents
          PROVE  row[x] \in RowOf(x)
        <3>1. w[x] \in Data(x) /\ x \in Items
            BY <1>2, <1>3 DEF WellFormed
        <3>2. row[x] = [version |-> IF w[x] = NoData(x) THEN 0 ELSE 1, data |-> w[x]]
            BY <1>1, <3>1
        <3>3. QED
            BY <3>1, <3>2 DEF RowOf
    <2>2. QED
        BY <1>2, <1>3, <2>1 DEF RowsFit, WellFormed
<1>7. Locks
    BY DEF Init, Locks
<1>8. NumbersUnique
    <2>1. \A x \in Documents : Exists(x, row[x]) => w[x].status \notin Absent
        BY <1>2, <1>3 DEF Exists, WellFormed, Absent
    <2>2. QED
        BY <1>2, <2>1 DEF WellFormed, NumbersUnique
<1>9. ASSUME NEW r \in Requests
      PROVE  DraftOf(r) /\ SnapshotOf(r) /\ ReadyOf(r)
    <2>1. written[r] = {} /\ todo[r] = <<>> /\ pc[r] = "load" /\ op[r] \in Operations
        BY DEF Init
    <2>2. \A x \in Documents : loaded[r][x].version = 0
        BY <1>3 DEF Init, NoRows, NoRow
    <2>3. op[r].item \in Documents /\ (op[r].kind = "Create" => row[op[r].item].version = 0)
        BY <2>1, OperationsAssumption DEF Init, IsOperation
    <2>4. DraftOf(r) /\ SnapshotOf(r)
        BY <2>1, <2>2 DEF DraftOf, SnapshotOf
    <2>5. ReadyOf(r)
        BY <2>1, <2>2, <2>3 DEF ReadyOf
    <2>6. QED
        BY <2>4, <2>5
<1>10. QED
    BY <1>4, <1>5, <1>6, <1>7, <1>8, <1>9 DEF IInv

\* What a request is carrying out.
LEMMA Commands ==
    ASSUME IInv, NEW r \in Requests
    PROVE  /\ op[r] \in Operations /\ IsOperation(op[r]) /\ op[r].item \in Documents
           /\ todo[r] = <<>> => Current(r) = op[r]
           /\ todo[r] # <<>> =>
                /\ Current(r) = Head(todo[r]) /\ IsNested(Current(r))
                /\ op[r].kind = "Receive" /\ op[r].item \in Receipts
                /\ Tail(todo[r]) = <<>> <=> Len(todo[r]) = 1
           /\ Target(r) \in Items
           /\ \E S : Tail(todo[r]) \in Seq(S) /\ \A c \in S : IsNested(c)
<1>1. op[r] \in Operations /\ IsOperation(op[r]) /\ op[r].item \in Documents
    BY OperationsAssumption DEF IInv, Shape, IsOperation
<1>2. todo[r] # <<>> => op[r].kind = "Receive" /\ op[r].item \in Receipts
    BY <1>1 DEF IInv, ReadyOf, IsOperation
<1>3. PICK S : todo[r] \in Seq(S) /\ \A c \in S : IsNested(c)
    BY DEF IInv, Shape
<1>4. CASE todo[r] = <<>>
    <2>1. Current(r) = op[r]
        BY <1>4 DEF Current, Outermost
    <2>2. Tail(todo[r]) \in Seq(S)
        BY <1>4
    <2>3. QED
        BY <1>1, <1>3, <1>4, <2>1, <2>2 DEF Target, Items
<1>5. CASE todo[r] # <<>>
    <2>1. Current(r) = Head(todo[r])
        BY <1>5 DEF Current, Outermost
    <2>2. Head(todo[r]) \in S /\ Tail(todo[r]) \in Seq(S) /\ Len(Tail(todo[r])) = Len(todo[r]) - 1
        BY <1>3, <1>5, HeadTailProperties
    <2>3. Len(todo[r]) \in Nat
        BY <1>3
    <2>4. Tail(todo[r]) = <<>> <=> Len(todo[r]) = 1
        <3>1. \A s \in Seq(S) : s = <<>> <=> Len(s) = 0
            BY EmptySeq
        <3>2. Tail(todo[r]) = <<>> <=> Len(Tail(todo[r])) = 0
            BY <2>2, <3>1
        <3>3. Len(Tail(todo[r])) = 0 <=> Len(todo[r]) = 1
            BY <2>2, <2>3
        <3>4. QED
            BY <3>2, <3>3
    <2>5. Target(r) \in Items
        BY <1>3, <2>1, <2>2 DEF Target, IsNested, Items, Documents
    <2>6. QED
        BY <1>1, <1>2, <1>3, <1>5, <2>1, <2>2, <2>4, <2>5
<1>6. QED
    BY <1>4, <1>5

-----------------------------------------------------------------------------
(* Steps that leave the rows alone *)

LEMMA SameDraft ==
    ASSUME NEW q \in Requests, row' = row, op' = op, written'[q] = written[q], mine'[q] = mine[q],
           DraftOf(q)
    PROVE  DraftOf(q)'
BY DEF DraftOf, DraftFits

LEMMA SameRequest ==
    ASSUME NEW q \in Requests, row' = row, op' = op, pc'[q] = pc[q], todo'[q] = todo[q],
           loaded'[q] = loaded[q], written'[q] = written[q], mine'[q] = mine[q],
           SnapshotOf(q), ReadyOf(q)
    PROVE  SnapshotOf(q)' /\ ReadyOf(q)'
<1>1. Current(q)' = Current(q) /\ Target(q)' = Target(q)
    BY DEF Current, Outermost, Target
<1>2. \A x : Seen(q, x)' = Seen(q, x)
    BY DEF Seen
<1>3. SnapshotOf(q)'
    BY <1>1, <1>2 DEF SnapshotOf
<1>4. ReadyOf(q)'
    BY <1>1 DEF ReadyOf, Carried
<1>5. QED
    BY <1>3, <1>4

LEMMA ReadingKeeps ==
    ASSUME IInv, NEW r \in Requests, UNCHANGED <<row, op, written, mine>>,
           \A q \in Requests \ {r} : pc'[q] = pc[q] /\ todo'[q] = todo[q] /\ loaded'[q] = loaded[q],
           Shape', SnapshotOf(r)', ReadyOf(r)'
    PROVE  IInv'
<1>1. Distinct' /\ RowsFit' /\ Locks' /\ NumbersUnique'
    BY DEF IInv, Distinct, RowsFit, Locks, NumbersUnique
<1>2. \A q \in Requests : DraftOf(q)'
    BY SameDraft DEF IInv
<1>3. \A q \in Requests \ {r} : SnapshotOf(q)' /\ ReadyOf(q)'
    BY SameRequest DEF IInv
<1>4. QED
    BY <1>1, <1>2, <1>3 DEF IInv

LEMMA RollBackKeeps ==
    ASSUME IInv, NEW r \in Requests, NEW outcome \in Refusals, RollBack(r, outcome)
    PROVE  IInv'
<1>1. /\ UNCHANGED <<row, op>>
      /\ pc'[r] = outcome /\ todo'[r] = <<>> /\ loaded'[r] = NoRows /\ written'[r] = {}
      /\ \A q \in Requests \ {r} : /\ pc'[q] = pc[q] /\ todo'[q] = todo[q] /\ loaded'[q] = loaded[q]
                                   /\ written'[q] = written[q] /\ mine'[q] = mine[q]
    BY DEF RollBack, GoTo, db, IInv, Shape
<1>2. Shape'
    <2>1. \A q \in Requests : \E S : todo'[q] \in Seq(S) /\ \A c \in S : IsNested(c)
        <3>1. todo'[r] \in Seq({}) /\ \A c \in {} : IsNested(c)
            BY <1>1
        <3>2. QED
            BY <1>1, <3>1 DEF IInv, Shape
    <2>2. pc' = [q \in Requests |-> pc'[q]] /\ todo' = [q \in Requests |-> todo'[q]]
        BY DEF RollBack, GoTo, IInv, Shape
    <2>3. written' \in [Requests -> SUBSET Items]
        BY DEF RollBack, IInv, Shape
    <2>4. loaded' = [q \in Requests |-> [x \in Items |-> loaded'[q][x]]]
        BY DEF RollBack, IInv, Shape, NoRows
    <2>5. mine' = [q \in Requests |-> [x \in Items |-> mine'[q][x]]]
        BY DEF RollBack, IInv, Shape, NoRows
    <2>6. QED
        BY <1>1, <2>1, <2>2, <2>3, <2>4, <2>5 DEF IInv, Shape
<1>3. Distinct' /\ RowsFit' /\ NumbersUnique'
    BY <1>1 DEF IInv, Distinct, RowsFit, NumbersUnique
<1>4. Locks'
    BY <1>1 DEF IInv, Locks
<1>5. \A q \in Requests \ {r} : DraftOf(q)' /\ SnapshotOf(q)' /\ ReadyOf(q)'
    BY <1>1, SameDraft, SameRequest DEF IInv
<1>6. DraftOf(r)'
    BY <1>1 DEF DraftOf
<1>7. SnapshotOf(r)'
    <2>1. \A x \in Documents : loaded'[r][x].version = 0
        BY <1>1 DEF NoRows, NoRow, Items
    <2>2. QED
        BY <2>1 DEF SnapshotOf
<1>8. ReadyOf(r)'
    BY <1>1 DEF ReadyOf, Refusals
<1>9. QED
    BY <1>2, <1>3, <1>4, <1>5, <1>6, <1>7, <1>8 DEF IInv

LEMMA LoadPositionKeeps ==
    ASSUME IInv, NEW r \in Requests, LoadPosition(r)
    PROVE  IInv'
<1> DEFINE x == Target(r)
<1>1. CASE ~Accepts(Current(r), Seen(r, x).data)
    BY <1>1, RollBackKeeps DEF LoadPosition, Refusals
<1>2. CASE Accepts(Current(r), Seen(r, x).data)
    <2>1. /\ pc[r] = "load" /\ x \in Positions
          /\ loaded' = [loaded EXCEPT ![r][x] = Seen(r, x)] /\ pc' = [pc EXCEPT ![r] = "write"]
          /\ UNCHANGED <<row, op, todo, written, mine>>
        BY <1>2 DEF LoadPosition, GoTo, Keep, db
    <2>2. /\ todo[r] # <<>> /\ op[r].kind = "Receive" /\ IsNested(Current(r)) /\ op[r].item \in Documents
        BY <2>1, Commands, DocumentsDiffer
    <2> HIDE DEF x
    <2>3. \A y \in Documents : loaded'[r][y] = loaded[r][y] /\ y # x
        <3>1. \A y \in Documents : y # x
            BY <2>1, DocumentsDiffer
        <3>2. loaded'[r] = [loaded[r] EXCEPT ![x] = Seen(r, x)]
            BY <2>1 DEF IInv, Shape
        <3>3. QED
            BY <3>1, <3>2
    <2>4. pc'[r] = "write" /\ \A q \in Requests \ {r} : pc'[q] = pc[q] /\ loaded'[q] = loaded[q]
        BY <2>1 DEF IInv, Shape
    <2>5. Shape'
        BY <2>1 DEF IInv, Shape
    <2>6. SnapshotOf(r)'
        <3>1. \A y : Seen(r, y)' = Seen(r, y)
            BY <2>1 DEF Seen
        <3>2. QED
            BY <2>1, <2>3, <3>1 DEF IInv, SnapshotOf
    <2>7. ReadyOf(r)'
        <3>1. Current(r)' = Current(r) /\ Target(r)' = x
            BY <2>1 DEF Current, Outermost, Target, x
        <3>2. Carried(r, op[r])'
            BY <2>1, <2>2, <2>3 DEF IInv, ReadyOf, Carried
        <3>3. Current(r).kind \notin {"Create", "Delete"} /\ x \notin Documents
            BY <2>1, <2>2, DocumentsDiffer DEF IsNested
        <3>4. QED
            BY <2>1, <2>2, <2>4, <3>1, <3>2, <3>3 DEF ReadyOf
    <2>8. QED
        BY <2>1, <2>4, <2>5, <2>6, <2>7, ReadingKeeps
<1>3. QED
    BY <1>1, <1>2

\* What any transaction sees of a document.
LEMMA SeenRow ==
    ASSUME IInv, NEW r \in Requests, NEW x \in Documents
    PROVE  Seen(r, x) \in RowOf(x) /\ StatusFits(x, Seen(r, x).data)
BY DEF IInv, RowsFit, DraftOf, DraftFits, Seen

LEMMA LoadHeaderKeeps ==
    ASSUME IInv, NEW r \in Requests, LoadHeader(r)
    PROVE  IInv'
<1> DEFINE x == Target(r)
           now == Seen(r, x)
<1>1. CASE ~Exists(x, now)
    BY <1>1, RollBackKeeps DEF LoadHeader, Refusals
<1>2. CASE Exists(x, now)
    <2> DEFINE head == [now EXCEPT !.data.lines = NoLines(x)]
    <2>1. /\ pc[r] = "load" /\ x \in Documents /\ Current(r).kind \notin {"Create", "Delete"}
          /\ loaded' = [loaded EXCEPT ![r][x] = head] /\ pc' = [pc EXCEPT ![r] = "loadLines"]
          /\ UNCHANGED <<row, op, todo, written, mine>>
        BY <1>2 DEF LoadHeader, GoTo, Keep, db
    <2>2. now \in RowOf(x) /\ x \in Items
        BY <2>1, SeenRow DEF Items
    <2>3. head.version = now.version /\ head.data = [now.data EXCEPT !.lines = NoLines(x)]
        BY <2>2 DEF RowOf
    <2>4. head \in RowOf(x)
        <3>1. now.data \in Data(x)
            BY <2>2 DEF RowOf
        <3>2. /\ now.data = [status |-> now.data.status, order |-> now.data.order, lines |-> now.data.lines]
              /\ now.data.status \in Absent \cup (IF x \in Receipts THEN ReceiptStatus ELSE OrderStatus)
              /\ now.data.order \in (IF x \in Receipts THEN Orders \cup {NoOrder} ELSE {NoOrder})
            BY <2>1, <3>1, DataShape
        <3> DEFINE d == [now.data EXCEPT !.lines = NoLines(x)]
        <3>3. d = [status |-> now.data.status, order |-> now.data.order, lines |-> NoLines(x)]
            BY <3>2
        <3>4. NoLines(x) \in Lines(x)
            BY <2>1, NoLinesAreLines
        <3>5. d \in Data(x)
            BY <2>1, <3>2, <3>3, <3>4, IsData
        <3>6. head = [version |-> now.version, data |-> d]
            BY <2>2 DEF RowOf
        <3>7. QED
            BY <2>2, <3>5, <3>6 DEF RowOf
    <2>5. now.version > 0
        BY <1>2 DEF Exists
    <2> HIDE DEF head, now, x
    <2>6. loaded'[r][x] = head /\ \A y \in Documents \ {x} : loaded'[r][y] = loaded[r][y]
        BY <2>1, <2>2 DEF IInv, Shape, Items
    <2>7. pc'[r] = "loadLines" /\ \A q \in Requests \ {r} : pc'[q] = pc[q] /\ loaded'[q] = loaded[q]
        BY <2>1 DEF IInv, Shape
    <2>8. Shape'
        <3>1. loaded' = [q \in Requests |-> [y \in Items |-> loaded'[q][y]]]
            BY <2>1, <2>2 DEF IInv, Shape
        <3>2. pc' = [q \in Requests |-> pc'[q]]
            BY <2>1 DEF IInv, Shape
        <3>3. QED
            BY <2>1, <3>1, <3>2 DEF IInv, Shape
    <2>9. Current(r)' = Current(r) /\ Target(r)' = x /\ \A y : Seen(r, y)' = Seen(r, y)
        BY <2>1 DEF Current, Outermost, Target, Seen, x
    <2>10. SnapshotOf(r)'
        <3>1. ASSUME NEW y \in Documents, loaded'[r][y].version > 0
              PROVE  /\ loaded'[r][y] \in RowOf(y)
                     /\ loaded'[r][y].version <= Seen(r, y).version
                     /\ loaded'[r][y].version = Seen(r, y).version /\ Exists(y, Seen(r, y)) =>
                          \/ loaded'[r][y].data = Seen(r, y).data
                          \/ y = x /\ loaded'[r][y].data = [Seen(r, y).data EXCEPT !.lines = NoLines(y)]
            <4>1. CASE y = x
                <5>1. Seen(r, x) = now
                    BY DEF now
                <5>2. loaded'[r][y].version = now.version /\ now.version \in Nat
                    BY <2>2, <2>3, <2>6, <4>1 DEF RowOf
                <5>3. QED
                    BY <2>3, <2>4, <2>6, <4>1, <5>1, <5>2
            <4>2. CASE y # x
                <5>1. loaded'[r][y] = loaded[r][y]
                    BY <2>6, <4>2
                <5>2. QED
                    BY <2>1, <3>1, <4>2, <5>1 DEF IInv, SnapshotOf
            <4>3. QED
                BY <4>1, <4>2
        <3>2. QED
            BY <2>7, <2>9, <3>1 DEF SnapshotOf
    <2>11. ReadyOf(r)'
        <3>1. todo'[r] # <<>> => op'[r].kind = "Receive" /\ Carried(r, op[r])'
            <4>1. SUFFICES ASSUME todo[r] # <<>>
                           PROVE  op[r].kind = "Receive" /\ Carried(r, op[r])'
                BY <2>1
            <4>2. IsNested(Current(r)) /\ op[r].item \in Receipts /\ op[r].item \in Documents
                  /\ Carried(r, op[r]) /\ op[r].kind = "Receive"
                BY <4>1, Commands DEF IInv, ReadyOf
            <4>3. op[r].item # x
                BY <2>1, <4>2, RulesAssumption DEF IsNested, x, Target, Documents
            <4>4. QED
                BY <2>1, <2>6, <4>2, <4>3 DEF Carried
        <3>2. op'[r].kind = "Receive" /\ (todo'[r] # <<>> \/ pc'[r] = "write") => Carried(r, op[r])'
            BY <2>7, <3>1
        <3>3. op' = op /\ loaded'[r][x].version > 0 /\ Current(r)'.kind \notin {"Create", "Delete"}
            BY <2>1, <2>3, <2>5, <2>6, <2>9
        <3>4. QED
            BY <2>1, <2>7, <2>9, <3>1, <3>2, <3>3 DEF ReadyOf
    <2>12. QED
        BY <2>1, <2>7, <2>8, <2>10, <2>11, ReadingKeeps
<1>3. QED
    BY <1>1, <1>2

LEMMA LoadLinesKeeps ==
    ASSUME IInv, NEW r \in Requests, LoadLines(r)
    PROVE  IInv'
<1> DEFINE x == Target(r)
           now == Seen(r, x)
           data == [loaded[r][x].data EXCEPT !.lines = now.data.lines]
<1>1. CASE ~Accepts(Current(r), data)
    BY <1>1, RollBackKeeps DEF LoadLines, Accepted, Refusals
<1>2. CASE Accepts(Current(r), data)
    <2> DEFINE calls == Current(r).kind = "Receive" /\ Calls(data) # <<>>
    <2>1. /\ pc[r] = "loadLines" /\ loaded' = [loaded EXCEPT ![r][x].data = data]
          /\ pc' = [pc EXCEPT ![r] = IF calls THEN "load" ELSE "write"]
          /\ todo' = IF calls THEN [todo EXCEPT ![r] = Calls(data)] ELSE todo
          /\ UNCHANGED <<row, op, written, mine>>
        BY <1>2 DEF LoadLines, Accepted, GoTo, Keep, db
    <2>2. /\ x \in Documents /\ x \in Items /\ Current(r).kind \notin {"Create", "Delete"}
          /\ loaded[r][x].version > 0 /\ loaded[r][x] \in RowOf(x)
          /\ now \in RowOf(x)
        BY <2>1, SeenRow DEF IInv, ReadyOf, SnapshotOf, Items
    <2>3. /\ loaded[r][x].data \in Data(x) /\ now.data \in Data(x)
          /\ loaded[r][x] = [version |-> loaded[r][x].version, data |-> loaded[r][x].data]
          /\ loaded[r][x].version \in Nat
        BY <2>2 DEF RowOf
    <2>4. /\ data = [status |-> loaded[r][x].data.status, order |-> loaded[r][x].data.order,
                     lines |-> now.data.lines]
          /\ data \in Data(x)
        <3>1. /\ loaded[r][x].data = [status |-> loaded[r][x].data.status,
                    order |-> loaded[r][x].data.order, lines |-> loaded[r][x].data.lines]
              /\ loaded[r][x].data.status \in Absent \cup (IF x \in Receipts THEN ReceiptStatus ELSE OrderStatus)
              /\ loaded[r][x].data.order \in (IF x \in Receipts THEN Orders \cup {NoOrder} ELSE {NoOrder})
              /\ now.data.lines \in Lines(x)
            BY <2>2, <2>3, DataShape
        <3>2. data = [status |-> loaded[r][x].data.status, order |-> loaded[r][x].data.order,
                      lines |-> now.data.lines]
            BY <3>1
        <3>3. QED
            BY <2>2, <3>1, <3>2, IsData
    <2> HIDE DEF x, now, data, calls
    <2>5. /\ loaded'[r][x] = [version |-> loaded[r][x].version, data |-> data]
          /\ \A y \in Documents \ {x} : loaded'[r][y] = loaded[r][y]
        BY <2>1, <2>2, <2>3 DEF IInv, Shape, Items
    <2>6. /\ pc'[r] = (IF calls THEN "load" ELSE "write")
          /\ todo'[r] = (IF calls THEN Calls(data) ELSE todo[r])
          /\ \A q \in Requests \ {r} : pc'[q] = pc[q] /\ todo'[q] = todo[q] /\ loaded'[q] = loaded[q]
        BY <2>1 DEF IInv, Shape
    <2>7. calls => Current(r).kind = "Receive" /\ todo[r] = <<>> /\ Current(r) = op[r] /\ x \in Receipts
        BY Commands DEF calls, IsNested, IsOperation, Target, x
    <2>8. Shape'
        <3>1. loaded' = [q \in Requests |-> [y \in Items |-> loaded'[q][y]]]
            BY <2>1, <2>2 DEF IInv, Shape
        <3>2. pc' = [q \in Requests |-> pc'[q]] /\ todo' = [q \in Requests |-> todo'[q]]
            BY <2>1 DEF IInv, Shape
        <3>3. calls => \E S : Calls(data) \in Seq(S) /\ \A c \in S : IsNested(c)
            BY <2>2, <2>4, <2>7, CallsAreNested, DataShape DEF Lines
        <3>4. \E S : todo'[r] \in Seq(S) /\ \A c \in S : IsNested(c)
            BY <2>6, <3>3 DEF IInv, Shape
        <3>5. \A q \in Requests : \E S : todo'[q] \in Seq(S) /\ \A c \in S : IsNested(c)
            BY <2>6, <3>4 DEF IInv, Shape
        <3>6. row' = [y \in Items |-> row'[y]] /\ op' \in [Requests -> Operations]
              /\ written' \in [Requests -> SUBSET Items]
              /\ mine' = [q \in Requests |-> [y \in Items |-> mine'[q][y]]]
            BY <2>1 DEF IInv, Shape
        <3>7. QED
            BY <3>1, <3>2, <3>5, <3>6 DEF Shape
    <2>9. SnapshotOf(r)'
        <3>1. \A y : Seen(r, y)' = Seen(r, y)
            BY <2>1 DEF Seen
        <3>2. ASSUME NEW y \in Documents, loaded'[r][y].version > 0
              PROVE  /\ loaded'[r][y] \in RowOf(y)
                     /\ loaded'[r][y].version <= Seen(r, y).version
                     /\ loaded'[r][y].version = Seen(r, y).version /\ Exists(y, Seen(r, y)) =>
                          loaded'[r][y].data = Seen(r, y).data
            <4>1. CASE y = x
                <5>1. Seen(r, y) = now
                    BY <4>1 DEF now
                <5>2. /\ loaded[r][x].version <= now.version
                      /\ loaded[r][x].version = now.version /\ Exists(x, now) =>
                           \/ loaded[r][x].data = now.data
                           \/ loaded[r][x].data = [now.data EXCEPT !.lines = NoLines(x)]
                    BY <2>2 DEF IInv, SnapshotOf, now
                <5>3. now.data = [status |-> now.data.status, order |-> now.data.order, lines |-> now.data.lines]
                    BY <2>2, <2>3, DataShape
                <5>4. loaded[r][x].version = now.version /\ Exists(x, now) =>
                        /\ loaded[r][x].data.status = now.data.status
                        /\ loaded[r][x].data.order = now.data.order
                    BY <5>2, <5>3
                <5>5. loaded[r][x].version = now.version /\ Exists(x, now) => data = now.data
                    BY <2>4, <5>3, <5>4
                <5>6. loaded'[r][x] \in RowOf(x)
                    BY <2>3, <2>4, <2>5 DEF RowOf
                <5>7. QED
                    BY <2>5, <4>1, <5>1, <5>2, <5>5, <5>6
            <4>2. CASE y # x
                <5>1. loaded'[r][y] = loaded[r][y]
                    BY <2>5, <4>2
                <5>2. QED
                    BY <3>2, <4>2, <5>1 DEF IInv, SnapshotOf, x
            <4>3. QED
                BY <4>1, <4>2
        <3>3. QED
            BY <3>1, <3>2 DEF SnapshotOf
    <2>10. ReadyOf(r)'
        <3>1. loaded'[r][x].version > 0 /\ Accepts(Current(r), loaded'[r][x].data)
            BY <1>2, <2>2, <2>5 DEF data, now, x
        <3>2. op[r].kind = "Receive" => loaded'[r][op[r].item].version > 0
                                        /\ Accepts(op[r], loaded'[r][op[r].item].data)
            <4>1. CASE todo[r] = <<>>
                <5>1. Current(r) = op[r] /\ x = op[r].item
                    BY <4>1, Commands DEF x, Target
                <5>2. QED
                    BY <3>1, <5>1
            <4>2. CASE todo[r] # <<>>
                <5>1. IsNested(Current(r)) /\ op[r].item \in Receipts /\ op[r].item \in Documents
                      /\ op[r].kind = "Receive"
                    BY <4>2, Commands
                <5>2. op[r].item # x
                    BY <2>2, <5>1, RulesAssumption DEF IsNested, x, Target, Documents
                <5>3. Carried(r, op[r])
                    BY <4>2, <5>1 DEF IInv, ReadyOf
                <5>4. QED
                    BY <2>5, <5>1, <5>2, <5>3 DEF Carried
            <4>3. QED
                BY <4>1, <4>2
        <3>3. CASE calls
            BY <2>1, <2>6, <2>7, <3>2, <3>3 DEF ReadyOf, Carried
        <3>4. CASE ~calls
            <4>1. pc'[r] = "write" /\ Current(r)' = Current(r) /\ Target(r)' = x /\ op' = op /\ todo'[r] = todo[r]
                BY <2>1, <2>6, <3>4 DEF Current, Outermost, Target, x
            <4>2. Carried(r, Current(r))'
                BY <3>1, <4>1 DEF Carried, x, Target
            <4>3. op[r].kind # "Create"
                BY <2>2, Commands
            <4>4. (op[r].kind = "Receive" => Carried(r, op[r])') /\ (todo[r] # <<>> => op[r].kind = "Receive")
                BY <3>2, <4>1, Commands DEF Carried
            <4>5. Current(r)'.kind \notin {"Create", "Delete"}
                BY <2>2, <4>1
            <4>6. QED
                BY <4>1, <4>2, <4>3, <4>4, <4>5 DEF ReadyOf
        <3>5. QED
            BY <3>3, <3>4
    <2>11. QED
        BY <2>1, <2>6, <2>8, <2>9, <2>10, ReadingKeeps
<1>3. QED
    BY <1>1, <1>2

LEMMA CheckNumberKeeps ==
    ASSUME IInv, NEW r \in Requests, CheckNumber(r)
    PROVE  IInv'
<1>1. CASE \E y \in Documents : SameNumber(Target(r), y) /\ Exists(y, row[y])
    BY <1>1, RollBackKeeps DEF CheckNumber, Refusals
<1>2. CASE ~\E y \in Documents : SameNumber(Target(r), y) /\ Exists(y, row[y])
    <2>1. /\ pc[r] = "load" /\ Current(r).kind = "Create" /\ pc' = [pc EXCEPT ![r] = "write"]
          /\ UNCHANGED <<row, op, todo, loaded, written, mine>>
        BY <1>2 DEF CheckNumber, GoTo, Keep, db
    <2>2. pc'[r] = "write" /\ \A q \in Requests \ {r} : pc'[q] = pc[q]
        BY <2>1 DEF IInv, Shape
    <2>3. todo[r] = <<>> /\ Current(r) = op[r]
        BY <2>1, Commands DEF IsNested
    <2>4. Shape'
        BY <2>1 DEF IInv, Shape
    <2>5. Current(r)' = Current(r) /\ Target(r)' = Target(r) /\ \A y : Seen(r, y)' = Seen(r, y)
        BY <2>1 DEF Current, Outermost, Target, Seen
    <2>6. SnapshotOf(r)'
        BY <2>1, <2>5 DEF IInv, SnapshotOf
    <2>7. ReadyOf(r)'
        BY <2>1, <2>2, <2>3, <2>5 DEF IInv, ReadyOf
    <2>8. QED
        BY <2>1, <2>2, <2>4, <2>6, <2>7, ReadingKeeps
<1>3. QED
    BY <1>1, <1>2

LEMMA PublishKeeps ==
    ASSUME IInv, NEW r \in Requests, Publish(r) \/ LoseEvents(r)
    PROVE  IInv'
<1>1. /\ pc[r] = "publish" /\ pc' = [pc EXCEPT ![r] = pc'[r]] /\ pc'[r] \in {"published", "lost"}
      /\ UNCHANGED <<row, op, todo, loaded, written, mine>>
    BY DEF Publish, LoseEvents, GoTo, db, IInv, Shape
<1>2. \A q \in Requests \ {r} : pc'[q] = pc[q]
    BY <1>1 DEF IInv, Shape
<1>3. Shape'
    BY <1>1 DEF IInv, Shape
<1>4. Current(r)' = Current(r) /\ Target(r)' = Target(r) /\ \A y : Seen(r, y)' = Seen(r, y)
    BY <1>1 DEF Current, Outermost, Target, Seen
<1>5. SnapshotOf(r)'
    BY <1>1, <1>4 DEF IInv, SnapshotOf
<1>6. ReadyOf(r)'
    BY <1>1, <1>4 DEF IInv, ReadyOf, Carried
<1>7. QED
    BY <1>1, <1>2, <1>3, <1>5, <1>6, ReadingKeeps

-----------------------------------------------------------------------------
(* Steps that write *)

LEMMA WriteKeeps ==
    ASSUME IInv, NEW r \in Requests, NEW w, Write(r, w), Blockers(r) = {},
           pc[r] = "write" \/ (pc[r] = "load" /\ Current(r).kind = "Delete"),
           Target(r) \in Documents =>
             /\ DraftFits(r, Target(r), w)
             /\ loaded[r][Target(r)].version > 0 =>
                  /\ loaded[r][Target(r)].version <= w.version
                  /\ loaded[r][Target(r)].version = w.version => w.data.status = "DELETED"
    PROVE  IInv'
<1> DEFINE x == Target(r)
<1>1. /\ written' = [written EXCEPT ![r] = @ \cup {x}] /\ mine' = [mine EXCEPT ![r][x] = w]
      /\ todo[r] = <<>> => pc' = [pc EXCEPT ![r] = "commit"] /\ todo' = todo
      /\ todo[r] # <<>> =>
           /\ todo' = [todo EXCEPT ![r] = Tail(@)]
           /\ pc' = [pc EXCEPT ![r] = IF Len(todo[r]) = 1 THEN "write" ELSE "load"]
      /\ UNCHANGED <<row, op, loaded>>
    BY DEF Write, GoTo, Outermost, db
<1>2. x \in Items /\ (x \in Documents => x \notin Positions)
    BY Commands, DocumentsDiffer
<1>3. \A q \in Requests \ {r} : \A y \in written[q] :
        y # x /\ ~(Current(r).kind = "Create" /\ SameNumber(x, y))
    BY DEF Blockers
<1> HIDE DEF x
<1>4. /\ written'[r] = written[r] \cup {x} /\ mine'[r][x] = w
      /\ \A y \in Items \ {x} : mine'[r][y] = mine[r][y]
    BY <1>1, <1>2 DEF IInv, Shape
<1>5. \A q \in Requests \ {r} : /\ written'[q] = written[q] /\ mine'[q] = mine[q]
                                /\ todo'[q] = todo[q] /\ pc'[q] = pc[q] /\ loaded'[q] = loaded[q]
    BY <1>1 DEF IInv, Shape
<1>6. /\ todo[r] = <<>> => pc'[r] = "commit" /\ todo'[r] = <<>>
      /\ todo[r] # <<>> =>
           todo'[r] = Tail(todo[r]) /\ pc'[r] = (IF Len(todo[r]) = 1 THEN "write" ELSE "load")
    BY <1>1 DEF IInv, Shape
<1>7. Shape'
    <2>1. pc' = [q \in Requests |-> pc'[q]] /\ todo' = [q \in Requests |-> todo'[q]]
        BY <1>1 DEF IInv, Shape
    <2>2. \E S : todo'[r] \in Seq(S) /\ \A c \in S : IsNested(c)
        <3>1. CASE todo[r] = <<>>
            BY <1>6, <3>1 DEF IInv, Shape
        <3>2. CASE todo[r] # <<>>
            BY <1>6, <3>2, Commands
        <3>3. QED
            BY <3>1, <3>2
    <2>3. \A q \in Requests : \E S : todo'[q] \in Seq(S) /\ \A c \in S : IsNested(c)
        BY <1>5, <2>2 DEF IInv, Shape
    <2>4. written' \in [Requests -> SUBSET Items]
        BY <1>1, <1>2 DEF IInv, Shape
    <2>5. mine' = [q \in Requests |-> [y \in Items |-> mine'[q][y]]]
        BY <1>1, <1>2 DEF IInv, Shape
    <2>6. row' = [y \in Items |-> row'[y]] /\ op' \in [Requests -> Operations]
          /\ loaded' = [q \in Requests |-> [y \in Items |-> loaded'[q][y]]]
        BY <1>1 DEF IInv, Shape
    <2>7. QED
        BY <2>1, <2>3, <2>4, <2>5, <2>6 DEF Shape
<1>8. Distinct' /\ RowsFit' /\ NumbersUnique'
    BY <1>1 DEF IInv, Distinct, RowsFit, NumbersUnique
<1>9. ASSUME NEW q \in Requests \ {r}, NEW y \in written[q]
      PROVE  /\ SameNumber(x, y) => row[x].version > 0
             /\ SameNumber(y, x) => row[y].version > 0
    <2>1. CASE x \notin Documents
        BY <2>1 DEF SameNumber, Documents
    <2>2. CASE x \in Documents
        <3>1. DraftFits(r, x, w) /\ row[x].version \in Nat
            BY <2>2 DEF x, IInv, RowsFit, RowOf
        <3>2. SameNumber(x, y) => row[x].version > 0
            <4>1. row[x].version = 0 => op[r].kind = "Create"
                BY <3>1 DEF DraftFits
            <4>2. op[r].kind = "Create" => Current(r).kind = "Create"
                BY Commands
            <4>3. QED
                BY <1>3, <3>1, <4>1, <4>2
        <3>3. ASSUME SameNumber(y, x), row[y].version = 0
              PROVE  FALSE
            <4>1. y \in Documents
                BY <3>3 DEF SameNumber, Documents
            <4>2. ~Exists(x, row[x])
                BY <2>2, <3>3, <4>1 DEF IInv, DraftOf, DraftFits
            <4>3. row[x].version = 0
                BY <3>1, <4>2 DEF DraftFits
            <4>4. SameNumber(x, y)
                BY <3>3 DEF SameNumber
            <4>5. QED
                BY <3>2, <4>3, <4>4
        <3>4. SameNumber(y, x) => y \in Documents /\ row[y].version \in Nat
            BY DEF SameNumber, Documents, IInv, RowsFit, RowOf
        <3>5. QED
            BY <3>2, <3>3, <3>4
    <2>3. QED
        BY <2>1, <2>2
<1>10. Locks'
    <2>1. SUFFICES ASSUME NEW p \in Requests, NEW q \in Requests, p # q
                   PROVE  /\ written'[p] \cap written'[q] = {}
                          /\ \A y \in written'[p], z \in written'[q] :
                               SameNumber(y, z) => row[y].version > 0
        BY <1>1 DEF Locks
    <2>2. /\ written[p] \cap written[q] = {}
          /\ \A y \in written[p], z \in written[q] : SameNumber(y, z) => row[y].version > 0
        BY <2>1 DEF IInv, Locks
    <2>3. CASE p = r
        BY <1>3, <1>4, <1>5, <1>9, <2>1, <2>2, <2>3
    <2>4. CASE q = r
        BY <1>3, <1>4, <1>5, <1>9, <2>1, <2>2, <2>4
    <2>5. CASE p # r /\ q # r
        BY <1>5, <2>2, <2>5
    <2>6. QED
        BY <2>3, <2>4, <2>5
<1>11. \A q \in Requests \ {r} : DraftOf(q)' /\ SnapshotOf(q)' /\ ReadyOf(q)'
    BY <1>1, <1>5, SameDraft, SameRequest DEF IInv
<1>12. DraftOf(r)'
    <2>1. SUFFICES ASSUME NEW y \in written'[r] \cap Documents PROVE DraftFits(r, y, mine'[r][y])
        BY <1>1 DEF DraftOf, DraftFits
    <2>2. CASE y = x
        BY <1>4, <2>1, <2>2 DEF x
    <2>3. CASE y # x
        BY <1>4, <2>1, <2>3 DEF IInv, DraftOf, Items
    <2>4. QED
        BY <2>2, <2>3
<1>13. SnapshotOf(r)'
    <2>1. ASSUME NEW y \in Documents, loaded[r][y].version > 0
          PROVE  /\ loaded[r][y] \in RowOf(y)
                 /\ loaded[r][y].version <= Seen(r, y)'.version
                 /\ loaded[r][y].version = Seen(r, y)'.version /\ Exists(y, Seen(r, y)') =>
                      loaded[r][y].data = Seen(r, y)'.data
        <3>1. CASE y = x
            <4>1. Seen(r, y)' = w
                BY <1>1, <1>4, <3>1 DEF Seen
            <4>2. QED
                BY <2>1, <3>1, <4>1 DEF x, IInv, SnapshotOf, Exists
        <3>2. CASE y # x
            <4>1. Seen(r, y)' = Seen(r, y)
                BY <1>1, <1>4, <3>2 DEF Seen, Items
            <4>2. QED
                BY <2>1, <4>1 DEF IInv, SnapshotOf
        <3>3. QED
            BY <3>1, <3>2
    <2>2. QED
        BY <1>1, <2>1 DEF SnapshotOf
<1>14. ReadyOf(r)'
    <2>1. CASE todo[r] = <<>>
        BY <1>1, <1>6, <2>1 DEF ReadyOf
    <2>2. CASE todo[r] # <<>>
        <3>1. op[r].kind = "Receive" /\ Carried(r, op[r]) /\ (Tail(todo[r]) = <<>> <=> Len(todo[r]) = 1)
            BY <2>2, Commands DEF IInv, ReadyOf
        <3>2. Carried(r, op[r])' /\ op'[r].kind = "Receive"
            BY <1>1, <3>1 DEF Carried
        <3>3. pc'[r] = "write" => Current(r)' = op[r] /\ Target(r)' = op[r].item
            BY <1>1, <1>6, <2>2, <3>1 DEF Current, Outermost, Target
        <3>4. pc'[r] \in {"load", "write"}
            BY <1>6, <2>2
        <3>5. QED
            BY <1>1, <3>1, <3>2, <3>3, <3>4 DEF ReadyOf
    <2>3. QED
        BY <2>1, <2>2
<1>15. QED
    BY <1>7, <1>8, <1>10, <1>11, <1>12, <1>13, <1>14 DEF IInv

LEMMA WriteRowKeeps ==
    ASSUME IInv, NEW r \in Requests, WriteRow(r)
    PROVE  IInv'
<1> DEFINE x == Target(r)
           c == Current(r)
           was == loaded[r][x]
           w == [version |-> was.version + 1, data |-> Result(c, was.data)]
<1>1. /\ pc[r] = "write" /\ Blockers(r) = {} /\ Write(r, w)
      /\ IF Inserts(r) THEN ~Duplicate(r) ELSE ~Stale(r)
    BY DEF WriteRow, Writing
<1>2. /\ op[r] \in Operations /\ IsOperation(op[r]) /\ x \in Items
      /\ todo[r] = <<>> => c = op[r]
      /\ todo[r] # <<>> => IsNested(c)
    BY Commands
<1>3. ASSUME x \in Documents
      PROVE  /\ DraftFits(r, x, w)
             /\ was.version > 0 => was.version <= w.version /\ was.version # w.version
    <2>1. x \notin Positions /\ c.item = x /\ row[x] \in RowOf(x) /\ row[x].version \in Nat /\ row[x].data \in Data(x)
        BY <1>3, DocumentsDiffer DEF IInv, RowsFit, RowOf, Target
    <2>2. CASE c.kind = "Create"
        <3>1. c = op[r] /\ c \in Operations
            BY <1>2, <2>2 DEF IsNested
        <3>2. row[x].version = 0 /\ was.version = 0 /\ row[x].data.status = "NONE"
            BY <1>1, <1>3, <2>1, <2>2, <3>1 DEF IInv, ReadyOf, RowsFit
        <3>3. \A y \in Documents : SameNumber(x, y) => ~Exists(y, row[y])
            BY <1>1, <2>1, <3>2 DEF Inserts, Duplicate
        <3>4. Result(c, was.data) \in Data(x) /\ StatusFits(x, Result(c, was.data))
            BY <1>3, <2>1, <2>2, <3>1, CreationFits
        <3> HIDE DEF x, c, was
        <3>5. w.version = 1 /\ w.data = Result(c, was.data) /\ w \in RowOf(x)
            BY <3>2, <3>4 DEF RowOf
        <3>6. Stands(x, row[x].data, w.data)
            BY <3>2 DEF Stands, Frozen, Absent
        <3> HIDE DEF w
        <3>7. QED
            BY <2>1, <2>2, <3>1, <3>2, <3>3, <3>4, <3>5, <3>6 DEF DraftFits
    <2>3. CASE c.kind # "Create"
        <3> DEFINE now == Seen(r, x)
        <3>1. was.version > 0 /\ Accepts(c, was.data)
            BY <1>1, <1>3, <2>1, <2>3 DEF IInv, ReadyOf, Carried, Target
        <3>2. now.version = was.version /\ Exists(x, now)
            BY <1>1, <3>1 DEF Inserts, Stale
        <3>3. was.data = now.data
            BY <1>1, <1>3, <3>1, <3>2 DEF IInv, SnapshotOf
        <3>4. now \in RowOf(x) /\ StatusFits(x, now.data) /\ now.data \in Data(x) /\ now.version \in Nat
            BY <1>3, SeenRow DEF RowOf
        <3>5. /\ Result(c, now.data) \in Data(x) /\ StatusFits(x, Result(c, now.data))
              /\ Stands(x, now.data, Result(c, now.data))
            <4>1. CASE todo[r] = <<>>
                <5>1. c \in Operations /\ c.kind \notin {"Create", "Delete"}
                    BY <1>1, <1>2, <2>3, <4>1 DEF IInv, ReadyOf
                <5>2. Accepts(c, now.data)
                    BY <3>1, <3>3
                <5> HIDE DEF x, c, now, was
                <5>3. QED
                    BY <1>3, <2>1, <3>4, <5>1, <5>2, ChangeFits
            <4>2. CASE todo[r] # <<>>
                <5>1. c.kind = "Record" /\ x \in Orders
                    BY <1>2, <2>1, <4>2 DEF IsNested
                <5>2. Accepts(c, now.data)
                    BY <3>1, <3>3
                <5> HIDE DEF x, c, now, was
                <5>3. QED
                    BY <2>1, <3>4, <5>1, <5>2, RecordFits
            <4>3. QED
                BY <4>1, <4>2
        <3>6. w.version = now.version + 1 /\ w.data = Result(c, now.data) /\ w \in RowOf(x)
            BY <3>2, <3>3, <3>4, <3>5 DEF RowOf
        <3>7. x \in written[r] => DraftFits(r, x, now)
            BY <1>3 DEF IInv, DraftOf, Seen
        <3>8. x \notin written[r] => now = row[x]
            BY DEF Seen
        <3>9. was.version <= w.version /\ was.version # w.version /\ w.version > 0
            BY <3>2, <3>4, <3>6
        <3> HIDE DEF x, c, was, w, now
        <3>10. CASE x \in written[r]
            <4>1. Stands(x, row[x].data, w.data)
                BY <1>3, <2>1, <3>4, <3>5, <3>6, <3>7, <3>10, StandsOn DEF DraftFits
            <4>2. w.version > row[x].version
                BY <2>1, <3>4, <3>6, <3>7, <3>10 DEF DraftFits
            <4>3. QED
                BY <3>5, <3>6, <3>7, <3>9, <3>10, <4>1, <4>2 DEF DraftFits
        <3>11. CASE x \notin written[r]
            <4>1. row[x].version > 0 /\ w.version > row[x].version
                BY <3>2, <3>4, <3>6, <3>8, <3>11 DEF Exists
            <4>2. QED
                BY <2>1, <3>2, <3>5, <3>6, <3>8, <3>9, <3>11, <4>1 DEF DraftFits
        <3>12. QED
            BY <3>9, <3>10, <3>11
    <2>4. QED
        BY <2>2, <2>3
<1> HIDE DEF w
<1>4. QED
    BY <1>1, <1>3, WriteKeeps

LEMMA DeleteDraftKeeps ==
    ASSUME IInv, NEW r \in Requests, DeleteDraft(r)
    PROVE  IInv'
<1> DEFINE x == Target(r)
           c == Current(r)
<1>1. Blockers(r) = {} /\ c.kind = "Delete" /\ pc[r] \in {"load", "write"}
    BY DEF DeleteDraft, Writing
<1>2. pc[r] = "load" /\ c = op[r] /\ x \in Documents /\ x = op[r].item
    <2>1. pc[r] # "write"
        BY <1>1 DEF IInv, ReadyOf
    <2>2. c = op[r] /\ op[r].item \in Documents
        BY <1>1, Commands DEF IsNested
    <2>3. QED
        BY <1>1, <2>1, <2>2 DEF Target
<1>3. CASE ~Deletable(x, row[x])
    BY <1>3, RollBackKeeps DEF DeleteDraft, Refusals
<1>4. CASE Deletable(x, row[x])
    <2> DEFINE w == [row[x] EXCEPT !.data = Result(c, @)]
    <2>1. Write(r, w)
        BY <1>4 DEF DeleteDraft
    <2>2. row[x] \in RowOf(x) /\ row[x].version \in Nat /\ row[x].data \in Data(x) /\ row[x].version > 0
          /\ Exists(x, row[x]) /\ row[x].data.status = "DRAFT"
        BY <1>2, <1>4 DEF IInv, RowsFit, RowOf, Deletable, Exists
    <2>3. /\ Result(c, row[x].data) \in Data(x) /\ StatusFits(x, Result(c, row[x].data))
          /\ Stands(x, row[x].data, Result(c, row[x].data)) /\ Result(c, row[x].data).status = "DELETED"
        <3>1. c.item = x
            BY DEF Target
        <3> HIDE DEF x, c
        <3>2. QED
            BY <1>1, <1>2, <2>2, <3>1, DeletionFits
    <2>4. w = [version |-> row[x].version, data |-> Result(c, row[x].data)]
        BY <2>2 DEF RowOf
    <2>5. w.version = row[x].version /\ w.data = Result(c, row[x].data) /\ w \in RowOf(x)
        BY <2>2, <2>3, <2>4 DEF RowOf
    <2>6. loaded[r][x].version > 0 => loaded[r][x].version <= row[x].version
        <3>1. x \notin written[r]
            BY <1>1, <1>2 DEF IInv, ReadyOf
        <3>2. Seen(r, x) = row[x]
            BY <3>1 DEF Seen
        <3>3. SnapshotOf(r)
            BY DEF IInv
        <3> HIDE DEF x
        <3>4. QED
            BY <1>2, <3>2, <3>3 DEF SnapshotOf
    <2> HIDE DEF w, x, c
    <2>7. DraftFits(r, x, w)
        BY <2>2, <2>3, <2>5 DEF DraftFits
    <2>8. loaded[r][x].version > 0 => loaded[r][x].version <= w.version /\ w.data.status = "DELETED"
        BY <2>3, <2>5, <2>6
    <2>9. QED
        BY <1>1, <1>2, <2>1, <2>7, <2>8, WriteKeeps DEF x, c
<1>5. QED
    BY <1>3, <1>4

LEMMA CommitKeeps ==
    ASSUME IInv, NEW r \in Requests, Commit(r)
    PROVE  IInv'
<1>1. /\ pc[r] = "commit" /\ row' = [x \in Items |-> Seen(r, x)] /\ pc' = [pc EXCEPT ![r] = "publish"]
      /\ loaded' = [loaded EXCEPT ![r] = NoRows] /\ written' = [written EXCEPT ![r] = {}]
      /\ mine' = [mine EXCEPT ![r] = NoRows] /\ UNCHANGED <<op, todo>>
    BY DEF Commit, GoTo
<1>2. /\ pc'[r] = "publish" /\ loaded'[r] = NoRows /\ written'[r] = {}
      /\ \A q \in Requests \ {r} : /\ pc'[q] = pc[q] /\ loaded'[q] = loaded[q]
                                   /\ written'[q] = written[q] /\ mine'[q] = mine[q]
    BY <1>1 DEF IInv, Shape
<1>3. /\ \A x \in Items \ written[r] : row'[x] = row[x]
      /\ \A x \in written[r] \cap Documents : row'[x] = mine[r][x] /\ DraftFits(r, x, row'[x])
    BY <1>1 DEF Seen, IInv, DraftOf, Items
<1>4. /\ \A x \in Documents : x \in Items /\ row[x].version \in Nat
      /\ \A q \in Requests : written[q] \in SUBSET Items
    BY DEF IInv, Shape, RowsFit, RowOf, Items
<1>5. Shape'
    <2>1. row' = [x \in Items |-> row'[x]] /\ op' \in [Requests -> Operations]
          /\ pc' = [q \in Requests |-> pc'[q]] /\ todo' = [q \in Requests |-> todo'[q]]
        BY <1>1 DEF IInv, Shape
    <2>2. \A q \in Requests : \E S : todo'[q] \in Seq(S) /\ \A c \in S : IsNested(c)
        BY <1>1 DEF IInv, Shape
    <2>3. written' \in [Requests -> SUBSET Items]
        BY <1>1 DEF IInv, Shape
    <2>4. loaded' = [q \in Requests |-> [x \in Items |-> loaded'[q][x]]]
        BY <1>1 DEF IInv, Shape, NoRows
    <2>5. mine' = [q \in Requests |-> [x \in Items |-> mine'[q][x]]]
        BY <1>1 DEF IInv, Shape, NoRows
    <2>6. QED
        BY <2>1, <2>2, <2>3, <2>4, <2>5 DEF Shape
<1>6. Distinct'
    BY <1>1 DEF IInv, Distinct
<1>7. RowsFit'
    <2>1. ASSUME NEW x \in Documents
          PROVE  /\ row'[x] \in RowOf(x) /\ StatusFits(x, row'[x].data)
                 /\ row'[x].version = 0 => row'[x].data.status = "NONE"
        <3>1. CASE x \in written[r]
            BY <1>3, <2>1, <3>1 DEF DraftFits
        <3>2. CASE x \notin written[r]
            BY <1>3, <1>4, <2>1, <3>2 DEF IInv, RowsFit
        <3>3. QED
            BY <3>1, <3>2
    <2>2. QED
        BY <2>1 DEF RowsFit
<1>8. Locks'
    <2>1. SUFFICES ASSUME NEW p \in Requests, NEW q \in Requests, p # q
                   PROVE  /\ written'[p] \cap written'[q] = {}
                          /\ \A y \in written'[p], z \in written'[q] :
                               SameNumber(y, z) => row'[y].version > 0
        BY DEF Locks
    <2>2. CASE p = r \/ q = r
        BY <1>2, <2>2
    <2>3. CASE p # r /\ q # r
        <3>1. /\ written[p] \cap written[q] = {} /\ written[p] \cap written[r] = {}
              /\ \A y \in written[p], z \in written[q] : SameNumber(y, z) => row[y].version > 0
            BY <2>1, <2>3 DEF IInv, Locks
        <3>2. \A y \in written[p] : row'[y] = row[y]
            BY <1>3, <1>4, <3>1
        <3>3. QED
            BY <1>2, <2>3, <3>1, <3>2
    <2>4. QED
        BY <2>2, <2>3
<1>9. NumbersUnique'
    <2>1. SUFFICES ASSUME NEW x \in Documents, NEW y \in Documents, SameNumber(x, y),
                          Exists(x, row'[x]), Exists(y, row'[y])
                   PROVE  x = y
        BY DEF NumbersUnique, Exists
    <2>2. SameNumber(y, x)
        BY <2>1 DEF SameNumber
    <2>3. \A z \in Documents :
            Exists(z, row'[z]) =>
              \/ Exists(z, row[z])
              \/ /\ op[r].item = z
                 /\ \A v \in Documents : SameNumber(z, v) => ~Exists(v, row[v])
        <3>1. SUFFICES ASSUME NEW z \in Documents, Exists(z, row'[z])
                       PROVE  \/ Exists(z, row[z])
                              \/ /\ op[r].item = z
                                 /\ \A v \in Documents : SameNumber(z, v) => ~Exists(v, row[v])
            OBVIOUS
        <3>2. CASE z \notin written[r]
            BY <1>3, <1>4, <3>1, <3>2
        <3>3. CASE z \in written[r]
            <4>1. DraftFits(r, z, row'[z]) /\ row[z].version \in Nat
                BY <1>3, <1>4, <3>1, <3>3
            <4>2. CASE row[z].version > 0
                BY <4>1, <4>2 DEF DraftFits
            <4>3. CASE row[z].version = 0
                BY <4>1, <4>3 DEF DraftFits
            <4>4. QED
                BY <4>1, <4>2, <4>3
        <3>4. QED
            BY <3>2, <3>3
    <2>4. QED
        BY <2>1, <2>2, <2>3 DEF IInv, NumbersUnique
<1>10. ASSUME NEW q \in Requests \ {r}
       PROVE  DraftOf(q)'
    <2>1. SUFFICES ASSUME NEW x \in written[q] \cap Documents PROVE DraftFits(q, x, mine[q][x])'
        BY <1>2 DEF DraftOf, DraftFits
    <2>2. x \notin written[r] /\ row'[x] = row[x]
        BY <1>3, <1>4, <2>1 DEF IInv, Locks
    <2>3. DraftFits(q, x, mine[q][x])
        BY <2>1 DEF IInv, DraftOf
    <2>4. ASSUME row[x].version = 0, NEW y \in Documents, SameNumber(x, y)
          PROVE  ~Exists(y, row'[y])
        <3>1. ~Exists(y, row[y])
            BY <2>3, <2>4 DEF DraftFits
        <3>2. y \notin written[r]
            BY <2>1, <2>4 DEF IInv, Locks
        <3>3. QED
            BY <1>3, <1>4, <3>1, <3>2
    <2>5. mine'[q][x] = mine[q][x]
        BY <1>2
    <2>6. QED
        BY <1>1, <2>2, <2>3, <2>4, <2>5 DEF DraftFits
<1>11. ASSUME NEW q \in Requests \ {r}
       PROVE  SnapshotOf(q)'
    <2>1. pc'[q] = pc[q] /\ loaded'[q] = loaded[q] /\ Target(q)' = Target(q)
        BY <1>1, <1>2 DEF Target, Current, Outermost
    <2>2. ASSUME NEW x \in Documents, loaded[q][x].version > 0
          PROVE  /\ loaded[q][x] \in RowOf(x)
                 /\ loaded[q][x].version <= Seen(q, x)'.version
                 /\ loaded[q][x].version = Seen(q, x)'.version /\ Exists(x, Seen(q, x)') =>
                      \/ loaded[q][x].data = Seen(q, x)'.data
                      \/ /\ pc[q] = "loadLines" /\ x = Target(q)
                         /\ loaded[q][x].data = [Seen(q, x)'.data EXCEPT !.lines = NoLines(x)]
        <3> DEFINE now == Seen(q, x)
        <3>1. /\ loaded[q][x] \in RowOf(x)
              /\ loaded[q][x].version <= now.version
              /\ loaded[q][x].version = now.version /\ Exists(x, now) =>
                   \/ loaded[q][x].data = now.data
                   \/ /\ pc[q] = "loadLines" /\ x = Target(q)
                      /\ loaded[q][x].data = [now.data EXCEPT !.lines = NoLines(x)]
            BY <2>2 DEF IInv, SnapshotOf
        <3>2. CASE x \in written[q] \/ x \notin written[r]
            <4>1. Seen(q, x)' = now
                BY <1>2, <1>3, <1>4, <3>2 DEF Seen
            <4> HIDE DEF now
            <4>2. QED
                BY <3>1, <4>1
        <3>3. CASE x \notin written[q] /\ x \in written[r]
            <4>1. now = row[x] /\ Seen(q, x)' = row'[x] /\ DraftFits(r, x, row'[x])
                BY <1>2, <1>3, <2>2, <3>3 DEF Seen
            <4>2. row'[x].version \in Nat /\ row[x].version \in Nat /\ loaded[q][x].version \in Nat
                BY <1>4, <2>2, <3>1, <4>1 DEF DraftFits, RowOf
            <4>3. row'[x].version >= row[x].version
                  /\ (row'[x].version = row[x].version => ~Exists(x, row'[x]))
                BY <4>1, <4>2 DEF DraftFits, Exists
            <4> HIDE DEF now
            <4>4. QED
                BY <3>1, <4>1, <4>2, <4>3
        <3>4. QED
            BY <3>2, <3>3
    <2>3. QED
        BY <2>1, <2>2 DEF SnapshotOf
<1>12. ASSUME NEW q \in Requests \ {r}
       PROVE  ReadyOf(q)'
    <2>1. /\ pc'[q] = pc[q] /\ loaded'[q] = loaded[q] /\ written'[q] = written[q] /\ todo' = todo /\ op' = op
          /\ Target(q)' = Target(q) /\ Current(q)' = Current(q)
        BY <1>1, <1>2 DEF Target, Current, Outermost
    <2>2. ASSUME op[q].kind = "Create", pc[q] \in {"load", "write"}
          PROVE  row'[op[q].item].version = 0
        <3> DEFINE x == op[q].item
        <3>1. x \in Documents /\ row[x].version = 0
            BY <2>2, Commands DEF IInv, ReadyOf
        <3>2. x \notin written[r]
            BY <2>2, <3>1 DEF IInv, DraftOf, DraftFits, Distinct
        <3>3. QED
            BY <1>3, <1>4, <3>1, <3>2
    <2>3. QED
        BY <2>1, <2>2 DEF IInv, ReadyOf, Carried
<1>13. DraftOf(r)'
    BY <1>2 DEF DraftOf
<1>14. SnapshotOf(r)'
    <2>1. \A x \in Documents : loaded'[r][x].version = 0
        BY <1>2 DEF NoRows, NoRow, Items
    <2>2. QED
        BY <2>1 DEF SnapshotOf
<1>15. ReadyOf(r)'
    <2>1. todo[r] = <<>>
        BY <1>1 DEF IInv, ReadyOf
    <2>2. QED
        BY <1>1, <1>2, <2>1 DEF ReadyOf
<1>16. QED
    BY <1>5, <1>6, <1>7, <1>8, <1>9, <1>10, <1>11, <1>12, <1>13, <1>14, <1>15 DEF IInv

-----------------------------------------------------------------------------
(* The theorems *)

LEMMA StepKeeps == IInv /\ [Next]_vars => IInv'
<1> SUFFICES ASSUME IInv, [Next]_vars PROVE IInv'
    OBVIOUS
<1>1. CASE UNCHANGED vars
    <2>1. UNCHANGED <<row, op, pc, todo, loaded, written, mine>>
        BY <1>1 DEF vars
    <2>2. Shape' /\ Distinct' /\ RowsFit' /\ Locks' /\ NumbersUnique'
        BY <2>1 DEF IInv, Shape, Distinct, RowsFit, Locks, NumbersUnique
    <2>3. \A q \in Requests : DraftOf(q)' /\ SnapshotOf(q)' /\ ReadyOf(q)'
        BY <2>1, SameDraft, SameRequest DEF IInv
    <2>4. QED
        BY <2>2, <2>3 DEF IInv
<1>2. ASSUME NEW r \in Requests,
             Step(r) \/ InputRefused(r) \/ Fail(r) \/ LoseEvents(r) \/ DeadlockVictim(r)
      PROVE  IInv'
    <2>1. CASE LoadPosition(r)
        BY <2>1, LoadPositionKeeps
    <2>2. CASE LoadHeader(r)
        BY <2>2, LoadHeaderKeeps
    <2>3. CASE LoadLines(r)
        BY <2>3, LoadLinesKeeps
    <2>4. CASE CheckNumber(r)
        BY <2>4, CheckNumberKeeps
    <2>5. CASE WriteRow(r)
        BY <2>5, WriteRowKeeps
    <2>6. CASE WriteStale(r) \/ WriteDuplicate(r)
        BY <2>6, RollBackKeeps DEF WriteStale, WriteDuplicate, Refusals
    <2>7. CASE DeleteDraft(r)
        BY <2>7, DeleteDraftKeeps
    <2>8. CASE Commit(r)
        BY <2>8, CommitKeeps
    <2>9. CASE Publish(r) \/ LoseEvents(r)
        BY <2>9, PublishKeeps
    <2>10. CASE InputRefused(r) \/ Fail(r) \/ DeadlockVictim(r)
        BY <2>10, RollBackKeeps DEF InputRefused, Fail, DeadlockVictim, Refusals
    <2>11. QED
        BY <1>2, <2>1, <2>2, <2>3, <2>4, <2>5, <2>6, <2>7, <2>8, <2>9, <2>10 DEF Step
<1>3. QED
    BY <1>1, <1>2 DEF Next

\* The invariant of the receipt and order services: what an open transaction wrote
\* fits, builds on the row it is about to replace and holds its number; what it read
\* is what it would read now, or is recognisably out of date.
THEOREM InductiveInvariant == Spec => []IInv
BY InitIInv, StepKeeps, PTL DEF Spec

\* Two live documents of a kind never carry one number, however their creations
\* interleave: the insert waits for every open transaction that used the number.
THEOREM NumbersStayUnique == Spec => []NumbersUnique
<1>1. IInv => NumbersUnique
    BY DEF IInv
<1>2. QED
    BY <1>1, InductiveInvariant, PTL

\* A document's status never disagrees with its lines, although header and lines are
\* read by two statements and receipts are booked on an order from other transactions.
THEOREM StatusesFit == Spec => []StatusMatchesLines
<1>1. IInv => StatusMatchesLines
    BY DEF IInv, RowsFit, StatusMatchesLines
<1>2. QED
    BY <1>1, InductiveInvariant, PTL

\* Only a commit changes a row.
LEMMA OnlyCommitsWrite ==
    ASSUME NEW r \in Requests,
           Step(r) \/ InputRefused(r) \/ Fail(r) \/ LoseEvents(r) \/ DeadlockVictim(r), ~Commit(r)
    PROVE  row' = row
<1>1. CASE LoadPosition(r) \/ LoadHeader(r) \/ LoadLines(r) \/ CheckNumber(r)
    BY <1>1 DEF LoadPosition, LoadHeader, LoadLines, CheckNumber, RollBack, Keep, db
<1>2. CASE WriteRow(r) \/ WriteStale(r) \/ WriteDuplicate(r) \/ DeleteDraft(r)
    BY <1>2 DEF WriteRow, WriteStale, WriteDuplicate, DeleteDraft, Write, RollBack, db
<1>3. CASE Publish(r) \/ LoseEvents(r)
    BY <1>3 DEF Publish, LoseEvents, db
<1>4. CASE InputRefused(r) \/ Fail(r) \/ DeadlockVictim(r)
    BY <1>4 DEF InputRefused, Fail, DeadlockVictim, RollBack, db
<1>5. QED
    BY <1>1, <1>2, <1>3, <1>4 DEF Step

\* A step keeps what was settled.
LEMMA RowsStand ==
    ASSUME IInv, Next
    PROVE  \A x \in Documents : Stands(x, row[x].data, row'[x].data)
<1> SUFFICES ASSUME NEW x \in Documents
             PROVE  Stands(x, row[x].data, row'[x].data)
    OBVIOUS
<1>1. row[x].data \in Data(x) /\ x \in Items
    BY DEF IInv, RowsFit, RowOf, Items
<1>2. Stands(x, row[x].data, row[x].data)
    BY <1>1, StandsStill
<1>3. PICK r \in Requests :
        Step(r) \/ InputRefused(r) \/ Fail(r) \/ LoseEvents(r) \/ DeadlockVictim(r)
    BY DEF Next
<1>4. CASE Commit(r)
    <2>1. row'[x] = Seen(r, x)
        BY <1>1, <1>4 DEF Commit
    <2>2. CASE x \in written[r]
        BY <2>1, <2>2 DEF Seen, IInv, DraftOf, DraftFits
    <2>3. CASE x \notin written[r]
        BY <1>2, <2>1, <2>3 DEF Seen
    <2>4. QED
        BY <2>2, <2>3
<1>5. CASE ~Commit(r)
    <2>1. row' = row
        BY <1>3, <1>5, OnlyCommitsWrite
    <2>2. QED
        BY <1>2, <2>1
<1>6. QED
    BY <1>4, <1>5

\* Past DRAFT a document only changes as its life cycle allows, and a final one never
\* does, whatever requests read it before.
THEOREM LockedStand == Spec => LockedDocumentsStand
<1>1. IInv /\ [Next]_vars => [\A x \in Documents : Stands(x, row[x].data, row'[x].data)]_vars
    BY RowsStand
<1>2. QED
    BY <1>1, InductiveInvariant, PTL DEF Spec, LockedDocumentsStand
=============================================================================
