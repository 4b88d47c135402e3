------------------------------ MODULE Receiving ------------------------------
(***************************************************************************)
(* The goods receipt and purchase order services over PostgreSQL, with the *)
(* inventory service as far as a receipt calls it: concurrent requests,    *)
(* each running one operation on one document as a READ COMMITTED          *)
(* transaction, statement by statement.                                    *)
(*                                                                         *)
(* Receive runs the others' operations inside its own transaction.  Every  *)
(* operation has the same course (load the item, let the aggregate decide, *)
(* write it under a version check), so a nested call repeats that course   *)
(* on its own item; todo holds the calls still to make and is empty while  *)
(* the request works on its own document.                                  *)
(*                                                                         *)
(* A header and its lines are read by two statements, and can be read from *)
(* two different versions.  They are written as one step: the lines are    *)
(* only ever written under the lock the header's statement took.           *)
(***************************************************************************)
EXTENDS ReceivingRules

CONSTANTS
    Requests,   \* HTTP requests in flight
    Openings    \* the documents and stock a behaviour may begin with

ASSUME OpeningsAssumption == \A w \in Openings : WellFormed(w)

VARIABLES
    row,        \* committed rows: [version, data] of every item; version 0, no row
    opening,    \* the rows when the behaviour began
    op,         \* what each request was asked to do
    pc,         \* the statement each request runs next, or how it ended
    todo,       \* the nested calls it has still to make
    loaded,     \* the rows it read
    written,    \* the rows its open transaction has written, and locks
    mine,       \* the values it wrote there
    announced   \* the items whose events it has published

vars == <<row, opening, op, pc, todo, loaded, written, mine, announced>>

db == <<row, opening>>

NoRow(x) == [version |-> 0, data |-> NoData(x)]

NoRows == [x \in Items |-> NoRow(x)]

IsRow(w, x) == w.version \in Nat /\ w.data \in Data(x)

Running == {"load", "loadLines", "write", "commit"}

Committed == {"publish", "published", "lost"}

Refusals == {"refused", "conflict", "duplicate", "failed"}

Ended == Refusals \cup {"published", "lost"}

IsCall(c) ==
    \/ c.kind = "Post" /\ c.item \in Positions /\ c.units \in 1 .. MaxInt
    \/ c.kind = "Record" /\ c.item \in Orders /\ c.product \in Products /\ c.units \in Int

TypeOK ==
    /\ \A x \in Items : IsRow(row[x], x) /\ IsRow(opening[x], x)
    /\ op \in [Requests -> Operations]
    /\ pc \in [Requests -> Running \cup Committed \cup Refusals]
    /\ \A r \in Requests :
         /\ \A i \in DOMAIN todo[r] : IsCall(todo[r][i])
         /\ written[r] \subseteq Items /\ announced[r] \subseteq Items
         /\ \A x \in Items : IsRow(loaded[r][x], x) /\ IsRow(mine[r][x], x)

\* Ids are generated: a document to be created is no request's but one's, and new.
Init ==
    /\ \E w \in Openings :
         row = [x \in Items |-> [version |-> IF w[x] = NoData(x) THEN 0 ELSE 1, data |-> w[x]]]
    /\ opening = row
    /\ op \in [Requests -> Operations]
    /\ \A r \in Requests :
         op[r].kind = "Create" =>
             /\ row[op[r].item].version = 0
             /\ \A q \in Requests : op[q].kind = "Create" /\ op[q].item = op[r].item => q = r
    /\ pc = [r \in Requests |-> "load"]
    /\ todo = [r \in Requests |-> <<>>]
    /\ loaded = [r \in Requests |-> NoRows]
    /\ written = [r \in Requests |-> {}]
    /\ mine = [r \in Requests |-> NoRows]
    /\ announced = [r \in Requests |-> {}]

-----------------------------------------------------------------------------
(* The command a request is carrying out, and the rows it sees *)

Outermost(r) == todo[r] = <<>>

Current(r) == IF Outermost(r) THEN op[r] ELSE Head(todo[r])

Target(r) == Current(r).item

\* A statement sees the committed rows and its own transaction's writes.
Seen(r, x) == IF x \in written[r] THEN mine[r][x] ELSE row[x]

Exists(x, w) == w.version > 0 /\ (x \in Documents => w.data.status # "DELETED")

Inserts(r) == loaded[r][Target(r)].version = 0

GoTo(r, label) == pc' = [pc EXCEPT ![r] = label]

Keep(r) == UNCHANGED <<db, op, written, mine, announced>>

\* Slip: the request is answered and its transaction never ended.
RollBackHolding(r, outcome) ==
    /\ GoTo(r, outcome)
    /\ todo' = [todo EXCEPT ![r] = <<>>]
    /\ loaded' = [loaded EXCEPT ![r] = NoRows]
    /\ UNCHANGED <<db, op, announced, written, mine>>

\* The transaction ends without effect and releases its locks.  What it has
\* published stays published.
RollBack(r, outcome) ==
    /\ GoTo(r, outcome)
    /\ todo' = [todo EXCEPT ![r] = <<>>]
    /\ loaded' = [loaded EXCEPT ![r] = NoRows]
    /\ written' = [written EXCEPT ![r] = {}]
    /\ mine' = [mine EXCEPT ![r] = NoRows]
    /\ UNCHANGED <<db, op, announced>>

-----------------------------------------------------------------------------
(* Reading *)

\* GetOrCreatePosition and the aggregate's Receive.
LoadPosition(r) ==
    LET x == Target(r)
    IN  /\ pc[r] = "load"
        /\ x \in Positions
        /\ IF Accepts(Current(r), Seen(r, x).data)
           THEN /\ loaded' = [loaded EXCEPT ![r][x] = Seen(r, x)]
                /\ GoTo(r, "write") /\ Keep(r) /\ UNCHANGED todo
           ELSE RollBack(r, "refused")

\* The header's statement of FindByID; the lines are read by the next one.
LoadHeader(r) ==
    LET x == Target(r)
    IN  /\ pc[r] = "load"
        /\ x \in Documents
        /\ Current(r).kind \notin {"Create", "Delete"}
        /\ IF Exists(x, Seen(r, x))
           THEN /\ loaded' = [loaded EXCEPT ![r][x] =
                                [Seen(r, x) EXCEPT !.data.lines = NoLines(x)]]
                /\ GoTo(r, "loadLines") /\ Keep(r) /\ UNCHANGED todo
           ELSE RollBack(r, "refused")

\* Slip: Receive posts whatever the status of the receipt.
AcceptedUnlessReceive(r, d) == Current(r).kind = "Receive" \/ Accepts(Current(r), d)

Accepted(r, d) == Accepts(Current(r), d)

\* The lines, and the aggregate's behaviour.  Receive then has calls to make.
LoadLines(r) ==
    LET x    == Target(r)
        data == [loaded[r][x].data EXCEPT !.lines = Seen(r, x).data.lines]
    IN  /\ pc[r] = "loadLines"
        /\ IF Accepted(r, data)
           THEN /\ loaded' = [loaded EXCEPT ![r][x].data = data]
                /\ IF Current(r).kind = "Receive" /\ Calls(data) # <<>>
                   THEN todo' = [todo EXCEPT ![r] = Calls(data)] /\ GoTo(r, "load")
                   ELSE UNCHANGED todo /\ GoTo(r, "write")
                /\ Keep(r)
           ELSE RollBack(r, "refused")

\* ExistsByNumber, which only sees what is committed.
CheckNumber(r) ==
    /\ pc[r] = "load"
    /\ Current(r).kind = "Create"
    /\ IF \E y \in Documents : SameNumber(Target(r), y) /\ Exists(y, row[y])
       THEN RollBack(r, "refused")
       ELSE GoTo(r, "write") /\ Keep(r) /\ UNCHANGED <<todo, loaded>>

\* A warehouse, location, product or supplier the input names is refused by the
\* module that owns it.
InputRefused(r) ==
    /\ pc[r] = "load"
    /\ Current(r).kind \in {"Create", "Update", "Post"}
    /\ RollBack(r, "refused")

-----------------------------------------------------------------------------
(* Writing *)

\* Slip: an update waits for nobody.
BlockersOfCreate(r) ==
    {q \in Requests \ {r} :
        \E y \in written[q] : Current(r).kind = "Create" /\ SameNumber(Target(r), y)}

\* An update waits for the row's lock, an insert for every open transaction that
\* wrote the same document number or the same position.
Blockers(r) ==
    LET x == Target(r)
    IN  {q \in Requests \ {r} :
            \E y \in written[q] :
                y = x \/ (Current(r).kind = "Create" /\ SameNumber(x, y))}

Writing(r) ==
    /\ \/ pc[r] = "write"
       \/ pc[r] = "load" /\ Current(r).kind = "Delete"
    /\ Blockers(r) = {}

\* Slip: no unique index on the number.
DuplicateUnindexed(r) == Target(r) \in Positions /\ row[Target(r)].version > 0

Duplicate(r) ==
    LET x == Target(r)
    IN  IF x \in Positions THEN row[x].version > 0
        ELSE \E y \in Documents : SameNumber(x, y) /\ Exists(y, row[y])

\* Slip: Save instead of UpdateOptimistic.
StaleNever(r) == FALSE

Stale(r) ==
    LET x == Target(r)
    IN  Seen(r, x).version # loaded[r][x].version \/ ~Exists(x, Seen(r, x))

\* The statement writes w; a nested call then returns and publishes its events,
\* though the transaction it runs in is still open.
Write(r, w) ==
    LET x == Target(r)
    IN  /\ written' = [written EXCEPT ![r] = @ \cup {x}]
        /\ mine' = [mine EXCEPT ![r][x] = w]
        /\ IF Outermost(r)
           THEN GoTo(r, "commit") /\ UNCHANGED <<todo, announced>>
           ELSE /\ todo' = [todo EXCEPT ![r] = Tail(@)]
                /\ GoTo(r, IF Len(todo[r]) = 1 THEN "write" ELSE "load")
                /\ announced' = [announced EXCEPT ![r] = @ \cup {x}]
        /\ UNCHANGED <<db, op, loaded>>

WriteRow(r) ==
    LET was == loaded[r][Target(r)]
    IN  /\ Writing(r) /\ pc[r] = "write"
        /\ IF Inserts(r) THEN ~Duplicate(r) ELSE ~Stale(r)
        /\ Write(r, [version |-> was.version + 1, data |-> Result(Current(r), was.data)])

\* No row matched: ErrConcurrentModification, from wherever it is nested.
WriteStale(r) ==
    /\ Writing(r) /\ pc[r] = "write"
    /\ ~Inserts(r) /\ Stale(r)
    /\ RollBack(r, "conflict")

WriteDuplicate(r) ==
    /\ Writing(r) /\ pc[r] = "write"
    /\ Inserts(r) /\ Duplicate(r)
    /\ RollBack(r, "duplicate")

\* Slip: the status is not re-checked in SQL.
DeletableAlways(x, w) == Exists(x, w)

Deletable(x, w) == Exists(x, w) /\ w.data.status = "DRAFT"

\* One UPDATE that finds a live draft or nothing; the version stays.
DeleteDraft(r) ==
    LET x == Target(r)
    IN  /\ Writing(r) /\ Current(r).kind = "Delete"
        /\ IF Deletable(x, row[x])
           THEN Write(r, [row[x] EXCEPT !.data = Result(Current(r), @)])
           ELSE RollBack(r, "refused")

Commit(r) ==
    /\ pc[r] = "commit"
    /\ row' = [x \in Items |-> Seen(r, x)]
    /\ GoTo(r, "publish")
    /\ loaded' = [loaded EXCEPT ![r] = NoRows]
    /\ written' = [written EXCEPT ![r] = {}]
    /\ mine' = [mine EXCEPT ![r] = NoRows]
    /\ UNCHANGED <<opening, op, todo, announced>>

\* The document's own events, after the commit.  A deletion has none.
Publish(r) ==
    /\ pc[r] = "publish"
    /\ GoTo(r, "published")
    /\ announced' = [announced EXCEPT ![r] = IF op[r].kind = "Delete" THEN @ ELSE @ \cup {op[r].item}]
    /\ UNCHANGED <<db, op, todo, loaded, written, mine>>

-----------------------------------------------------------------------------
(* Failures *)

\* The client hangs up, the connection breaks or the process dies.
Fail(r) ==
    /\ pc[r] \in Running
    /\ RollBack(r, "failed")

\* The process dies after the commit, before the last event is published.
LoseEvents(r) ==
    /\ pc[r] = "publish"
    /\ GoTo(r, "lost")
    /\ UNCHANGED <<db, op, todo, loaded, written, mine, announced>>

Waits(r, q) ==
    /\ pc[r] = "write" \/ (pc[r] = "load" /\ Current(r).kind = "Delete")
    /\ q \in Blockers(r)

\* A cycle of transactions each waiting for another's lock.
Deadlocked(r) ==
    \E C \in SUBSET Requests :
        /\ r \in C
        /\ \A q \in C : (\E s \in C : Waits(q, s)) /\ (\E s \in C : Waits(s, q))

\* PostgreSQL cancels one transaction of the cycle.
DeadlockVictim(r) ==
    /\ Deadlocked(r)
    /\ RollBack(r, "failed")

-----------------------------------------------------------------------------

Step(r) ==
    \/ LoadPosition(r) \/ LoadHeader(r) \/ LoadLines(r) \/ CheckNumber(r)
    \/ WriteRow(r) \/ WriteStale(r) \/ WriteDuplicate(r) \/ DeleteDraft(r)
    \/ Commit(r) \/ Publish(r)

Next ==
    \E r \in Requests :
        Step(r) \/ InputRefused(r) \/ Fail(r) \/ LoseEvents(r) \/ DeadlockVictim(r)

Spec == Init /\ [][Next]_vars

\* A goroutine per request, and PostgreSQL's deadlock detector; nothing obliges
\* a failure.
Fairness == \A r \in Requests : WF_vars(Step(r)) /\ WF_vars(DeadlockVictim(r))

FairSpec == Spec /\ Fairness

-----------------------------------------------------------------------------
(* Properties *)

\* The receipts posted since the behaviour began.
Posted == {g \in Receipts : row[g].data.status = "RECEIVED" /\ opening[g].data.status # "RECEIVED"}

LinesOf(g) == row[g].data.lines

\* The units the lines bring to a position.
UnitsAt(lines, p) ==
    SumFunctionOnSet([i \in DOMAIN lines |-> lines[i].units],
                     {i \in DOMAIN lines : lines[i].position = p})

\* Stock and documents agree (goodsreceipt service.go Receive: "a receipt marked
\* RECEIVED whose stock never arrived - or half arrived - would be worse than no
\* receipt at all"): a position holds what it held, plus every line of every
\* received receipt, once.
StockMatchesReceipts ==
    \A p \in Positions :
        row[p].data = opening[p].data +
                        SumFunctionOnSet([g \in Receipts |-> UnitsAt(LinesOf(g), p)], Posted)

\* Orders and receipts agree (purchase_order.go RecordReceipt: "the ONLY way
\* received quantity changes"): an order has received what the receipts posted
\* against it brought, product by product.
OrdersMatchReceipts ==
    \A o \in Orders, p \in Products :
        LET line == row[o].data.lines[p]
            from == {g \in Posted : row[g].data.order = o}
        IN  line.received = opening[o].data.lines[p].received +
                              SumFunctionOnSet([g \in Receipts |-> Units(LinesOf(g), p)], from)

\* "PARTIALLY_RECEIVED and COMPLETED can never disagree with the quantities they
\* describe", no approved document is empty, and no order with receipts is
\* cancelled.
StatusMatchesLines == \A x \in Documents : StatusFits(x, row[x].data)

\* Two live documents of a kind never carry one number, though the check for it
\* and the insert are two statements.
NumbersUnique ==
    \A x, y \in Documents :
        SameNumber(x, y) /\ Exists(x, row[x]) /\ Exists(y, row[y]) => x = y

Frozen == {"RECEIVED", "COMPLETED", "CANCELLED", "DELETED"}

Stands(x, was, is) ==
    /\ was.status \in Frozen => is = was
    /\ was.status \notin Absent \cup {"DRAFT"} =>
         /\ is.status \notin Absent \cup {"DRAFT"}
         /\ is.order = was.order
         /\ IF x \in Receipts THEN is.lines = was.lines
            ELSE \A p \in Products :
                   /\ is.lines[p].ordered = was.lines[p].ordered
                   /\ is.lines[p].received >= was.lines[p].received

\* What was checked, approved or posted stays as it was: past DRAFT a receipt's
\* lines and reference never change again and an order's only in what it has
\* received, which never falls; a final document never changes at all.
LockedDocumentsStand == [][\A x \in Documents : Stands(x, row[x].data, row'[x].data)]_vars

\* Every request ends: two receipts that post to the same positions in opposite
\* orders wait for one another.
AllEnd == \A r \in Requests : <>(pc[r] \in Ended)

\* "A rolled-back transaction leaves no row and emits no event" (docs/Inventory.md).
RolledBackEmitsNothing ==
    \A r \in Requests : pc[r] \in Refusals => announced[r] = {}

\* The conflict answer carries the receipt's id and version, "the current version
\* as the retry token": that is the row that changed.
ConflictNamesTheChanged ==
    [][\A r \in Requests :
          pc[r] # "conflict" /\ pc'[r] = "conflict" =>
              LET x == op[r].item
              IN  row[x].version # loaded[r][x].version \/ ~Exists(x, row[x])]_vars

\* Inbound is serializable: seen through its committed rows, every request, the
\* calls of Receive included, happens whole.  A torn read of a header and its
\* lines, or a half posted receipt, has no counterpart there.
Book == INSTANCE ReceivingBook WITH book <- [x \in Items |-> row[x].data]

ImplementsBook == Book!BookSpec
=============================================================================
