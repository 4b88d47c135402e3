------------------------------ MODULE Inventory ------------------------------
(***************************************************************************)
(* The inventory service over PostgreSQL: concurrent requests, each running *)
(* one stock movement as a READ COMMITTED transaction, statement by        *)
(* statement.  One action is one SQL statement together with the           *)
(* computation on the aggregate up to the next one.                        *)
(*                                                                         *)
(* A row and its absence are told apart by the version: the code writes    *)
(* versions from 1 on, so version 0 stands for "no row".  The aggregate a  *)
(* request holds in memory is a function of the rows it loaded, so only    *)
(* those are state; and so are the values of its uncommitted writes, of    *)
(* which only the set of rows is kept.                                     *)
(***************************************************************************)
EXTENDS StockMovements, Sequences, FiniteSets

CONSTANTS
    Requests,   \* HTTP requests (or nested calls) in flight
    Openings    \* balances a position may hold when the behaviour begins

ASSUME OpeningsAssumption ==
    \A b \in Openings : b \in Buckets /\ Total(b) <= MaxInt

VARIABLES
    row,        \* inventory_positions, committed
    ledger,     \* inventory_ledger_entries, committed, by position
    opening,    \* the rows when the behaviour began
    op,         \* what each request was asked to do
    pc,         \* the statement each request runs next, or how it ended
    loaded,     \* the rows each request read
    written,    \* the rows its open transaction has updated or inserted, and locks
    witnessed,  \* the rows for which it has appended a ledger entry
    published   \* the requests whose events were published

vars == <<row, ledger, opening, op, pc, loaded, written, witnessed, published>>

db == <<row, ledger, opening>>

NoRow == [b |-> Empty, version |-> 0]

Rows == [b : Buckets, version : Nat]

Entries == [before : Buckets, after : Buckets, by : Requests]

Running == {"load", "loadDestination", "write", "append", "commit"}

Committed == {"publish", "published", "lost"}

Refusals == {"refused", "conflict", "duplicate", "failed"}

Ended == Refusals \cup {"published", "lost"}

TypeOK ==
    /\ row \in [Keys -> Rows]
    /\ ledger \in [Keys -> Seq(Entries)]
    /\ opening \in [Keys -> Rows]
    /\ op \in [Requests -> Operations]
    /\ pc \in [Requests -> Running \cup Committed \cup Refusals]
    /\ loaded \in [Requests -> [Keys -> Rows]]
    /\ written \in [Requests -> SUBSET Keys]
    /\ witnessed \in [Requests -> SUBSET Keys]
    /\ published \in SUBSET Requests

Exists(k) == row[k].version > 0

OneEntryEach(S) == \A j, k \in S : IndexEntry[j] = IndexEntry[k] => j = k

\* Any table the service could have left behind, its history folded into opening.
Init ==
    /\ row \in [Keys -> {NoRow} \cup [b : Openings, version : {1}]]
    /\ OneEntryEach({k \in Keys : Exists(k)})
    /\ \A k \in Keys : RowCheck(k \in Serial, row[k].b)
    /\ opening = row
    /\ ledger = [k \in Keys |-> <<>>]
    /\ op \in [Requests -> Operations]
    /\ pc = [r \in Requests |-> "load"]
    /\ loaded = [r \in Requests |-> [k \in Keys |-> NoRow]]
    /\ written = [r \in Requests |-> {}]
    /\ witnessed = [r \in Requests |-> {}]
    /\ published = {}

-----------------------------------------------------------------------------
(* The aggregates of a request *)

Before(r, k) == loaded[r][k].b

After(r, k) == LegResult(op[r], k, Before(r, k))

Accepted(o, k, was) == (was.version > 0 \/ MayOpen(o, k)) /\ LegAccepted(o, k, was.b)

\* Slip: the version the WHERE clause expects moves down instead of the next one up.
NewRowBackwards(r, k) == [b |-> After(r, k), version |-> loaded[r][k].version - 1]

\* The row the request writes: an insert stores version 1, an update the next one.
NewRow(r, k) == [b |-> After(r, k), version |-> loaded[r][k].version + 1]

NewEntry(r, k) == [before |-> Before(r, k), after |-> After(r, k), by |-> r]

Inserts(r, k) == loaded[r][k].version = 0

\* The order of the statements of a transfer: the origin's, then the destination's.
NextLeg(r, done) == IF op[r].key \in done THEN op[r].to ELSE op[r].key

GoTo(r, label) == pc' = [pc EXCEPT ![r] = label]

\* Slip: the request is answered and its transaction never ended.
RollBackHolding(r, outcome) ==
    /\ GoTo(r, outcome)
    /\ loaded' = [loaded EXCEPT ![r] = [k \in Keys |-> NoRow]]
    /\ UNCHANGED <<db, op, written, witnessed, published>>

\* The transaction ends without effect and releases its locks.
RollBack(r, outcome) ==
    /\ GoTo(r, outcome)
    /\ written' = [written EXCEPT ![r] = {}]
    /\ witnessed' = [witnessed EXCEPT ![r] = {}]
    /\ loaded' = [loaded EXCEPT ![r] = [k \in Keys |-> NoRow]]
    /\ UNCHANGED <<db, op, published>>

-----------------------------------------------------------------------------
(* Reading *)

Read(r, k) == loaded' = [loaded EXCEPT ![r][k] = row[k]]

KeepReading(r) ==
    UNCHANGED <<db, op, written, witnessed, published>>

\* FindByID, or GetOrCreatePosition after verifyKey, and the aggregate's behaviour.
LoadPosition(r) ==
    LET o == op[r]
    IN  /\ pc[r] = "load"
        /\ o.kind # "TransferStock"
        /\ IF Accepted(o, o.key, row[o.key])
           THEN Read(r, o.key) /\ GoTo(r, "write") /\ KeepReading(r)
           ELSE RollBack(r, "refused")

\* The origin of a transfer is only read; it is debited once both are loaded.
LoadOrigin(r) ==
    LET o == op[r]
    IN  /\ pc[r] = "load"
        /\ o.kind = "TransferStock"
        /\ IF Exists(o.key) /\ o.key # o.to
           THEN Read(r, o.key) /\ GoTo(r, "loadDestination") /\ KeepReading(r)
           ELSE RollBack(r, "refused")

LoadDestination(r) ==
    LET o == op[r]
    IN  /\ pc[r] = "loadDestination"
        /\ IF Accepted(o, o.key, loaded[r][o.key]) /\ Accepted(o, o.to, row[o.to])
           THEN Read(r, o.to) /\ GoTo(r, "write") /\ KeepReading(r)
           ELSE RollBack(r, "refused")

\* verifyKey: the warehouse, the location or the product does not exist, or the
\* location is archived.  Those modules decide.
KeyRefused(r) ==
    /\ \/ pc[r] = "load" /\ op[r].kind = "ReceiveStock"
       \/ pc[r] = "loadDestination"
    /\ RollBack(r, "refused")

-----------------------------------------------------------------------------
(* Writing *)

\* Slip: an insert waits for nobody.
BlockersOfUpdate(r, k) == {q \in Requests \ {r} : ~Inserts(r, k) /\ k \in written[q]}

\* The open transactions whose uncommitted write the statement on k waits for:
\* an update waits for the row, an insert for the entry of the unique index.
Blockers(r, k) ==
    {q \in Requests \ {r} :
        \E j \in written[q] :
            IF Inserts(r, k) THEN Inserts(q, j) /\ IndexEntry[j] = IndexEntry[k]
                             ELSE j = k}

Writing(r, k) ==
    /\ pc[r] = "write"
    /\ k = NextLeg(r, written[r])
    /\ Blockers(r, k) = {}

\* Slip: a unique index per location, even for serial numbers.
DuplicateKey(k) == Exists(k)

Duplicate(k) == \E j \in Keys : Exists(j) /\ IndexEntry[j] = IndexEntry[k]

\* Slips: Save instead of UpdateOptimistic; the WHERE clause given the next version.
StaleNever(r, k) == FALSE

StaleBeforeNext(r, k) == row[k].version # loaded[r][k].version + 1

Stale(r, k) == row[k].version # loaded[r][k].version

\* INSERT, or UPDATE ... WHERE id AND version, of the next position.
WriteRow(r) ==
    \E k \in Touches(op[r]) :
        /\ Writing(r, k)
        /\ IF Inserts(r, k) THEN ~Duplicate(k) ELSE ~Stale(r, k)
        /\ RowCheck(k \in Serial, After(r, k))
        /\ written' = [written EXCEPT ![r] = @ \cup {k}]
        /\ GoTo(r, IF Touches(op[r]) \subseteq written[r] \cup {k} THEN "append" ELSE "write")
        /\ UNCHANGED <<db, op, loaded, witnessed, published>>

\* The UPDATE matched no row: ErrConcurrentModification.
WriteStale(r) ==
    \E k \in Touches(op[r]) :
        /\ Writing(r, k)
        /\ ~Inserts(r, k) /\ Stale(r, k)
        /\ RollBack(r, "conflict")

\* The INSERT hit a unique index.
WriteDuplicate(r) ==
    \E k \in Touches(op[r]) :
        /\ Writing(r, k)
        /\ Inserts(r, k) /\ Duplicate(k)
        /\ RollBack(r, "duplicate")

\* The statement violates the table's CHECK.
WriteRefused(r) ==
    \E k \in Touches(op[r]) :
        /\ Writing(r, k)
        /\ IF Inserts(r, k) THEN ~Duplicate(k) ELSE ~Stale(r, k)
        /\ ~RowCheck(k \in Serial, After(r, k))
        /\ RollBack(r, "failed")

\* Slip: a transfer records one leg only.
AppendOnce(r) ==
    LET k == NextLeg(r, witnessed[r])
    IN  /\ pc[r] = "append"
        /\ EntryCheck(Before(r, k), After(r, k))
        /\ witnessed' = [witnessed EXCEPT ![r] = @ \cup {k}]
        /\ GoTo(r, "commit")
        /\ UNCHANGED <<db, op, loaded, written, published>>

\* recordMovement, in a savepoint of the same transaction.
AppendEntry(r) ==
    LET k == NextLeg(r, witnessed[r])
    IN  /\ pc[r] = "append"
        /\ IF EntryCheck(Before(r, k), After(r, k))
           THEN /\ witnessed' = [witnessed EXCEPT ![r] = @ \cup {k}]
                /\ GoTo(r, IF Touches(op[r]) \subseteq witnessed[r] \cup {k}
                           THEN "commit" ELSE "append")
                /\ UNCHANGED <<db, op, loaded, written, published>>
           ELSE RollBack(r, "failed")

Commit(r) ==
    /\ pc[r] = "commit"
    /\ row' = [k \in Keys |-> IF k \in written[r] THEN NewRow(r, k) ELSE row[k]]
    /\ ledger' = [k \in Keys |-> IF k \in witnessed[r] THEN Append(ledger[k], NewEntry(r, k))
                                                       ELSE ledger[k]]
    /\ GoTo(r, "publish")
    /\ written' = [written EXCEPT ![r] = {}]
    /\ witnessed' = [witnessed EXCEPT ![r] = {}]
    /\ loaded' = [loaded EXCEPT ![r] = [k \in Keys |-> NoRow]]
    /\ UNCHANGED <<opening, op, published>>

\* PullEvents and Publish, after the commit.
Publish(r) ==
    /\ pc[r] = "publish"
    /\ GoTo(r, "published")
    /\ published' = published \cup {r}
    /\ UNCHANGED <<db, op, loaded, written, witnessed>>

-----------------------------------------------------------------------------
(* Failures *)

\* The client hangs up, the connection breaks or the process dies before the
\* commit: PostgreSQL rolls the transaction back.
Fail(r) ==
    /\ pc[r] \in Running
    /\ RollBack(r, "failed")

\* The process dies after the commit, before the last event is published.
LoseEvents(r) ==
    /\ pc[r] = "publish"
    /\ GoTo(r, "lost")
    /\ UNCHANGED <<db, op, loaded, written, witnessed, published>>

Waits(r, q) == pc[r] = "write" /\ q \in Blockers(r, NextLeg(r, written[r]))

\* A cycle of transactions each waiting for another's lock.
Deadlocked(r) ==
    \E C \in SUBSET Requests :
        /\ r \in C
        /\ \A q \in C : (\E s \in C : Waits(q, s)) /\ (\E s \in C : Waits(s, q))

\* PostgreSQL cancels one transaction of the cycle.
DeadlockVictim(r) ==
    /\ Deadlocked(r)
    /\ RollBack(r, "failed")

-----------------------------------------------------------------------------

Step(r) ==
    \/ LoadPosition(r) \/ LoadOrigin(r) \/ LoadDestination(r)
    \/ WriteRow(r) \/ WriteStale(r) \/ WriteDuplicate(r) \/ WriteRefused(r)
    \/ AppendEntry(r) \/ Commit(r) \/ Publish(r)

Next ==
    \E r \in Requests :
        Step(r) \/ KeyRefused(r) \/ Fail(r) \/ LoseEvents(r) \/ DeadlockVictim(r)

Spec == Init /\ [][Next]_vars

\* Every request has a goroutine of its own and PostgreSQL runs its deadlock
\* detector, so neither stands still for ever; nothing obliges a failure.
Fairness == \A r \in Requests : WF_vars(Step(r)) /\ WF_vars(DeadlockVictim(r))

FairSpec == Spec /\ Fairness

-----------------------------------------------------------------------------
(* Properties *)

\* The units and the serial rule: a position never holds more units than an
\* int64 counts, though each balance is only checked on its own
\* (inventory_position.go Receive, move); a serial number is one unit, in one place.
StockWithinLimits ==
    /\ \A k \in Keys : Total(row[k].b) <= MaxInt /\ RowCheck(k \in Serial, row[k].b)
    /\ OneEntryEach({k \in Keys : Exists(k)})

BalanceAt(k, i) == IF i = 0 THEN opening[k].b ELSE ledger[k][i].after

\* The ledger is the position's whole history (service/ledger.go: "a position
\* can never move without a record"): each entry starts from the balances the one
\* before left, the last one ends at the row, and the version counts the entries.
\* A lost update, an unrecorded movement or a stale snapshot breaks the chain.
LedgerExplainsRow ==
    \A k \in Keys :
        /\ \A i \in 1 .. Len(ledger[k]) : ledger[k][i].before = BalanceAt(k, i - 1)
        /\ row[k].b = BalanceAt(k, Len(ledger[k]))
        /\ row[k].version = opening[k].version + Len(ledger[k])

EntriesOf(r, k) == {i \in DOMAIN ledger[k] : ledger[k][i].by = r}

\* "Every movement that changes a position appends EXACTLY ONE ledger entry": a
\* committed request left one entry on each position it touches, any other request
\* none, and events are published of committed movements only.
OneEntryPerMovement ==
    \A r \in Requests :
        /\ \A k \in Keys : Cardinality(EntriesOf(r, k)) =
                            IF pc[r] \in Committed /\ k \in Touches(op[r]) THEN 1 ELSE 0
        /\ r \in published => pc[r] \in Committed

\* A transfer neither makes nor loses stock: what leaves the origin's ledger
\* enters the destination's.
TransferConserves ==
    \A r \in Requests :
        pc[r] \in Committed /\ op[r].kind = "TransferStock" =>
            \A i \in EntriesOf(r, op[r].key), j \in EntriesOf(r, op[r].to) :
                LET out == ledger[op[r].key][i]
                    in  == ledger[op[r].to][j]
                IN  Total(out.before) + Total(in.before) = Total(out.after) + Total(in.after)

\* Stock leaves a position only from its available balance: promises to orders,
\* tasks and inspections survive every issue, transfer and count.
EncumberedStockStays ==
    [][\A k \in Keys : Total(row'[k].b) < Total(row[k].b) =>
          \A x \in Bucket \ {"available"} : row'[k].b[x] = row[k].b[x]]_vars

\* A request is told "changed by another request" only when another request's
\* movement of the same position committed after it read the row: of the
\* requests that race for a row one always gets through.
ConflictHasWinner ==
    [][\A r \in Requests : pc[r] # "conflict" /\ pc'[r] = "conflict" =>
          \E k \in Touches(op[r]) : \E i \in DOMAIN ledger[k] :
              /\ ledger[k][i].by # r
              /\ opening[k].version + i > loaded[r][k].version]_vars

\* The in-memory aggregate keeps the serial rule before the database sees it
\* (inventory_position.go Receive: "a serial position can never be pushed past
\* one unit").
AggregateKeepsSerialRule ==
    \A r \in Requests, k \in Serial :
        pc[r] = "write" /\ k \in Touches(op[r]) => Total(After(r, k)) <= 1

\* Every request ends, whoever it waits for: locks are taken in no global order,
\* and opposite transfers do deadlock.
AllEnd == \A r \in Requests : <>(pc[r] \in Ended)

\* The stock movements are serializable: seen through its committed rows, the
\* service makes whole movements one at a time.
Book == INSTANCE StockBook WITH
    book <- [k \in Keys |-> row[k].b],
    opened <- {k \in Keys : Exists(k)}

ImplementsBook == Book!BookSpec

-----------------------------------------------------------------------------
(* The inductive invariant behind the safety properties *)

\* A row a request read is the committed row or an earlier version of it.
SnapshotsArePast ==
    \A r \in Requests, k \in Keys :
        /\ loaded[r][k].version <= row[k].version
        /\ loaded[r][k].version = row[k].version => loaded[r][k].b = row[k].b

AbsentIsEmpty == \A k \in Keys : ~Exists(k) => row[k].b = Empty

\* Where a request stands in its statements.
ProgramOrder ==
    \A r \in Requests :
        /\ written[r] \subseteq Touches(op[r])
        /\ witnessed[r] \subseteq Touches(op[r])
        /\ written[r] # {} => pc[r] \in {"write", "append", "commit"}
        /\ witnessed[r] # {} => pc[r] \in {"append", "commit"}
        /\ pc[r] \in {"append", "commit"} => Touches(op[r]) \subseteq written[r]
        /\ pc[r] = "commit" => Touches(op[r]) \subseteq witnessed[r]

\* A request writes only what its aggregates accepted.
WritesWereAccepted ==
    \A r \in Requests :
        /\ pc[r] = "loadDestination" =>
             op[r].kind = "TransferStock" /\ op[r].key # op[r].to /\ loaded[r][op[r].key].version > 0
        /\ pc[r] \in {"write", "append", "commit"} =>
             /\ op[r].kind = "TransferStock" => op[r].key # op[r].to
             /\ \A k \in Touches(op[r]) : Accepted(op[r], k, loaded[r][k])

\* A written row is locked: what the writer read of it is still current.
LockedRowsAreCurrent ==
    \A r \in Requests : \A k \in written[r] :
        /\ ~Stale(r, k)
        /\ Inserts(r, k) => ~Duplicate(k)
        /\ RowCheck(k \in Serial, After(r, k))

WitnessedFits ==
    \A r \in Requests : \A k \in witnessed[r] : EntryCheck(Before(r, k), After(r, k))

\* No two open transactions write the same row or insert the same index entry.
LocksExclude ==
    \A q, r \in Requests : q # r =>
        \A j \in written[q], k \in written[r] :
            /\ j # k
            /\ Inserts(q, j) /\ Inserts(r, k) => IndexEntry[j] # IndexEntry[k]

IInv ==
    /\ TypeOK
    /\ StockWithinLimits
    /\ SnapshotsArePast
    /\ AbsentIsEmpty
    /\ ProgramOrder
    /\ WritesWereAccepted
    /\ LockedRowsAreCurrent
    /\ WitnessedFits
    /\ LocksExclude

=============================================================================
