# A verification development for the WMS backend

TLA+ specifications of the warehouse-management backend in `src/backend` (Go,
Gin, GORM, PostgreSQL), checked with TLC on small instances and, for the core,
proved with TLAPS for every value of the parameters.

## 1. The system

The backend is a modular monolith. Every HTTP request runs in a goroutine of its
own; services hold no state between requests, so **everything shared is in
PostgreSQL**, and what makes the system correct is what its transactions do to
each other. A service operation is

    RunInTransaction( load aggregate -> one behaviour -> persist -> ledger ) -> publish events

Transactions run at READ COMMITTED (the driver's default; no module asks for
more). There is no `SELECT FOR UPDATE` and no in-process lock. What protects a
read-modify-write is the version in the `WHERE` clause of `Base.UpdateOptimistic`,
what protects uniqueness is an index, and a nested `RunInTransaction` becomes a
savepoint of the outer transaction.

| Component | State | Operations | What makes it correct |
|---|---|---|---|
| inventory | `inventory_positions`: four balances and a version per stock key | receive, issue, reserve, release, allocate, deallocate, quarantine, release from quarantine, adjust, transfer | no update lost, nothing negative or past int64, a serial is one unit in one place, promised stock stays, transfers conserve |
| inventory ledger | `inventory_ledger_entries`, append-only | RecordMovement, inside the movement's transaction | exactly one entry per position and movement; the entries chain up to the row |
| goods receipt | document and lines, DRAFT → CONFIRMED → RECEIVED, or CANCELLED | create, update, confirm, cancel, receive, delete draft | stock is posted once, all or nothing, and never for an unconfirmed receipt |
| purchase order | document and lines, DRAFT → APPROVED → PARTIALLY_RECEIVED → COMPLETED, or CANCELLED | create, update, approve, cancel, record receipt, delete draft | received quantities are exactly what its receipts posted, never more than ordered |
| authentication | accounts, refresh tokens | register, login, refresh, logout, logout everywhere | a token is rotated once; reuse and logout end sessions; the session limit |
| tenancy | companies, memberships | create, update, delete, enter; invite, remove | a company keeps an owner; a context is granted by an ACTIVE membership only |
| rbac | roles, grants | provision, create, update, delete, set permissions, resolve | system roles appear once, OWNER is never weakened, replacing is replacing |
| warehouse | site, address, contact, zones | create, update, change contact, activate, deactivate, suspend, archive | an active one is ready; a suspension is lifted knowingly; what is archived stays |
| location | bin, capacity, barcode, holds | create, update, capacity, barcode, activate, deactivate, lock, unlock, maintain, archive | codes and barcodes are unique; a lock is lifted knowingly |
| catalogue and parties | products, brands, categories, units, customers, suppliers | create, update, activate, deactivate, archive | codes are unique; no lost update; what a request is told is so |
| process life cycle | server, connections, connection pools | boot, serve, signal, drain, release | the pools outlive the clients; the process ends and says how |
| Flutter client | none the backend relies on | – | – |

Interactions are direct calls through interfaces wired in
`internal/bootstrap/container.go`: goods receipt → inventory (`PostArrival`) and
→ purchase order (`RecordReceipt`), inventory → inventory ledger
(`RecordMovement`), inventory → product, warehouse and location (`Verify*`).
Events go to a publisher that writes an audit log; nothing subscribes.

The hard behaviours: interleaved statements of concurrent transactions; locks
taken in no global order (deadlock); insert races on unique indexes; the process
or the connection dying anywhere; nested transactions whose effects, but not
whose events, wait for the outer commit; int64 arithmetic. `PROJECT.json` lists
each hazard at its line with the properties that cover it.

## 2. Modules

| Module | What it is |
|---|---|
| `StockMovements` | pure arithmetic of a position: what each behaviour accepts and returns, with int64 wrap-around, and the tables' CHECKs |
| `StockBook` | abstract specification: every stock movement happens whole and at one instant |
| `Inventory` | the service over PostgreSQL, one action per SQL statement; its properties; the inductive invariant |
| `InventoryProofs` | the theorems about `Inventory` |
| `MCInventory` | instances of `Inventory` for TLC |
| `ReceivingRules` | pure rules of receipts and orders: what each command needs, what it leaves, what receiving a receipt calls |
| `ReceivingBook` | abstract specification: every request, the calls of Receive included, happens whole |
| `Receiving` | the goods receipt and purchase order services over PostgreSQL, statement by statement, and the stock postings of a receipt |
| `MCReceiving` | instances of `Receiving` for TLC |
| `ReceivingProofs` | the theorems about documents: numbers, statuses, what is locked |
| `ReceivingBookProofs` | the theorems about requests as a whole: types, the refinement of `ReceivingBook`, stock and orders |
| `Records` | versioned, softly deleted records and what they carry: shared by the two modules below |
| `Layout` | the aggregates of warehouses and storage locations, and what their services look up |
| `Catalogue` | the same for products, brands, categories, units, customers and suppliers |
| `MasterData` | the one course all these services take, statement by statement, over `Layout` and `Catalogue` |
| `MasterDataProofs` | the theorems about requests, and about the records they leave |
| `MCMasterData` | instances of `MasterData` for TLC |
| `Accounts` | requests and accounts, which sign-in and tenancy share |
| `Sessions` | registration, login, rotation of refresh tokens, reuse detection, logout, the session limit |
| `Tenancy` | companies and memberships, and the company context of a request |
| `Roles` | roles and grants: lazy provisioning, the permission check, replacing a role's grants |
| `Access` | `Sessions`, `Tenancy` and `Roles` composed over one database |
| `AccessProofs`, `OwnershipProofs`, `RolesProofs` | the theorems about sign-in, about companies and seats, and about roles, grants and the whole of `Access` |
| `MCAccess` | instances of `Access` for TLC |
| `Process` | boot, the listener, connections, and the ordered shutdown of the API process |
| `ProcessProofs` | the theorems about `Process` |
| `MCProcess` | the instance of `Process` for TLC |

### Inventory

`row` is the committed `inventory_positions` table, `ledger` the committed
entries of each position (in commit order), `opening` the rows when the behaviour
began. Each request carries the operation `op`, the statement `pc` it runs next,
the rows it has `loaded`, and the rows its open transaction has `written` and
`witnessed` (locks are held on `written`). The values of uncommitted writes are
not state: they are functions of the loaded rows (`After`, `NewRow`, `NewEntry`).
Version 0 stands for the absence of a row.

| Action | Code |
|---|---|
| `LoadPosition`, `LoadOrigin`, `LoadDestination` | `FindByID` / `verifyKey`, `GetOrCreatePosition` and the behaviour of the aggregate; a refusal ends the request |
| `KeyRefused` | `verifyKey` or the position lookup refuses |
| `WriteRow`, `WriteStale`, `WriteDuplicate`, `WriteRefused` | `positionRepository.Update`: insert or conditional update, and its four outcomes; waits for the row lock or for the unique-index entry of an open transaction |
| `AppendEntry` | `recordMovement` through the ledger service's savepoint |
| `Commit`, `Publish` | the transaction manager, then `PullEvents` |
| `Fail`, `LoseEvents` | hang-up, broken connection or crash before and after the commit |
| `DeadlockVictim` | PostgreSQL cancels one transaction of a waiting cycle |

A receipt held for inspection is one movement (`ReceiveAndHold`), as in the code,
where receive and quarantine are persisted together. Product, warehouse and
location checks may refuse any receipt or transfer (`KeyRefused`); their own data
is not modelled here. Serialised stock has a consequence the model makes visible:
because positions are never deleted and the unique index is on the serial alone,
a unit that has had a position at one location can never be received or
transferred to another; the property checked is that it is never in two places.

### Receiving

`row` holds the committed row of every document and position (a version and its
data), `opening` the rows a behaviour began with. Each request has the operation
`op` it was asked for and the statement `pc` it runs next. All operations of the
three services have one course (load, let the aggregate decide, write under the
version), so `Receive`, which calls the others inside its own transaction, is
modelled by a list `todo` of calls still to make: while it is not empty the
request runs the same actions on the item of its first call, and `loaded`,
`written` and `mine` (rows read, rows written and locked, the values written)
accumulate as they do in the outer transaction, whose later reads see its own
writes. A call that returns moves its item into `announced`: the nested service
publishes there and then. Commit publishes nothing by itself; `Publish` follows.

| Action | Code |
|---|---|
| `LoadHeader`, `LoadLines` | `FindByID` and `hydrate`, two statements; then the transition of the aggregate. Receive's is decided first, and its calls are made before its document is written |
| `LoadPosition` | `ReceiveStock`: `GetOrCreatePosition` and `InventoryPosition.Receive` |
| `CheckNumber` | `assertNumberIsFree` of a creation |
| `InputRefused` | a product, location, warehouse or supplier the input names is refused by its module |
| `WriteRow`, `WriteStale`, `WriteDuplicate` | header under the version check and lines with it; inserts under the unique indexes; `concurrentModification` |
| `DeleteDraft` | one UPDATE guarded by the status, which leaves the version alone |
| `Commit`, `Publish`, `RollBack` | `RunInTransaction`, then `PullEvents` |
| `Fail`, `LoseEvents`, `DeadlockVictim` | as in `Inventory` |

Abstracted: a receipt's lines stand as the arrivals `arrivalsFor` makes of them;
an order's lines are a function of the product; a reference to an ASN or none at
all is `NoOrder`, as neither tells an order anything; of a position only its
units are kept (`Inventory` models the rest, with the ledger that moves in the
same savepoint). Header and lines are written in one step, because lines are only
written under the lock of the header's statement; they are read in two. Prices,
dates, remarks and parties are left out, and contents the aggregates refuse on
their own (a product twice on an order, a serial line of the wrong count) are not
sent.

### MasterData

Warehouses, locations and the six kinds of catalogue entry differ in their
aggregates, not in how their services use the database. `MasterData` is that
common course; `Layout` and `Catalogue` say what is particular to each table:
the commands and the form fields each accepts (`Forms`), the aggregate's guards
and effects (`Accepts`, `After`, `New`), the keys that are unique (`Keys`), the
lookups before the write (`Checks`), the events, whether the repository is scoped
to a company, whether a conflict is answered with a version, and when events are
published (inside the transaction for warehouses and locations, after it for
customers and suppliers, never for the rest).

`row` is the committed row of every record, archived ones included; `op`, `pc` and
`loaded` are as above; `checks` the lookups a request has still to make, `told`
the version its conflict answer named, `announced` the events it has published.
What it has written and not committed is a function of what it read (`Draft`).

| Action | Code |
|---|---|
| `VerifyWarehouse` | a location's creation asks the warehouse service first, before its own transaction |
| `Load`, `Check` | `FindByID`; `ExistsByCode`, `ExistsByName`, `ExistsByBarcode`, `VerifyZone`, one statement each |
| `Refuse`, `Write` | the aggregate's verdict; `Create` or `UpdateOptimistic`, with the version in its WHERE clause, the NOT NULL columns and the unique indexes |
| `PublishInside`, `Commit`, `PublishAfter` | `RunInTransaction` and `publish`, in the order each service has |
| `AnswerConflict` | `concurrentModification` reads the record again |
| `Abort`, `DieUnannounced` | the process or its connection dies before the commit, or before the events |

The location guards are the ones the program wires, `EmptyCapacity` and
`EmptyInventory`, and the warehouse's is `AlwaysAllowDeletion`: none of them looks
at stock, so nothing here depends on it. The same goes for a product's category,
brand and base unit, whose verifiers the program wires as accept-any: `EntryChecks`
has no lookup that could refuse them. Capacity is one dimension of three;
coordinates, descriptions and addresses are single values.

### Access

`account` is shared: registration makes one, an invitation looks one up. Every
request has the command it was `ask`ed, and `pc`.

*Sessions.* `token` holds the committed rows, numbered in order of issue; `minted`
and `held` what a transaction has inserted and revoked, `target` and `doomed` the
rows its UPDATE is at and has still to reach. `Present` and `Rotate` are Refresh's
read and its conditional UPDATE; `StartRevokeAll` and `RevokeNext` are the mass
revocation, which finds its rows in one snapshot and then takes their locks one by
one, in any order; `CountSessions`, `FindOldest` and `Revoke` are
`enforceSessionLimit`; `Expire` is the clock. A failed rotation commits its mass
revocation in a transaction of its own, as in the code (`"reused"`).

*Tenancy.* `Enter` is the company middleware, which every request passes but the
founding of a company. An update or deletion names its company in the path, and the
header may name another the caller can act in (`Contexts`): the services then ask
for access to the one in the path. `OpenCompany` reads the company that
`Update` will save whole, `deleted_at` included; `CloseCompany` goes straight to
Delete's statement. `FindSeat` and `CountOwners` are
the two reads of Remove before `WriteTenancy`, its one conditional statement.

*Roles.* `ResolveRole`, `ListRoles`, `Provision` and `CommitProvision` are the
permission check and the lazy provisioning behind it; `Diff`, `Revive`,
`FindHeld`, `InsertGrants` and `RevokeGrants` the statements of `applyGrants`. A
grant is a cell per role and code with a live row or none and a number of dead
ones; a transaction's own view of the cells it changed is `cells`. The catalogue of
permissions is cut down to the five codes that govern roles.

`Access` interleaves the three. They share requests, accounts and companies, and a
request waits only for rows of its own part.

### Process

`main` is where `App.Run` stands, `listener` the goroutine that runs `Start`, `conn`
and `pool` the states of connections and pools, `closing` the server's flag.
`net/http` is modelled by what `Shutdown` and `Close` rely on: a closing server
tracks no listener, idle connections are closed, busy ones are waited for, a
connection ends after its answer. The boot is `Dial`, `Answers` or `PingFails` for
each pool in turn, then `Run`; a pool that does not answer its ping is closed by the
`New` that opened it, since no closer is registered for it yet, and `abort` releases
the others (`PingFails`, `BuildFails`). What a failing `gorm.Open` leaves is the
library's affair.
`Drained` and `GraceExpires` the two ways `Shutdown` returns; `ClosePool`,
`BudgetSpent` and `Released` the release; `Kill` whatever ends a process unasked. A
handler that was cut and still runs meets closed pools: to its request that is the
`Fail` or `Abort` of the other modules.

### Runs

| Run | Question | Bounds |
|---|---|---|
| `inventory_pool` | all ten operations, two at a time, on two positions of a pooled product | `MaxInt` = 3, so that every balance and every total reaches and passes the limit; amounts 1 and 3 (0 for a count); openings with every bucket in use |
| `inventory_serial` | two requests on one serial number that two locations may hold | both keys share an index entry; amounts up to `MaxInt` so that sums wrap; one key under the quarantine policy |
| `inventory_cross` | three requests whose transfers cross, under fairness | one opening; enough for a cycle of two with a third waiting behind it |
| `receiving_documents` | every operation, two at a time, from six openings: an order with room for both deliveries, for one, part delivered, a receipt whose lines come to more than an int64 holds, and drafts being edited | four receipts, two orders, three positions (two lots, one serial); two receipts post to the same lots in opposite orders, two carry one number, one lot is nearly at `MaxInt` = 7 |
| `receiving_events`, `receiving_conflict` | two documented promises of the services | the race openings; TLC finds both broken (see Findings) |
| `inventory_serial_wrap` | does the aggregate alone keep a serial position at one unit? | one request; TLC finds that it does not (see Findings) |
| `master_data` | any three requests of a contest, over all eight kinds of record | one scene per contest: fitting out, activating and suspending a warehouse; two records claiming one code, name or barcode; holds on a location; each catalogue table edited, and created twice; request symmetry |
| `access` | any three requests of a contest, sign-in, tenancy and roles | nine scenes: a user at and below a session limit of two, newcomers, members and removals, an invitee who is registering, companies that hold one code in turn, unprovisioned roles, grants, a custom role; five tokens, so that three requests can each rotate or log in |
| `process` | the process from boot to exit | three connections, three pools; a signal, a dying listener, pools that cannot be dialled or do not answer, closers that fail and a kill at any point |
| `products`, `company_update` | a test's promise of the product repository, and a comment's of the company service | the scenes of `master_data` and `access` about them; TLC finds both broken (see Findings) |

Openings and scenes are states the services can have left, which assumptions of
each module check (`WellFormed`, `ScenesAssumption`, `CompaniesAssumption`). Two
requests are enough for lost updates, insert races and deadlocks, which are all
pairwise; a request's own calls give `Receiving` its long transactions. The third
request of `inventory_cross` shows that a victim's locks free those behind it; the
third of `master_data` and `access` is the one that comes between two others: the
token of a rotation that a third revokes, a name freed and taken again. Two
products are enough because no request touches more than one.

Requests end, so deadlock checking is off; that every request ends is checked as
`AllEnd`, `SessionsEnd` and `StopsWhenTold` instead. Fairness is weak fairness of each request's own
steps (the Go scheduler runs every goroutine, PostgreSQL answers every statement
that waits for no lock) and of the deadlock detector (`DeadlockVictim`,
`BreakCycle`); no failure is ever obliged to happen. A transaction of
`MasterData` writes a single row, whose indexes are entered in one order, so its
requests cannot wait for one another in a circle and it has no liveness property. `Process` assumes
that its main goroutine, the goroutine of `Start` and its timers run; a handler owes
it nothing.

### Properties

* `LedgerExplainsRow` – the ledger is an unbroken history ending at the row;
  catches lost updates, missing entries, stale snapshots.
* `OneEntryPerMovement` – the guarantee of `service/ledger.go`, with the events.
* `StockWithinLimits` – totals fit an int64 although each balance is checked
  alone (the ledger's delta CHECK is what stops the sum); one serial, one place.
* `TransferConserves`, `EncumberedStockStays` – conservation and promises.
* `ConflictHasWinner` – nobody is refused as stale unless overtaken.
* `ImplementsBook` – refinement: the committed rows behave as `StockBook`.
* `AllEnd` – every request ends, deadlocks included.

Of `Receiving`, whose `ImplementsBook`, `AllEnd` and `TypeOK` read alike:

* `StockMatchesReceipts`, `OrdersMatchReceipts` – three tables written by three
  services agree: stock and received quantities are the sum of the receipts
  posted since the opening, each once, whole or not at all.
* `StatusMatchesLines` – an order's status is derived, never set: it always says
  what its lines say, and nothing empty is approved or confirmed.
* `NumbersUnique` – the check and the insert are two statements of a race.
* `LockedDocumentsStand` – what was checked or approved is what gets posted: past
  DRAFT contents never change, final documents not at all.
* `RolledBackEmitsNothing`, `ConflictNamesTheChanged` – documented, and violated.

Of `MasterData`:

* `ActiveIsReady` – readiness is checked by Activate, but address, contact and
  zones are edited by other requests.
* `KeysUnique` – the existence checks and the insert are a race the index decides.
* `HoldsStand` – a lock or suspension disappears only by a request that saw it.
* `ArchivedStand`, `ChangesBuildOnReads` – no request writes what it did not read.
  `docs/Warehouse.md` section 10 and `docs/StorageLocation.md` section 12 still say
  that there is no optimistic locking and a lost update is possible. They are stale:
  the code checks versions since, as `docs/OptimisticLocking.md` says.
* `AnswersAreTrue` – events follow commits, and a conflict names a newer version.
* `ProductsAreStored` – a test's promise, and violated.

Of `Access`:

* `RotatedOnce`, `ReuseEndsSuccessor` – a refresh token is single-use however many
  requests present it, and the second use ends what the first produced. That is the
  direct successor: see section 4 for the sessions that are not covered.
* `SessionsCapped` – concurrent logins can pass the session limit, by one session
  for each but the first, and never by more.
* `OwnerStays` – counting owners and removing one are two statements.
* `OneOfEach` – addresses, seats, codes and names are each claimed once.
* `OwnerMayAll` – whatever provisions roles at once, an owner is never refused.
* `GrantsAgreed` – overlapping replacements of a role's grants settle between them.
* `SessionsEnd` – rotation, eviction and mass revocation lock in no common order,
  and still every request ends.
* `CompanyUpdatesKept` – a comment's promise, and violated.

Of `Process`:

* `PoolsOutliveClients` – nobody is connected to a process that closes its pools;
  that needs the drain, the cut when the grace period is over, and a server that
  takes no connection after either. It excepts the death of the listener.
* `ClosedInReverse` – whatever fails, nothing is closed before what was built on it.
* `FailedBootLeavesNothing` – wherever a boot fails, no pool stays open, and none
  that was dialled stays half open.
* `ExitIsTold` – a status of 0 means nobody was cut off and every pool was closed.
* `StopsWhenTold` – no handler can keep the process from ending.

## 3. Proofs

Eight modules hold theorems; each is proved from the named assumptions of the
modules it extends, for any sets of records, requests and operations. Every
argument has an inductive invariant, because no safety property here is inductive:
each rests on what a request may still believe of rows it read.

**`InventoryProofs`** – `MaxInt`, keys, serial numbers, index entries and hold
policy are arbitrary.

* `InductiveInvariant`: `Spec => []IInv`. A loaded row is the committed row or an
  earlier version of it (`SnapshotsArePast`), a written row is locked and therefore
  still current (`LockedRowsAreCurrent`), no two open transactions write one row or
  insert one index entry (`LocksExclude`), a request writes only what its aggregate
  accepted (`WritesWereAccepted`), in program order (`ProgramOrder`).
* `TypeCorrect`, `LimitsHold`, `LedgerIsHistory` as invariants, `PromisesAreKept`
  and `ConflictsAreReal` as action properties, `MovementsAreAtomic`: the refinement
  of `StockBook`. A commit maps to one abstract movement, every other step to a
  stutter.
* `OneEntryEachMovement`: only a commit appends, one entry of the request's own on
  each key it touches (`Recorded`). `TransfersConserve`: an entry is what its leg of the
  movement makes of the balances before (`Computed`), and what one leg of a transfer
  takes the other adds.

**`ReceivingProofs`** – `InductiveInvariant`, then `NumbersStayUnique`,
`StatusesFit` and `LockedStand`. What a request read of a document is what it would
read now, or the row has a newer version or is gone; between the two reads only the
lines are missing (`SnapshotOf`). What it wrote builds on the row it locks, or, of a
creation, holds the number alone (`DraftOf`, `Locks`). `ReadyOf` carries the
aggregate's verdict on Receive's own document through its nested calls, to the write
that ends them. `LockedStand` follows because a commit is the only step that
changes a row (`OnlyCommitsWrite`) and `Stands` is transitive (`StandsOn`).

**`ReceivingBookProofs`** – `TypesHold`, `RequestsHappenWhole`, `StockMatches`,
`OrdersMatch`. A Receive is one transaction over many rows, and it reads each row at
a statement of its own. Why it still happens at one instant, its commit:

* `TInv` adds stock to what `IInv` says of documents. A posting about to be written
  fits in what was read, and what was read is either what would be read now or an
  older version, which the write will notice (`PostingFits`).
* `FInv` speaks of a request in flight (`FlightOf`). Take the rows **as they are
  committed now**, and replay on them the calls the request has made (`Replay`):
  each is accepted there, and the outcome is exactly what the transaction wrote
  (`Carrying`). A step of another transaction keeps that, because it can commit none
  of the rows this one has locked, and the replayed calls read no others; a call of
  its own keeps it, because its version check passed. With the last call and the
  write of the receipt it is about to commit the whole operation (`Concluded`).
* So a commit is one entry of the book (`CommitApplies`), and every other step a
  stutter. That is the refinement, `RequestsHappenWhole`.
* `StockMatches` and `OrdersMatch` are then sums over an entry: replaying a
  receipt's calls adds to a position its lines there (`ReplayStock`) and to the order
  the sum of each product, once (`ReplayOrder`, `ProductsListed`); a commit of any
  other operation posts and books nothing (`OthersPostNothing`); and a receipt that
  is posted, and its lines with it, never changes again (`Opened`, from
  `LockedStand`'s `Stands`).

`OrdersMatch` has a hypothesis, `QuantitiesFit`: no product of a receipt comes to more
than twice what an int64 holds. A sum past int64 but below that is negative and
refused, and the proof covers it (two lines of one product are always within); beyond
it the code's sum can become a quantity again, and the property is false. Stock is
posted line by line, so `StockMatches` needs no such hypothesis.

The sums and the replay are recursive functions, and what they compute is proved by
induction over the naturals. The library's induction rules take an operator, so
`Induction` is stated for a set instead, and follows from the well-foundedness of `<`.

**`MasterDataProofs`** – `KeysStayUnique`,
`AnswersStayTrue`, `ChangesBuild`, `ArchivedStays`; then `TypesHold`,
`ActiveStaysReady`, `HoldsStay`. The first invariant is about requests: what one
read is a version the record had (`Follows`), the row under an uncommitted write is
the one it was computed from (`Held`), two open writes differ in row and keys
(`Apart`), what one claims no other row has (`Claims`), behind an answer or event
there is a commit (`Reasons`), and a record to be created is not there yet
(`Fresh`). The second (`Decisions`) adds that an open write was accepted by the
aggregate on the row it read, so that a committed row comes of the aggregate's
verdict on the very row it replaces.

**`AccessProofs`** – `TokensRotateOnce`, `ReuseEndsIt`. A token's parent
was its user's and is revoked (`Lineage`). A row revoked by an open transaction is
locked by it and still live for everyone else (`Locks`), and a request on its way to
a successor holds the token it replaces (`Rotating`): so nobody else is on that way,
and there is no successor yet. A request that was told of a reuse has every
unrevoked successor among the rows it holds or has still to reach (`Ending`), which
is why a rotation in flight cannot slip through the snapshot of its UPDATE.
`SessionTypesHold` needs that the numbers of tokens do not run out, `RegisteredOnce`
that a registration holds its address's index entry. `SessionsAreCapped` is counting:
whoever is about to mint has, after what it will end, fewer live sessions than the
limit plus one for each other request that was granted one since (`Room`); the commit
of a mint adds one session and one grant.

**`OwnershipProofs`** – `OwnersStay`. Counting and removing are separate statements
in a READ COMMITTED transaction, so the count alone proves nothing: two removals
could each count two owners. What saves the rule is that **no operation makes a
second owner** (an invitation cannot offer OWNER, and is never accepted; a founding
makes one): with a sole owner, the count refuses every removal. An operation that
promotes or accepts owners would break the rule, and the proof fails where it would.
`IndexInvariant` is the part of `OneOfEach` about companies and seats: an open
transaction may write only what the index let it (`Writable`, `Vacant`), two hold
nothing in common (`LocksApart`), so a commit never makes a second (`OneCompany`,
`OneSeat`).

**`RolesProofs`** – everything about roles, and what it takes to speak of `Access` as
a whole. `RolesInvariant`: a role keeps its company, name and kind, system roles are
never deleted, OWNER is never granted less than everything, and what a request
inserted is its own (`Inserting`, `Loaded`, `Unborn`). `NamesInvariant`: entries of the unique index are held by
one open transaction and free underneath it (`Unnamed`, `EntriesApart`, `Free`).
`ProvisionInvariant`, and with it `OwnersMayAll`: a provisioning request covers every
system role by a row it found, a row it inserted or one still ahead (`Covered`), and
if another request committed one of them, it committed all, because roles are inserted in one order and
the first insertion decides the race. `GrantsInvariant`, and with it `GrantsSettle`: replacements of
one role's grants take no lock on the role, and each may read a state the other has
half changed; but for a code that all want each request either sees it live, or is
to grant it, or has written it live (`Keeps`), and for a code nobody wants the
contrary (`Drops`), at every statement. The proof of `GrantsInvariant` showed that a request whose insert hit the
unique index must give back the cells it had written, as the rollback does; the model
kept them, and an instance that reaches the case was added to `MCAccess`.
`ClaimsAreSettled` and `TypesHold` put the parts of the three services together.

**`ProcessProofs`** – `PoolsOutlive`, `ReverseHolds`, `FailedBootsClean`, `ExitHolds`. The
invariant says what each stage of the main goroutine rests on: nobody is
connected before `Run`, and no pool is left half open after the boot (`Booting`), all pools are open until the release
(`Serving`), past the shutdown nobody is connected and nobody can connect
(`Stopped`), a release has one of three reasons (`Releasing`), and whoever was cut
off left an error behind (`Told`).

The assumptions, each evaluated by TLC on the instances, say only that a behaviour
begins with a database the services could have left and with requests the handlers
pass on: `RulesAssumption`, `OperationsAssumption`, `OpeningsAssumption`,
`ScenesAssumption`, `TokensAssumption`, `CompaniesAssumption`,
`NewCompaniesAssumption`, `SeatsAssumption`, `RowsAssumption`, `LimitsAssumption`,
`RoleScenesAssumption`, `PoolsAssumption`, and those of `StockMovements` and
`Inventory`; or that `None` and the ids of requests and rows are what they stand for
(`AccountsAssumption`, `AbsenceAssumption`, `RolesAssumption`).

Only model-checked:

* liveness (`AllEnd`, `SessionsEnd`, `StopsWhenTold`), under fairness, which is out of
  the prover's reach;
* the five statements of section 4, which TLC refutes.

Every other invariant, action property and refinement of the runs is a theorem.

## 4. Findings

* The aggregate's one-unit rule for serial positions wraps around
  (`inventory_serial_wrap`). The table's CHECK still refuses the row, so the rule
  holds in the database (`StockWithinLimits`) and the client sees a 500.
* A rolled-back receipt announces stock (`receiving_events`): the inventory and
  purchase order services publish when their savepoint is released, not when the
  receipt's transaction commits. `docs/Inventory.md:145` promises that "a
  rolled-back transaction leaves no row and emits no event".
* A conflict names the wrong resource (`receiving_conflict`): a position or order
  that lost its version check inside Receive is reported as a change of the
  receipt, with the receipt's unchanged version as the retry token.
* A company's update overwrites another (`company_update`): `Save` writes every
  column of the row that was read, in a transaction whose comment claims that this
  prevents the lost update. It brings a deleted company back in the same way.
* Products cannot be stored (`products`): the mapper encodes method values instead
  of what they return, drops the error, and leaves out three NOT NULL references.

Met on the way, and not findings, because no document promises otherwise:

* `Revive` clears `deleted_at` on every dead grant of a code; where a code was
  revoked twice the two rows collide on the unique index, and the request fails
  with a conflict (`GrantScene` has such a row).
* A role's update saves by id without a version; it changes only a description.
* `docs/Authentication.md:149` says that reuse revokes every session of the user. The
  mass revocation is one UPDATE, and what is inserted beside it is not in its
  snapshot: a login in flight survives, and so does the session of a rotation that
  commits while the UPDATE waits for the row it rotates. `ReuseEndsSuccessor` says
  what does hold, that the session which came of the reused token is over.
* Warehouses and locations publish before their commit, so a crash in between
  announces what did not happen (`Abort` after `PublishInside`); unlike
  `docs/Inventory.md`, their documents do not exclude it.
* When the listener dies by itself, `App.Run` closes the pools without draining the
  connections that still stand (`ListenerDied`). The documents promise the drain on a
  signal only.
* `recordAgainstPurchaseOrder` adds a product's lines in int64. Two lines at
  most wrap to a negative sum, which the order refuses; three can wrap to a small
  positive one. `Records` has the wrap-around, an opening of the runs a receipt that
  meets it, and `OrdersMatch` is proved of receipts below the second limit.

## 5. Not modelled, and what is left

* **Stock transfer, putaway and quality inspection documents**: aggregates and
  tables without a service, a repository or a route. Nothing in the program creates
  one, so there is nothing to interleave; pure transitions of an object nobody holds
  would only be a copy of the code.
* **Lookup, health, template**: read-only endpoints, probes and a sample.
* **Configuration, Redis and Asynq adapters, migrations**: input and output without
  a protocol of this code's own. Token signing, hashing, DTO validation and
  formatting are data.
* **Default-company resolution, Switch and listings** only read.
* **The Flutter client** renders answers. Its interceptor refreshes on every refused
  request without waiting for a refresh under way, which is one way a token comes
  to be presented twice; `Sessions` allows that and every other way.
