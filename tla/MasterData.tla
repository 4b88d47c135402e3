----------------------------- MODULE MasterData ------------------------------
(***************************************************************************)
(* The services over warehouses, storage locations and the catalogue:      *)
(* concurrent requests, each running one operation on one record in a READ *)
(* COMMITTED transaction.  Every operation has one course: load the record *)
(* (a creation has none), ask what it must ask of other rows, let the      *)
(* aggregate decide, write one row under the version it read, and commit.  *)
(*                                                                         *)
(* Warehouses and locations publish their events inside the transaction,   *)
(* suppliers and customers after it, the rest of the catalogue never.      *)
(***************************************************************************)
EXTENDS Layout, Catalogue

CONSTANTS
    Requests,   \* HTTP requests in flight
    Scenes      \* the rows a behaviour begins with, and what may then be asked

VARIABLES
    row,        \* the committed row of every record
    op,         \* what each request was asked to do
    pc,         \* the statement each request runs next, or how it ended
    loaded,     \* the row it read
    checks,     \* the lookups it has still to make
    told,       \* the current version its conflict answer names; 0, none
    announced   \* the events it has published

vars == <<row, op, pc, loaded, checks, told, announced>>

Records == Warehouses \cup Locations \cup Entries

Commands == UNION {s.commands : s \in Scenes}

Data(x) ==
    IF x \in Warehouses THEN WarehouseData
    ELSE IF x \in Locations THEN LocationData ELSE EntryData(x)

IsRow(w, x) == w = Absent \/ (w.version \in Nat \ {0} /\ w.data \in Data(x))

Uncommitted == {"written", "announced"}

Ended == {"done", "refused", "duplicate", "failed", "lost", "unannounced", "conflicted"}

-----------------------------------------------------------------------------
(* The aggregates, by the table a record is in *)

Accepts(o, d) ==
    IF o.item \in Warehouses THEN WarehouseAccepts(o.kind, o.change, d)
    ELSE IF o.item \in Locations THEN LocationAccepts(o.kind, o.change, d)
    ELSE EntryAccepts(o.kind, o.item, d)

New(o) ==
    IF o.item \in Warehouses THEN NewWarehouse(o.change)
    ELSE IF o.item \in Locations THEN NewLocation(o.change)
    ELSE NewEntry(o.item, o.change)

After(o, d) ==
    IF o.item \in Warehouses THEN WarehouseAfter(o.kind, o.change, d)
    ELSE IF o.item \in Locations THEN LocationAfter(o.kind, o.change, d)
    ELSE EntryAfter(o.kind, o.change, d)

Events(o, d) ==
    IF o.item \in Locations /\ o.kind = "Create" THEN LocationCreated(o.change)
    ELSE IF o.item \in Warehouses /\ o.kind = "Create" THEN {"Create"}
    ELSE IF o.item \in Warehouses THEN WarehouseEvents(o.kind, o.change, d)
    ELSE IF o.item \in Locations THEN LocationEvents(o.kind, o.change, d)
    ELSE EntryEvents(o.kind, o.item, d)

Repository(x) ==
    IF x \in Warehouses THEN WarehouseRepository
    ELSE IF x \in Locations THEN LocationRepository ELSE Of(x).repository

Forms(x) ==
    IF x \in Warehouses THEN WarehouseForms
    ELSE IF x \in Locations THEN LocationForms ELSE Of(x).forms

\* What the handlers pass on: the fields of the operation's form, with values that
\* some record could have; a creation fills its form.
Offered(o) ==
    /\ o.item \in Records
    /\ o.kind \in DOMAIN Forms(o.item)
    /\ DOMAIN o.change \subseteq Forms(o.item)[o.kind]
    /\ o.kind = "Create" => DOMAIN o.change = Forms(o.item)[o.kind]
    /\ \E d \in Data(o.item) : \A f \in DOMAIN o.change : o.change[f] = d[f]

Keys(x, d) ==
    IF x \in Warehouses THEN WarehouseKeys(x, d)
    ELSE IF x \in Locations THEN LocationKeys(x, d) ELSE EntryKeys(x)

Checks(o) ==
    IF o.item \in Warehouses THEN WarehouseChecks(o.kind, o.item, o.change)
    ELSE IF o.item \in Locations THEN LocationChecks(o.kind, o.item, o.change)
    ELSE EntryChecks(o.kind, o.item)

Service(x) ==
    IF x \in Warehouses THEN WarehouseService
    ELSE IF x \in Locations THEN LocationService ELSE Of(x).service

Store(x) ==
    IF x \in Warehouses THEN WarehouseStore
    ELSE IF x \in Locations THEN LocationStore ELSE Of(x).store

\* Slip: rows that were never inserted are found.
VisibleUnchecked(x, company) == Repository(x).scoped => CompanyOf[x] = company

\* FindByID, under ForCompany or for everybody.
Visible(x, company) == Live(row[x]) /\ (Repository(x).scoped => CompanyOf[x] = company)

ToRow(x, d) == [f \in DOMAIN d |-> IF f \in Store(x).drops THEN FALSE ELSE d[f]]

\* Slip: suppliers and customers publish inside, too.
PublishesAlways(x) == Service(x).publishes # "never"

PublishesInside(x) == Service(x).publishes = "inside"

PublishesAfter(x) == Service(x).publishes = "after"

\* A behaviour begins with a database the services could have left, and with the
\* form of an operation in each request.
ASSUME ScenesAssumption ==
    \A s \in Scenes :
        /\ s.rows = [x \in Records |-> s.rows[x]]
        /\ \A x \in Records : IsRow(s.rows[x], x)
        /\ \A w \in Warehouses :
             Live(s.rows[w]) /\ s.rows[w].data.status = "ACTIVE" => Ready(s.rows[w].data)
        /\ \A x, y \in Records :
             x # y /\ Live(s.rows[x]) /\ Live(s.rows[y])
                 => Keys(x, s.rows[x].data) \cap Keys(y, s.rows[y].data) = {}
        /\ \A o \in s.commands : Offered(o) /\ (o.kind = "Create" => s.rows[o.item] = Absent)

-----------------------------------------------------------------------------
(* What a request has in hand *)

Item(r) == op[r].item

Creates(r) == op[r].kind = "Create"

\* Slip: the version stays what it was.
DraftSameVersion(r) ==
    [version |-> IF Creates(r) THEN 1 ELSE loaded[r].version,
     data    |-> ToRow(Item(r), IF Creates(r) THEN New(op[r])
                                ELSE After(op[r], loaded[r].data))]

\* The row its write statement stores.
Draft(r) ==
    [version |-> loaded[r].version + 1,
     data    |-> ToRow(Item(r), IF Creates(r) THEN New(op[r])
                                ELSE After(op[r], loaded[r].data))]

Taken(key, x) == \E y \in Records \ {x} : Live(row[y]) /\ key \in Keys(y, row[y].data)

\* VerifyZone: some live location of the company, in whatever warehouse.
KnownZone(l, company) == Visible(l, company)

Holds(r, c) ==
    IF c.check = "key" THEN ~Taken(c.of, Item(r)) ELSE KnownZone(c.of, op[r].company)

\* A row lock, or the entry of a unique index, that another transaction holds.
Holding(q) ==
    Keys(Item(q), Draft(q).data)
        \cup (IF Creates(q) THEN {} ELSE Keys(Item(q), loaded[q].data))

Blocked(r) ==
    \E q \in Requests \ {r} :
        /\ pc[q] \in Uncommitted
        /\ Item(q) = Item(r) \/ Holding(q) \cap Keys(Item(r), Draft(r).data) # {}

\* Slip: Save, which finds the row by its id alone.
MatchesById(r) == row[Item(r)].version > 0

\* The WHERE clause of UpdateOptimistic.
Matches(r) ==
    LET w == row[Item(r)]
    IN  Live(w) /\ w.version = loaded[r].version

\* Foreign keys and NOT NULL columns.
Storable(r) == \A f \in Store(Item(r)).requires : Draft(r).data[f]

\* Slip: the tables have no unique index.
UniqueUnindexed(r) == TRUE

Unique(r) == \A key \in Keys(Item(r), Draft(r).data) : ~Taken(key, Item(r))

-----------------------------------------------------------------------------
Start(o) ==
    IF o.kind # "Create" THEN "load" ELSE IF o.item \in Locations THEN "verify" ELSE "check"

\* Ids are generated, so no two requests create the same record.
Init ==
    /\ \E s \in Scenes :
         /\ row = s.rows
         /\ op \in [Requests -> s.commands]
    /\ \A q, r \in Requests : q # r /\ Creates(q) /\ Creates(r) => Item(q) # Item(r)
    /\ pc = [r \in Requests |-> Start(op[r])]
    /\ loaded = [r \in Requests |-> Absent]
    /\ checks = [r \in Requests |-> IF Creates(r) THEN Checks(op[r]) ELSE <<>>]
    /\ told = [r \in Requests |-> 0]
    /\ announced = [r \in Requests |-> {}]

GoTo(r, label) == pc' = [pc EXCEPT ![r] = label]

\* VerifyWarehouse, before the transaction of a location's creation begins.
VerifyWarehouse(r) ==
    LET w == WarehouseOf[Item(r)]
    IN  /\ pc[r] = "verify"
        /\ GoTo(r, IF Visible(w, op[r].company) THEN "check" ELSE "refused")
        /\ UNCHANGED <<row, op, loaded, checks, told, announced>>

\* FindByID.
Load(r) ==
    /\ pc[r] = "load"
    /\ IF Visible(Item(r), op[r].company)
       THEN /\ loaded' = [loaded EXCEPT ![r] = row[Item(r)]]
            /\ checks' = [checks EXCEPT ![r] = Checks(op[r])]
            /\ GoTo(r, "check")
       ELSE GoTo(r, "refused") /\ UNCHANGED <<loaded, checks>>
    /\ UNCHANGED <<row, op, told, announced>>

\* One existence check; the index or the row it read is not held.
Check(r) ==
    /\ pc[r] = "check"
    /\ checks[r] # <<>>
    /\ IF Holds(r, Head(checks[r]))
       THEN checks' = [checks EXCEPT ![r] = Tail(checks[r])] /\ UNCHANGED pc
       ELSE GoTo(r, "refused") /\ UNCHANGED checks
    /\ UNCHANGED <<row, op, loaded, told, announced>>

Decided(r) == pc[r] = "check" /\ checks[r] = <<>>

Accepted(r) == ~Creates(r) => Accepts(op[r], loaded[r].data)

\* The aggregate refuses, and nothing is written.
Refuse(r) ==
    /\ Decided(r)
    /\ ~Accepted(r)
    /\ GoTo(r, "refused")
    /\ UNCHANGED <<row, op, loaded, checks, told, announced>>

\* Save or UpdateOptimistic: one statement, which waits for the locks it needs.
Write(r) ==
    /\ Decided(r)
    /\ Accepted(r)
    /\ ~Blocked(r)
    /\ GoTo(r, IF ~Creates(r) /\ ~Matches(r) THEN "conflict"
               ELSE IF ~Storable(r) THEN "failed"
               ELSE IF ~Unique(r) THEN "duplicate" ELSE "written")
    /\ UNCHANGED <<row, op, loaded, checks, told, announced>>

\* publish, for the services that call it before their transaction commits.
PublishInside(r) ==
    /\ pc[r] = "written"
    /\ PublishesInside(Item(r))
    /\ announced' = [announced EXCEPT ![r] = Events(op[r], loaded[r].data)]
    /\ GoTo(r, "announced")
    /\ UNCHANGED <<row, op, loaded, checks, told>>

Commit(r) ==
    /\ pc[r] = IF PublishesInside(Item(r)) THEN "announced" ELSE "written"
    /\ row' = [row EXCEPT ![Item(r)] = Draft(r)]
    /\ GoTo(r, IF PublishesAfter(Item(r)) THEN "publish" ELSE "done")
    /\ UNCHANGED <<op, loaded, checks, told, announced>>

\* The process or its connection dies before the commit.
Abort(r) ==
    /\ pc[r] \in Uncommitted
    /\ GoTo(r, "lost")
    /\ UNCHANGED <<row, op, loaded, checks, told, announced>>

PublishAfter(r) ==
    /\ pc[r] = "publish"
    /\ announced' = [announced EXCEPT ![r] = Events(op[r], loaded[r].data)]
    /\ GoTo(r, "done")
    /\ UNCHANGED <<row, op, loaded, checks, told>>

\* The process dies between the commit and the events.
DieUnannounced(r) ==
    /\ pc[r] = "publish"
    /\ GoTo(r, "unannounced")
    /\ UNCHANGED <<row, op, loaded, checks, told, announced>>

\* concurrentModification: after the rollback, read the record again.
AnswerConflict(r) ==
    LET w == row[Item(r)]
    IN  /\ pc[r] = "conflict"
        /\ told' = [told EXCEPT ![r] = IF Service(Item(r)).answers /\ Live(w) THEN w.version ELSE 0]
        /\ GoTo(r, "conflicted")
        /\ UNCHANGED <<row, op, loaded, checks, announced>>

Next ==
    \E r \in Requests :
        \/ VerifyWarehouse(r)
        \/ Load(r)
        \/ Check(r)
        \/ Refuse(r)
        \/ Write(r)
        \/ PublishInside(r)
        \/ Commit(r)
        \/ Abort(r)
        \/ PublishAfter(r)
        \/ DieUnannounced(r)
        \/ AnswerConflict(r)

Spec == Init /\ [][Next]_vars

-----------------------------------------------------------------------------
TypeOK ==
    /\ DOMAIN row = Records
    /\ \A x \in Records : IsRow(row[x], x)
    /\ op \in [Requests -> Commands]
    /\ pc \in [Requests -> {"verify", "load", "check", "conflict", "publish"}
                               \cup Uncommitted \cup Ended]
    /\ \A r \in Requests :
         /\ IsRow(loaded[r], Item(r))
         /\ Creates(r) \/ pc[r] \in {"load", "refused"} \/ loaded[r].version > 0
         /\ told[r] \in Nat
         /\ announced[r] # {} => announced[r] = Events(op[r], loaded[r].data)

\* An active warehouse has an address, a contact and a zone, however its edits
\* and its activation interleave (Activate, ChangeAddress, ChangeContact).
ActiveIsReady ==
    \A w \in Warehouses :
        Live(row[w]) /\ row[w].data.status = "ACTIVE" => Ready(row[w].data)

\* A lock on a location is lifted only by an unlock, and a suspension only by an
\* activation, that read the very row that carries it (Unlock, Deactivate,
\* StartMaintenance and the warehouse's Deactivate refuse the rest).
HoldsStand ==
    [][\A x \in Warehouses \cup Locations :
         LET lifts == IF x \in Warehouses THEN "Activate" ELSE "Unlock"
         IN  /\ row[x].version > 0
             /\ row[x].data.status \in {"LOCKED", "SUSPENDED"}
             /\ row'[x].data.status # row[x].data.status
             => \E r \in Requests :
                  Item(r) = x /\ op[r].kind = lifts /\ loaded[r] = row[x]]_vars

\* An archived record is never written again, not even by a request that loaded
\* it while it was live (assertNotArchived, UpdateOptimistic).
ArchivedStand ==
    [][\A x \in Records : row[x].version > 0 /\ row[x].data.archived => row'[x] = row[x]]_vars

\* Every committed change was computed from the row it replaces: no request
\* overwrites a change it has not seen (Update's read-modify-write).
ChangesBuildOnReads ==
    [][\A r \in Requests :
         pc[r] \in Uncommitted /\ pc'[r] \in {"done", "publish"} => row[Item(r)] = loaded[r]]_vars

\* Live records share no code, name, SKU or barcode in their scope, although the
\* existence checks alone would let two requests claim one.
KeysUnique ==
    \A x, y \in Records :
        x # y /\ Live(row[x]) /\ Live(row[y])
            => Keys(x, row[x].data) \cap Keys(y, row[y].data) = {}

\* What a request tells others is so: an event of a supplier or customer follows a
\* committed change, and a conflict answer names a newer version than was read, or
\* none when the record is gone or the service names none (publish after the
\* transaction, concurrentModification).
AnswersAreTrue ==
    \A r \in Requests :
        /\ PublishesAfter(Item(r)) /\ announced[r] # {} => row[Item(r)].version > loaded[r].version
        /\ pc[r] = "conflicted" =>
             \/ told[r] > loaded[r].version
             \/ told[r] = 0 /\ (~Service(Item(r)).answers \/ ~Live(row[Item(r)]))

\* What the product repository's tests say of it: every well-formed product the
\* service saves or updates reaches the database.
ProductsAreStored == \A r \in Requests : Item(r) \in Products => pc[r] # "failed"
=============================================================================
