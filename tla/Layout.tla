------------------------------- MODULE Layout --------------------------------
(***************************************************************************)
(* The warehouse and storage location aggregates.  Address, contact, zones *)
(* and barcode are present or absent; capacity is one dimension of three.  *)
(* Description, type and coordinates carry no rule and are left out; a     *)
(* location's priority and overflow policy are one value.                  *)
(***************************************************************************)
EXTENDS Records

CONSTANTS
    Warehouses, Locations,
    WarehouseOf,    \* the warehouse a location is in
    Texts,          \* addresses and contacts
    Barcodes,
    Capacities,     \* declared limits; None is unlimited
    Options         \* priority and overflow policy of a location

-----------------------------------------------------------------------------
(* Warehouse *)

Zones == <<"receiving", "shipping", "staging">>

ZoneFields == {"receiving", "shipping", "staging"}

WarehouseStatuses == {"DRAFT", "ACTIVE", "INACTIVE", "SUSPENDED"}

\* A creation names the warehouse; everything else follows in operations of its own.
WarehouseForms ==
    [Create |-> {"name"}, Update |-> {"name", "address"} \cup ZoneFields,
     ChangeContact |-> {"contact"}, Activate |-> {}, Deactivate |-> {}, Suspend |-> {},
     Archive |-> {}]

WarehouseData ==
    [status : WarehouseStatuses, archived : BOOLEAN,
     name : Names, address : Texts \cup {None}, contact : Texts \cup {None},
     receiving : Locations \cup {None}, shipping : Locations \cup {None},
     staging : Locations \cup {None}]

NewWarehouse(change) ==
    [status |-> "DRAFT", archived |-> FALSE, name |-> change.name,
     address |-> None, contact |-> None,
     receiving |-> None, shipping |-> None, staging |-> None]

HasZone(d) == \E z \in ZoneFields : d[z] # None

Ready(d) == d.address # None /\ d.contact # None /\ HasZone(d)

WarehouseStatusAfter ==
    [Activate |-> "ACTIVE", Deactivate |-> "INACTIVE", Suspend |-> "SUSPENDED"]

CanActivate(d) == d.status = "ACTIVE" \/ Ready(d)

CanDeactivate(d) == d.status \in {"ACTIVE", "INACTIVE"}

Clears(change, f) == f \in DOMAIN change /\ change[f] = None

\* Slip: an active warehouse may lose its address.
KeepsAddressNever(change, d) == TRUE

KeepsAddress(change, d) == Clears(change, "address") => d.status # "ACTIVE"

KeepsContact(change, d) == Clears(change, "contact") => d.status # "ACTIVE"

\* A zone is assigned, or replaced, never taken away.
NamesZones(change) == \A z \in ZoneFields : ~Clears(change, z)

\* AlwaysAllowDeletion, the guard that is wired: whatever the warehouse holds.
DeletionAllowed == TRUE

WarehouseAccepts(kind, change, d) ==
    /\ ~d.archived
    /\ kind = "Archive" => DeletionAllowed
    /\ kind = "Activate" => CanActivate(d)
    /\ kind = "Deactivate" => CanDeactivate(d)
    /\ KeepsAddress(change, d)
    /\ KeepsContact(change, d)
    /\ NamesZones(change)

WarehouseAfter(kind, change, d) == Changed(d, kind, change, WarehouseStatusAfter)

\* A repeated activation or suspension is accepted and tells nobody.
StatusEvents(kind, d) ==
    {e \in {"Activate", "Suspend"} : kind = e /\ d.status # WarehouseStatusAfter[e]}

FittingEvents(change, d) ==
    {f \in DOMAIN change \cap (ZoneFields \cup {"contact"}) : change[f] # d[f]}

WarehouseEvents(kind, change, d) ==
    StatusEvents(kind, d) \cup {e \in {"Archive"} : kind = e} \cup FittingEvents(change, d)

WarehouseKeys(w, d) ==
    {<<"warehouse code", CompanyOf[w], CodeOf[w]>>, <<"warehouse name", CompanyOf[w], d.name>>}

NameFree(w, change) == KeyFree(<<"warehouse name", CompanyOf[w], change.name>>)

ZonesKnown(change) ==
    LET zones == SelectSeq(Zones, LAMBDA z : z \in DOMAIN change)
    IN  [i \in DOMAIN zones |-> ZoneKnown(change[zones[i]])]

\* A creation asks for its code and its name, an update for its new name and
\* then for each zone it assigns.
WarehouseChecks(kind, w, change) ==
    IF kind = "Create"
    THEN <<KeyFree(<<"warehouse code", CompanyOf[w], CodeOf[w]>>), NameFree(w, change)>>
    ELSE (IF "name" \in DOMAIN change THEN <<NameFree(w, change)>> ELSE <<>>) \o ZonesKnown(change)

-----------------------------------------------------------------------------
(* Storage location *)

LocationStatuses == {"ACTIVE", "INACTIVE", "LOCKED", "MAINTENANCE"}

LocationForms ==
    [Create |-> {"barcode", "capacity", "mixed", "options"}, Update |-> {"mixed", "options"},
     AssignBarcode |-> {"barcode"}, ChangeCapacity |-> {"capacity"}, Activate |-> {},
     Deactivate |-> {}, Lock |-> {}, Unlock |-> {}, StartMaintenance |-> {}, Archive |-> {}]

LocationData ==
    [status : LocationStatuses, archived : BOOLEAN,
     barcode : Barcodes \cup {None}, capacity : Capacities \cup {None},
     mixed : BOOLEAN, options : Options]

NewLocation(change) ==
    [status |-> "ACTIVE", archived |-> FALSE, barcode |-> change.barcode,
     capacity |-> change.capacity, mixed |-> change.mixed, options |-> change.options]

LocationStatusAfter ==
    [Activate |-> "ACTIVE", Deactivate |-> "INACTIVE", Lock |-> "LOCKED",
     Unlock |-> "ACTIVE", StartMaintenance |-> "MAINTENANCE"]

\* EmptyCapacity and EmptyInventory are what the program wires: every location
\* reports that it holds nothing.
CurrentUsage == 0

DistinctSKUs == 0

CapacityFits(limit) == limit # None => CurrentUsage <= limit

Fits(change) == "capacity" \in DOMAIN change => CapacityFits(change.capacity)

MayNarrow(change, d) ==
    "mixed" \in DOMAIN change /\ d.mixed /\ ~change.mixed => DistinctSKUs <= 1

CanArchive == CurrentUsage = 0

\* Slip: a locked location is treated like any other.
NotLockedEver(d) == TRUE

NotLocked(d) == d.status # "LOCKED"

CanUnlock(d) == d.status = "LOCKED"

LocationAccepts(kind, change, d) ==
    /\ ~d.archived
    /\ kind = "Unlock" => CanUnlock(d)
    /\ kind \in {"Activate", "Deactivate", "StartMaintenance"} => NotLocked(d)
    /\ Fits(change)
    /\ MayNarrow(change, d)
    /\ kind = "Archive" => CanArchive

LocationAfter(kind, change, d) == Changed(d, kind, change, LocationStatusAfter)

LockEvents(kind, d) ==
    {e \in {"Lock", "Unlock"} : kind = e /\ d.status # LocationStatusAfter[e]}

LocationEvents(kind, change, d) ==
    LockEvents(kind, d)
        \cup {f \in DOMAIN change \cap {"barcode"} : change[f] # d[f]}
        \cup (DOMAIN change \cap {"capacity"})

LocationCreated(change) ==
    {"Create"} \cup {f \in {"barcode", "capacity"} : change[f] # None}

LocationKeys(l, d) ==
    {<<"location code", WarehouseOf[l], CodeOf[l]>>}
        \cup {<<"barcode", CompanyOf[l], b>> : b \in {d.barcode} \ {None}}

BarcodeFree(l, change) ==
    IF "barcode" \in DOMAIN change /\ change.barcode # None
    THEN <<KeyFree(<<"barcode", CompanyOf[l], change.barcode>>)>> ELSE <<>>

LocationChecks(kind, l, change) ==
    (IF kind = "Create" THEN <<KeyFree(<<"location code", WarehouseOf[l], CodeOf[l]>>)>> ELSE <<>>)
        \o BarcodeFree(l, change)

-----------------------------------------------------------------------------
(* The services, repositories and tables, as Records describes them *)

WarehouseService == [publishes |-> "inside", answers |-> TRUE]

LocationService == [publishes |-> "inside", answers |-> TRUE]

WarehouseRepository == [scoped |-> TRUE]

LocationRepository == [scoped |-> TRUE]

WarehouseStore == [drops |-> {}, requires |-> {}]

LocationStore == [drops |-> {}, requires |-> {}]
=============================================================================
