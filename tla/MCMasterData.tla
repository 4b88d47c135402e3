---------------------------- MODULE MCMasterData -----------------------------
(***************************************************************************)
(* Instances of MasterData for TLC.  Each scene is one contest: the rows   *)
(* it begins with and the commands its requests may carry.                 *)
(***************************************************************************)
EXTENDS MasterData, TLC

CONSTANTS
    r1, r2, r3, c1, c2, n1, n2, t1, k1, k2, code1,
    w1, w2, w3, l1, l2, l3, l4, b1, b2, u1, u2, s1, s2, p1, p2, ca1, ca2, cu1, cu2

\* l2 is the location of another company; w2 and w3, and l3 and l4, compete.
MCCompanyOf ==
    [x \in Records |-> IF x \in {l2} THEN c2 ELSE IF x \in Units THEN None ELSE c1]

MCCodeOf == [x \in Records |-> IF x \in {w2, w3} THEN k2 ELSE IF x \in {l1, l2} THEN k1 ELSE code1]

MCWarehouseOf == [l \in Locations |-> IF l = l2 THEN w3 ELSE w1]

-----------------------------------------------------------------------------
Row(data) == [version |-> 1, data |-> data]

Rows(given) == [x \in Records |-> IF x \in DOMAIN given THEN Row(given[x]) ELSE Absent]

NoChange == [f \in {} |-> None]

Edit(kind, x, change) == [kind |-> kind, item |-> x, company |-> CompanyOf[x], change |-> change]

Ask(kind, x) == Edit(kind, x, NoChange)

Asks(x, kinds) == {Ask(kind, x) : kind \in kinds}

Site(status, name, address, contact, zone) ==
    [status |-> status, archived |-> FALSE, name |-> name, address |-> address,
     contact |-> contact, receiving |-> zone, shipping |-> None, staging |-> None]

Bin(status, barcode) ==
    [status |-> status, archived |-> FALSE, barcode |-> barcode, capacity |-> None,
     mixed |-> TRUE, options |-> n1]

Entry(status) == [status |-> status, archived |-> FALSE, name |-> n1]

Item1 == [status |-> "ACTIVE", archived |-> FALSE, name |-> n1,
          references |-> TRUE, documents |-> TRUE]

Edits(kind, x, changes) == {Edit(kind, x, change) : change \in changes}

-----------------------------------------------------------------------------
(* Warehouses: fitting one out while it is activated, held or archived *)

Places == (l1 :> Bin("ACTIVE", None)) @@ (l2 :> Bin("ACTIVE", None))

SiteScene(site) ==
    [rows     |-> Rows((w1 :> site) @@ Places),
     commands |-> Asks(w1, {"Activate", "Deactivate", "Suspend", "Archive"})
                    \cup Edits("Update", w1,
                           {[address |-> None], [address |-> t1], [receiving |-> l1]})
                    \cup Edits("ChangeContact", w1, {[contact |-> None], [contact |-> t1]})]

SiteScenes ==
    {SiteScene(site) :
        site \in {Site("DRAFT", n1, t1, t1, None), Site("DRAFT", n1, None, t1, l1),
                  Site("ACTIVE", n1, t1, t1, l1), Site("SUSPENDED", n1, t1, t1, l1)}}

\* Two creations and a renaming claim one code or one name.
NameScene ==
    [rows     |-> Rows((w1 :> Site("ACTIVE", n1, t1, t1, l1)) @@ Places),
     commands |-> Edits("Create", w2, {[name |-> n1], [name |-> n2]})
                    \cup Edits("Create", w3, {[name |-> n1], [name |-> n2]})
                    \cup Edits("Update", w1, {[name |-> n2, shipping |-> l2], [staging |-> l1]})
                    \cup Asks(w1, {"Archive"}) \cup Asks(l1, {"Archive"})]

-----------------------------------------------------------------------------
(* Locations: holds, labels, and creation while the warehouse is archived *)

NewBin(barcode, capacity) == [barcode |-> barcode, capacity |-> capacity, mixed |-> TRUE, options |-> n1]

BinScene(status) ==
    [rows     |-> Rows((w1 :> Site("INACTIVE", n1, t1, t1, l1))
                         @@ (l1 :> Bin(status, t1)) @@ (l2 :> Bin("ACTIVE", t1))),
     commands |-> Asks(l1, {"Activate", "Deactivate", "Lock", "Unlock", "StartMaintenance",
                            "Archive"})
                    \cup Edits("ChangeCapacity", l1, {[capacity |-> 1]})
                    \cup Edits("AssignBarcode", l1, {[barcode |-> k1], [barcode |-> None]})
                    \cup Edits("Update", l1, {[options |-> n2, mixed |-> FALSE]})
                    \cup Edits("Create", l3, {NewBin(t1, None)})]

LabelScene ==
    [rows     |-> Rows((w1 :> Site("INACTIVE", n1, t1, t1, l1)) @@ (l1 :> Bin("ACTIVE", t1))
                         @@ (l2 :> Bin("ACTIVE", t1))),
     commands |-> Edits("Create", l3, {NewBin(t1, None), NewBin(k1, 1), NewBin(None, 1)})
                    \cup Edits("Create", l4, {NewBin(k1, None), NewBin(None, None)})
                    \cup Edits("AssignBarcode", l1, {[barcode |-> k1], [barcode |-> None]})
                    \cup {[Ask("Lock", l2) EXCEPT !.company = c1]}
                    \cup Asks(w1, {"Archive"}) \cup Asks(l1, {"Archive"})]

-----------------------------------------------------------------------------
(* The catalogue: two entries of a table claim one code; one is edited *)

EntryScene(x, y, status, kinds) ==
    [rows     |-> Rows(x :> Entry(status)),
     commands |-> Asks(x, kinds) \cup Edits("Update", x, {[name |-> n2], [name |-> n1]})
                    \cup Edits("Create", y, {[name |-> n1]}) \cup Asks(y, {"Deactivate"})]

RaceScene(x, y) ==
    [rows |-> Rows(NoChange), commands |-> Edits("Create", x, {[name |-> n1]})
                                             \cup Edits("Create", y, {[name |-> n2]})]

Editable == {"Activate", "Deactivate"}

Shelved == Editable \cup {"Archive"}

CatalogueScenes ==
    {EntryScene(b1, b2, status, Shelved) : status \in {"ACTIVE", "INACTIVE"}}
        \cup {EntryScene(ca1, ca2, "ACTIVE", Shelved), EntryScene(u1, u2, "ACTIVE", Editable),
              EntryScene(cu1, cu2, "INACTIVE", Editable), RaceScene(b1, b2),
              RaceScene(ca1, ca2), RaceScene(u1, u2), RaceScene(s1, s2), RaceScene(cu1, cu2)}
        \cup {EntryScene(s1, s2, status, Editable) : status \in {"ACTIVE", "INACTIVE"}}

\* Products that an import wrote: the service itself stores none.
ProductScene ==
    [rows     |-> Rows(p1 :> Item1),
     commands |-> Asks(p1, Shelved) \cup Edits("Update", p1, {[name |-> n2]})
                    \cup Edits("Create", p2, {[name |-> n1]})]

MCScenes == SiteScenes \cup {NameScene, BinScene("ACTIVE"), BinScene("LOCKED"), LabelScene, ProductScene} \cup CatalogueScenes

ProductScenes == {ProductScene}

RequestSymmetry == Permutations(Requests)
=============================================================================
