------------------------------ MODULE Catalogue ------------------------------
(***************************************************************************)
(* Brands and categories, units of measure, suppliers and customers, and   *)
(* products.  Their code has one shape; what tells them apart is written   *)
(* down as a record per aggregate, service and table.                      *)
(***************************************************************************)
EXTENDS Records

CONSTANTS
    Brands, Categories, Units, Suppliers, Customers, Products

Entries == Brands \cup Categories \cup Units \cup Suppliers \cup Customers \cup Products

-----------------------------------------------------------------------------
(* Aggregates: whether there is an archive operation, and what is announced *)

BrandAggregate == [archives |-> TRUE, announces |-> {}]

CategoryAggregate == [archives |-> TRUE, announces |-> {}]

UnitAggregate == [archives |-> FALSE, announces |-> {}]

SupplierAggregate == [archives |-> FALSE, announces |-> {"Create", "Update", "Activate", "Deactivate"}]

CustomerAggregate == [archives |-> FALSE, announces |-> {"Create", "Update", "Activate", "Deactivate"}]

ProductAggregate == [archives |-> TRUE, announces |-> {}]

-----------------------------------------------------------------------------
(* Forms, services, repositories and tables, as Records describes them *)

BrandForms ==
    [Create |-> {"name"}, Update |-> {"name"}, Activate |-> {}, Deactivate |-> {},
     Archive |-> {}]

CategoryForms ==
    [Create |-> {"name"}, Update |-> {"name"}, Activate |-> {}, Deactivate |-> {},
     Archive |-> {}]

UnitForms ==
    [Create |-> {"name"}, Update |-> {"name"}, Activate |-> {}, Deactivate |-> {}]

SupplierForms ==
    [Create |-> {"name"}, Update |-> {"name"}, Activate |-> {}, Deactivate |-> {}]

CustomerForms ==
    [Create |-> {"name"}, Update |-> {"name"}, Activate |-> {}, Deactivate |-> {}]

ProductForms ==
    [Create |-> {"name"}, Update |-> {"name"}, Activate |-> {}, Deactivate |-> {},
     Archive |-> {}]

BrandService == [publishes |-> "never", answers |-> FALSE]

CategoryService == [publishes |-> "never", answers |-> FALSE]

UnitService == [publishes |-> "never", answers |-> TRUE]

SupplierService == [publishes |-> "after", answers |-> TRUE]

CustomerService == [publishes |-> "after", answers |-> TRUE]

ProductService == [publishes |-> "never", answers |-> FALSE]

BrandRepository == [scoped |-> TRUE]

CategoryRepository == [scoped |-> TRUE]

UnitRepository == [scoped |-> FALSE]

SupplierRepository == [scoped |-> TRUE]

CustomerRepository == [scoped |-> TRUE]

ProductRepository == [scoped |-> TRUE]

BrandStore == [drops |-> {}, requires |-> {}]

CategoryStore == [drops |-> {}, requires |-> {}]

UnitStore == [drops |-> {}, requires |-> {}]

SupplierStore == [drops |-> {}, requires |-> {}]

CustomerStore == [drops |-> {}, requires |-> {}]

\* toModel leaves out the category, brand and unit, and marshals the documents'
\* getters instead of their values, which yields no document; the columns are
\* foreign keys and NOT NULL.
ProductStore == [drops |-> {"references", "documents"}, requires |-> {"references", "documents"}]

Catalogued(table, forms, aggregate, service, repository, store) ==
    [table |-> table, forms |-> forms, aggregate |-> aggregate, service |-> service,
     repository |-> repository, store |-> store]

Of(x) ==
    CASE x \in Brands -> Catalogued("brands",
             BrandForms, BrandAggregate, BrandService, BrandRepository, BrandStore)
      [] x \in Categories -> Catalogued("categories",
             CategoryForms, CategoryAggregate, CategoryService, CategoryRepository, CategoryStore)
      [] x \in Units -> Catalogued("units",
             UnitForms, UnitAggregate, UnitService, UnitRepository, UnitStore)
      [] x \in Suppliers -> Catalogued("suppliers",
             SupplierForms, SupplierAggregate, SupplierService, SupplierRepository, SupplierStore)
      [] x \in Customers -> Catalogued("customers",
             CustomerForms, CustomerAggregate, CustomerService, CustomerRepository, CustomerStore)
      [] x \in Products -> Catalogued("products",
             ProductForms, ProductAggregate, ProductService, ProductRepository, ProductStore)

-----------------------------------------------------------------------------
(* What they do alike *)

EntryStatuses == {"ACTIVE", "INACTIVE"}

\* A product's row names its category, brand and base unit, and holds its
\* tracking configuration and its other documents.
ProductData ==
    [status : EntryStatuses, archived : BOOLEAN, name : Names,
     references : BOOLEAN, documents : BOOLEAN]

EntryData(x) ==
    IF x \in Products THEN ProductData
    ELSE [status : EntryStatuses, archived : BOOLEAN, name : Names]

NewProduct(change) ==
    [status |-> "ACTIVE", archived |-> FALSE, name |-> change.name,
     references |-> TRUE, documents |-> TRUE]

NewEntry(x, change) ==
    IF x \in Products THEN NewProduct(change)
    ELSE [status |-> "ACTIVE", archived |-> FALSE, name |-> change.name]

EntryStatusAfter == [Activate |-> "ACTIVE", Deactivate |-> "INACTIVE"]

\* NoInventory, the only stock provider that is wired for products.
HasStock == FALSE

EntryAccepts(kind, x, d) ==
    ~d.archived /\ (kind = "Archive" => Of(x).aggregate.archives /\ ~HasStock)

EntryAfter(kind, change, d) == Changed(d, kind, change, EntryStatusAfter)

\* A repeated activation tells nobody.
Repeated(kind, d) == kind \in DOMAIN EntryStatusAfter /\ d.status = EntryStatusAfter[kind]

EntryEvents(kind, x, d) ==
    {e \in Of(x).aggregate.announces : kind = e /\ (kind # "Create" => ~Repeated(kind, d))}

EntryKeys(x) == {<<Of(x).table, CompanyOf[x], CodeOf[x]>>}

\* A product's category, brand and base unit are asked for as well, of the verifiers
\* that the program wires: they accept any.
EntryChecks(kind, x) ==
    IF kind = "Create" THEN <<KeyFree(<<Of(x).table, CompanyOf[x], CodeOf[x]>>)>> ELSE <<>>
=============================================================================
