------------------------------- MODULE Records -------------------------------
(***************************************************************************)
(* What the master-data tables have in common: a row is a version number,  *)
(* a company, an immutable code and the data its aggregate decides over.   *)
(* Company and code never change after creation, so they are functions of  *)
(* the record's id.  Each kind of record has                               *)
(*   - forms: the fields a request of each operation carries;              *)
(*   - a service, which publishes its events inside the transaction, after *)
(*     it or never, and answers a conflict with the version that won or    *)
(*     without;                                                            *)
(*   - a repository, whose lookups are scoped to a company or not;         *)
(*   - a store, the row's form, which drops some fields of the data and    *)
(*     requires others.                                                    *)
(***************************************************************************)
EXTENDS Naturals, Sequences

CONSTANTS
    Companies,      \* tenants
    Names,          \* display names
    CompanyOf,      \* the company that owns a record; None for shared records
    CodeOf,         \* the code (or SKU) a record carries
    None            \* an absent optional value

Absent == [version |-> 0, data |-> None]

\* What every statement of the base repository sees: rows not soft-deleted.
Live(w) == w.version > 0 /\ ~w.data.archived

\* A partial update: the supplied fields replace the record's.
Amend(d, change) == [f \in DOMAIN d |-> IF f \in DOMAIN change THEN change[f] ELSE d[f]]

\* A status change, an archive or a partial update, applied to the data.
Changed(d, kind, change, statusAfter) ==
    IF kind \in DOMAIN statusAfter THEN [d EXCEPT !.status = statusAfter[kind]]
    ELSE IF kind = "Archive" THEN [d EXCEPT !.archived = TRUE]
    ELSE Amend(d, change)

\* The lookups a request makes before it writes: is a key free, is a zone known?
KeyFree(key) == [check |-> "key", of |-> key]

ZoneKnown(l) == [check |-> "zone", of |-> l]
=============================================================================
