------------------------------ MODULE StockBook ------------------------------
(***************************************************************************)
(* What the inventory module promises: a book of balances on which every   *)
(* stock movement happens whole, at one instant, or not at all.  There are *)
(* no transactions, versions or statements here.  Inventory implements it. *)
(***************************************************************************)
EXTENDS StockMovements

CONSTANT Openings   \* balances a position may hold when the behaviour begins

VARIABLES
    book,     \* the balances of each key
    opened    \* the keys that have a position

bookVars == <<book, opened>>

OneEntryEach(S) == \A j, k \in S : IndexEntry[j] = IndexEntry[k] => j = k

BookInit ==
    /\ opened \in SUBSET Keys
    /\ OneEntryEach(opened)
    /\ book \in [Keys -> Openings \cup {Empty}]
    /\ \A k \in Keys : IF k \in opened THEN book[k] \in Openings /\ RowCheck(k \in Serial, book[k])
                                       ELSE book[k] = Empty

\* One operation, all its legs at once.
Perform(o) ==
    /\ o.kind = "TransferStock" => o.key # o.to
    /\ \A k \in Touches(o) \ opened : MayOpen(o, k)
    /\ OneEntryEach(opened \cup Touches(o))
    /\ \A k \in Touches(o) : LegAccepted(o, k, book[k]) /\ LegStorable(o, k, book[k])
    /\ book' = [k \in Keys |-> IF k \in Touches(o) THEN LegResult(o, k, book[k]) ELSE book[k]]
    /\ opened' = opened \cup Touches(o)

BookNext == \E o \in Operations : Perform(o)

BookSpec == BookInit /\ [][BookNext]_bookVars
=============================================================================
