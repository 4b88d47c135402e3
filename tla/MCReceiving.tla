----------------------------- MODULE MCReceiving -----------------------------
(***************************************************************************)
(* Instances of Receiving for TLC.  Two receipts against one order post to *)
(* the same two positions, in opposite orders; two more carry one number.  *)
(***************************************************************************)
EXTENDS Receiving, TLC

CONSTANTS r1, r2, g1, g2, g3, g4, o1, o2, p1, p2, s1, a, b, n1, n2, n3

MCMaxInt == 7

\* Two lots of product a, and one serial number of product b.
MCProductOf == (p1 :> a) @@ (p2 :> a) @@ (s1 :> b)

MCCapacity == (p1 :> 7) @@ (p2 :> 7) @@ (s1 :> 1)

MCNumber == (g1 :> n1) @@ (g2 :> n2) @@ (g3 :> n3) @@ (g4 :> n3) @@ (o1 :> n1) @@ (o2 :> n1)

At(p, n) == [position |-> p, units |-> n]

Doc(status, order, lines) == [status |-> status, order |-> order, lines |-> lines]

OrderOf(na, ra, nb, rb) ==
    (a :> [ordered |-> na, received |-> ra]) @@ (b :> [ordered |-> nb, received |-> rb])

None(x) == NoData(x)

\* Deliveries: two lots and the serial number; the lots in the other order; twice
\* the same position, as two batches make it.
Full == <<At(p1, 1), At(p2, 2), At(s1, 1)>>

Back == <<At(p2, 1), At(p1, 1)>>

Twice == <<At(p1, 1), At(p1, 2)>>

\* More of product a than an int64 holds, though each lot has room.
Huge == <<At(p1, 7), At(p2, 6)>>

World(first, second, order, stock) ==
    (g1 :> first) @@ (g2 :> second) @@ (g3 :> None(g3)) @@ (g4 :> None(g4))
        @@ (o1 :> order) @@ (o2 :> None(o2)) @@ stock

NoStock == (p1 :> 0) @@ (p2 :> 0) @@ (s1 :> 0)

SomeStock == (p1 :> 2) @@ (p2 :> 0) @@ (s1 :> 1)

\* Room for the first line of Twice, not for the second.
AlmostFull == (p1 :> 6) @@ (p2 :> 0) @@ (s1 :> 0)

\* An order with room for both deliveries, for one of them, one part delivered, and
\* one told of a sum gone round int64.
RaceOpenings ==
    {World(Doc("CONFIRMED", o1, Full), Doc("CONFIRMED", o1, Back),
           Doc("APPROVED", NoOrder, OrderOf(5, 0, 1, 0)), NoStock),
     World(Doc("CONFIRMED", o1, Full), Doc("CONFIRMED", o1, Back),
           Doc("APPROVED", NoOrder, OrderOf(3, 0, 1, 0)), NoStock),
     World(Doc("CONFIRMED", NoOrder, Twice), Doc("CONFIRMED", o1, Back),
           Doc("PARTIALLY_RECEIVED", NoOrder, OrderOf(4, 2, 1, 0)), AlmostFull),
     World(Doc("CONFIRMED", o1, Huge), Doc("CONFIRMED", NoOrder, Back),
           Doc("APPROVED", NoOrder, OrderOf(7, 0, 1, 0)), NoStock)}

Nothing == [x \in Products |-> 0]

Edit(kind, x, order, lines) ==
    [kind |-> kind, item |-> x, order |-> order, lines |-> lines, ordered |-> Nothing]

Ask(kind, x) == Edit(kind, x, NoOrder, <<>>)

EditOrder(kind, x, ordered) == [Ask(kind, x) EXCEPT !.ordered = ordered]

RaceOperations ==
    {Ask("Receive", g1), Ask("Receive", g2), Ask("Cancel", g1), Ask("Cancel", o1)}

\* Documents still being written, edited under each other's hands.
DeskOpenings ==
    {World(Doc("DRAFT", o1, Back), Doc("DRAFT", NoOrder, Full),
           Doc("DRAFT", NoOrder, OrderOf(2, 0, 1, 0)), SomeStock),
     World(Doc("CONFIRMED", o1, Back), Doc("DRAFT", o1, <<>>),
           Doc("APPROVED", NoOrder, OrderOf(2, 0, 1, 0)), NoStock)}

DeskOperations ==
    {Ask(kind, g1) : kind \in {"Confirm", "Receive", "Cancel", "Delete"}}
        \cup {Ask(kind, g2) : kind \in {"Confirm", "Delete"}}
        \cup {Ask(kind, o1) : kind \in {"Approve", "Cancel", "Delete"}}
        \cup {Edit("Update", g1, o1, <<>>), Edit("Update", g1, NoOrder, Twice),
              Edit("Update", g2, NoOrder, Full), EditOrder("Update", o1, (a :> 1) @@ (b :> 0)),
              Edit("Create", g3, o1, Back), Edit("Create", g4, NoOrder, <<>>),
              EditOrder("Create", o2, (a :> 2) @@ (b :> 0))}

DocumentOpenings == RaceOpenings \cup DeskOpenings

DocumentOperations == RaceOperations \cup DeskOperations
=============================================================================
