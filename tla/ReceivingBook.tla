---------------------------- MODULE ReceivingBook ----------------------------
(***************************************************************************)
(* What inbound promises: a file of documents and stock on which every     *)
(* request happens whole, at one instant, or not at all.  Receiving a      *)
(* receipt marks it, posts all its stock and tells its order, together.    *)
(* Receiving implements it.                                                *)
(***************************************************************************)
EXTENDS ReceivingRules

CONSTANT Openings   \* the documents and stock a behaviour may begin with

VARIABLE book

NumberIsFree(b, x) ==
    \A y \in Documents : SameNumber(x, y) => b[y].status \in Absent

Create(o) ==
    /\ o.kind = "Create"
    /\ book[o.item].status = "NONE"
    /\ NumberIsFree(book, o.item)
    /\ book' = Apply(book, o)

Delete(o) ==
    /\ o.kind = "Delete"
    /\ book[o.item].status = "DRAFT"
    /\ book' = Apply(book, o)

Change(o) ==
    /\ o.kind \notin {"Create", "Delete", "Receive"}
    /\ Accepts(o, book[o.item])
    /\ book' = Apply(book, o)

Receive(o) ==
    LET calls == Calls(book[o.item])
    IN  /\ o.kind = "Receive"
        /\ Accepts(o, book[o.item])
        /\ AllAccepted(book, calls)
        /\ book' = Apply(Replay(book, calls)[Len(calls)], o)

BookInit == book \in Openings

BookNext == \E o \in Operations : Create(o) \/ Delete(o) \/ Change(o) \/ Receive(o)

BookSpec == BookInit /\ [][BookNext]_book
=============================================================================
