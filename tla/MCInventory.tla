----------------------------- MODULE MCInventory -----------------------------
(***************************************************************************)
(* Instances of Inventory for TLC.  Two or three requests race on two or   *)
(* three keys; MaxInt is 3, so totals reach and pass the limit.            *)
(***************************************************************************)
EXTENDS Inventory, TLC

CONSTANTS r1, r2, r3, k1, k2, s1, s2

MCMaxInt == 3

Balance(a, r, l, q) ==
    ("available" :> a) @@ ("reserved" :> r) @@ ("allocated" :> l) @@ ("quarantined" :> q)

Ask(kind, k, n) == [kind |-> kind, key |-> k, to |-> k, amount |-> n]

Transfer(k, to, n) == [kind |-> "TransferStock", key |-> k, to |-> to, amount |-> n]

Distinct == [k \in Keys |-> k]

\* Two positions of the same unserialised product.
PoolKeys == {k1, k2}

PoolOpenings == {Balance(2, 0, 0, 0), Balance(1, 1, 1, 0), Balance(1, 0, 1, 1)}

PoolOperations ==
    {Ask(kind, k1, n) : kind \in Kinds \ {"TransferStock"}, n \in {1, 3}}
        \cup {Ask("AdjustStock", k1, 0), Ask("ReceiveStock", k2, 1),
              Transfer(k1, k2, 1), Transfer(k2, k1, 1), Transfer(k1, k1, 1)}

\* One serialised unit at either of two locations: both keys carry its number.
SerialKeys == {s1, s2}

OneSerial == [k \in Keys |-> s1]

SerialOpenings == {Empty, Balance(1, 0, 0, 0), Balance(0, 1, 0, 0)}

SerialOperations ==
    {Ask(kind, s1, 1) : kind \in {"ReceiveStock", "IssueStock", "ReserveStock", "ReleaseReservation"}}
        \cup {Ask("AdjustStock", s1, n) : n \in {0, 2}}
        \cup {Ask("ReceiveStock", s1, 3), Ask("ReceiveStock", s2, 1), Transfer(s1, s2, 1)}

\* Three requests whose transfers wait for one another.
CrossOpenings == {Balance(2, 0, 0, 0)}

CrossOperations ==
    {Transfer(k1, k2, 1), Transfer(k2, k1, 1), Ask("ReceiveStock", k2, 1), Ask("IssueStock", k1, 1)}
=============================================================================
