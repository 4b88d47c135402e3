------------------------------ MODULE Accounts -------------------------------
(***************************************************************************)
(* What sign-in, tenancy and roles share: the accounts, and the course of  *)
(* a request, which is asked one operation and runs its statements in a    *)
(* READ COMMITTED transaction.                                             *)
(***************************************************************************)
EXTENDS Integers, FiniteSets, FiniteSetsExt, Sequences

CONSTANTS
    Requests,   \* HTTP requests in flight
    Users,      \* people, by the address they register with
    None        \* an absent value

VARIABLES
    ask,        \* what each request was asked to do
    pc,         \* the statement it runs next, or how it ended
    account     \* the committed status of each user's account; None, not registered

requestVars == <<ask, pc, account>>

Statuses == {"ACTIVE", "INACTIVE", "LOCKED"}

ASSUME AccountsAssumption == None \notin Statuses

CanAuthenticate(u) == account[u] = "ACTIVE"

Others(r) == Requests \ {r}

Kind(r) == ask[r].kind

GoTo(r, label) == pc' = [pc EXCEPT ![r] = label]

\* How a request ends: its work committed, turned away, presented a token already
\* used, lost to a unique index, or rolled back with its connection.
Ended == {"done", "refused", "reused", "duplicate", "lost"}
=============================================================================
