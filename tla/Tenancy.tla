------------------------------- MODULE Tenancy -------------------------------
(***************************************************************************)
(* Companies and their members.  A request that needs a company context    *)
(* resolves it first, from the caller's membership; what happens to that   *)
(* membership afterwards does not touch the request.                       *)
(***************************************************************************)
EXTENDS Accounts

CONSTANTS
    Companies,  \* company ids
    CodeOf,     \* the code each company is created with
    Names,      \* display names
    SeatIds     \* membership ids: the requests, each for the row it inserts, and others

VARIABLES
    company,    \* the committed row of every company; None, not created
    seat,       \* the committed row of every membership; None, not created
    acting,     \* the role in its company a request was resolved to; None, no context
    opened      \* the company row a request read and will write back

tenancyVars == <<company, seat, acting, opened>>

CompanyStatuses == {"ACTIVE", "INACTIVE", "SUSPENDED"}

SystemRoles == {"OWNER", "ADMIN", "STAFF"}

CompanyRow(name) == [status |-> "ACTIVE", name |-> name, deleted |-> FALSE]

SeatRow(c, u, role, status) ==
    [company |-> c, user |-> u, role |-> role, status |-> status, removed |-> FALSE]

SeatRows ==
    [company : Companies, user : Users, role : SystemRoles,
     status : {"ACTIVE", "PENDING", "SUSPENDED"}, removed : BOOLEAN]

ASSUME SeatsAssumption == Requests \subseteq SeatIds /\ None \notin SeatRows

CompanyRows == [status : CompanyStatuses, name : Names, deleted : BOOLEAN]

ASSUME AbsenceAssumption == None \notin CompanyRows /\ None \notin SystemRoles

Open(c) == company[c] # None /\ ~company[c].deleted

\* The memberships every statement sees, and those that let a user act.
LiveSeats == {m \in SeatIds : seat[m] # None /\ ~seat[m].removed}

Seats(c, u) == {m \in LiveSeats : seat[m].company = c /\ seat[m].user = u}

ActiveSeats(c, u) == {m \in Seats(c, u) : seat[m].status = "ACTIVE"}

Owners(c) ==
    {m \in LiveSeats : seat[m].company = c /\ seat[m].role = "OWNER" /\ seat[m].status = "ACTIVE"}

\* FindAccessible: a company the user can act in, suspended or not.
Accessible(c, u) == Open(c) /\ ActiveSeats(c, u) # {}

IsOperational(c) == company[c].status = "ACTIVE"

\* ResolveRequested: the company context a header asks for.
MayAct(c, u) == ActiveSeats(c, u) # {} /\ Open(c) /\ IsOperational(c)

TenancyKinds == {"CreateCompany", "UpdateCompany", "DeleteCompany", "Invite", "Remove"}

\* The routes behind RequireCompany: all but the founding of a company.
Scoped ==
    {"UpdateCompany", "DeleteCompany", "Invite", "Remove",
     "CreateRole", "UpdateRole", "DeleteRole", "SetPermissions"}

\* The company a request acts in.  A company's own update and deletion name it in the
\* path: nobody asks that it is also the one the header names.
Contexts(r) == IF Kind(r) \in {"UpdateCompany", "DeleteCompany"} THEN Companies ELSE {ask[r].company}

\* What a write locks: its row, and the entries of unique indexes it makes or ends.
Locked(r) ==
    LET c == ask[r].company
    IN  CASE Kind(r) = "CreateCompany" -> {<<"code", CodeOf[c]>>}
          [] Kind(r) \in {"UpdateCompany", "DeleteCompany"} -> {<<"company", c>>, <<"code", CodeOf[c]>>}
          [] Kind(r) = "Invite" -> {<<"seat", c, ask[r].invitee>>}
          [] Kind(r) = "Remove" -> {<<"seat", c, seat[ask[r].seat].user>>}

Waiting(r) ==
    \E q \in Others(r) :
        pc[q] = "commit" /\ Kind(q) \in TenancyKinds /\ Locked(q) \cap Locked(r) # {}

CodeTaken(c) == \E d \in Companies \ {c} : Open(d) /\ CodeOf[d] = CodeOf[c]

-----------------------------------------------------------------------------
TenancyInit ==
    /\ acting = [r \in Requests |-> None]
    /\ opened = [r \in Requests |-> None]

\* The company middleware: an ACTIVE membership of a company that is ACTIVE.
Enter(r) ==
    /\ pc[r] = "start"
    /\ Kind(r) \in Scoped
    /\ \E c \in Contexts(r) :
         IF MayAct(c, ask[r].user)
         THEN /\ \E m \in ActiveSeats(c, ask[r].user) : acting' = [acting EXCEPT ![r] = seat[m].role]
              /\ GoTo(r, IF Kind(r) \in TenancyKinds THEN "find" ELSE "resolve")
         ELSE GoTo(r, "refused") /\ UNCHANGED acting
    /\ UNCHANGED <<ask, account, company, seat, opened>>

\* Create asks whether the code is taken.
CheckCode(r) ==
    /\ pc[r] = "start"
    /\ Kind(r) = "CreateCompany"
    /\ GoTo(r, IF CodeTaken(ask[r].company) THEN "refused" ELSE "write")
    /\ UNCHANGED <<ask, account, tenancyVars>>

\* Update reads the company it will write back.
OpenCompany(r) ==
    LET c == ask[r].company
    IN  /\ pc[r] = "find"
        /\ Kind(r) = "UpdateCompany"
        /\ IF Accessible(c, ask[r].user)
           THEN GoTo(r, "write") /\ opened' = [opened EXCEPT ![r] = company[c]]
           ELSE GoTo(r, "refused") /\ UNCHANGED opened
        /\ UNCHANGED <<ask, account, company, seat, acting>>

\* Delete goes straight to its statement.
CloseCompany(r) ==
    /\ pc[r] = "find"
    /\ Kind(r) = "DeleteCompany"
    /\ GoTo(r, "write")
    /\ UNCHANGED <<ask, account, tenancyVars>>

Offerable == SystemRoles \ {"OWNER"}

Registered(u) == account[u] # None

\* ValidateInvite, the directory, and any membership the invitee already has.
FindInvitee(r) ==
    /\ pc[r] = "find"
    /\ Kind(r) = "Invite"
    /\ GoTo(r, IF /\ ask[r].as \in Offerable
                  /\ Registered(ask[r].invitee)
                  /\ Seats(ask[r].company, ask[r].invitee) = {}
               THEN "write" ELSE "refused")
    /\ UNCHANGED <<ask, account, tenancyVars>>

FindSeat(r) ==
    LET m == ask[r].seat
    IN  /\ pc[r] = "find"
        /\ Kind(r) = "Remove"
        /\ GoTo(r, IF seat[m] = None \/ seat[m].removed \/ seat[m].company # ask[r].company
                   THEN "refused"
                   ELSE IF seat[m].role = "OWNER" THEN "owners" ELSE "write")
        /\ UNCHANGED <<ask, account, tenancyVars>>

\* Slip: the last owner may go as long as there is one.
LastOwnerGone(c) == Cardinality(Owners(c)) < 1

LastOwner(c) == Cardinality(Owners(c)) <= 1

CountOwners(r) ==
    /\ pc[r] = "owners"
    /\ GoTo(r, IF LastOwner(ask[r].company) THEN "refused" ELSE "write")
    /\ UNCHANGED <<ask, account, tenancyVars>>

\* Slip: neither codes nor memberships have a unique index.
VerdictUnindexed(r) ==
    CASE Kind(r) = "Remove" /\ seat[ask[r].seat].removed -> "refused"
      [] Kind(r) = "DeleteCompany" /\ ~Accessible(ask[r].company, ask[r].user) -> "refused"
      [] OTHER -> "commit"

\* The one statement that writes.  A company's Save asks nothing of the row, but
\* it can bring a deleted one back, whose code may be in use again.
Verdict(r) ==
    LET c == ask[r].company
    IN  CASE Kind(r) \in {"CreateCompany", "UpdateCompany"} /\ CodeTaken(c) -> "duplicate"
          [] Kind(r) = "Invite" /\ Seats(c, ask[r].invitee) # {} -> "duplicate"
          [] Kind(r) = "Remove" /\ seat[ask[r].seat].removed -> "refused"
          [] Kind(r) = "DeleteCompany" /\ ~Accessible(c, ask[r].user) -> "refused"
          [] OTHER -> "commit"

WriteTenancy(r) ==
    /\ pc[r] = "write"
    /\ Kind(r) \in TenancyKinds
    /\ ~Waiting(r)
    /\ GoTo(r, Verdict(r))
    /\ UNCHANGED <<ask, account, tenancyVars>>

\* Slip: a field the client left out is written as well, empty.
AmendedWhole(d, change) ==
    [f \in DOMAIN d |-> IF f \in DOMAIN change THEN change[f] ELSE IF f = "deleted" THEN d[f] ELSE None]

Amended(d, change) == [f \in DOMAIN d |-> IF f \in DOMAIN change THEN change[f] ELSE d[f]]

\* Save writes every column of the row it read, deleted_at included.
CompanyAfter(r) ==
    LET c == ask[r].company
    IN  CASE Kind(r) = "CreateCompany" -> CompanyRow(ask[r].name)
          [] Kind(r) = "UpdateCompany" -> Amended(opened[r], ask[r].change)
          [] Kind(r) = "DeleteCompany" -> [company[c] EXCEPT !.deleted = TRUE]

SeatsAfter(r) ==
    LET c == ask[r].company
    IN  CASE Kind(r) = "CreateCompany" ->
                 [seat EXCEPT ![r] = SeatRow(c, ask[r].user, "OWNER", "ACTIVE")]
          [] Kind(r) = "Invite" ->
                 [seat EXCEPT ![r] = SeatRow(c, ask[r].invitee, ask[r].as, "PENDING")]
          [] Kind(r) = "Remove" -> [seat EXCEPT ![ask[r].seat].removed = TRUE]
          [] OTHER -> seat

CommitTenancy(r) ==
    /\ pc[r] = "commit"
    /\ Kind(r) \in TenancyKinds
    /\ company' = IF Kind(r) \in {"Invite", "Remove"} THEN company
                  ELSE [company EXCEPT ![ask[r].company] = CompanyAfter(r)]
    /\ seat' = SeatsAfter(r)
    /\ GoTo(r, "done")
    /\ UNCHANGED <<ask, account, acting, opened>>

\* The connection dies before the commit.
LoseTenancy(r) ==
    /\ pc[r] = "commit"
    /\ Kind(r) \in TenancyKinds
    /\ GoTo(r, "lost")
    /\ UNCHANGED <<ask, account, tenancyVars>>

TenancyStep(r) ==
    \/ Enter(r) \/ CheckCode(r) \/ OpenCompany(r) \/ CloseCompany(r)
    \/ FindInvitee(r) \/ FindSeat(r) \/ CountOwners(r) \/ WriteTenancy(r) \/ CommitTenancy(r)

TenancyNext == \E r \in Requests : TenancyStep(r) \/ LoseTenancy(r)

-----------------------------------------------------------------------------
TenancyTypeOK ==
    /\ company \in [Companies -> CompanyRows \cup {None}]
    /\ seat \in [SeatIds -> SeatRows \cup {None}]
    /\ acting \in [Requests -> SystemRoles \cup {None}]
    /\ opened \in [Requests -> CompanyRows \cup {None}]

\* A company that people can act in keeps somebody who owns it: it is founded with
\* its owner's seat or not at all, and no removal takes the last one (Create,
\* Remove's last-owner protection).
OwnerStays ==
    \A c \in Companies : Open(c) => Owners(c) # {}

\* What Update's comment says of its transaction: no update silently overwrites
\* a change to the company that it did not read.
CompanyUpdatesKept ==
    [][\A r \in Requests :
         pc[r] = "commit" /\ Kind(r) = "UpdateCompany" /\ pc'[r] = "done"
             => company[ask[r].company] = opened[r]]_<<requestVars, tenancyVars>>
=============================================================================
