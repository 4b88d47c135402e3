------------------------------- MODULE Access --------------------------------
(***************************************************************************)
(* Sign-in, tenancy and roles as one program over one database.  They      *)
(* share the accounts: registration makes one, an invitation looks one up. *)
(* A session is not part of a company context, and access tokens carry     *)
(* none, so a request of one side never waits for a row of another.        *)
(***************************************************************************)
EXTENDS Sessions, Roles

CONSTANTS
    Scenes      \* the tables a behaviour begins with, and what may then be asked

vars == <<requestVars, sessionVars, tenancyVars, roleVars>>

\* A behaviour begins with tokens the services could have issued: each names the
\* token it replaced, which its own user held and which is revoked since.
ASSUME ScenesAssumption ==
    \A s \in Scenes :
        /\ s.token \in [Tokens -> TokenRows \cup {None}]
        /\ \A t \in {i \in Tokens : s.token[i] # None /\ s.token[i].parent # 0} :
             LET p == s.token[t].parent
             IN  /\ s.token[p] # None /\ s.token[p].revoked /\ s.token[p].user = s.token[t].user
                 /\ \A i \in Tokens : s.token[i] # None /\ s.token[i].parent = p => i = t
        /\ \A asked \in s.asks : \A r \in Requests :
             /\ asked[r].kind \in {"Register", "Login"} => asked[r].user \in Users
             /\ asked[r].kind \in {"Refresh", "Logout", "LogoutAll"} => asked[r].token \in Tokens

OwnsIn(row, c) ==
    row # None /\ row.company = c /\ row.role = "OWNER" /\ row.status = "ACTIVE" /\ ~row.removed

\* With companies that were founded with one owner, and to whose members no
\* operation has added another.
ASSUME CompaniesAssumption ==
    \A s \in Scenes :
        /\ s.company = [c \in Companies |-> s.company[c]]
        /\ s.seat \in [SeatIds -> SeatRows \cup {None}]
        /\ \A r \in Requests : s.seat[r] = None
        /\ \A c \in Companies :
             /\ \A m, n \in SeatIds : OwnsIn(s.seat[m], c) /\ OwnsIn(s.seat[n], c) => m = n
             /\ s.company[c] # None \/ (\E m \in SeatIds : s.seat[m] # None /\ s.seat[m].company = c)
                    => \E m \in SeatIds : OwnsIn(s.seat[m], c)
        /\ \A asked \in s.asks : \A r \in Requests :
             /\ asked[r].kind \in TenancyKinds => asked[r].company \in Companies
             /\ asked[r].kind = "Invite" => asked[r].invitee \in Users
             /\ asked[r].kind = "Remove" => asked[r].seat \in SeatIds
             /\ asked[r].kind = "CreateCompany" => asked[r].user \in Users

\* What is to be created has a new id, which nobody's seat names.
ASSUME NewCompaniesAssumption ==
    \A s \in Scenes : \A asked \in s.asks : \A r \in Requests : \A m \in SeatIds :
        asked[r].kind = "CreateCompany" /\ s.seat[m] # None => s.seat[m].company # asked[r].company

\* People have few enough sessions, counted against the limit in force, and there are
\* numbers for the tokens that may be issued.
ASSUME LimitsAssumption ==
    /\ IsFiniteSet(Requests) /\ IsFiniteSet(Tokens)
    /\ MaxActive \in Int
    /\ \A n \in Tokens : 1..n \subseteq Tokens
    /\ Requests = {} \/ Cardinality(Requests) \in Tokens
    /\ \A s \in Scenes :
         /\ \A t \in Tokens : s.token[t] # None => t + Cardinality(Requests) \in Tokens
         /\ MaxActive > 0 => \A u \in Users :
              Cardinality({t \in Tokens : /\ s.token[t] # None /\ s.token[t].user = u
                                         /\ ~s.token[t].revoked /\ ~s.token[t].expired}) <= MaxActive

\* Rows have their types, live ones differ where an index says so, and a change of a
\* company names values that its columns have.
ASSUME RowsAssumption ==
    \A s \in Scenes :
        /\ s.account \in [Users -> Statuses \cup {None}]
        /\ s.company \in [Companies -> CompanyRows \cup {None}]
        /\ \A c, d \in Companies :
             /\ s.company[c] # None /\ ~s.company[c].deleted /\ s.company[d] # None
             /\ ~s.company[d].deleted /\ CodeOf[c] = CodeOf[d]
             => c = d
        /\ \A m, n \in SeatIds :
             /\ s.seat[m] # None /\ ~s.seat[m].removed /\ s.seat[n] # None /\ ~s.seat[n].removed
             /\ s.seat[m].company = s.seat[n].company /\ s.seat[m].user = s.seat[n].user
             => m = n
        /\ \A asked \in s.asks : \A r \in Requests :
             /\ asked[r].kind \in SessionKinds \cup TenancyKinds \cup RoleKinds
             /\ asked[r].kind = "CreateCompany" => asked[r].name \in Names
             /\ asked[r].kind = "UpdateCompany" =>
                  /\ DOMAIN asked[r].change \subseteq {"status", "name"}
                  /\ "status" \in DOMAIN asked[r].change => asked[r].change.status \in CompanyStatuses
                  /\ "name" \in DOMAIN asked[r].change => asked[r].change.name \in Names

\* A role keeps its name; the system roles are those of three names, which nothing
\* deletes, and OWNER's grants nothing replaces.
ASSUME RoleScenesAssumption ==
    \A s \in Scenes :
        /\ s.role \in [RoleIds -> RoleRows \cup {None}]
        /\ s.grant \in [RoleIds -> [Codes -> GrantRows]]
        /\ \A x \in RoleIds : s.role[x] # None =>
             /\ x[1] \notin Requests
             /\ s.role[x].name = x[2]
             /\ s.role[x].system <=> x[2] \in SystemRoles
             /\ s.role[x].system => ~s.role[x].deleted
             /\ x[2] = "OWNER" => \A k \in Codes : s.grant[x][k].live
        /\ \A x, y \in RoleIds :
             /\ s.role[x] # None /\ ~s.role[x].deleted /\ s.role[y] # None /\ ~s.role[y].deleted
             /\ s.role[x].company = s.role[y].company /\ s.role[x].name = s.role[y].name
             => x = y
        /\ \A asked \in s.asks : \A r \in Requests :
             /\ asked[r].kind \in RoleKinds => asked[r].company \in Companies
             /\ asked[r].kind = "CreateRole" => asked[r].name \in RoleNames /\ asked[r].codes \subseteq Codes
             /\ asked[r].kind \in {"UpdateRole", "DeleteRole", "SetPermissions"} => asked[r].role \in RoleIds
             /\ asked[r].kind = "SetPermissions" => asked[r].codes \subseteq Codes

\* Ids are generated: two requests never create the same company.
Init ==
    /\ \E s \in Scenes :
         /\ account = s.account
         /\ token = s.token
         /\ company = s.company
         /\ seat = s.seat
         /\ role = s.role
         /\ grant = s.grant
         /\ ask \in s.asks
    /\ \A q, r \in Requests :
         q # r /\ Kind(q) = "CreateCompany" /\ Kind(r) = "CreateCompany" => ask[q].company # ask[r].company
    /\ pc = [r \in Requests |-> "start"]
    /\ SessionsInit
    /\ TenancyInit
    /\ RolesInit

Next ==
    \/ SessionsNext /\ UNCHANGED <<tenancyVars, roleVars>>
    \/ TenancyNext /\ UNCHANGED <<sessionVars, roleVars>>
    \/ RolesNext /\ UNCHANGED sessionVars

\* The server runs every request on, and PostgreSQL breaks every cycle of waits.
Fairness ==
    \A r \in Requests :
        /\ WF_vars(SessionStep(r) /\ UNCHANGED <<tenancyVars, roleVars>>)
        /\ WF_vars(BreakCycle(r) /\ UNCHANGED <<tenancyVars, roleVars>>)

Spec == Init /\ [][Next]_vars /\ Fairness

-----------------------------------------------------------------------------
TypeOK ==
    /\ account \in [Users -> Statuses \cup {None}]
    /\ \A r \in Requests : Kind(r) \in SessionKinds \cup TenancyKinds \cup RoleKinds
    /\ SessionsTypeOK
    /\ TenancyTypeOK
    /\ RolesTypeOK

\* Two requests that claim one thing never both get it, though both looked first: an
\* address has one account, a person one seat in a company, a code one company and
\* a name one role.
OneOfEach ==
    /\ \A c, d \in Companies : Open(c) /\ Open(d) /\ CodeOf[c] = CodeOf[d] => c = d
    /\ \A m \in LiveSeats : Seats(seat[m].company, seat[m].user) = {m}
    /\ \A x \in LiveRoles : Named(role[x].company, role[x].name) = {x}
    /\ \A q, r \in Requests :
         /\ q # r
         /\ Kind(q) = "Register" /\ Kind(r) = "Register" /\ ask[q].user = ask[r].user
         => ~ (pc[q] = "done" /\ pc[r] = "done")

\* Rotation, eviction and mass revocation wait for each other's rows, in no common
\* order: still every request that was sent in ends (RevokeAllForUser, Refresh).
SessionsEnd ==
    \A r \in Requests :
        (Kind(r) \in SessionKinds /\ pc[r] # "start") ~> (pc[r] \in Ended)
=============================================================================
