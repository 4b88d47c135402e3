-------------------------------- MODULE Roles --------------------------------
(***************************************************************************)
(* A company's roles and their grants.  A request that touches roles first *)
(* resolves what its own role permits, and the first such request of a     *)
(* company provisions OWNER, ADMIN and STAFF.  A grant is a row that is    *)
(* soft-deleted when it is revoked and revived when it is granted again.   *)
(***************************************************************************)
EXTENDS Tenancy

CONSTANTS
    RoleNames,  \* the system roles, and custom ones
    Inserters   \* who inserts roles: the requests, and others before them

VARIABLES
    role,       \* the committed row of every role; None, not created
    grant,      \* for each role and code, whether a live row grants it, and how many dead rows there are
    missing,    \* the system roles a provisioning request has still to insert
    drafted,    \* the roles a request has inserted and not committed
    cells,      \* the grants it has written and not committed
    delta,      \* what it found it must add and remove
    absent,     \* the codes to add for which it saw no live row
    granted     \* what its own role permits; None until resolved

\* The codes that decide who may change roles, and one that everybody has.
Codes == {"role.create", "role.update", "role.delete", "role.assign_permissions", "role.read"}

\* What a system role is provisioned with.
Defaults == [OWNER |-> Codes, ADMIN |-> {"role.read"}, STAFF |-> {"role.read"}]

\* The code a route asks for.
Required ==
    [CreateRole |-> "role.create", UpdateRole |-> "role.update", DeleteRole |-> "role.delete",
     SetPermissions |-> "role.assign_permissions"]

roleVars == <<role, grant, missing, drafted, cells, delta, absent, granted>>

\* A role's id: who inserted it, and its name.
RoleIds == Inserters \X RoleNames

RoleRows == [company : Companies, name : RoleNames, system : BOOLEAN, deleted : BOOLEAN]

\* A code's grants of one role: whether a live row grants it, and how many dead rows.
GrantRows == [live : BOOLEAN, dead : Nat]

ASSUME RolesAssumption ==
    /\ Requests \subseteq Inserters
    /\ SystemRoles \subseteq RoleNames
    /\ None \notin RoleRows /\ None \notin GrantRows
    /\ \A codes \in SUBSET Codes : codes # None

\* The order in which system roles are provisioned.
SystemOrder == [OWNER |-> 1, ADMIN |-> 2, STAFF |-> 3]

RoleRow(c, name) ==
    [company |-> c, name |-> name, system |-> name \in SystemRoles, deleted |-> FALSE]

Fresh(codes) == [k \in Codes |-> [live |-> k \in codes, dead |-> 0]]

Untouched == [k \in Codes |-> None]

RoleKinds == {"CreateRole", "UpdateRole", "DeleteRole", "SetPermissions"}

LiveRoles == {x \in RoleIds : role[x] # None /\ ~role[x].deleted}

Named(c, name) == {x \in LiveRoles : role[x].company = c /\ role[x].name = name}

\* The entries of ux_roles_company_name that an open request makes or ends.
Entries(r) ==
    {<<ask[r].company, x[2]>> : x \in drafted[r]}
        \cup {<<ask[r].company, ask[r].role[2]>> :
                x \in {y \in {r} : pc[r] = "commit" /\ Kind(r) \in {"UpdateRole", "DeleteRole"}}}

HeldByOthers(r, name) == \E q \in Others(r) : <<ask[r].company, name>> \in Entries(q)

\* The grants of the role it changes, as a statement of r sees them.
Cell(r, k) == IF cells[r][k] # None THEN cells[r][k] ELSE grant[ask[r].role][k]

GrantedTo(x) == {k \in Codes : grant[x][k].live}

\* Another request holds a row lock on one of these grants.
Contended(r, codes) ==
    \E q \in Others(r), k \in codes :
        Kind(q) = "SetPermissions" /\ ask[q].role = ask[r].role /\ cells[q][k] # None

-----------------------------------------------------------------------------
RolesInit ==
    /\ missing = [r \in Requests |-> {}]
    /\ drafted = [r \in Requests |-> {}]
    /\ cells = [r \in Requests |-> Untouched]
    /\ delta = [r \in Requests |-> [add |-> {}, remove |-> {}]]
    /\ absent = [r \in Requests |-> {}]
    /\ granted = [r \in Requests |-> None]

FirstStep == [CreateRole |-> "name", UpdateRole |-> "load", DeleteRole |-> "load",
              SetPermissions |-> "load"]

\* CodesByRole, and RequirePermission.
Permitted(found) == UNION {GrantedTo(x) : x \in found}

Permits(r, codes) == Required[Kind(r)] \in codes

\* FindByName and CodesByRole, then RequirePermission.  A system role is never
\* renamed or deleted, so the two reads find one role.  The first miss sends the
\* request to provision; after that, no role is no permission.
ResolveRole(r) ==
    LET found == Named(ask[r].company, acting[r])
        codes == Permitted(found)
    IN  /\ pc[r] \in {"resolve", "again"}
        /\ IF found = {} /\ pc[r] = "resolve"
           THEN GoTo(r, "list") /\ UNCHANGED granted
           ELSE /\ granted' = [granted EXCEPT ![r] = codes]
                /\ GoTo(r, IF Permits(r, codes) THEN FirstStep[Kind(r)] ELSE "refused")
        /\ UNCHANGED <<ask, account, tenancyVars, role, grant, missing, drafted, cells, delta, absent>>

\* EnsureSystemRoles: list the company's roles, to learn which are missing.
ListRoles(r) ==
    LET todo == {name \in SystemRoles : Named(ask[r].company, name) = {}}
    IN  /\ pc[r] = "list"
        /\ missing' = [missing EXCEPT ![r] = todo]
        /\ GoTo(r, IF todo = {} THEN "again" ELSE "provision")
        /\ UNCHANGED <<ask, account, tenancyVars, role, grant, drafted, cells, delta, absent, granted>>

\* Insert the next role and its grants.  A name somebody committed meanwhile rolls
\* the transaction back; the conflict is swallowed.
Provision(r) ==
    \E name \in missing[r] :
        /\ pc[r] = "provision"
        /\ \A other \in missing[r] : SystemOrder[name] <= SystemOrder[other]
        /\ ~HeldByOthers(r, name)
        /\ IF Named(ask[r].company, name) = {}
           THEN /\ drafted' = [drafted EXCEPT ![r] = @ \cup {<<r, name>>}]
                /\ missing' = [missing EXCEPT ![r] = @ \ {name}]
                /\ UNCHANGED pc
           ELSE /\ drafted' = [drafted EXCEPT ![r] = {}]
                /\ missing' = [missing EXCEPT ![r] = {}]
                /\ GoTo(r, "again")
        /\ UNCHANGED <<ask, account, tenancyVars, role, grant, cells, delta, absent, granted>>

CommitProvision(r) ==
    /\ pc[r] = "provision"
    /\ missing[r] = {}
    /\ role' = [x \in RoleIds |-> IF x \in drafted[r] THEN RoleRow(ask[r].company, x[2]) ELSE role[x]]
    /\ grant' = [x \in RoleIds |-> IF x \in drafted[r] THEN Fresh(Defaults[x[2]]) ELSE grant[x]]
    /\ drafted' = [drafted EXCEPT ![r] = {}]
    /\ GoTo(r, "again")
    /\ UNCHANGED <<ask, account, tenancyVars, missing, cells, delta, absent, granted>>

\* Create: the name must be free, then the row and its grants are inserted.
CheckName(r) ==
    /\ pc[r] = "name"
    /\ GoTo(r, IF ask[r].name \in SystemRoles \/ Named(ask[r].company, ask[r].name) # {}
               THEN "refused" ELSE "insert")
    /\ UNCHANGED <<ask, account, tenancyVars, roleVars>>

InsertRole(r) ==
    /\ pc[r] = "insert"
    /\ ~HeldByOthers(r, ask[r].name)
    /\ IF Named(ask[r].company, ask[r].name) = {}
       THEN GoTo(r, "commit") /\ drafted' = [drafted EXCEPT ![r] = {<<r, ask[r].name>>}]
       ELSE GoTo(r, "duplicate") /\ UNCHANGED drafted
    /\ UNCHANGED <<ask, account, tenancyVars, role, grant, missing, cells, delta, absent, granted>>

\* Slip: OWNER is only protected from deletion.
ProtectedFromDelete(r, w) == Kind(r) = "DeleteRole" /\ w.system

CanDelete(w) == ~w.system

IsOwnerRole(w) == w.system /\ w.name = "OWNER"

Protected(r, w) ==
    \/ Kind(r) = "DeleteRole" /\ ~CanDelete(w)
    \/ Kind(r) = "SetPermissions" /\ IsOwnerRole(w)

\* FindByID, and what may not be done to a system role or to OWNER.
LoadRole(r) ==
    LET w == role[ask[r].role]
    IN  /\ pc[r] = "load"
        /\ GoTo(r, IF w = None \/ w.deleted \/ w.company # ask[r].company \/ Protected(r, w)
                   THEN "refused"
                   ELSE IF Kind(r) = "SetPermissions" THEN "diff" ELSE "store")
        /\ UNCHANGED <<ask, account, tenancyVars, roleVars>>

\* The row is saved with its new description, or soft-deleted if it still is live.
StoreRole(r) ==
    LET x == ask[r].role
    IN  /\ pc[r] = "store"
        /\ ~HeldByOthers(r, x[2])
        /\ GoTo(r, IF Kind(r) = "DeleteRole"
                   THEN IF role[x].deleted THEN "refused" ELSE "commit"
                   ELSE IF Named(ask[r].company, x[2]) \subseteq {x} THEN "commit" ELSE "duplicate")
        /\ UNCHANGED <<ask, account, tenancyVars, roleVars>>

-----------------------------------------------------------------------------
(* applyGrants: one statement at a time *)

\* Slip: nothing is ever taken away.
DifferenceAdded(wanted, now) == [add |-> wanted \ now, remove |-> {}]

Difference(wanted, now) == [add |-> wanted \ now, remove |-> now \ wanted]

\* The grants it read, against the set it was asked for.
Diff(r) ==
    LET now == GrantedTo(ask[r].role)
    IN  /\ pc[r] = "diff"
        /\ delta' = [delta EXCEPT ![r] = Difference(ask[r].codes, now)]
        /\ GoTo(r, IF ask[r].codes \subseteq now THEN "ungrant" ELSE "revive")
        /\ UNCHANGED <<ask, account, tenancyVars, role, grant, missing, drafted, cells, absent, granted>>

\* Clear deleted_at on every dead row of the codes; two live rows of one code
\* collide on the unique index.
Revive(r) ==
    LET dead == {k \in delta[r].add : Cell(r, k).dead > 0}
    IN  /\ pc[r] = "revive"
        /\ ~Contended(r, dead)
        /\ IF \E k \in dead : Cell(r, k).live \/ Cell(r, k).dead > 1
           THEN GoTo(r, "duplicate") /\ UNCHANGED cells
           ELSE /\ cells' = [cells EXCEPT ![r] =
                       [k \in Codes |-> IF k \in dead THEN [live |-> TRUE, dead |-> 0] ELSE @[k]]]
                /\ GoTo(r, "held")
        /\ UNCHANGED <<ask, account, tenancyVars, role, grant, missing, drafted, delta, absent, granted>>

\* PermissionIDs: which of them have a live row.
FindHeld(r) ==
    /\ pc[r] = "held"
    /\ absent' = [absent EXCEPT ![r] = {k \in delta[r].add : ~Cell(r, k).live}]
    /\ GoTo(r, "grant")
    /\ UNCHANGED <<ask, account, tenancyVars, role, grant, missing, drafted, cells, delta, granted>>

InsertGrants(r) ==
    /\ pc[r] = "grant"
    /\ ~Contended(r, absent[r])
    /\ IF \E k \in absent[r] : Cell(r, k).live
       THEN GoTo(r, "duplicate") /\ cells' = [cells EXCEPT ![r] = Untouched]
       ELSE /\ cells' = [cells EXCEPT ![r] =
                   [k \in Codes |-> IF k \in absent[r] THEN [Cell(r, k) EXCEPT !.live = TRUE] ELSE @[k]]]
            /\ GoTo(r, "ungrant")
    /\ UNCHANGED <<ask, account, tenancyVars, role, grant, missing, drafted, delta, absent, granted>>

\* Revoke: the live rows of the codes to remove are marked deleted.
RevokeGrants(r) ==
    LET gone == {k \in delta[r].remove : Cell(r, k).live}
    IN  /\ pc[r] = "ungrant"
        /\ ~Contended(r, gone)
        /\ cells' = [cells EXCEPT ![r] =
               [k \in Codes |-> IF k \in gone THEN [live |-> FALSE, dead |-> Cell(r, k).dead + 1] ELSE @[k]]]
        /\ GoTo(r, "commit")
        /\ UNCHANGED <<ask, account, tenancyVars, role, grant, missing, drafted, delta, absent, granted>>

-----------------------------------------------------------------------------
RolesAfter(r) ==
    CASE Kind(r) = "CreateRole" -> [role EXCEPT ![<<r, ask[r].name>>] = RoleRow(ask[r].company, ask[r].name)]
      [] Kind(r) \in {"UpdateRole", "DeleteRole"} -> [role EXCEPT ![ask[r].role].deleted = Kind(r) = "DeleteRole"]
      [] Kind(r) = "SetPermissions" -> role

GrantsAfter(r) ==
    CASE Kind(r) = "CreateRole" -> [grant EXCEPT ![<<r, ask[r].name>>] = Fresh(ask[r].codes)]
      [] Kind(r) = "SetPermissions" -> [grant EXCEPT ![ask[r].role] = [k \in Codes |-> Cell(r, k)]]
      [] OTHER -> grant

EndRole(r, label) ==
    /\ GoTo(r, label)
    /\ drafted' = [drafted EXCEPT ![r] = {}]
    /\ cells' = [cells EXCEPT ![r] = Untouched]
    /\ UNCHANGED <<ask, account, tenancyVars, missing, delta, absent, granted>>

CommitRole(r) ==
    /\ pc[r] = "commit"
    /\ Kind(r) \in RoleKinds
    /\ role' = RolesAfter(r)
    /\ grant' = GrantsAfter(r)
    /\ EndRole(r, "done")

\* The connection dies, or the database breaks a cycle of waits.
LoseRole(r) ==
    /\ pc[r] \in {"provision", "commit", "held", "grant", "ungrant"}
    /\ Kind(r) \in RoleKinds
    /\ EndRole(r, "lost")
    /\ UNCHANGED <<role, grant>>

RoleStep(r) ==
    \/ ResolveRole(r) \/ ListRoles(r) \/ Provision(r) \/ CommitProvision(r)
    \/ CheckName(r) \/ InsertRole(r) \/ LoadRole(r) \/ StoreRole(r)
    \/ Diff(r) \/ Revive(r) \/ FindHeld(r) \/ InsertGrants(r) \/ RevokeGrants(r) \/ CommitRole(r)

RolesNext == \E r \in Requests : RoleStep(r) \/ LoseRole(r)

-----------------------------------------------------------------------------
RolesTypeOK ==
    /\ role \in [RoleIds -> RoleRows \cup {None}]
    /\ grant \in [RoleIds -> [Codes -> GrantRows]]
    /\ missing \in [Requests -> SUBSET SystemRoles]
    /\ drafted \in [Requests -> SUBSET RoleIds]
    /\ cells \in [Requests -> [Codes -> GrantRows \cup {None}]]
    /\ delta \in [Requests -> [add : SUBSET Codes, remove : SUBSET Codes]]
    /\ absent \in [Requests -> SUBSET Codes]
    /\ \A r \in Requests : granted[r] # None => granted[r] \subseteq Codes

\* Whoever owns a company may do everything in it, from the first request on and
\* however many requests provision its roles at once; and an administrator's
\* request always finds a role (findRole's retry, EnsureSystemRoles, the OWNER
\* role's protection).
OwnerMayAll ==
    \A r \in Requests :
        granted[r] # None =>
            /\ Named(ask[r].company, acting[r]) # {}
            /\ acting[r] = "OWNER" => granted[r] = Codes

\* Replacements of one role's permissions that overlap settle between them: what
\* all of them ask for is granted and what none of them asks for is not, once one
\* has committed (applyGrants).
GrantsAgreed ==
    \A x \in RoleIds :
        LET asked == {r \in Requests : Kind(r) = "SetPermissions" /\ ask[r].role = x}
        IN  (\E r \in asked : pc[r] = "done") =>
                \A k \in Codes :
                    /\ (\A r \in asked : k \in ask[r].codes) => grant[x][k].live
                    /\ (\A r \in asked : k \notin ask[r].codes) => ~grant[x][k].live
=============================================================================
