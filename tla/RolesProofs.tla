----------------------------- MODULE RolesProofs ------------------------------
(***************************************************************************)
(* Proofs about the roles of Access and their grants, for every set of     *)
(* requests, companies, roles and scenes.                                  *)
(*                                                                         *)
(* A role never changes its company, its name or its kind, and a system    *)
(* role is never deleted.  While a request inserts a role of some name, or *)
(* saves one back, it alone holds the name's entry in the unique index, so *)
(* a company has one role of a name (NamesInv).                            *)
(*                                                                         *)
(* Whoever finds a system role missing inserts, in one order, those it did *)
(* not find; if another request was faster, it was with all of them, and   *)
(* the loser starts again.  So behind the permission check there is always *)
(* a role, and nothing ever takes a permission from OWNER (ProvisionInv).  *)
(*                                                                         *)
(* Replacements of one role's grants do not lock the role.  But each, at   *)
(* each statement, leaves alone what all of them want and what none wants: *)
(* the argument goes code by code, over what a request saw, what it has    *)
(* still to do, and what it wrote (Keeps, Drops).                          *)
(***************************************************************************)
EXTENDS AccessProofs, OwnershipProofs

-----------------------------------------------------------------------------
(* What a request on roles is asked, and where it can be. *)

Resolving == {"resolve", "list", "provision", "again"}

Granting == {"diff", "revive", "held", "grant", "ungrant"}

RoleLabels ==
    {"start", "name", "insert", "load", "store", "commit"} \cup Resolving \cup Granting \cup Ended

RolesAsked ==
    \A r \in Requests :
        /\ Kind(r) \in RoleKinds => ask[r].company \in Companies
        /\ Kind(r) = "CreateRole" => ask[r].name \in RoleNames /\ ask[r].codes \subseteq Codes
        /\ Kind(r) \in {"UpdateRole", "DeleteRole", "SetPermissions"} => ask[r].role \in RoleIds
        /\ Kind(r) = "SetPermissions" => ask[r].codes \subseteq Codes

RolesLabelled ==
    \A r \in Requests :
        /\ Kind(r) \in RoleKinds => pc[r] \in RoleLabels
        /\ pc[r] \in {"name", "insert"} => Kind(r) = "CreateRole"
        /\ pc[r] = "load" => Kind(r) \in {"UpdateRole", "DeleteRole", "SetPermissions"}
        /\ pc[r] = "store" => Kind(r) \in {"UpdateRole", "DeleteRole"}
        /\ pc[r] \in Granting => Kind(r) = "SetPermissions"
        /\ pc[r] \in Resolving => Kind(r) \in RoleKinds

\* A request that resolves its role has one, and keeps it.
Acting ==
    /\ granted = [r \in Requests |-> granted[r]]
    /\ \A r \in Requests :
         pc[r] \in Resolving \/ granted[r] # None =>
             Kind(r) \in RoleKinds /\ acting[r] \in SystemRoles /\ pc[r] # "start"

\* What a request has inserted is its own: system roles, or the one it was asked for.
Inserting ==
    \A r \in Requests :
        /\ \A x \in drafted[r] : x \in RoleIds /\ x[1] = r
        /\ drafted[r] # {} => pc[r] = "provision" \/ (pc[r] = "commit" /\ Kind(r) = "CreateRole")
        /\ pc[r] = "provision" => \A x \in drafted[r] : x[2] \in SystemRoles
        /\ Kind(r) = "CreateRole" /\ pc[r] \in {"insert", "commit"} => ask[r].name \notin SystemRoles
        /\ Kind(r) = "CreateRole" /\ pc[r] = "commit" => drafted[r] = {<<r, ask[r].name>>}

\* What a request adds it was asked for, and what it removes it was not.
Differences ==
    \A r \in Requests : Kind(r) = "SetPermissions" =>
        /\ delta[r].add \subseteq ask[r].codes /\ delta[r].remove \cap ask[r].codes = {}
        /\ absent[r] \subseteq ask[r].codes

\* Roles keep their names, system roles stay, and OWNER may do everything.
Sound ==
    \A x \in RoleIds : role[x] # None =>
        /\ role[x].name = x[2]
        /\ role[x].system <=> x[2] \in SystemRoles
        /\ role[x].system => ~role[x].deleted
        /\ x[2] = "OWNER" => GrantedTo(x) = Codes

\* A request does not insert a role twice, nor a custom one before it is done.
Unborn ==
    \A r \in Requests : \A n \in RoleNames : role[<<r, n>>] # None =>
        /\ Kind(r) \in RoleKinds /\ pc[r] \notin {"start", "resolve", "list", "provision"}
        /\ n \notin SystemRoles => pc[r] = "done"

\* The role that a request has found is there, and may be changed as it is asked to.
Loaded ==
    \A r \in Requests :
        \/ Kind(r) \in {"UpdateRole", "DeleteRole"} /\ pc[r] \in {"store", "commit"}
        \/ Kind(r) = "SetPermissions" /\ pc[r] \in Granting \cup {"commit", "done"}
        => LET x == ask[r].role
           IN  /\ role[x] # None /\ role[x].company = ask[r].company
               /\ Kind(r) = "DeleteRole" => x[2] \notin SystemRoles
               /\ Kind(r) = "SetPermissions" => x[2] # "OWNER"

RolesInv ==
    /\ RolesAsked
    /\ RolesLabelled
    /\ RolesTypeOK
    /\ Acting
    /\ Inserting
    /\ Differences
    /\ Sound
    /\ Unborn
    /\ Loaded

-----------------------------------------------------------------------------
(* The unique index of names. *)

\* A drafted role's name is free while its entry is held.
Unnamed == \A r \in Requests : \A x \in drafted[r] : Named(ask[r].company, x[2]) = {}

EntriesApart == \A q, r \in Requests : q # r => Entries(q) \cap Entries(r) = {}

\* A role that is saved back has its name to itself.
Free ==
    \A r \in Requests : Kind(r) = "UpdateRole" /\ pc[r] = "commit" =>
        Named(ask[r].company, ask[r].role[2]) \subseteq {ask[r].role}

OneName ==
    \A x, y \in LiveRoles :
        role[x].company = role[y].company /\ role[x].name = role[y].name => x = y

NamesInv == Unnamed /\ EntriesApart /\ Free /\ OneName

-----------------------------------------------------------------------------
(* Provisioning. *)

AllNamed(c) == \A n \in SystemRoles : Named(c, n) # {}

\* A provisioning request covers every system role; if somebody else inserted one
\* meanwhile, then all of them.
Covered ==
    \A r \in Requests :
        LET c == ask[r].company
        IN  /\ pc[r] = "provision" =>
                 /\ \A n \in SystemRoles :
                      Named(c, n) # {} \/ n \in missing[r] \/ <<r, n>> \in drafted[r]
                 /\ \A n \in missing[r] : Named(c, n) # {} => AllNamed(c)
            /\ pc[r] = "again" => AllNamed(c)

ProvisionInv == Covered /\ OwnerMayAll

-----------------------------------------------------------------------------
(* Grants. *)

Asking(x) == {r \in Requests : Kind(r) = "SetPermissions" /\ ask[r].role = x}

AllWant(x, k) == \A r \in Asking(x) : k \in ask[r].codes

NoneWants(x, k) == \A r \in Asking(x) : k \notin ask[r].codes

Working == {"revive", "held", "grant", "ungrant", "commit"}

CellsWritten ==
    \A r \in Requests : \A k \in Codes : cells[r][k] # None =>
        Kind(r) = "SetPermissions" /\ pc[r] \in {"held", "grant", "ungrant", "commit"}

\* How far a request has got with a code that every request on the role wants.
Keeps(r, k) ==
    LET x == ask[r].role
    IN  /\ cells[r][k] # None => cells[r][k].live
        /\ pc[r] \in Working => k \in delta[r].add \/ grant[x][k].live
        /\ pc[r] = "grant" => k \in absent[r] \/ Cell(r, k).live
        /\ pc[r] \in {"ungrant", "commit"} => Cell(r, k).live
        /\ pc[r] = "done" => grant[x][k].live

\* And with one that none wants.
Drops(r, k) ==
    LET x == ask[r].role
    IN  /\ cells[r][k] # None => ~cells[r][k].live
        /\ pc[r] \in Working => k \in delta[r].remove \/ ~grant[x][k].live
        /\ pc[r] = "commit" => ~Cell(r, k).live
        /\ pc[r] = "done" => ~grant[x][k].live

GrantsInv ==
    /\ CellsWritten
    /\ \A x \in RoleIds : \A r \in Asking(x) : \A k \in Codes :
         /\ AllWant(x, k) => Keeps(r, k)
         /\ NoneWants(x, k) => Drops(r, k)

-----------------------------------------------------------------------------
(* Steps outside roles. *)

\* What a step of sessions or tenancy is to roles: a request on roles at most enters
\* its company, as what its seat says, or is turned away.
Outside ==
    /\ UNCHANGED <<ask, roleVars>>
    /\ \A q \in Requests :
         /\ Kind(q) \notin RoleKinds =>
              pc'[q] = pc[q] \/ pc'[q] \notin RoleLabels \ ({"commit"} \cup Ended)
         /\ Kind(q) \in RoleKinds =>
              \/ pc'[q] = pc[q] /\ acting'[q] = acting[q]
              \/ pc[q] = "start" /\ pc'[q] = "resolve" /\ acting'[q] \in SystemRoles
              \/ pc[q] = "start" /\ pc'[q] = "refused" /\ acting'[q] = acting[q]

LEMMA SessionsOutside ==
    ASSUME SessionsInv, RolesInv, SessionsNext, UNCHANGED <<tenancyVars, roleVars>>
    PROVE  Outside
<1>1. CASE \E t \in Tokens : Expire(t)
    BY <1>1 DEF Expire, requestVars, tenancyVars, Outside
<1>2. ASSUME NEW r \in Requests, SessionStep(r) \/ LoseSession(r) \/ BreakCycle(r)
      PROVE  Outside
    <2>1. UNCHANGED ask /\ \A q \in Others(r) : pc'[q] = pc[q]
        BY <1>2, SessionMoves
    <2>2. Kind(r) \notin RoleKinds
        BY <1>2 DEF SessionStep, CheckAddress, Enrol, Authenticate, Present, Rotate,
            CountSessions, FindOldest, Revoke, Mint, Leave, StartRevokeAll, RevokeNext, CommitSession,
            LoseSession, BreakCycle, RollBackSession, RolesInv, RolesLabelled, RoleLabels, RoleKinds,
            Resolving, Granting, SessionKinds, Signing, Ended
    <2>3. pc'[r] \in SessionLabels \ {"start"} \/ pc'[r] = pc[r]
        BY <1>2 DEF SessionStep, CheckAddress, Enrol, Authenticate, Present, Rotate,
            CountSessions, FindOldest, Revoke, Mint, Leave, StartRevokeAll, RevokeNext, CommitSession,
            LoseSession, BreakCycle, RollBackSession, GoTo, SessionsInv, SessionsLabelled, SessionLabels, Ended
    <2>4. pc'[r] = pc[r] \/ pc'[r] \notin RoleLabels \ ({"commit"} \cup Ended)
        BY <2>3 DEF SessionLabels, RoleLabels, Resolving, Granting, Ended
    <2>5. QED
        BY <2>1, <2>2, <2>4 DEF Others, tenancyVars, Outside
<1>3. QED
    BY <1>1, <1>2 DEF SessionsNext

LEMMA TenancyOutside ==
    ASSUME TenancyInv, IndexInv, RolesInv, TenancyNext, UNCHANGED roleVars
    PROVE  Outside
<1>1. PICK r \in Requests : TenancyStep(r) \/ LoseTenancy(r)
    BY DEF TenancyNext
<1>2. UNCHANGED ask /\ \A q \in Others(r) : pc'[q] = pc[q] /\ acting'[q] = acting[q]
    BY <1>1 DEF TenancyStep, Enter, CheckCode, OpenCompany, CloseCompany, FindInvitee, FindSeat, CountOwners,
        WriteTenancy, CommitTenancy, LoseTenancy, GoTo, tenancyVars, Others, TenancyInv, TenancyLabelled,
        IndexInv, TenancyTypeOK
<1>3. CASE Enter(r)
    <2>1. pc' = [pc EXCEPT ![r] = pc'[r]] /\ pc[r] = "start"
        BY <1>3 DEF Enter, GoTo, TenancyInv, TenancyLabelled
    <2>2. ASSUME NEW c \in Contexts(r), MayAct(c, ask[r].user),
                 \E m \in ActiveSeats(c, ask[r].user) : acting' = [acting EXCEPT ![r] = seat[m].role],
                 GoTo(r, IF Kind(r) \in TenancyKinds THEN "find" ELSE "resolve")
          PROVE  Outside
        <3>1. PICK m \in ActiveSeats(c, ask[r].user) :
                acting' = [acting EXCEPT ![r] = seat[m].role]
            BY <2>2
        <3>2. seat[m].role \in SystemRoles
            BY <3>1 DEF ActiveSeats, Seats, LiveSeats, SeatRows, IndexInv, TenancyTypeOK
        <3>3. acting'[r] \in SystemRoles
            BY <3>1, <3>2 DEF IndexInv, TenancyTypeOK
        <3>4. pc'[r] = IF Kind(r) \in TenancyKinds THEN "find" ELSE "resolve"
            BY <2>2 DEF GoTo, TenancyInv, TenancyLabelled
        <3>5. Kind(r) \notin RoleKinds => Kind(r) \in TenancyKinds
            BY <1>3 DEF Enter, Scoped, RoleKinds, TenancyKinds
        <3>6. Kind(r) \in RoleKinds => Kind(r) \notin TenancyKinds
            BY DEF RoleKinds, TenancyKinds
        <3>7. QED
            BY <1>2, <2>1, <3>3, <3>4, <3>5, <3>6 DEF Outside, Others, RoleLabels, Resolving, Granting, Ended
    <2>3. CASE GoTo(r, "refused") /\ UNCHANGED acting
        <3>1. pc'[r] = "refused" /\ acting' = acting
            BY <2>3 DEF GoTo, TenancyInv, TenancyLabelled
        <3>2. QED
            BY <1>2, <2>1, <3>1 DEF Outside, Others, Ended
    <2>4. QED
        BY <1>3, <2>2, <2>3 DEF Enter
<1>4. CASE ~Enter(r)
    <2>1. Kind(r) \notin RoleKinds
        BY <1>1, <1>4 DEF TenancyStep, CheckCode, OpenCompany, CloseCompany, FindInvitee, FindSeat, CountOwners,
            WriteTenancy, CommitTenancy, LoseTenancy, RoleKinds, TenancyKinds, RolesInv, RolesLabelled,
            RoleLabels, Resolving, Granting, Ended
    <2>2. pc'[r] \in {"owners", "write", "commit"} \cup Ended
        BY <1>1, <1>4 DEF TenancyStep, CheckCode, OpenCompany, CloseCompany, FindInvitee, FindSeat, CountOwners,
            WriteTenancy, CommitTenancy, LoseTenancy, Verdict, GoTo, TenancyInv, TenancyLabelled, Ended
    <2>3. QED
        BY <1>2, <2>1, <2>2 DEF Outside, Others, RoleLabels, Resolving, Granting, Ended
<1>5. QED
    BY <1>3, <1>4

-----------------------------------------------------------------------------
(* Every row has its type, and a role keeps what it is. *)

LEMMA RolesStart == Init => RolesInv
<1> SUFFICES ASSUME Init PROVE RolesInv
    OBVIOUS
<1>1. PICK s \in Scenes : role = s.role /\ grant = s.grant /\ ask \in s.asks
    BY DEF Init
<1>2. RolesInit /\ pc = [r \in Requests |-> "start"]
    BY DEF Init
<1>3. RolesAsked
    BY <1>1, RoleScenesAssumption DEF RolesAsked, Kind
<1>4. role \in [RoleIds -> RoleRows \cup {None}] /\ grant \in [RoleIds -> [Codes -> GrantRows]]
    BY <1>1, RoleScenesAssumption
<1>5. RolesTypeOK
    BY <1>2, <1>4 DEF RolesTypeOK, RolesInit, Untouched
<1>6. RolesLabelled /\ Acting /\ Inserting /\ Differences
    BY <1>2 DEF RolesLabelled, RoleLabels, Granting, Resolving, Ended, Acting, Inserting, Differences, RolesInit
<1>7. \A x \in RoleIds : role[x] # None =>
        /\ x[1] \notin Requests
        /\ role[x].name = x[2]
        /\ role[x].system <=> x[2] \in SystemRoles
        /\ role[x].system => ~role[x].deleted
        /\ x[2] = "OWNER" => \A k \in Codes : grant[x][k].live
    BY <1>1, RoleScenesAssumption
<1>8. Sound
    BY <1>7 DEF Sound, GrantedTo
<1>9. Unborn
    <2>1. ASSUME NEW r \in Requests, NEW n \in RoleNames
          PROVE  role[<<r, n>>] = None
        <3>1. <<r, n>> \in RoleIds /\ <<r, n>>[1] = r
            BY RolesAssumption DEF RoleIds
        <3>2. QED
            BY <1>7, <3>1
    <2>2. QED
        BY <2>1 DEF Unborn
<1>10. Loaded
    BY <1>2 DEF Loaded, Granting
<1>11. QED
    BY <1>3, <1>5, <1>6, <1>8, <1>9, <1>10 DEF RolesInv

LEMMA OutsideKeepsRoles ==
    ASSUME RolesInv, Outside
    PROVE  RolesInv'
<1>1. UNCHANGED <<ask, role, grant, missing, drafted, cells, delta, absent, granted>>
    BY DEF Outside, roleVars
<1>2. \A r : Kind(r)' = Kind(r)
    BY <1>1 DEF Kind
<1>3. RolesAsked' /\ Sound' /\ RolesTypeOK'
    BY <1>1, <1>2 DEF RolesInv, RolesAsked, Sound, RolesTypeOK, GrantedTo
<1>4. RolesLabelled'
    BY <1>2 DEF Outside, RolesInv, RolesLabelled, RoleLabels, RoleKinds, Resolving, Granting, Ended
<1>5. Acting'
    BY <1>1, <1>2 DEF Outside, RolesInv, Acting, RolesLabelled, RoleLabels, Resolving, Ended
<1>6. Inserting'
    BY <1>1, <1>2 DEF Outside, RolesInv, Inserting, RoleKinds, RoleLabels, RolesLabelled, Resolving, Ended
<1>7. Differences'
    BY <1>1, <1>2 DEF RolesInv, Differences
<1>8. Unborn'
    BY <1>1, <1>2 DEF Outside, RolesInv, Unborn
<1>9. Loaded'
    BY <1>1, <1>2 DEF Outside, RolesInv, Loaded, RoleKinds, Granting
<1>10. QED
    BY <1>3, <1>4, <1>5, <1>6, <1>7, <1>8, <1>9 DEF RolesInv

\* A step of one request leaves what the others have read and written.
Alike(q) ==
    /\ pc'[q] = pc[q]
    /\ missing'[q] = missing[q]
    /\ drafted'[q] = drafted[q]
    /\ cells'[q] = cells[q]
    /\ delta'[q] = delta[q]
    /\ absent'[q] = absent[q]
    /\ granted'[q] = granted[q]

LEMMA RoleMoves ==
    ASSUME SessionsInv, RolesInv, NEW r \in Requests, RoleStep(r) \/ LoseRole(r)
    PROVE  /\ UNCHANGED <<ask, account, tenancyVars>>
           /\ Kind(r) \in RoleKinds
           /\ \A q \in Others(r) : Alike(q)
           /\ pc[r] \notin Ended /\ pc'[r] # "start"
<1> USE DEF RoleStep, ResolveRole, ListRoles, Provision, CommitProvision, CheckName, InsertRole, LoadRole,
        StoreRole, Diff, Revive, FindHeld, InsertGrants, RevokeGrants, CommitRole, LoseRole, EndRole
<1>1. UNCHANGED <<ask, account, tenancyVars>>
    OBVIOUS
<1>2. Kind(r) \in RoleKinds
    BY DEF RolesInv, RolesLabelled, Resolving, Granting, RoleKinds
<1>3. pc[r] \notin Ended
    BY DEF Ended
<1>4. \A q \in Others(r) : pc'[q] = pc[q]
    BY DEF GoTo, Others, SessionsInv, SessionsLabelled
<1>5. pc'[r] # "start"
    BY <1>2 DEF GoTo, SessionsInv, SessionsLabelled, FirstStep, RoleKinds
<1>6. \A q \in Others(r) : missing'[q] = missing[q] /\ drafted'[q] = drafted[q] /\ cells'[q] = cells[q]
    BY DEF Others, RolesInv, RolesTypeOK, roleVars
<1>7. \A q \in Others(r) : delta'[q] = delta[q] /\ absent'[q] = absent[q]
    BY DEF Others, RolesInv, RolesTypeOK, roleVars
<1>8. \A q \in Others(r) : granted'[q] = granted[q]
    BY DEF Others, RolesInv, Acting, roleVars
<1>9. QED
    BY <1>1, <1>2, <1>3, <1>4, <1>5, <1>6, <1>7, <1>8 DEF Alike

\* The statements that leave the committed rows alone.
Statement(r) ==
    \/ ResolveRole(r) \/ ListRoles(r) \/ Provision(r) \/ CheckName(r) \/ InsertRole(r)
    \/ LoadRole(r) \/ StoreRole(r) \/ Diff(r) \/ Revive(r) \/ FindHeld(r) \/ InsertGrants(r)
    \/ RevokeGrants(r) \/ LoseRole(r)

\* What a request sees of a grant is a row.
LEMMA CellRows ==
    ASSUME RolesInv, NEW r \in Requests, Kind(r) = "SetPermissions", NEW k \in Codes
    PROVE  Cell(r, k) \in GrantRows
<1>1. ask[r].role \in RoleIds
    BY DEF RolesInv, RolesAsked
<1>2. grant[ask[r].role][k] \in GrantRows /\ cells[r][k] \in GrantRows \cup {None}
    BY <1>1 DEF RolesInv, RolesTypeOK
<1>3. QED
    BY <1>2 DEF Cell

LEMMA Replaced ==
    ASSUME NEW S, NEW T, NEW f \in [S -> T], NEW r \in S, NEW e \in T
    PROVE  [f EXCEPT ![r] = e] \in [S -> T]
OBVIOUS

\* What a statement writes has its type.
LEMMA StatementTypes ==
    ASSUME SessionsInv, RolesInv, NEW r \in Requests, Statement(r)
    PROVE  RolesTypeOK'
<1>1. role' \in [RoleIds -> RoleRows \cup {None}] /\ grant' \in [RoleIds -> [Codes -> GrantRows]]
    BY DEF Statement, ResolveRole, ListRoles, Provision, CheckName, InsertRole, LoadRole, StoreRole, Diff, Revive,
        FindHeld, InsertGrants, RevokeGrants, LoseRole, roleVars, RolesInv, RolesTypeOK
<1>2. missing' \in [Requests -> SUBSET SystemRoles]
    <2>1. CASE ListRoles(r)
        <3>1. PICK todo \in SUBSET SystemRoles : missing' = [missing EXCEPT ![r] = todo]
            BY <2>1 DEF ListRoles
        <3>2. QED
            BY <3>1, Replaced DEF RolesInv, RolesTypeOK
    <2>2. CASE Provision(r)
        <3>1. PICK name : missing' \in {[missing EXCEPT ![r] = missing[r] \ {name}], [missing EXCEPT ![r] = {}]}
            BY <2>2 DEF Provision
        <3>2. missing[r] \ {name} \in SUBSET SystemRoles /\ {} \in SUBSET SystemRoles
            BY DEF RolesInv, RolesTypeOK
        <3>3. missing \in [Requests -> SUBSET SystemRoles]
            BY DEF RolesInv, RolesTypeOK
        <3>4. /\ [missing EXCEPT ![r] = missing[r] \ {name}] \in [Requests -> SUBSET SystemRoles]
              /\ [missing EXCEPT ![r] = {}] \in [Requests -> SUBSET SystemRoles]
            BY <3>2, <3>3, Replaced
        <3>5. QED
            BY <3>1, <3>4
    <2>3. QED
        BY <2>1, <2>2 DEF Statement, ResolveRole, CheckName, InsertRole, LoadRole, StoreRole, Diff, Revive,
            FindHeld, InsertGrants, RevokeGrants, LoseRole, EndRole, roleVars, RolesInv, RolesTypeOK
<1>3. drafted' \in [Requests -> SUBSET RoleIds]
    <2>1. CASE Provision(r)
        <3>1. PICK name \in missing[r] :
                drafted' \in {[drafted EXCEPT ![r] = drafted[r] \cup {<<r, name>>}], [drafted EXCEPT ![r] = {}]}
            BY <2>1 DEF Provision
        <3>2. <<r, name>> \in RoleIds
            BY <3>1, RolesAssumption DEF RoleIds, RolesInv, RolesTypeOK
        <3>3. drafted[r] \cup {<<r, name>>} \in SUBSET RoleIds /\ {} \in SUBSET RoleIds
            BY <3>2 DEF RolesInv, RolesTypeOK
        <3>4. drafted \in [Requests -> SUBSET RoleIds]
            BY DEF RolesInv, RolesTypeOK
        <3>5. /\ [drafted EXCEPT ![r] = drafted[r] \cup {<<r, name>>}] \in [Requests -> SUBSET RoleIds]
              /\ [drafted EXCEPT ![r] = {}] \in [Requests -> SUBSET RoleIds]
            BY <3>3, <3>4, Replaced
        <3>6. QED
            BY <3>1, <3>5
    <2>2. CASE InsertRole(r)
        <3>1. <<r, ask[r].name>> \in RoleIds
            BY <2>2, RolesAssumption DEF RoleIds, RolesInv, RolesAsked, RolesLabelled, InsertRole
        <3>2. {<<r, ask[r].name>>} \in SUBSET RoleIds
            BY <3>1
        <3>3. drafted \in [Requests -> SUBSET RoleIds]
            BY DEF RolesInv, RolesTypeOK
        <3>4. [drafted EXCEPT ![r] = {<<r, ask[r].name>>}] \in [Requests -> SUBSET RoleIds]
            BY <3>2, <3>3, Replaced
        <3>5. QED
            BY <2>2, <3>3, <3>4 DEF InsertRole
    <2>3. CASE LoseRole(r)
        BY <2>3, Replaced DEF LoseRole, EndRole, RolesInv, RolesTypeOK
    <2>4. QED
        BY <2>1, <2>2, <2>3 DEF Statement, ResolveRole, ListRoles, CheckName, LoadRole, StoreRole, Diff, Revive,
            FindHeld, InsertGrants, RevokeGrants, roleVars, RolesInv, RolesTypeOK
<1>4. cells' \in [Requests -> [Codes -> GrantRows \cup {None}]]
    <2>1. ASSUME Revive(r) \/ InsertGrants(r) \/ RevokeGrants(r)
          PROVE  cells' \in [Requests -> [Codes -> GrantRows \cup {None}]]
        <3>1. Kind(r) = "SetPermissions"
            BY <2>1 DEF Revive, InsertGrants, RevokeGrants, RolesInv, RolesLabelled, Granting
        <3>2. \A k \in Codes : Cell(r, k) \in GrantRows /\ cells[r][k] \in GrantRows \cup {None}
            BY <3>1, CellRows DEF RolesInv, RolesTypeOK
        <3>3. [live |-> TRUE, dead |-> 0] \in GrantRows
            BY DEF GrantRows
        <3>4. ASSUME NEW k \in Codes
              PROVE  /\ [Cell(r, k) EXCEPT !.live = TRUE] \in GrantRows
                     /\ [live |-> FALSE, dead |-> Cell(r, k).dead + 1] \in GrantRows
            <4>1. [Cell(r, k) EXCEPT !.live = TRUE] \in GrantRows
                BY <3>2 DEF GrantRows
            <4>2. Cell(r, k).dead + 1 \in Nat
                BY <3>2 DEF GrantRows
            <4>3. QED
                BY <4>1, <4>2 DEF GrantRows
        <3>5. PICK now \in [Codes -> GrantRows \cup {None}] : cells' \in {cells, [cells EXCEPT ![r] = now]}
            <4>1. CASE Revive(r)
                <5>1. PICK dead : cells' \in {cells, [cells EXCEPT ![r] =
                        [k \in Codes |-> IF k \in dead THEN [live |-> TRUE, dead |-> 0] ELSE cells[r][k]]]}
                    BY <4>1 DEF Revive
                <5>2. [k \in Codes |-> IF k \in dead THEN [live |-> TRUE, dead |-> 0] ELSE cells[r][k]]
                        \in [Codes -> GrantRows \cup {None}]
                    BY <3>2, <3>3
                <5>3. QED
                    BY <5>1, <5>2
            <4>2. CASE InsertGrants(r)
                <5>1. cells' \in {[cells EXCEPT ![r] = Untouched], [cells EXCEPT ![r] = [k \in Codes |->
                        IF k \in absent[r] THEN [Cell(r, k) EXCEPT !.live = TRUE] ELSE cells[r][k]]]}
                    BY <4>2 DEF InsertGrants
                <5>2. [k \in Codes |-> IF k \in absent[r] THEN [Cell(r, k) EXCEPT !.live = TRUE] ELSE cells[r][k]]
                        \in [Codes -> GrantRows \cup {None}]
                    BY <3>2, <3>4
                <5>3. Untouched \in [Codes -> GrantRows \cup {None}]
                    BY DEF Untouched
                <5>4. QED
                    BY <5>1, <5>2, <5>3
            <4>3. CASE RevokeGrants(r)
                <5>1. PICK gone : cells' = [cells EXCEPT ![r] = [k \in Codes |->
                        IF k \in gone THEN [live |-> FALSE, dead |-> Cell(r, k).dead + 1] ELSE cells[r][k]]]
                    BY <4>3 DEF RevokeGrants
                <5>2. [k \in Codes |-> IF k \in gone THEN [live |-> FALSE, dead |-> Cell(r, k).dead + 1]
                                                  ELSE cells[r][k]]
                        \in [Codes -> GrantRows \cup {None}]
                    BY <3>2, <3>4
                <5>3. QED
                    BY <5>1, <5>2
            <4>4. QED
                BY <2>1, <4>1, <4>2, <4>3
        <3>6. QED
            BY <3>5, Replaced DEF RolesInv, RolesTypeOK
    <2>2. QED
        BY <2>1 DEF Statement, ResolveRole, ListRoles, Provision, CheckName, InsertRole, LoadRole, StoreRole, Diff,
            FindHeld, LoseRole, EndRole, roleVars, RolesInv, RolesTypeOK, Untouched
<1>5. delta' \in [Requests -> [add : SUBSET Codes, remove : SUBSET Codes]]
    <2>1. CASE Diff(r)
        <3>1. ask[r].codes \subseteq Codes /\ GrantedTo(ask[r].role) \subseteq Codes
            BY <2>1 DEF Diff, RolesInv, RolesAsked, RolesLabelled, Granting, GrantedTo
        <3>2. QED
            BY <2>1, <3>1 DEF Diff, Difference, RolesInv, RolesTypeOK
    <2>2. QED
        BY <2>1 DEF Statement, ResolveRole, ListRoles, Provision, CheckName, InsertRole, LoadRole, StoreRole, Revive,
            FindHeld, InsertGrants, RevokeGrants, LoseRole, EndRole, roleVars, RolesInv, RolesTypeOK
<1>6. absent' \in [Requests -> SUBSET Codes]
    <2>1. CASE FindHeld(r)
        <3>1. {k \in delta[r].add : ~Cell(r, k).live} \in SUBSET Codes
            BY DEF RolesInv, RolesTypeOK
        <3>2. QED
            BY <2>1, <3>1, Replaced DEF FindHeld, RolesInv, RolesTypeOK
    <2>2. QED
        BY <2>1 DEF Statement, ResolveRole, ListRoles, Provision, CheckName, InsertRole, LoadRole, StoreRole, Diff,
            Revive, InsertGrants, RevokeGrants, LoseRole, EndRole, roleVars, RolesInv, RolesTypeOK
<1>7. \A q \in Requests : granted'[q] # None => granted'[q] \subseteq Codes
    <2>1. CASE ResolveRole(r)
        BY <2>1 DEF ResolveRole, Permitted, GrantedTo, RolesInv, Acting, RolesTypeOK
    <2>2. QED
        BY <2>1 DEF Statement, ListRoles, Provision, CheckName, InsertRole, LoadRole, StoreRole, Diff, Revive,
            FindHeld, InsertGrants, RevokeGrants, LoseRole, EndRole, roleVars, RolesInv, RolesTypeOK
<1>8. QED
    BY <1>1, <1>2, <1>3, <1>4, <1>5, <1>6, <1>7 DEF RolesTypeOK

LEMMA ResolveMoves ==
    ASSUME SessionsInv, NEW r \in Requests, ResolveRole(r), Kind(r) \in RoleKinds
    PROVE  \/ pc'[r] = "list" /\ pc[r] = "resolve"
           \/ pc'[r] = "name" /\ Kind(r) = "CreateRole"
           \/ pc'[r] = "load" /\ Kind(r) \in {"UpdateRole", "DeleteRole", "SetPermissions"}
           \/ pc'[r] = "refused"
<1>1. \/ pc'[r] = "list" /\ pc[r] = "resolve"
      \/ pc'[r] = FirstStep[Kind(r)]
      \/ pc'[r] = "refused"
    BY DEF ResolveRole, GoTo, SessionsInv, SessionsLabelled
<1>2. FirstStep["CreateRole"] = "name" /\ \A k \in RoleKinds \ {"CreateRole"} : FirstStep[k] = "load"
    BY DEF FirstStep, RoleKinds
<1>3. QED
    BY <1>1, <1>2 DEF RoleKinds

\* How a statement moves its request on.
LEMMA StatementMoves ==
    ASSUME SessionsInv, RolesInv, NEW r \in Requests, Statement(r)
    PROVE  /\ UNCHANGED <<role, grant>>
           /\ pc'[r] \in RoleLabels \ {"start", "done"}
           /\ pc'[r] \in {"name", "insert"} => Kind(r) = "CreateRole"
           /\ pc'[r] = "load" => Kind(r) \in {"UpdateRole", "DeleteRole", "SetPermissions"}
           /\ pc'[r] = "store" => Kind(r) \in {"UpdateRole", "DeleteRole"}
           /\ pc'[r] \in Granting => Kind(r) = "SetPermissions"
           /\ pc'[r] \in Resolving => pc[r] \in Resolving \ {"again"}
           /\ pc'[r] \in {"resolve", "list", "provision"} => pc[r] \in {"resolve", "list", "provision"}
           /\ pc'[r] \in Granting \cup {"store"} =>
                pc[r] \in Granting \cup {"store"} \/ (LoadRole(r) /\ pc'[r] # "refused")
           /\ pc'[r] = "commit" =>
                \/ InsertRole(r)
                \/ StoreRole(r)
                \/ RevokeGrants(r)
           /\ pc'[r] = "provision" => ListRoles(r) \/ Provision(r)
           /\ pc'[r] = "insert" => CheckName(r)
<1>1. Kind(r) \in RoleKinds
    BY RoleMoves DEF Statement, RoleStep
<1>2. ASSUME ResolveRole(r)
      PROVE  /\ pc[r] = "again" => pc'[r] # "list"
             /\ \/ pc'[r] = "name" /\ Kind(r) = "CreateRole"
                \/ pc'[r] = "load" /\ Kind(r) \in {"UpdateRole", "DeleteRole", "SetPermissions"}
                \/ pc'[r] \in {"list", "refused"}
    BY <1>1, <1>2, ResolveMoves
<1> USE DEF Statement, ResolveRole, ListRoles, Provision, CheckName, InsertRole, LoadRole, StoreRole, Diff, Revive,
        FindHeld, InsertGrants, RevokeGrants, LoseRole, EndRole, GoTo, SessionsInv, SessionsLabelled
<1>3. UNCHANGED <<role, grant>>
    BY DEF roleVars
<1>4. pc'[r] \in RoleLabels \ {"start", "done"}
    BY <1>2 DEF RoleLabels, Resolving, Granting, Ended
<1>5. /\ pc'[r] \in {"name", "insert"} => Kind(r) = "CreateRole"
      /\ pc'[r] = "load" => Kind(r) \in {"UpdateRole", "DeleteRole", "SetPermissions"}
      /\ pc'[r] = "store" => Kind(r) \in {"UpdateRole", "DeleteRole"}
    BY <1>2 DEF RolesInv, RolesLabelled
<1>6. pc'[r] \in Granting => Kind(r) = "SetPermissions"
    BY <1>2 DEF RolesInv, RolesLabelled, Granting
<1>7. /\ pc'[r] \in Resolving => pc[r] \in Resolving \ {"again"}
      /\ pc'[r] \in {"resolve", "list", "provision"} => pc[r] \in {"resolve", "list", "provision"}
    BY <1>2 DEF Resolving
<1>8. pc'[r] \in Granting \cup {"store"} =>
        pc[r] \in Granting \cup {"store"} \/ (LoadRole(r) /\ pc'[r] # "refused")
    BY <1>2 DEF Granting
<1>9. /\ pc'[r] = "commit" => InsertRole(r) \/ StoreRole(r) \/ RevokeGrants(r)
      /\ pc'[r] = "provision" => ListRoles(r) \/ Provision(r)
      /\ pc'[r] = "insert" => CheckName(r)
    BY <1>2
<1>10. QED
    BY <1>3, <1>4, <1>5, <1>6, <1>7, <1>8, <1>9

LEMMA StatementKeepsRoles ==
    ASSUME SessionsInv, RolesInv, NEW r \in Requests, Statement(r)
    PROVE  RolesInv'
<1>1. /\ UNCHANGED <<ask, account, tenancyVars>>
      /\ Kind(r) \in RoleKinds
      /\ \A q \in Others(r) : Alike(q)
      /\ pc[r] \notin Ended /\ pc'[r] # "start"
    BY RoleMoves DEF Statement, RoleStep
<1>2. UNCHANGED <<role, grant>>
    BY StatementMoves
<1>3. \A q : Kind(q)' = Kind(q)
    BY <1>1 DEF Kind
<1>4. RolesAsked' /\ Sound'
    BY <1>1, <1>2, <1>3 DEF RolesInv, RolesAsked, Sound, GrantedTo
<1>5. RolesTypeOK'
    BY StatementTypes
<1>6. RolesLabelled'
    BY <1>1, <1>3, StatementMoves DEF RolesInv, RolesLabelled, Others, Alike
<1>7. Acting'
    <2>1. granted' = [q \in Requests |-> granted'[q]]
        BY DEF Statement, ResolveRole, ListRoles, Provision, CheckName, InsertRole, LoadRole, StoreRole, Diff, Revive,
            FindHeld, InsertGrants, RevokeGrants, LoseRole, EndRole, roleVars, RolesInv, Acting
    <2>2. pc'[r] \in Resolving => pc[r] \in Resolving
        BY StatementMoves
    <2>3. granted'[r] # None => pc[r] \in Resolving \/ granted[r] # None
        BY DEF Statement, ResolveRole, ListRoles, Provision, CheckName, InsertRole, LoadRole, StoreRole, Diff, Revive,
            FindHeld, InsertGrants, RevokeGrants, LoseRole, EndRole, roleVars, Resolving
    <2>4. QED
        BY <1>1, <1>3, <2>1, <2>2, <2>3 DEF RolesInv, Acting, Others, Alike, tenancyVars
<1>8. Inserting'
    <2>1. /\ \A x \in drafted'[r] : x \in RoleIds /\ x[1] = r
          /\ drafted'[r] # {} => pc'[r] = "provision" \/ (pc'[r] = "commit" /\ Kind(r) = "CreateRole")
        <3>1. CASE Provision(r)
            <4>1. PICK name \in missing[r] : drafted'[r] \subseteq drafted[r] \cup {<<r, name>>}
                BY <3>1 DEF Provision, RolesInv, RolesTypeOK
            <4>2. <<r, name>> \in RoleIds /\ <<r, name>>[1] = r
                BY <4>1, RolesAssumption DEF RoleIds, RolesInv, RolesTypeOK
            <4>3. drafted'[r] # {} => pc'[r] = "provision"
                BY <3>1 DEF Provision, RolesInv, RolesTypeOK
            <4>4. QED
                BY <4>1, <4>2, <4>3 DEF RolesInv, Inserting
        <3>2. CASE InsertRole(r)
            <4>1. Kind(r) = "CreateRole" /\ <<r, ask[r].name>> \in RoleIds /\ <<r, ask[r].name>>[1] = r
                BY <3>2, RolesAssumption DEF InsertRole, RoleIds, RolesInv, RolesAsked, RolesLabelled
            <4>2. \/ drafted'[r] = {<<r, ask[r].name>>} /\ pc'[r] = "commit"
                  \/ drafted'[r] = drafted[r]
                BY <3>2 DEF InsertRole, GoTo, RolesInv, RolesTypeOK, SessionsInv, SessionsLabelled
            <4>3. drafted[r] = {}
                BY <3>2 DEF InsertRole, RolesInv, Inserting
            <4>4. QED
                BY <4>1, <4>2, <4>3
        <3>3. CASE ~Provision(r) /\ ~InsertRole(r)
            <4>1. drafted'[r] \in {drafted[r], {}}
                BY <3>3 DEF Statement, ResolveRole, ListRoles, CheckName, LoadRole, StoreRole, Diff, Revive,
                    FindHeld, InsertGrants, RevokeGrants, LoseRole, EndRole, roleVars, RolesInv, RolesTypeOK
            <4>2. drafted'[r] # {} => pc[r] \notin {"provision", "commit"}
                BY <3>3 DEF Statement, ResolveRole, ListRoles, CheckName, LoadRole, StoreRole, Diff, Revive,
                    FindHeld, InsertGrants, RevokeGrants, LoseRole, EndRole, roleVars, RolesInv, RolesTypeOK
            <4>3. QED
                BY <4>1, <4>2 DEF RolesInv, Inserting
        <3>4. QED
            BY <3>1, <3>2, <3>3
    <2>2. pc'[r] = "provision" => \A x \in drafted'[r] : x[2] \in SystemRoles
        <3>1. CASE Provision(r)
            <4>1. PICK name \in missing[r] : drafted'[r] \subseteq drafted[r] \cup {<<r, name>>}
                BY <3>1 DEF Provision, RolesInv, RolesTypeOK
            <4>2. <<r, name>>[2] \in SystemRoles
                BY <4>1 DEF RolesInv, RolesTypeOK
            <4>3. QED
                BY <3>1, <4>1, <4>2 DEF Provision, RolesInv, Inserting
        <3>2. CASE ListRoles(r)
            BY <3>2 DEF ListRoles, RolesInv, Inserting
        <3>3. QED
            BY <3>1, <3>2, StatementMoves
    <2>3. Kind(r) = "CreateRole" /\ pc'[r] \in {"insert", "commit"} => ask[r].name \notin SystemRoles
        <3>1. CASE CheckName(r)
            BY <3>1 DEF CheckName, GoTo, SessionsInv, SessionsLabelled
        <3>2. Kind(r) = "CreateRole" /\ pc'[r] = "commit" => InsertRole(r)
            BY StatementMoves DEF StoreRole, RevokeGrants, RolesInv, RolesLabelled, Granting
        <3>3. QED
            BY <3>1, <3>2, StatementMoves DEF InsertRole, RolesInv, Inserting
    <2>4. Kind(r) = "CreateRole" /\ pc'[r] = "commit" => drafted'[r] = {<<r, ask[r].name>>}
        <3>1. Kind(r) = "CreateRole" /\ pc'[r] = "commit" => InsertRole(r)
            BY StatementMoves DEF StoreRole, RevokeGrants, RolesInv, RolesLabelled, Granting
        <3>2. QED
            BY <3>1 DEF InsertRole, GoTo, RolesInv, RolesTypeOK, SessionsInv, SessionsLabelled
    <2>5. QED
        BY <1>1, <1>3, <2>1, <2>2, <2>3, <2>4 DEF RolesInv, Inserting, Others, Alike
<1>9. Differences'
    <2>1. CASE Diff(r)
        BY <1>1, <1>3, <2>1 DEF Diff, Difference, RolesInv, Differences, RolesTypeOK, Others, Alike
    <2>2. CASE FindHeld(r)
        BY <1>1, <1>3, <2>2 DEF FindHeld, RolesInv, Differences, RolesTypeOK, Others, Alike
    <2>3. CASE ~Diff(r) /\ ~FindHeld(r)
        <3>1. UNCHANGED <<delta, absent>>
            BY <2>3 DEF Statement, ResolveRole, ListRoles, Provision, CheckName, InsertRole, LoadRole, StoreRole,
                Revive, InsertGrants, RevokeGrants, LoseRole, EndRole, roleVars
        <3>2. QED
            BY <1>1, <1>3, <3>1 DEF RolesInv, Differences
    <2>4. QED
        BY <2>1, <2>2, <2>3
<1>10. Unborn'
    BY <1>1, <1>2, <1>3, StatementMoves DEF RolesInv, Unborn, Ended, Others, Alike
<1>11. Loaded'
    <2>1. ASSUME \/ Kind(r) \in {"UpdateRole", "DeleteRole"} /\ pc'[r] \in {"store", "commit"}
                 \/ Kind(r) = "SetPermissions" /\ pc'[r] \in Granting \cup {"commit", "done"}
          PROVE  LET x == ask[r].role
                 IN  /\ role[x] # None /\ role[x].company = ask[r].company
                     /\ Kind(r) = "DeleteRole" => x[2] \notin SystemRoles
                     /\ Kind(r) = "SetPermissions" => x[2] # "OWNER"
        <3>1. CASE LoadRole(r) /\ pc'[r] # "refused"
            <4>1. LET w == role[ask[r].role]
                  IN  w # None /\ ~w.deleted /\ w.company = ask[r].company /\ ~Protected(r, w)
                BY <3>1 DEF LoadRole, GoTo, SessionsInv, SessionsLabelled
            <4>2. ask[r].role \in RoleIds
                BY <2>1 DEF RolesInv, RolesAsked
            <4>3. QED
                BY <4>1, <4>2 DEF Protected, CanDelete, IsOwnerRole, RolesInv, Sound, SystemRoles
        <3>2. CASE ~(LoadRole(r) /\ pc'[r] # "refused")
            <4>1. \/ Kind(r) \in {"UpdateRole", "DeleteRole"} /\ pc[r] \in {"store", "commit"}
                  \/ Kind(r) = "SetPermissions" /\ pc[r] \in Granting \cup {"commit", "done"}
                BY <2>1, <3>2, StatementMoves DEF InsertRole, StoreRole, RevokeGrants, RolesInv, RolesLabelled, Granting
            <4>2. QED
                BY <4>1 DEF RolesInv, Loaded
        <3>3. QED
            BY <3>1, <3>2
    <2>2. QED
        BY <1>1, <1>2, <1>3, <2>1 DEF RolesInv, Loaded, Others, Alike
<1>12. QED
    BY <1>4, <1>5, <1>6, <1>7, <1>8, <1>9, <1>10, <1>11 DEF RolesInv

\* What a commit makes of the roles: those that the request inserted are there, and
\* one that it saved back or deleted is otherwise what it was.
Saves(r) == pc[r] = "commit" /\ Kind(r) \in {"UpdateRole", "DeleteRole"}

Regrants(r) == pc[r] = "commit" /\ Kind(r) = "SetPermissions"

LEMMA FreshRows ==
    ASSUME NEW c \in Companies, NEW n \in RoleNames
    PROVE  /\ RoleRow(c, n) \in RoleRows /\ RoleRow(c, n) # None
           /\ RoleRow(c, n).company = c /\ RoleRow(c, n).name = n
           /\ RoleRow(c, n).system <=> n \in SystemRoles
           /\ ~RoleRow(c, n).deleted
<1>1. RoleRow(c, n) \in RoleRows
    BY DEF RoleRow, RoleRows
<1>2. RoleRow(c, n) # None
    BY <1>1, RolesAssumption
<1>3. RoleRow(c, n).company = c /\ RoleRow(c, n).name = n /\ ~RoleRow(c, n).deleted
    BY DEF RoleRow
<1>4. RoleRow(c, n).system <=> n \in SystemRoles
    BY Zenon DEF RoleRow
<1>5. QED
    BY <1>1, <1>2, <1>3, <1>4

LEMMA FreshGrants ==
    ASSUME NEW codes
    PROVE  /\ Fresh(codes) \in [Codes -> GrantRows]
           /\ \A k \in Codes : Fresh(codes)[k].live <=> k \in codes
<1>1. \A k \in Codes : [live |-> k \in codes, dead |-> 0] \in GrantRows
    BY DEF GrantRows
<1>2. QED
    BY <1>1 DEF Fresh

LEMMA RolesCommitted ==
    ASSUME SessionsInv, RolesInv, NEW r \in Requests, CommitProvision(r) \/ CommitRole(r)
    PROVE  /\ role' \in [RoleIds -> RoleRows \cup {None}]
           /\ \A x \in drafted[r] : role[x] = None /\ role'[x] = RoleRow(ask[r].company, x[2])
           /\ \A x \in RoleIds \ drafted[r] :
                \/ role'[x] = role[x]
                \/ /\ Saves(r) /\ x = ask[r].role
                   /\ role[x] # None /\ role'[x] # None
                   /\ role'[x].company = role[x].company /\ role'[x].name = role[x].name
                   /\ role'[x].system <=> role[x].system
                   /\ role'[x].deleted <=> Kind(r) = "DeleteRole"
<1>1. Kind(r) \in RoleKinds /\ ask[r].company \in Companies
    BY RoleMoves DEF RoleStep, RolesInv, RolesAsked
<1>2. \A x \in drafted[r] : x \in RoleIds /\ role[x] = None /\ RoleRow(ask[r].company, x[2]) \in RoleRows
    <2>1. ASSUME NEW x \in drafted[r]
          PROVE  x \in RoleIds /\ role[x] = None /\ RoleRow(ask[r].company, x[2]) \in RoleRows
        <3>1. x \in RoleIds /\ x = <<r, x[2]>> /\ x[2] \in RoleNames
            BY DEF RolesInv, Inserting, RoleIds
        <3>2. CASE pc[r] = "provision"
            BY <1>1, <3>1, <3>2, FreshRows DEF RolesInv, Unborn
        <3>3. CASE pc[r] = "commit"
            <4>1. x[2] \notin SystemRoles
                BY <3>1, <3>3 DEF RolesInv, Inserting
            <4>2. QED
                BY <1>1, <3>1, <3>3, <4>1, FreshRows DEF RolesInv, Unborn
        <3>4. QED
            BY <3>2, <3>3 DEF CommitProvision, CommitRole
    <2>2. QED
        BY <2>1
<1>3. CASE CommitProvision(r)
    <2>1. role' = [x \in RoleIds |-> IF x \in drafted[r] THEN RoleRow(ask[r].company, x[2]) ELSE role[x]]
        BY <1>3 DEF CommitProvision
    <2>2. QED
        BY <1>2, <2>1 DEF RolesInv, RolesTypeOK
<1>4. CASE CommitRole(r) /\ Kind(r) = "CreateRole"
    <2>1. /\ role' = [role EXCEPT ![<<r, ask[r].name>>] = RoleRow(ask[r].company, ask[r].name)]
          /\ drafted[r] = {<<r, ask[r].name>>}
        BY <1>4 DEF CommitRole, RolesAfter, RolesInv, Inserting
    <2>2. <<r, ask[r].name>>[2] = ask[r].name
        OBVIOUS
    <2>3. QED
        BY <1>2, <2>1, <2>2 DEF RolesInv, RolesTypeOK
<1>5. CASE CommitRole(r) /\ Kind(r) \in {"UpdateRole", "DeleteRole"}
    <2>1. role' = [role EXCEPT ![ask[r].role].deleted = Kind(r) = "DeleteRole"] /\ Saves(r)
        BY <1>5 DEF CommitRole, RolesAfter, Saves
    <2>2. ask[r].role \in RoleIds /\ role[ask[r].role] # None
        BY <2>1 DEF Saves, RolesInv, RolesAsked, Loaded
    <2>3. role[ask[r].role] \in RoleRows
        BY <2>2 DEF RolesInv, RolesTypeOK
    <2>4. DEFINE w == role[ask[r].role]
                 v == [w EXCEPT !.deleted = Kind(r) = "DeleteRole"]
    <2>5. v \in RoleRows
        BY <2>3 DEF RoleRows
    <2>6. v.company = w.company /\ v.name = w.name /\ v.system = w.system /\ v.deleted = (Kind(r) = "DeleteRole")
        BY <2>3 DEF RoleRows
    <2>7. v # None
        BY <2>5, RolesAssumption
    <2>8. role' = [role EXCEPT ![ask[r].role] = v]
        BY <2>1
    <2>9. drafted[r] = {}
        BY <1>5 DEF CommitRole, RolesInv, Inserting
    <2> HIDE DEF v
    <2>10. role'[ask[r].role] = v /\ \A x \in RoleIds \ {ask[r].role} : role'[x] = role[x]
        BY <2>2, <2>8 DEF RolesInv, RolesTypeOK
    <2>11. role' \in [RoleIds -> RoleRows \cup {None}]
        BY <2>2, <2>5, <2>8, Replaced DEF RolesInv, RolesTypeOK
    <2>12. QED
        BY <2>1, <2>2, <2>6, <2>7, <2>9, <2>10, <2>11
<1>6. CASE CommitRole(r) /\ Kind(r) = "SetPermissions"
    <2>1. role' = role /\ drafted[r] = {}
        BY <1>6 DEF CommitRole, RolesAfter, RolesInv, Inserting
    <2>2. QED
        BY <2>1 DEF RolesInv, RolesTypeOK
<1>7. QED
    BY <1>1, <1>3, <1>4, <1>5, <1>6 DEF RoleKinds

\* And of the grants.
LEMMA GrantsCommitted ==
    ASSUME SessionsInv, RolesInv, NEW r \in Requests, CommitProvision(r) \/ CommitRole(r)
    PROVE  /\ grant' \in [RoleIds -> [Codes -> GrantRows]]
           /\ \A x \in drafted[r] : pc[r] = "provision" => grant'[x] = Fresh(Defaults[x[2]])
           /\ \A x \in RoleIds \ drafted[r] :
                grant'[x] = grant[x] \/ (Regrants(r) /\ x = ask[r].role)
           /\ Regrants(r) => \A k \in Codes : grant'[ask[r].role][k] = Cell(r, k)
<1>1. Kind(r) \in RoleKinds
    BY RoleMoves DEF RoleStep
<1>2. grant \in [RoleIds -> [Codes -> GrantRows]]
    BY DEF RolesInv, RolesTypeOK
<1>3. CASE CommitProvision(r)
    <2>1. grant' = [x \in RoleIds |-> IF x \in drafted[r] THEN Fresh(Defaults[x[2]]) ELSE grant[x]]
        BY <1>3 DEF CommitProvision
    <2>2. drafted[r] \subseteq RoleIds
        BY DEF RolesInv, RolesTypeOK
    <2>3. grant' \in [RoleIds -> [Codes -> GrantRows]]
        BY <1>2, <2>1, FreshGrants
    <2>4. ~Regrants(r)
        BY <1>3 DEF CommitProvision, Regrants
    <2>5. QED
        BY <2>1, <2>2, <2>3, <2>4
<1>4. CASE CommitRole(r) /\ Kind(r) = "CreateRole"
    <2>1. /\ grant' = [grant EXCEPT ![<<r, ask[r].name>>] = Fresh(ask[r].codes)]
          /\ drafted[r] = {<<r, ask[r].name>>} /\ pc[r] = "commit" /\ ~Regrants(r)
        BY <1>4 DEF CommitRole, GrantsAfter, RolesInv, Inserting, Regrants
    <2>2. <<r, ask[r].name>> \in RoleIds
        BY <2>1 DEF RolesInv, RolesTypeOK
    <2>3. grant' \in [RoleIds -> [Codes -> GrantRows]]
        BY <1>2, <2>1, <2>2, FreshGrants, Replaced
    <2>4. QED
        BY <1>2, <2>1, <2>2, <2>3
<1>5. CASE CommitRole(r) /\ Kind(r) = "SetPermissions"
    <2>1. /\ grant' = [grant EXCEPT ![ask[r].role] = [k \in Codes |-> Cell(r, k)]]
          /\ drafted[r] = {} /\ pc[r] = "commit" /\ Regrants(r)
        BY <1>5 DEF CommitRole, GrantsAfter, RolesInv, Inserting, Regrants
    <2>2. ask[r].role \in RoleIds
        BY <1>5 DEF RolesInv, RolesAsked
    <2>3. [k \in Codes |-> Cell(r, k)] \in [Codes -> GrantRows]
        BY <1>5, CellRows
    <2>4. grant' \in [RoleIds -> [Codes -> GrantRows]]
        BY <1>2, <2>1, <2>2, <2>3, Replaced
    <2>5. QED
        BY <1>2, <2>1, <2>2, <2>4
<1>6. CASE CommitRole(r) /\ Kind(r) \in {"UpdateRole", "DeleteRole"}
    <2>1. grant' = grant /\ ~Regrants(r) /\ pc[r] = "commit"
        BY <1>6 DEF CommitRole, GrantsAfter, Regrants
    <2>2. QED
        BY <1>2, <2>1
<1>7. QED
    BY <1>1, <1>3, <1>4, <1>5, <1>6 DEF RoleKinds

LEMMA CommitMoves ==
    ASSUME SessionsInv, RolesInv, NEW r \in Requests, CommitProvision(r) \/ CommitRole(r)
    PROVE  /\ UNCHANGED <<ask, account, tenancyVars, missing, delta, absent, granted>>
           /\ \A q \in Others(r) : Alike(q)
           /\ drafted' = [drafted EXCEPT ![r] = {}] /\ drafted'[r] = {}
           /\ cells' \in {cells, [cells EXCEPT ![r] = Untouched]}
           /\ \/ CommitProvision(r) /\ pc[r] = "provision" /\ pc'[r] = "again" /\ missing[r] = {}
              \/ CommitRole(r) /\ pc[r] = "commit" /\ pc'[r] = "done" /\ cells'[r] = Untouched
           /\ Kind(r) \in RoleKinds
<1>1. UNCHANGED <<ask, account, tenancyVars, missing, delta, absent, granted>>
    BY DEF CommitProvision, CommitRole, EndRole
<1>2. Kind(r) \in RoleKinds /\ \A q \in Others(r) : Alike(q)
    BY RoleMoves DEF RoleStep
<1>3. drafted' = [drafted EXCEPT ![r] = {}] /\ cells' \in {cells, [cells EXCEPT ![r] = Untouched]}
    BY DEF CommitProvision, CommitRole, EndRole
<1>4. drafted'[r] = {}
    BY <1>3 DEF RolesInv, RolesTypeOK
<1>5. \/ CommitProvision(r) /\ pc[r] = "provision" /\ pc'[r] = "again" /\ missing[r] = {}
      \/ CommitRole(r) /\ pc[r] = "commit" /\ pc'[r] = "done" /\ cells'[r] = Untouched
    BY DEF CommitProvision, CommitRole, EndRole, GoTo, SessionsInv, SessionsLabelled, RolesInv, RolesTypeOK
<1>6. QED
    BY <1>1, <1>2, <1>3, <1>4, <1>5

LEMMA CommitKeepsRoles ==
    ASSUME SessionsInv, RolesInv, NEW r \in Requests, CommitProvision(r) \/ CommitRole(r)
    PROVE  RolesInv'
<1>1. /\ UNCHANGED <<ask, missing, delta, absent, granted, acting>>
      /\ \A q \in Others(r) : Alike(q)
      /\ Kind(r) \in RoleKinds
      /\ \/ pc[r] = "provision" /\ pc'[r] = "again"
         \/ pc[r] = "commit" /\ pc'[r] = "done"
    BY CommitMoves DEF tenancyVars
<1>2. \A q : Kind(q)' = Kind(q)
    BY <1>1 DEF Kind
<1>3. drafted'[r] = {}
    BY CommitMoves
<1>4. RolesAsked' /\ Differences'
    BY <1>1, <1>2 DEF RolesInv, RolesAsked, Differences
<1>5. RolesLabelled'
    BY <1>1, <1>2 DEF RolesInv, RolesLabelled, RoleLabels, Resolving, Granting, Ended, Others, Alike
<1>6. RolesTypeOK'
    <2>1. role' \in [RoleIds -> RoleRows \cup {None}] /\ grant' \in [RoleIds -> [Codes -> GrantRows]]
        BY RolesCommitted, GrantsCommitted
    <2>2. drafted' \in [Requests -> SUBSET RoleIds]
        <3>1. drafted \in [Requests -> SUBSET RoleIds] /\ {} \in SUBSET RoleIds
            BY DEF RolesInv, RolesTypeOK
        <3>2. [drafted EXCEPT ![r] = {}] \in [Requests -> SUBSET RoleIds]
            BY <3>1, Replaced
        <3>3. QED
            BY <3>2, CommitMoves
    <2>3. cells' \in [Requests -> [Codes -> GrantRows \cup {None}]]
        <3>1. cells \in [Requests -> [Codes -> GrantRows \cup {None}]]
            BY DEF RolesInv, RolesTypeOK
        <3>2. Untouched \in [Codes -> GrantRows \cup {None}]
            BY DEF Untouched
        <3>3. [cells EXCEPT ![r] = Untouched] \in [Requests -> [Codes -> GrantRows \cup {None}]]
            BY <3>1, <3>2, Replaced
        <3>4. QED
            BY <3>1, <3>3, CommitMoves
    <2>4. QED
        BY <1>1, <2>1, <2>2, <2>3 DEF RolesInv, RolesTypeOK
<1>7. Acting'
    BY <1>1, <1>2 DEF RolesInv, Acting, Resolving, Others, Alike
<1>8. Inserting'
    BY <1>1, <1>2, <1>3 DEF RolesInv, Inserting, Others, Alike
<1>9. Sound'
    <2>1. ASSUME NEW x \in RoleIds, role'[x] # None
          PROVE  /\ role'[x].name = x[2]
                 /\ role'[x].system <=> x[2] \in SystemRoles
                 /\ role'[x].system => ~role'[x].deleted
        <3>1. CASE x \in drafted[r]
            <4>1. role'[x] = RoleRow(ask[r].company, x[2])
                BY <3>1, RolesCommitted
            <4>2. x[2] \in RoleNames /\ ask[r].company \in Companies
                BY <1>1 DEF RoleIds, RolesInv, RolesAsked
            <4>3. QED
                BY <4>1, <4>2, FreshRows
        <3>2. CASE x \notin drafted[r]
            <4>1. CASE role'[x] = role[x]
                BY <2>1, <4>1 DEF RolesInv, Sound
            <4>2. CASE role'[x] # role[x]
                <5>1. /\ Saves(r) /\ x = ask[r].role
                      /\ role[x] # None /\ role'[x].name = role[x].name
                      /\ role'[x].system <=> role[x].system
                      /\ role'[x].deleted <=> Kind(r) = "DeleteRole"
                    BY <3>2, <4>2, RolesCommitted
                <5>2. /\ role[x].name = x[2]
                      /\ role[x].system <=> x[2] \in SystemRoles
                    BY <5>1 DEF RolesInv, Sound
                <5>3. Kind(r) = "DeleteRole" => x[2] \notin SystemRoles
                    BY <5>1 DEF RolesInv, Loaded, Saves
                <5>4. QED
                    BY <5>1, <5>2, <5>3
            <4>3. QED
                BY <4>1, <4>2
        <3>3. QED
            BY <3>1, <3>2
    <2>2. ASSUME NEW x \in RoleIds, role'[x] # None, x[2] = "OWNER"
          PROVE  \A k \in Codes : grant'[x][k].live
        <3>1. CASE x \in drafted[r]
            <4>1. pc[r] = "provision"
                BY <1>1, <2>2, <3>1 DEF RolesInv, Inserting, SystemRoles
            <4>2. grant'[x] = Fresh(Codes)
                BY <2>2, <3>1, <4>1, GrantsCommitted DEF Defaults
            <4>3. QED
                BY <4>2, FreshGrants
        <3>2. CASE x \notin drafted[r]
            <4>1. role[x] # None
                BY <2>2, <3>2, RolesCommitted
            <4>2. \A k \in Codes : grant[x][k].live
                BY <2>2, <4>1 DEF RolesInv, Sound, GrantedTo
            <4>3. ~(Regrants(r) /\ x = ask[r].role)
                BY <2>2 DEF Regrants, RolesInv, Loaded
            <4>4. QED
                BY <3>2, <4>2, <4>3, GrantsCommitted
        <3>3. QED
            BY <3>1, <3>2
    <2>3. QED
        BY <2>1, <2>2 DEF Sound, GrantedTo
<1>10. Unborn'
    <2>1. ASSUME NEW q \in Requests, NEW n \in RoleNames, role'[<<q, n>>] # None
          PROVE  /\ Kind(q) \in RoleKinds /\ pc'[q] \notin {"start", "resolve", "list", "provision"}
                 /\ n \notin SystemRoles => pc'[q] = "done"
        <3>1. <<q, n>> \in RoleIds
            BY RolesAssumption DEF RoleIds
        <3>2. CASE <<q, n>> \in drafted[r]
            <4>1. q = r
                BY <3>2 DEF RolesInv, Inserting
            <4>2. n \notin SystemRoles => pc[r] = "commit"
                BY <3>2 DEF RolesInv, Inserting
            <4>3. QED
                BY <1>1, <4>1, <4>2
        <3>3. CASE <<q, n>> \notin drafted[r]
            <4>1. role[<<q, n>>] # None
                BY <2>1, <3>1, <3>3, RolesCommitted
            <4>2. /\ Kind(q) \in RoleKinds /\ pc[q] \notin {"start", "resolve", "list", "provision"}
                  /\ n \notin SystemRoles => pc[q] = "done"
                BY <4>1 DEF RolesInv, Unborn
            <4>3. QED
                BY <1>1, <4>2 DEF Others, Alike
        <3>4. QED
            BY <3>2, <3>3
    <2>2. QED
        BY <1>2, <2>1 DEF Unborn
<1>11. Loaded'
    <2>1. ASSUME NEW q \in Requests,
                 \/ Kind(q) \in {"UpdateRole", "DeleteRole"} /\ pc'[q] \in {"store", "commit"}
                 \/ Kind(q) = "SetPermissions" /\ pc'[q] \in Granting \cup {"commit", "done"}
          PROVE  LET x == ask[q].role
                 IN  /\ role'[x] # None /\ role'[x].company = ask[q].company
                     /\ Kind(q) = "DeleteRole" => x[2] \notin SystemRoles
                     /\ Kind(q) = "SetPermissions" => x[2] # "OWNER"
        <3>1. \/ Kind(q) \in {"UpdateRole", "DeleteRole"} /\ pc[q] \in {"store", "commit"}
              \/ Kind(q) = "SetPermissions" /\ pc[q] \in Granting \cup {"commit", "done"}
            BY <1>1, <2>1 DEF Others, Alike, Granting
        <3>2. /\ role[ask[q].role] # None /\ role[ask[q].role].company = ask[q].company
              /\ Kind(q) = "DeleteRole" => ask[q].role[2] \notin SystemRoles
              /\ Kind(q) = "SetPermissions" => ask[q].role[2] # "OWNER"
            BY <3>1 DEF RolesInv, Loaded
        <3>3. ask[q].role \in RoleIds
            BY <2>1 DEF RolesInv, RolesAsked
        <3>4. ask[q].role \notin drafted[r]
            BY <3>2, RolesCommitted
        <3>5. role'[ask[q].role] # None /\ role'[ask[q].role].company = role[ask[q].role].company
            BY <3>2, <3>3, <3>4, RolesCommitted
        <3>6. QED
            BY <3>2, <3>5
    <2>2. QED
        BY <1>1, <1>2, <2>1 DEF Loaded
<1>12. QED
    BY <1>4, <1>5, <1>6, <1>7, <1>8, <1>9, <1>10, <1>11 DEF RolesInv

\* A step that does nothing is one outside roles.
LEMMA NothingIsOutside ==
    ASSUME UNCHANGED vars
    PROVE  Outside
BY DEF vars, requestVars, tenancyVars, roleVars, Outside

LEMMA StepKinds ==
    ASSUME SessionsInv, TenancyInv, IndexInv, RolesInv, [Next]_vars
    PROVE  \/ Outside
           \/ \E r \in Requests : Statement(r) \/ CommitProvision(r) \/ CommitRole(r)
<1>1. CASE SessionsNext /\ UNCHANGED <<tenancyVars, roleVars>>
    BY <1>1, SessionsOutside
<1>2. CASE TenancyNext /\ UNCHANGED <<sessionVars, roleVars>>
    BY <1>2, TenancyOutside
<1>3. CASE RolesNext
    BY <1>3 DEF RolesNext, RoleStep, Statement
<1>4. CASE UNCHANGED vars
    BY <1>4, NothingIsOutside
<1>5. QED
    BY <1>1, <1>2, <1>3, <1>4 DEF Next

LEMMA StepKeepsRoles ==
    ASSUME SessionsInv, TenancyInv, IndexInv, RolesInv, [Next]_vars
    PROVE  RolesInv'
BY StepKinds, OutsideKeepsRoles, StatementKeepsRoles, CommitKeepsRoles

-----------------------------------------------------------------------------
(* A company's roles have different names. *)

LEMMA EntriesOf ==
    \A r, e : e \in Entries(r) <=>
        \/ \E x \in drafted[r] : e = <<ask[r].company, x[2]>>
        \/ Saves(r) /\ e = <<ask[r].company, ask[r].role[2]>>
BY DEF Entries, Saves

LEMMA NamesStart == Init => NamesInv
<1> SUFFICES ASSUME Init PROVE NamesInv
    OBVIOUS
<1>1. PICK s \in Scenes : role = s.role
    BY DEF Init
<1>2. pc = [r \in Requests |-> "start"] /\ \A r \in Requests : drafted[r] = {}
    BY DEF Init, RolesInit
<1>3. \A r \in Requests : Entries(r) = {}
    BY <1>2 DEF Entries
<1>4. OneName
    BY <1>1, RoleScenesAssumption DEF OneName, LiveRoles
<1>5. QED
    BY <1>2, <1>3, <1>4 DEF NamesInv, Unnamed, EntriesApart, Free

LEMMA OutsideKeepsNames ==
    ASSUME RolesInv, NamesInv, Outside
    PROVE  NamesInv'
<1>1. UNCHANGED <<ask, role, drafted>> /\ \A r : Kind(r)' = Kind(r)
    BY DEF Outside, roleVars, Kind
<1>2. \A c, n : Named(c, n)' = Named(c, n)
    BY <1>1 DEF Named, LiveRoles
<1>3. \A r \in Requests : Kind(r) \in {"UpdateRole", "DeleteRole"} => (pc'[r] = "commit" <=> pc[r] = "commit")
    BY DEF Outside, RoleKinds
<1>4. \A r \in Requests : Entries(r)' = Entries(r)
    BY <1>1, <1>3 DEF Entries
<1>5. OneName'
    BY <1>1 DEF NamesInv, OneName, LiveRoles
<1>6. QED
    BY <1>1, <1>2, <1>3, <1>4, <1>5 DEF NamesInv, Unnamed, EntriesApart, Free

\* A statement takes an entry only when nobody else holds it.
LEMMA StatementKeepsNames ==
    ASSUME SessionsInv, RolesInv, NamesInv, NEW r \in Requests, Statement(r)
    PROVE  NamesInv'
<1>1. /\ UNCHANGED <<ask, role>>
      /\ \A q \in Others(r) : pc'[q] = pc[q] /\ drafted'[q] = drafted[q]
    BY RoleMoves, StatementMoves DEF Statement, RoleStep, Alike
<1>2. \A q : Kind(q)' = Kind(q)
    BY <1>1 DEF Kind
<1>3. \A c, n : Named(c, n)' = Named(c, n)
    BY <1>1 DEF Named, LiveRoles
<1>4. \A q \in Others(r) : Entries(q)' = Entries(q)
    BY <1>1, <1>2 DEF Entries
<1>5. \A x \in drafted'[r] :
        x \in drafted[r] \/ (Named(ask[r].company, x[2]) = {} /\ ~HeldByOthers(r, x[2]))
    <2>1. CASE Provision(r)
        <3>1. PICK name \in missing[r] :
                /\ ~HeldByOthers(r, name)
                /\ IF Named(ask[r].company, name) = {}
                   THEN drafted' = [drafted EXCEPT ![r] = @ \cup {<<r, name>>}]
                   ELSE drafted' = [drafted EXCEPT ![r] = {}]
            BY <2>1 DEF Provision
        <3>2. \A x \in drafted'[r] :
                x \in drafted[r] \/ (x = <<r, name>> /\ Named(ask[r].company, name) = {})
            BY <3>1 DEF RolesInv, RolesTypeOK
        <3>3. <<r, name>>[2] = name
            OBVIOUS
        <3>4. QED
            BY <3>1, <3>2, <3>3
    <2>2. CASE InsertRole(r)
        <3>1. /\ ~HeldByOthers(r, ask[r].name)
              /\ \/ drafted' = [drafted EXCEPT ![r] = {<<r, ask[r].name>>}]
                    /\ Named(ask[r].company, ask[r].name) = {}
                 \/ drafted' = drafted
            BY <2>2 DEF InsertRole
        <3>2. \A x \in drafted'[r] :
                x \in drafted[r] \/ (x = <<r, ask[r].name>> /\ Named(ask[r].company, ask[r].name) = {})
            BY <3>1 DEF RolesInv, RolesTypeOK
        <3>3. <<r, ask[r].name>>[2] = ask[r].name
            OBVIOUS
        <3>4. QED
            BY <3>1, <3>2, <3>3
    <2>3. QED
        BY <2>1, <2>2 DEF Statement, ResolveRole, ListRoles, CheckName, LoadRole, StoreRole, Diff, Revive,
            FindHeld, InsertGrants, RevokeGrants, LoseRole, EndRole, roleVars, RolesInv, RolesTypeOK
<1>6. Kind(r) \in {"UpdateRole", "DeleteRole"} /\ pc'[r] = "commit" =>
        /\ ~HeldByOthers(r, ask[r].role[2])
        /\ Kind(r) = "UpdateRole" => Named(ask[r].company, ask[r].role[2]) \subseteq {ask[r].role}
    <2>1. Kind(r) \in {"UpdateRole", "DeleteRole"} /\ pc'[r] = "commit" => StoreRole(r)
        BY StatementMoves DEF InsertRole, RevokeGrants, RolesInv, RolesLabelled, Granting
    <2>2. QED
        BY <2>1 DEF StoreRole, GoTo, SessionsInv, SessionsLabelled
<1>7. Unnamed'
    BY <1>1, <1>3, <1>5 DEF NamesInv, Unnamed, Others
<1>8. EntriesApart'
    <2>1. ASSUME NEW q \in Others(r)
          PROVE  Entries(q)' \cap Entries(r)' = {}
        <3>1. ASSUME NEW e \in Entries(r)'
              PROVE  e \notin Entries(q)
            <4>1. CASE \E x \in drafted'[r] : e = <<ask[r].company, x[2]>>
                <5>1. PICK x \in drafted'[r] : e = <<ask[r].company, x[2]>>
                    BY <4>1
                <5>2. CASE x \in drafted[r]
                    BY <2>1, <5>1, <5>2, EntriesOf DEF NamesInv, EntriesApart, Others
                <5>3. CASE x \notin drafted[r]
                    BY <1>5, <2>1, <5>1, <5>3 DEF HeldByOthers
                <5>4. QED
                    BY <5>2, <5>3
            <4>2. CASE /\ Kind(r) \in {"UpdateRole", "DeleteRole"} /\ pc'[r] = "commit"
                       /\ e = <<ask[r].company, ask[r].role[2]>>
                BY <1>6, <2>1, <4>2 DEF HeldByOthers
            <4>3. QED
                BY <1>1, <1>2, <3>1, <4>1, <4>2 DEF Entries
        <3>2. QED
            BY <1>4, <3>1
    <2>2. QED
        BY <1>4, <2>1 DEF NamesInv, EntriesApart, Others
<1>9. Free'
    BY <1>1, <1>2, <1>3, <1>6 DEF NamesInv, Free, Others
<1>10. OneName'
    BY <1>1 DEF NamesInv, OneName, LiveRoles
<1>11. QED
    BY <1>7, <1>8, <1>9, <1>10 DEF NamesInv

LEMMA NamedRoles ==
    \A c, n, x : x \in Named(c, n) <=>
        /\ x \in RoleIds /\ role[x] # None /\ ~role[x].deleted
        /\ role[x].company = c /\ role[x].name = n
BY DEF Named, LiveRoles

\* What a commit does to the roles of one name.
LEMMA NamesCommitted ==
    ASSUME SessionsInv, RolesInv, NEW r \in Requests, CommitProvision(r) \/ CommitRole(r), NEW c, NEW n
    PROVE  /\ <<c, n>> \notin Entries(r) => Named(c, n)' = Named(c, n)
           /\ \A x \in Named(c, n)' :
                \/ x \in Named(c, n)
                \/ x \in drafted[r] /\ c = ask[r].company /\ n = x[2] /\ x = <<r, n>>
                \/ /\ Saves(r) /\ Kind(r) = "UpdateRole" /\ x = ask[r].role
                   /\ c = ask[r].company /\ n = x[2]
<1>1. \A x : x \in Named(c, n)' <=>
        /\ x \in RoleIds /\ role'[x] # None /\ ~role'[x].deleted
        /\ role'[x].company = c /\ role'[x].name = n
    BY DEF Named, LiveRoles
<1>2. ask[r].company \in Companies
    BY CommitMoves DEF RolesInv, RolesAsked
<1>3. ASSUME NEW x \in drafted[r]
      PROVE  /\ x = <<r, x[2]>> /\ role[x] = None
             /\ x \in Named(c, n)' <=> c = ask[r].company /\ n = x[2]
    <2>1. x \in RoleIds /\ x = <<r, x[2]>> /\ x[2] \in RoleNames
        BY DEF RolesInv, Inserting, RoleIds
    <2>2. role[x] = None /\ role'[x] = RoleRow(ask[r].company, x[2])
        BY RolesCommitted
    <2>3. QED
        BY <1>1, <1>2, <2>1, <2>2, FreshRows
<1>4. ASSUME NEW x \in RoleIds \ drafted[r], role'[x] # role[x]
      PROVE  /\ Saves(r) /\ x = ask[r].role
             /\ x \in Named(c, n)' => Kind(r) = "UpdateRole"
             /\ x \in Named(c, n) \/ x \in Named(c, n)' => c = ask[r].company /\ n = x[2]
    <2>1. /\ Saves(r) /\ x = ask[r].role
          /\ role[x] # None /\ role'[x] # None
          /\ role'[x].company = role[x].company /\ role'[x].name = role[x].name
          /\ role'[x].deleted <=> Kind(r) = "DeleteRole"
        BY <1>4, RolesCommitted
    <2>2. role[x].company = ask[r].company /\ role[x].name = x[2]
        BY <2>1 DEF Saves, RolesInv, Loaded, Sound
    <2>3. QED
        BY <1>1, <2>1, <2>2, NamedRoles DEF Saves
<1>5. \A x \in RoleIds \ drafted[r] : role'[x] = role[x] => (x \in Named(c, n)' <=> x \in Named(c, n))
    BY <1>1, NamedRoles
<1>6. ASSUME <<c, n>> \notin Entries(r)
      PROVE  Named(c, n)' = Named(c, n)
    <2>1. ASSUME NEW x
          PROVE  x \in Named(c, n)' <=> x \in Named(c, n)
        <3>1. CASE x \in drafted[r]
            BY <1>3, <1>6, <3>1, EntriesOf, NamedRoles
        <3>2. CASE x \in RoleIds \ drafted[r]
            BY <1>4, <1>5, <1>6, <3>2, EntriesOf
        <3>3. QED
            BY <1>1, <3>1, <3>2, NamedRoles
    <2>2. QED
        BY <2>1
<1>7. QED
    BY <1>1, <1>3, <1>4, <1>5, <1>6

LEMMA CommitKeepsNames ==
    ASSUME SessionsInv, RolesInv, NamesInv, NEW r \in Requests, CommitProvision(r) \/ CommitRole(r)
    PROVE  NamesInv'
<1>1. /\ UNCHANGED ask
      /\ \A q \in Others(r) : pc'[q] = pc[q] /\ drafted'[q] = drafted[q]
      /\ drafted'[r] = {} /\ pc'[r] # "commit"
    BY CommitMoves DEF Alike
<1>2. \A q : Kind(q)' = Kind(q)
    BY <1>1 DEF Kind
<1>3. Entries(r)' = {} /\ \A q \in Others(r) : Entries(q)' = Entries(q)
    BY <1>1, <1>2 DEF Entries
<1>4. EntriesApart'
    BY <1>3 DEF NamesInv, EntriesApart, Others
<1>5. \A q \in Others(r) : \A c, n : <<c, n>> \in Entries(q) => Named(c, n)' = Named(c, n)
    <2>1. ASSUME NEW q \in Others(r), NEW c, NEW n, <<c, n>> \in Entries(q)
          PROVE  Named(c, n)' = Named(c, n)
        <3>1. <<c, n>> \notin Entries(r)
            BY <2>1 DEF NamesInv, EntriesApart, Others
        <3>2. QED
            BY <3>1, NamesCommitted
    <2>2. QED
        BY <2>1
<1>6. Unnamed'
    <2>1. ASSUME NEW q \in Others(r), NEW x \in drafted[q], NEW c, c = ask[q].company
          PROVE  Named(c, x[2])' = {}
        <3>1. <<c, x[2]>> \in Entries(q)
            BY <2>1, EntriesOf
        <3>2. Named(c, x[2]) = {}
            BY <2>1 DEF NamesInv, Unnamed, Others
        <3>3. QED
            BY <1>5, <3>1, <3>2
    <2>2. QED
        BY <1>1, <2>1 DEF Unnamed, Others
<1>7. Free'
    <2>1. ASSUME NEW q \in Others(r), Kind(q) = "UpdateRole", pc[q] = "commit",
                 NEW c, c = ask[q].company, NEW n, n = ask[q].role[2]
          PROVE  Named(c, n)' \subseteq {ask[q].role}
        <3>1. <<c, n>> \in Entries(q)
            BY <2>1, EntriesOf DEF Saves
        <3>2. Named(c, n) \subseteq {ask[q].role}
            BY <2>1 DEF NamesInv, Free, Others
        <3>3. QED
            BY <1>5, <3>1, <3>2
    <2>2. QED
        BY <1>1, <1>2, <2>1 DEF Free, Others
<1>8. OneName'
    <2>1. ASSUME NEW x \in LiveRoles', NEW y \in LiveRoles',
                 role'[x].company = role'[y].company, role'[x].name = role'[y].name
          PROVE  x = y
        <3>1. PICK c, n : c = role'[x].company /\ n = role'[x].name
            OBVIOUS
        <3>2. x \in Named(c, n)' /\ y \in Named(c, n)'
            BY <2>1, <3>1 DEF Named
        <3>3. \A u, v \in Named(c, n) : u = v
            BY DEF NamesInv, OneName, Named
        <3>4. \A z \in drafted[r] : c = ask[r].company /\ n = z[2] => Named(c, n) = {}
            BY DEF NamesInv, Unnamed
        <3>5. Saves(r) /\ Kind(r) = "UpdateRole" /\ c = ask[r].company /\ n = ask[r].role[2] =>
                Named(c, n) \subseteq {ask[r].role} /\ drafted[r] = {}
            BY DEF Saves, NamesInv, Free, RolesInv, Inserting
        <3>6. \A z \in {x, y} :
                \/ z \in Named(c, n)
                \/ z \in drafted[r] /\ c = ask[r].company /\ n = z[2] /\ z = <<r, n>>
                \/ /\ Saves(r) /\ Kind(r) = "UpdateRole" /\ z = ask[r].role
                   /\ c = ask[r].company /\ n = z[2]
            BY <3>2, NamesCommitted
        <3>7. CASE \E z \in {x, y} : z \in drafted[r] /\ c = ask[r].company /\ n = z[2]
            <4>1. Named(c, n) = {}
                BY <3>4, <3>7
            <4>2. drafted[r] # {}
                BY <3>7
            <4>3. QED
                BY <3>5, <3>6, <4>1, <4>2
        <3>8. CASE ~ \E z \in {x, y} : z \in drafted[r] /\ c = ask[r].company /\ n = z[2]
            BY <3>3, <3>5, <3>6, <3>8
        <3>9. QED
            BY <3>7, <3>8
    <2>2. QED
        BY <2>1 DEF OneName
<1>9. QED
    BY <1>4, <1>6, <1>7, <1>8 DEF NamesInv

LEMMA StepKeepsNames ==
    ASSUME SessionsInv, TenancyInv, IndexInv, RolesInv, NamesInv, [Next]_vars
    PROVE  NamesInv'
BY StepKinds, OutsideKeepsNames, StatementKeepsNames, CommitKeepsNames

-----------------------------------------------------------------------------
(* Provisioning leaves no system role out, and its roles stay. *)

LEMMA ProvisionStart == Init => ProvisionInv
BY DEF Init, RolesInit, ProvisionInv, Covered, OwnerMayAll

LEMMA SystemRolesStay ==
    ASSUME SessionsInv, RolesInv, NEW r \in Requests, CommitProvision(r) \/ CommitRole(r),
           NEW c, NEW n \in SystemRoles, Named(c, n) # {}
    PROVE  Named(c, n)' # {}
<1>1. PICK x : x \in Named(c, n)
    OBVIOUS
<1>2. x \in RoleIds /\ role[x] # None /\ ~role[x].deleted /\ role[x].company = c /\ role[x].name = n
    BY <1>1, NamedRoles
<1>3. x[2] = n
    BY <1>2 DEF RolesInv, Sound
<1>4. x \notin drafted[r]
    BY <1>2, RolesCommitted
<1>5. ~(Saves(r) /\ x = ask[r].role /\ Kind(r) = "DeleteRole")
    BY <1>3 DEF Saves, RolesInv, Loaded
<1>6. role'[x] # None /\ ~role'[x].deleted /\ role'[x].company = c /\ role'[x].name = n
    BY <1>2, <1>4, <1>5, RolesCommitted
<1>7. x \in Named(c, n)'
    BY <1>2, <1>6 DEF Named, LiveRoles
<1>8. QED
    BY <1>7

\* A system role comes only with the others.
LEMMA SystemRolesCome ==
    ASSUME SessionsInv, RolesInv, ProvisionInv, NEW r \in Requests, CommitProvision(r) \/ CommitRole(r), NEW c
    PROVE  /\ CommitProvision(r) /\ c = ask[r].company => \A n \in SystemRoles : Named(c, n)' # {}
           /\ \A n \in SystemRoles : Named(c, n) = {} /\ Named(c, n)' # {} =>
                CommitProvision(r) /\ c = ask[r].company
<1>1. ASSUME CommitProvision(r), c = ask[r].company, NEW n \in SystemRoles
      PROVE  Named(c, n)' # {}
    <2>1. pc[r] = "provision" /\ missing[r] = {}
        BY <1>1 DEF CommitProvision
    <2>2. Named(c, n) # {} \/ <<r, n>> \in drafted[r]
        BY <1>1, <2>1 DEF ProvisionInv, Covered
    <2>3. CASE <<r, n>> \in drafted[r]
        <3>1. <<r, n>> \in RoleIds /\ role'[<<r, n>>] = RoleRow(c, n) /\ c \in Companies /\ n \in RoleNames
            BY <1>1, <2>3, RolesCommitted, CommitMoves, RolesAssumption DEF RolesInv, RolesAsked, RolesTypeOK
        <3>2. <<r, n>> \in Named(c, n)'
            BY <3>1, FreshRows DEF Named, LiveRoles
        <3>3. QED
            BY <3>2
    <2>4. QED
        BY <1>1, <2>2, <2>3, SystemRolesStay
<1>2. ASSUME NEW n \in SystemRoles, Named(c, n) = {}, Named(c, n)' # {}
      PROVE  CommitProvision(r) /\ c = ask[r].company
    <2>1. PICK x : x \in Named(c, n)'
        BY <1>2
    <2>2. \/ x \in drafted[r] /\ c = ask[r].company /\ n = x[2]
          \/ Saves(r) /\ x = ask[r].role /\ c = ask[r].company /\ n = x[2]
        BY <1>2, <2>1, NamesCommitted
    <2>3. CASE Saves(r) /\ x = ask[r].role /\ c = ask[r].company /\ n = x[2]
        <3>1. x \in RoleIds /\ role[x] # None /\ role[x].company = c
            BY <2>3 DEF Saves, RolesInv, RolesAsked, Loaded
        <3>2. role[x].name = n /\ ~role[x].deleted
            BY <1>2, <2>3, <3>1 DEF RolesInv, Sound
        <3>3. QED
            BY <1>2, <3>1, <3>2, NamedRoles
    <2>4. CASE x \in drafted[r] /\ c = ask[r].company /\ n = x[2]
        <3>1. pc[r] # "commit"
            BY <1>2, <2>4 DEF RolesInv, Inserting
        <3>2. QED
            BY <2>4, <3>1 DEF CommitRole
    <2>5. QED
        BY <2>2, <2>3, <2>4
<1>3. QED
    BY <1>1, <1>2

LEMMA CommitKeepsProvision ==
    ASSUME SessionsInv, RolesInv, ProvisionInv, NEW r \in Requests, CommitProvision(r) \/ CommitRole(r)
    PROVE  ProvisionInv'
<1>1. /\ UNCHANGED <<ask, missing, granted, acting>>
      /\ \A q \in Others(r) : pc'[q] = pc[q] /\ drafted'[q] = drafted[q]
      /\ pc'[r] # "provision" /\ (pc'[r] = "again" => CommitProvision(r))
    BY CommitMoves DEF Alike, tenancyVars
<1>2. \A c : \A n \in SystemRoles : Named(c, n) # {} => Named(c, n)' # {}
    BY SystemRolesStay
<1>3. \A c : AllNamed(c) => \A n \in SystemRoles : Named(c, n)' # {}
    BY <1>2 DEF AllNamed
<1>4. Covered'
    <2>1. ASSUME NEW q \in Others(r), NEW c, c = ask[q].company, pc[q] = "provision"
          PROVE  /\ \A n \in SystemRoles : Named(c, n)' # {} \/ n \in missing[q] \/ <<q, n>> \in drafted[q]
                 /\ \A n \in missing[q] : Named(c, n)' # {} =>
                      \A m \in SystemRoles : Named(c, m)' # {}
        <3>1. ASSUME NEW n \in missing[q], Named(c, n)' # {}
              PROVE  \A m \in SystemRoles : Named(c, m)' # {}
            <4>1. n \in SystemRoles
                BY <3>1 DEF RolesInv, RolesTypeOK, Others
            <4>2. CASE Named(c, n) # {}
                BY <1>3, <2>1, <3>1, <4>2 DEF ProvisionInv, Covered, Others
            <4>3. CASE Named(c, n) = {}
                BY <3>1, <4>1, <4>3, SystemRolesCome
            <4>4. QED
                BY <4>2, <4>3
        <3>2. QED
            BY <1>2, <2>1, <3>1 DEF ProvisionInv, Covered, Others
    <2>2. ASSUME NEW q \in Requests, NEW c, c = ask[q].company, pc'[q] = "again"
          PROVE  \A n \in SystemRoles : Named(c, n)' # {}
        <3>1. CASE q = r
            BY <1>1, <2>2, <3>1, SystemRolesCome
        <3>2. CASE q \in Others(r)
            BY <1>1, <1>3, <2>2, <3>2 DEF ProvisionInv, Covered
        <3>3. QED
            BY <3>1, <3>2 DEF Others
    <2>3. QED
        BY <1>1, <2>1, <2>2 DEF Covered, AllNamed, Others
<1>5. OwnerMayAll'
    <2>1. ASSUME NEW q \in Requests, granted[q] # None, NEW c, c = ask[q].company, NEW n, n = acting[q]
          PROVE  Named(c, n)' # {} /\ (n = "OWNER" => granted[q] = Codes)
        <3>1. n \in SystemRoles
            BY <2>1 DEF RolesInv, Acting
        <3>2. Named(c, n) # {} /\ (n = "OWNER" => granted[q] = Codes)
            BY <2>1 DEF ProvisionInv, OwnerMayAll
        <3>3. QED
            BY <1>2, <3>1, <3>2
    <2>2. QED
        BY <1>1, <2>1 DEF OwnerMayAll
<1>6. QED
    BY <1>4, <1>5 DEF ProvisionInv

\* What a request finds for its own role: a role, and for OWNER every permission.
LEMMA ResolvedWell ==
    ASSUME RolesInv, ProvisionInv, NEW r \in Requests, ResolveRole(r), NEW c, c = ask[r].company,
           granted'[r] # granted[r]
    PROVE  /\ Named(c, acting[r]) # {}
           /\ acting[r] = "OWNER" => granted'[r] = Codes
<1>1. acting[r] \in SystemRoles
    BY DEF ResolveRole, RolesInv, Acting, Resolving
<1>2. Named(c, acting[r]) # {}
    <2>1. CASE pc[r] = "again"
        BY <1>1, <2>1 DEF ProvisionInv, Covered, AllNamed
    <2>2. CASE pc[r] = "resolve"
        BY <2>2 DEF ResolveRole
    <2>3. QED
        BY <2>1, <2>2 DEF ResolveRole
<1>3. ASSUME acting[r] = "OWNER"
      PROVE  granted'[r] = Codes
    <2>1. granted'[r] = Permitted(Named(c, acting[r]))
        BY DEF ResolveRole, RolesInv, Acting
    <2>2. \A x \in Named(c, acting[r]) : GrantedTo(x) = Codes
        BY <1>3, NamedRoles DEF RolesInv, Sound
    <2>3. QED
        BY <1>2, <2>1, <2>2 DEF Permitted
<1>4. QED
    BY <1>2, <1>3

LEMMA StatementKeepsProvision ==
    ASSUME SessionsInv, RolesInv, ProvisionInv, NEW r \in Requests, Statement(r)
    PROVE  ProvisionInv'
<1>1. /\ UNCHANGED <<ask, acting, role>>
      /\ \A q \in Others(r) : Alike(q)
    BY RoleMoves, StatementMoves DEF Statement, RoleStep, tenancyVars
<1>2. \A c, n : Named(c, n)' = Named(c, n)
    BY <1>1 DEF Named, LiveRoles
<1>3. \A c : AllNamed(c)' <=> AllNamed(c)
    BY <1>2 DEF AllNamed
<1>4. ASSUME NEW c, c = ask[r].company
      PROVE  /\ pc'[r] = "provision" =>
                  /\ \A n \in SystemRoles :
                       Named(c, n) # {} \/ n \in missing'[r] \/ <<r, n>> \in drafted'[r]
                  /\ \A n \in missing'[r] : Named(c, n) # {} => AllNamed(c)
             /\ pc'[r] = "again" => AllNamed(c)
    <2>1. CASE ListRoles(r)
        <3>1. /\ missing'[r] = {n \in SystemRoles : Named(c, n) = {}}
              /\ pc'[r] = "again" => missing'[r] = {}
            BY <1>4, <2>1 DEF ListRoles, GoTo, RolesInv, RolesTypeOK, SessionsInv, SessionsLabelled
        <3>2. QED
            BY <3>1 DEF AllNamed
    <2>2. CASE Provision(r)
        <3>1. /\ \A n \in SystemRoles : Named(c, n) # {} \/ n \in missing[r] \/ <<r, n>> \in drafted[r]
              /\ \A n \in missing[r] : Named(c, n) # {} => AllNamed(c)
            BY <1>4, <2>2 DEF Provision, ProvisionInv, Covered
        <3>2. PICK name \in missing[r] :
                IF Named(c, name) = {}
                THEN /\ drafted' = [drafted EXCEPT ![r] = @ \cup {<<r, name>>}]
                     /\ missing' = [missing EXCEPT ![r] = @ \ {name}]
                     /\ pc' = pc
                ELSE GoTo(r, "again")
            BY <1>4, <2>2 DEF Provision
        <3>3. CASE Named(c, name) = {}
            <4>1. drafted'[r] = drafted[r] \cup {<<r, name>>} /\ missing'[r] = missing[r] \ {name} /\ pc' = pc
                BY <3>2, <3>3 DEF RolesInv, RolesTypeOK
            <4>2. pc[r] = "provision"
                BY <2>2 DEF Provision
            <4>3. QED
                BY <3>1, <4>1, <4>2
        <3>4. CASE Named(c, name) # {}
            <4>1. pc'[r] = "again" /\ AllNamed(c)
                BY <3>1, <3>2, <3>4 DEF GoTo, SessionsInv, SessionsLabelled
            <4>2. QED
                BY <4>1
        <3>5. QED
            BY <3>3, <3>4
    <2>3. CASE ~ListRoles(r) /\ ~Provision(r)
        <3>1. pc'[r] # "provision"
            BY <2>3, StatementMoves
        <3>2. ASSUME ResolveRole(r)
              PROVE  pc'[r] # "again"
            BY <3>2, RoleMoves, ResolveMoves DEF RoleStep
        <3>3. pc'[r] # "again"
            BY <2>3, <3>2 DEF Statement, CheckName, InsertRole, LoadRole, StoreRole, Diff, Revive,
                FindHeld, InsertGrants, RevokeGrants, LoseRole, EndRole, GoTo, SessionsInv, SessionsLabelled
        <3>4. QED
            BY <3>1, <3>3
    <2>4. QED
        BY <2>1, <2>2, <2>3
<1>5. Covered'
    <2>1. ASSUME NEW q \in Requests, NEW c, c = ask[q].company
          PROVE  /\ pc'[q] = "provision" =>
                      /\ \A n \in SystemRoles :
                           Named(c, n) # {} \/ n \in missing'[q] \/ <<q, n>> \in drafted'[q]
                      /\ \A n \in missing'[q] : Named(c, n) # {} => AllNamed(c)
                 /\ pc'[q] = "again" => AllNamed(c)
        <3>1. CASE q = r
            BY <1>4, <2>1, <3>1
        <3>2. CASE q \in Others(r)
            BY <1>1, <2>1, <3>2 DEF ProvisionInv, Covered, Alike
        <3>3. QED
            BY <3>1, <3>2 DEF Others
    <2>2. QED
        BY <1>1, <1>2, <1>3, <2>1 DEF Covered
<1>6. OwnerMayAll'
    <2>1. ASSUME NEW q \in Requests, granted'[q] # None, NEW c, c = ask[q].company
          PROVE  /\ Named(c, acting[q]) # {}
                 /\ acting[q] = "OWNER" => granted'[q] = Codes
        <3>1. CASE granted'[q] = granted[q]
            BY <2>1, <3>1 DEF ProvisionInv, OwnerMayAll
        <3>2. CASE granted'[q] # granted[q]
            <4>1. q = r
                BY <1>1, <3>2 DEF Others, Alike
            <4>2. ResolveRole(r)
                BY <3>2 DEF Statement, ListRoles, Provision, CheckName, InsertRole, LoadRole, StoreRole, Diff,
                    Revive, FindHeld, InsertGrants, RevokeGrants, LoseRole, EndRole, roleVars
            <4>3. QED
                BY <2>1, <3>2, <4>1, <4>2, ResolvedWell
        <3>3. QED
            BY <3>1, <3>2
    <2>2. QED
        BY <1>1, <1>2, <2>1 DEF OwnerMayAll
<1>7. QED
    BY <1>5, <1>6 DEF ProvisionInv

LEMMA OutsideKeepsProvision ==
    ASSUME RolesInv, ProvisionInv, Outside
    PROVE  ProvisionInv'
<1>1. UNCHANGED <<ask, role, missing, drafted, granted>>
    BY DEF Outside, roleVars
<1>2. \A c, n : Named(c, n)' = Named(c, n)
    BY <1>1 DEF Named, LiveRoles
<1>3. \A c : AllNamed(c)' <=> AllNamed(c)
    BY <1>2 DEF AllNamed
<1>4. \A q \in Requests : pc'[q] \in {"provision", "again"} => pc'[q] = pc[q]
    BY DEF Outside, RoleLabels, Resolving, Ended
<1>5. \A q \in Requests : granted[q] # None => acting'[q] = acting[q]
    BY DEF Outside, RolesInv, Acting
<1>6. Covered'
    BY <1>1, <1>2, <1>3, <1>4 DEF ProvisionInv, Covered
<1>7. OwnerMayAll'
    BY <1>1, <1>2, <1>5 DEF ProvisionInv, OwnerMayAll
<1>8. QED
    BY <1>6, <1>7 DEF ProvisionInv

LEMMA StepKeepsProvision ==
    ASSUME SessionsInv, TenancyInv, IndexInv, RolesInv, ProvisionInv, [Next]_vars
    PROVE  ProvisionInv'
BY StepKinds, OutsideKeepsProvision, StatementKeepsProvision, CommitKeepsProvision

-----------------------------------------------------------------------------
(* Replacements of one role's permissions settle. *)

LEMMA GrantsStart == Init => GrantsInv
<1> SUFFICES ASSUME Init PROVE GrantsInv
    OBVIOUS
<1>1. \A r \in Requests : pc[r] = "start" /\ cells[r] = Untouched
    BY DEF Init, RolesInit
<1>2. \A r \in Requests : \A k \in Codes : cells[r][k] = None
    BY <1>1 DEF Untouched
<1>3. QED
    BY <1>1, <1>2 DEF GrantsInv, CellsWritten, Keeps, Drops, Working, Asking

\* A request that has not begun to change grants keeps and drops whatever there is.
LEMMA IdleAgrees ==
    ASSUME NEW r \in Requests, NEW k \in Codes, cells[r][k] = None, pc[r] \notin Working \cup {"done"}
    PROVE  Keeps(r, k) /\ Drops(r, k)
BY DEF Keeps, Drops, Working

LEMMA OutsideKeepsGrants ==
    ASSUME RolesInv, GrantsInv, Outside
    PROVE  GrantsInv'
<1>1. UNCHANGED <<ask, grant, cells, delta, absent>>
    BY DEF Outside, roleVars
<1>2. \A r : Kind(r)' = Kind(r)
    BY <1>1 DEF Kind
<1>3. \A r \in Requests : Kind(r) = "SetPermissions" =>
        pc'[r] = pc[r] \/ (pc[r] = "start" /\ pc'[r] \in {"resolve", "refused"})
    BY DEF Outside, RoleKinds
<1>4. CellsWritten'
    BY <1>1, <1>2, <1>3 DEF GrantsInv, CellsWritten
<1>5. \A x : Asking(x)' = Asking(x)
    BY <1>1, <1>2 DEF Asking
<1>6. \A x, k : (AllWant(x, k)' <=> AllWant(x, k)) /\ (NoneWants(x, k)' <=> NoneWants(x, k))
    BY <1>1, <1>5 DEF AllWant, NoneWants
<1>7. \A r, k : Cell(r, k)' = Cell(r, k)
    BY <1>1 DEF Cell
<1>8. \A r \in Requests : Kind(r) = "SetPermissions" => \A k \in Codes :
        (Keeps(r, k) => Keeps(r, k)') /\ (Drops(r, k) => Drops(r, k)')
    BY <1>1, <1>3, <1>7 DEF Keeps, Drops, Working
<1>9. QED
    BY <1>4, <1>5, <1>6, <1>8 DEF GrantsInv, Asking

\* Each statement keeps what every request wants, and drops what none does.
LEMMA StatementAgrees ==
    ASSUME SessionsInv, RolesInv, CellsWritten, NEW r \in Requests, Statement(r), Kind(r) = "SetPermissions",
           NEW k \in Codes
    PROVE  /\ k \in ask[r].codes /\ Keeps(r, k) => Keeps(r, k)'
           /\ k \notin ask[r].codes /\ Drops(r, k) => Drops(r, k)'
<1> DEFINE x == ask[r].role
<1>1. UNCHANGED <<ask, grant>> /\ x \in RoleIds
    BY RoleMoves, StatementMoves DEF Statement, RoleStep, RolesInv, RolesAsked
<1>2. /\ delta[r].add \subseteq ask[r].codes /\ delta[r].remove \cap ask[r].codes = {}
      /\ absent[r] \subseteq ask[r].codes
    BY DEF RolesInv, Differences
<1>3. Cell(r, k)' = IF cells'[r][k] # None THEN cells'[r][k] ELSE grant[x][k]
    BY <1>1 DEF Cell
<1>4. Cell(r, k) = IF cells[r][k] # None THEN cells[r][k] ELSE grant[x][k]
    BY DEF Cell
<1>5. CASE Diff(r)
    <2>1. /\ delta'[r] = [add |-> ask[r].codes \ GrantedTo(x), remove |-> GrantedTo(x) \ ask[r].codes]
          /\ cells' = cells /\ absent' = absent
          /\ pc'[r] = IF ask[r].codes \subseteq GrantedTo(x) THEN "ungrant" ELSE "revive"
        BY <1>5 DEF Diff, Difference, GoTo, RolesInv, RolesTypeOK, SessionsInv, SessionsLabelled
    <2>2. cells[r][k] = None
        BY <1>5 DEF Diff, CellsWritten
    <2>3. k \in GrantedTo(x) <=> grant[x][k].live
        BY DEF GrantedTo
    <2>4. QED
        BY <1>1, <1>3, <2>1, <2>2, <2>3 DEF Keeps, Drops, Working
<1>6. CASE Revive(r)
    <2>1. /\ delta' = delta /\ absent' = absent /\ cells[r][k] = None
          /\ \/ pc'[r] = "duplicate" /\ cells' = cells
             \/ /\ pc'[r] = "held"
                /\ cells'[r][k] = cells[r][k] \/ (cells'[r][k] = [live |-> TRUE, dead |-> 0] /\ k \in delta[r].add)
        <3>1. PICK dead \in SUBSET delta[r].add :
                \/ GoTo(r, "duplicate") /\ cells' = cells
                \/ /\ cells' = [cells EXCEPT ![r] =
                         [j \in Codes |-> IF j \in dead THEN [live |-> TRUE, dead |-> 0] ELSE cells[r][j]]]
                   /\ GoTo(r, "held")
            BY <1>6 DEF Revive
        <3>2. pc[r] = "revive" /\ delta' = delta /\ absent' = absent
            BY <1>6 DEF Revive
        <3>3. cells[r][k] = None
            BY <3>2 DEF CellsWritten
        <3>4. CASE GoTo(r, "duplicate") /\ cells' = cells
            BY <3>2, <3>3, <3>4 DEF GoTo, SessionsInv, SessionsLabelled
        <3>5. CASE GoTo(r, "held") /\ cells' = [cells EXCEPT ![r] =
                [j \in Codes |-> IF j \in dead THEN [live |-> TRUE, dead |-> 0] ELSE cells[r][j]]]
            <4>1. cells'[r] = [j \in Codes |-> IF j \in dead THEN [live |-> TRUE, dead |-> 0] ELSE cells[r][j]]
                BY <3>5 DEF RolesInv, RolesTypeOK
            <4>2. cells'[r][k] = IF k \in dead THEN [live |-> TRUE, dead |-> 0] ELSE cells[r][k]
                BY <4>1
            <4>3. pc'[r] = "held"
                BY <3>5 DEF GoTo, SessionsInv, SessionsLabelled
            <4>4. QED
                BY <3>2, <3>3, <4>2, <4>3
        <3>6. QED
            BY <3>1, <3>4, <3>5
    <2>2. pc[r] \in Working
        BY <1>6 DEF Revive, Working
    <2>3. QED
        BY <1>1, <1>2, <2>1, <2>2 DEF Keeps, Drops, Working
<1>7. CASE FindHeld(r)
    <2>1. /\ delta' = delta /\ cells' = cells /\ pc'[r] = "grant"
          /\ absent'[r] = {j \in delta[r].add : ~Cell(r, j).live} /\ pc[r] \in Working
        BY <1>7 DEF FindHeld, GoTo, RolesInv, RolesTypeOK, SessionsInv, SessionsLabelled, Working
    <2>2. QED
        BY <1>1, <1>3, <1>4, <2>1 DEF Keeps, Drops, Working
<1>8. CASE InsertGrants(r)
    <2>1. /\ delta' = delta /\ absent' = absent /\ pc[r] = "grant"
          /\ \/ pc'[r] = "duplicate" /\ cells'[r] = Untouched
             \/ /\ pc'[r] = "ungrant"
                /\ k \in absent[r] => cells'[r][k] = [Cell(r, k) EXCEPT !.live = TRUE]
                /\ k \notin absent[r] => cells'[r][k] = cells[r][k]
        <3>1. /\ delta' = delta /\ absent' = absent /\ pc[r] = "grant"
              /\ \/ pc' = [pc EXCEPT ![r] = "duplicate"] /\ cells' = [cells EXCEPT ![r] = Untouched]
                 \/ /\ pc' = [pc EXCEPT ![r] = "ungrant"]
                    /\ cells' = [cells EXCEPT ![r] = [j \in Codes |->
                         IF j \in absent[r] THEN [Cell(r, j) EXCEPT !.live = TRUE] ELSE cells[r][j]]]
            BY <1>8 DEF InsertGrants, GoTo
        <3>2. cells' = [cells EXCEPT ![r] = cells'[r]] /\ pc'[r] \in {"duplicate", "ungrant"}
            BY <3>1 DEF RolesInv, RolesTypeOK, SessionsInv, SessionsLabelled
        <3>3. CASE pc'[r] = "duplicate"
            BY <3>1, <3>3 DEF RolesInv, RolesTypeOK, SessionsInv, SessionsLabelled
        <3>4. CASE pc'[r] = "ungrant"
            <4>1. cells'[r] = [j \in Codes |->
                    IF j \in absent[r] THEN [Cell(r, j) EXCEPT !.live = TRUE] ELSE cells[r][j]]
                BY <3>1, <3>4 DEF RolesInv, RolesTypeOK, SessionsInv, SessionsLabelled
            <4>2. QED
                BY <3>1, <3>4, <4>1
        <3>5. QED
            BY <3>2, <3>3, <3>4
    <2>2. [Cell(r, k) EXCEPT !.live = TRUE].live /\ [Cell(r, k) EXCEPT !.live = TRUE] \in GrantRows
        BY CellRows DEF GrantRows
    <2>3. [Cell(r, k) EXCEPT !.live = TRUE] # None
        BY <2>2, RolesAssumption
    <2>4. CASE pc'[r] = "duplicate"
        BY <1>1, <2>1, <2>4 DEF Keeps, Drops, Working, Untouched
    <2>5. CASE pc'[r] = "ungrant" /\ k \in absent[r]
        BY <1>1, <1>2, <1>3, <2>1, <2>2, <2>3, <2>5 DEF Keeps, Drops, Working
    <2>6. CASE pc'[r] = "ungrant" /\ k \notin absent[r]
        BY <1>1, <1>3, <1>4, <2>1, <2>6 DEF Keeps, Drops, Working
    <2>7. QED
        BY <2>1, <2>4, <2>5, <2>6
<1>9. CASE RevokeGrants(r)
    <2>1. /\ delta' = delta /\ absent' = absent /\ pc[r] = "ungrant" /\ pc'[r] = "commit"
          /\ IF k \in delta[r].remove /\ Cell(r, k).live
             THEN cells'[r][k] = [live |-> FALSE, dead |-> Cell(r, k).dead + 1]
             ELSE cells'[r][k] = cells[r][k]
        BY <1>9 DEF RevokeGrants, GoTo, RolesInv, RolesTypeOK, SessionsInv, SessionsLabelled
    <2>2. Cell(r, k).dead + 1 \in Nat
        BY CellRows DEF GrantRows
    <2>3. [live |-> FALSE, dead |-> Cell(r, k).dead + 1] # None
        <3>1. [live |-> FALSE, dead |-> Cell(r, k).dead + 1] \in GrantRows
            BY <2>2 DEF GrantRows
        <3>2. QED
            BY <3>1, RolesAssumption
    <2>4. QED
        BY <1>1, <1>2, <1>3, <1>4, <2>1, <2>3 DEF Keeps, Drops, Working
<1>10. CASE ~Diff(r) /\ ~Revive(r) /\ ~FindHeld(r) /\ ~InsertGrants(r) /\ ~RevokeGrants(r)
    <2>1. pc'[r] \notin Working \cup {"done"}
        <3>1. pc'[r] \notin {"held", "grant", "ungrant", "revive", "commit"}
            BY <1>10, RoleMoves, ResolveMoves DEF Statement, RoleStep, Provision, ListRoles, CheckName, InsertRole,
                LoadRole, StoreRole, LoseRole, EndRole, GoTo, SessionsInv, SessionsLabelled, RolesInv, RolesLabelled
        <3>2. QED
            BY <3>1, StatementMoves DEF Working
    <2>2. cells'[r][k] \in {cells[r][k], None}
        BY <1>10 DEF Statement, ResolveRole, ListRoles, Provision, CheckName, InsertRole, LoadRole, StoreRole,
            LoseRole, EndRole, roleVars, Untouched, RolesInv, RolesTypeOK
    <2>3. QED
        BY <1>1, <2>1, <2>2 DEF Keeps, Drops, Working
<1>11. QED
    BY <1>5, <1>6, <1>7, <1>8, <1>9, <1>10

LEMMA StatementKeepsGrants ==
    ASSUME SessionsInv, RolesInv, GrantsInv, NEW r \in Requests, Statement(r)
    PROVE  GrantsInv'
<1>1. /\ UNCHANGED <<ask, grant>>
      /\ \A q \in Others(r) : Alike(q)
    BY RoleMoves, StatementMoves DEF Statement, RoleStep
<1>2. \A q : Kind(q)' = Kind(q)
    BY <1>1 DEF Kind
<1>3. \A x : Asking(x)' = Asking(x)
    BY <1>1, <1>2 DEF Asking
<1>4. \A x, k : (AllWant(x, k)' <=> AllWant(x, k)) /\ (NoneWants(x, k)' <=> NoneWants(x, k))
    BY <1>1, <1>3 DEF AllWant, NoneWants
<1>5. CellsWritten'
    <2>1. ASSUME NEW k \in Codes, cells'[r][k] # None
          PROVE  Kind(r) = "SetPermissions" /\ pc'[r] \in {"held", "grant", "ungrant", "commit"}
        <3>1. CASE Revive(r) \/ InsertGrants(r) \/ RevokeGrants(r)
            <4>1. Kind(r) = "SetPermissions"
                BY <3>1 DEF Revive, InsertGrants, RevokeGrants, RolesInv, RolesLabelled, Granting
            <4>2. pc'[r] \in {"held", "ungrant", "commit"} \/ (pc'[r] = "duplicate" /\ cells'[r] \in {cells[r], Untouched})
                BY <3>1 DEF Revive, InsertGrants, RevokeGrants, GoTo, SessionsInv, SessionsLabelled,
                    RolesInv, RolesTypeOK
            <4>3. Revive(r) => cells[r][k] = None
                BY DEF Revive, GrantsInv, CellsWritten
            <4>4. InsertGrants(r) /\ pc'[r] = "duplicate" => cells'[r] = Untouched
                BY DEF InsertGrants, GoTo, SessionsInv, SessionsLabelled, RolesInv, RolesTypeOK
            <4>5. RevokeGrants(r) => pc'[r] = "commit"
                BY DEF RevokeGrants, GoTo, SessionsInv, SessionsLabelled
            <4>6. QED
                BY <2>1, <3>1, <4>1, <4>2, <4>3, <4>4, <4>5 DEF Untouched
        <3>2. CASE ~(Revive(r) \/ InsertGrants(r) \/ RevokeGrants(r))
            <4>1. cells'[r] = cells[r] \/ cells'[r] = Untouched
                BY <3>2 DEF Statement, ResolveRole, ListRoles, Provision, CheckName, InsertRole, LoadRole, StoreRole,
                    Diff, FindHeld, LoseRole, EndRole, roleVars, RolesInv, RolesTypeOK
            <4>2. cells[r][k] # None /\ ~LoseRole(r)
                BY <2>1, <3>2, <4>1 DEF LoseRole, EndRole, Untouched, RolesInv, RolesTypeOK
            <4>3. Kind(r) = "SetPermissions" /\ pc[r] \in {"held", "grant", "ungrant", "commit"}
                BY <4>2 DEF GrantsInv, CellsWritten
            <4>4. FindHeld(r)
                BY <3>2, <4>2, <4>3 DEF Statement, ResolveRole, ListRoles, Provision, CheckName, InsertRole, LoadRole,
                    StoreRole, Diff
            <4>5. QED
                BY <4>3, <4>4 DEF FindHeld, GoTo, SessionsInv, SessionsLabelled
        <3>3. QED
            BY <3>1, <3>2
    <2>2. QED
        BY <1>1, <1>2, <2>1 DEF GrantsInv, CellsWritten, Others, Alike
<1>6. ASSUME NEW q \in Others(r), NEW k \in Codes
      PROVE  (Keeps(q, k) => Keeps(q, k)') /\ (Drops(q, k) => Drops(q, k)')
    <2>1. Cell(q, k)' = Cell(q, k)
        BY <1>1, <1>6 DEF Cell, Alike
    <2>2. QED
        BY <1>1, <1>6, <2>1 DEF Keeps, Drops, Alike
<1>7. ASSUME NEW x \in RoleIds, NEW q \in Asking(x), NEW k \in Codes
      PROVE  (AllWant(x, k) => Keeps(q, k)') /\ (NoneWants(x, k) => Drops(q, k)')
    <2>1. /\ q \in Requests /\ Kind(q) = "SetPermissions" /\ ask[q].role = x
          /\ AllWant(x, k) => Keeps(q, k) /\ k \in ask[q].codes
          /\ NoneWants(x, k) => Drops(q, k) /\ k \notin ask[q].codes
        BY <1>7 DEF GrantsInv, Asking, AllWant, NoneWants
    <2>2. CASE q = r
        BY <1>7, <2>1, <2>2, StatementAgrees DEF GrantsInv
    <2>3. CASE q \in Others(r)
        BY <1>6, <1>7, <2>1, <2>3
    <2>4. QED
        BY <2>1, <2>2, <2>3 DEF Others
<1>8. QED
    BY <1>3, <1>4, <1>5, <1>7 DEF GrantsInv

LEMMA CommitKeepsGrants ==
    ASSUME SessionsInv, RolesInv, GrantsInv, NEW r \in Requests, CommitProvision(r) \/ CommitRole(r)
    PROVE  GrantsInv'
<1>1. /\ UNCHANGED <<ask, delta, absent>>
      /\ \A q \in Others(r) : Alike(q)
      /\ \/ CommitProvision(r) /\ pc[r] = "provision" /\ pc'[r] = "again"
         \/ CommitRole(r) /\ pc[r] = "commit" /\ pc'[r] = "done"
    BY CommitMoves
<1>2. \A q : Kind(q)' = Kind(q)
    BY <1>1 DEF Kind
<1>3. \A x : Asking(x)' = Asking(x)
    BY <1>1, <1>2 DEF Asking
<1>4. \A x, k : (AllWant(x, k)' <=> AllWant(x, k)) /\ (NoneWants(x, k)' <=> NoneWants(x, k))
    BY <1>1, <1>3 DEF AllWant, NoneWants
<1>5. \A k \in Codes : cells'[r][k] = None
    <2>1. CASE CommitProvision(r)
        BY <2>1 DEF CommitProvision, GrantsInv, CellsWritten
    <2>2. CASE CommitRole(r)
        BY <2>2 DEF CommitRole, EndRole, Untouched, RolesInv, RolesTypeOK
    <2>3. QED
        BY <2>1, <2>2
<1>6. CellsWritten'
    BY <1>1, <1>2, <1>5 DEF GrantsInv, CellsWritten, Others, Alike
<1>7. ASSUME NEW x \in RoleIds, NEW q \in Asking(x), NEW k \in Codes
      PROVE  (AllWant(x, k) => Keeps(q, k)') /\ (NoneWants(x, k) => Drops(q, k)')
    <2>1. /\ q \in Requests /\ Kind(q) = "SetPermissions" /\ ask[q].role = x
          /\ AllWant(x, k) => Keeps(q, k)
          /\ NoneWants(x, k) => Drops(q, k)
        BY <1>7 DEF GrantsInv, Asking
    <2>2. Cell(q, k)' = IF cells'[q][k] # None THEN cells'[q][k] ELSE grant'[x][k]
        BY <1>1, <2>1 DEF Cell
    <2>3. CASE Regrants(r) /\ ask[r].role = x
        <3>1. r \in Asking(x) /\ pc[r] = "commit"
            BY <2>3 DEF Regrants, Asking
        <3>2. grant'[x][k] = Cell(r, k)
            BY <2>3, GrantsCommitted
        <3>3. AllWant(x, k) => grant'[x][k].live
            BY <3>1, <3>2 DEF GrantsInv, Keeps
        <3>4. NoneWants(x, k) => ~grant'[x][k].live
            BY <3>1, <3>2 DEF GrantsInv, Drops
        <3>5. CASE q = r
            <4>1. pc'[q] = "done" /\ cells'[q][k] = None
                BY <1>1, <1>5, <3>1, <3>5
            <4>2. QED
                BY <1>1, <2>1, <3>3, <3>4, <4>1 DEF Keeps, Drops, Working
        <3>6. CASE q \in Others(r)
            <4>1. pc'[q] = pc[q] /\ cells'[q] = cells[q]
                BY <1>1, <3>6 DEF Alike
            <4>2. AllWant(x, k) => Keeps(q, k)'
                BY <1>1, <2>1, <2>2, <3>3, <4>1 DEF Keeps
            <4>3. NoneWants(x, k) => Drops(q, k)'
                BY <1>1, <2>1, <2>2, <3>4, <4>1 DEF Drops
            <4>4. QED
                BY <4>2, <4>3
        <3>7. QED
            BY <2>1, <3>5, <3>6 DEF Others
    <2>4. CASE x \in drafted[r]
        <3>1. role[x] = None
            BY <2>4, RolesCommitted
        <3>2. pc[q] \notin Granting \cup {"commit", "done"}
            BY <2>1, <3>1 DEF RolesInv, Loaded
        <3>3. cells[q][k] = None
            BY <1>7, <2>1, <3>2 DEF GrantsInv, CellsWritten, Granting
        <3>4. pc'[q] \notin Working \cup {"done"} /\ cells'[q][k] = None
            BY <1>1, <1>5, <2>1, <3>2, <3>3 DEF Others, Alike, Granting, Working
        <3>5. QED
            BY <1>1, <2>1, <3>4 DEF Keeps, Drops, Working
    <2>5. CASE x \notin drafted[r] /\ ~(Regrants(r) /\ ask[r].role = x)
        <3>1. grant'[x] = grant[x]
            BY <2>5, GrantsCommitted
        <3>2. CASE q = r
            <4>1. CommitProvision(r)
                BY <1>1, <2>1, <2>5, <3>2 DEF Regrants
            <4>2. pc'[q] = "again" /\ cells'[q][k] = None
                BY <1>1, <1>5, <3>2, <4>1 DEF CommitProvision
            <4>3. QED
                BY <1>1, <2>1, <4>2 DEF Keeps, Drops, Working
        <3>3. CASE q \in Others(r)
            <4>1. pc'[q] = pc[q] /\ cells'[q] = cells[q]
                BY <1>1, <3>3 DEF Alike
            <4>2. Cell(q, k)' = Cell(q, k)
                BY <2>1, <2>2, <3>1, <4>1 DEF Cell
            <4>3. QED
                BY <1>1, <2>1, <3>1, <4>1, <4>2 DEF Keeps, Drops
        <3>4. QED
            BY <2>1, <3>2, <3>3 DEF Others
    <2>6. QED
        BY <2>3, <2>4, <2>5
<1>8. QED
    BY <1>3, <1>4, <1>6, <1>7 DEF GrantsInv

LEMMA StepKeepsGrants ==
    ASSUME SessionsInv, TenancyInv, IndexInv, RolesInv, GrantsInv, [Next]_vars
    PROVE  GrantsInv'
BY StepKinds, OutsideKeepsGrants, StatementKeepsGrants, CommitKeepsGrants

-----------------------------------------------------------------------------
(* The theorems. *)

\* The inductive invariant of roles: whoever inserts, saves, deletes or grants, every
\* row keeps its type, a role its name and company, and OWNER all its permissions
\* (the role entity's guards, LoadRole's checks, EnsureSystemRoles).
THEOREM RolesInvariant == Spec => []RolesInv
<1>1. Init => RolesInv
    BY RolesStart
<1>2. SessionsInv /\ TenancyInv /\ IndexInv /\ RolesInv /\ [Next]_vars => RolesInv'
    BY StepKeepsRoles
<1>3. QED
    BY <1>1, <1>2, SessionsInvariant, TenancyInvariant, IndexInvariant, PTL DEF Spec

\* The unique index of names: a request holds the entry of a name that it inserts or
\* saves back, which nobody else takes, and finds it free (Create, Save, the index
\* ux_roles_company_name).
THEOREM NamesInvariant == Spec => []NamesInv
<1>1. Init => NamesInv
    BY NamesStart
<1>2. SessionsInv /\ TenancyInv /\ IndexInv /\ RolesInv /\ NamesInv /\ [Next]_vars => NamesInv'
    BY StepKeepsNames
<1>3. QED
    BY <1>1, <1>2, SessionsInvariant, TenancyInvariant, IndexInvariant, RolesInvariant, PTL DEF Spec

\* However many first requests provision a company at once, a request that goes on
\* finds all its system roles (EnsureSystemRoles, findRole's retry).
THEOREM ProvisionInvariant == Spec => []ProvisionInv
<1>1. Init => ProvisionInv
    BY ProvisionStart
<1>2. SessionsInv /\ TenancyInv /\ IndexInv /\ RolesInv /\ ProvisionInv /\ [Next]_vars => ProvisionInv'
    BY StepKeepsProvision
<1>3. QED
    BY <1>1, <1>2, SessionsInvariant, TenancyInvariant, IndexInvariant, RolesInvariant, PTL DEF Spec

\* Whoever owns a company may do everything in it, and an administrator's request
\* always finds a role (PermissionsFor, the OWNER role's protection).
THEOREM OwnersMayAll == Spec => []OwnerMayAll
<1>1. ProvisionInv => OwnerMayAll
    BY DEF ProvisionInv
<1>2. QED
    BY ProvisionInvariant, <1>1, PTL

\* However replacements of one role's permissions overlap, each keeps what all of
\* them want and drops what none does, at every statement (applyGrants).
THEOREM GrantsInvariant == Spec => []GrantsInv
<1>1. Init => GrantsInv
    BY GrantsStart
<1>2. SessionsInv /\ TenancyInv /\ IndexInv /\ RolesInv /\ GrantsInv /\ [Next]_vars => GrantsInv'
    BY StepKeepsGrants
<1>3. QED
    BY <1>1, <1>2, SessionsInvariant, TenancyInvariant, IndexInvariant, RolesInvariant, PTL DEF Spec

\* And so once one of them has committed, what all ask for is granted and what none
\* asks for is not.
THEOREM GrantsSettle == Spec => []GrantsAgreed
<1>1. GrantsInv => GrantsAgreed
    BY DEF GrantsInv, GrantsAgreed, Asking, AllWant, NoneWants, Keeps, Drops
<1>2. QED
    BY GrantsInvariant, <1>1, PTL

\* Two requests that claim one thing never both get it: an address, a seat, a
\* company's code, a role's name.
THEOREM ClaimsAreSettled == Spec => []OneOfEach
<1>1. Registrations /\ IndexInv /\ NamesInv => OneOfEach
    <2>1. ASSUME Registrations, IndexInv, NamesInv
          PROVE  OneOfEach
        <3>1. \A c, d \in Companies : Open(c) /\ Open(d) /\ CodeOf[c] = CodeOf[d] => c = d
            BY <2>1 DEF IndexInv, OneCompany
        <3>2. \A m \in LiveSeats : Seats(seat[m].company, seat[m].user) = {m}
            BY <2>1 DEF IndexInv, OneSeat, Seats
        <3>3. \A x \in LiveRoles : Named(role[x].company, role[x].name) = {x}
            BY <2>1 DEF NamesInv, OneName, Named
        <3>4. \A q, r \in Requests :
                q # r /\ Kind(q) = "Register" /\ Kind(r) = "Register" /\ ask[q].user = ask[r].user
                    => ~ (pc[q] = "done" /\ pc[r] = "done")
            BY <2>1 DEF Registrations, Ended
        <3>5. QED
            BY <3>1, <3>2, <3>3, <3>4 DEF OneOfEach
    <2>2. QED
        BY <2>1
<1>2. QED
    BY <1>1, RegisteredOnce, IndexInvariant, NamesInvariant, PTL

\* Every variable of the program keeps its type.
THEOREM TypesHold == Spec => []TypeOK
<1> DEFINE Known == \A r \in Requests : Kind(r) \in SessionKinds \cup TenancyKinds \cup RoleKinds
<1>1. Init => Known
    BY RowsAssumption DEF Init, Kind
<1>2. SessionsInv /\ TenancyInv /\ IndexInv /\ RolesInv /\ Known /\ [Next]_vars => Known'
    <2>1. ASSUME SessionsInv, TenancyInv, IndexInv, RolesInv, [Next]_vars
          PROVE  ask' = ask
        BY <2>1, StepKinds, StatementMoves, RoleMoves, CommitMoves DEF Outside, Statement, RoleStep
    <2>2. QED
        BY <2>1 DEF Kind
<1>3. Spec => []Known
    BY <1>1, <1>2, SessionsInvariant, TenancyInvariant, IndexInvariant, RolesInvariant, PTL DEF Spec
<1>4. Registrations /\ Known /\ SessionsTypeOK /\ IndexInv /\ RolesInv => TypeOK
    BY DEF Registrations, IndexInv, RolesInv, TypeOK
<1>5. QED
    BY <1>3, <1>4, RegisteredOnce, SessionTypesHold, IndexInvariant, RolesInvariant, PTL
=============================================================================
