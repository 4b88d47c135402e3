------------------------------ MODULE MCAccess -------------------------------
(***************************************************************************)
(* Instances of Access for TLC.  Each scene is one contest.                *)
(***************************************************************************)
EXTENDS Access, TLC

CONSTANTS r1, r2, r3, u1, u2, u3, c1, c2, c3, m1, m2, n1, n2

\* c2 and c3 are founded with one code.
MCCodeOf == [c \in Companies |-> IF c = c1 THEN 1 ELSE 2]

MCSeatIds == Requests \cup {m1, m2}

MCTokens == 1..5

MCInserters == Requests \cup {None}

-----------------------------------------------------------------------------
Blank ==
    [account |-> [u \in Users |-> "ACTIVE"],
     token   |-> [t \in Tokens |-> None],
     company |-> [c \in Companies |-> None],
     seat    |-> [m \in SeatIds |-> None],
     role    |-> [x \in RoleIds |-> None],
     grant   |-> [x \in RoleIds |-> Fresh({})],
     asks    |-> {}]

Given(table, rows) == [x \in DOMAIN table |-> IF x \in DOMAIN rows THEN rows[x] ELSE table[x]]

\* Requests are interchangeable: every choice of three commands is carried once.
Mixes(commands) ==
    LET list == FoldSet(LAMBDA a, l : Append(l, a), <<>>, commands)
        n == 1..Len(list)
    IN  {(r1 :> list[i[1]]) @@ (r2 :> list[i[2]]) @@ (r3 :> list[i[3]]) :
            i \in {j \in n \X n \X n : j[1] <= j[2] /\ j[2] <= j[3]}}

-----------------------------------------------------------------------------
(* Sessions: a user with one session or at the limit of two *)

By(kind, user) == [kind |-> kind, user |-> user]

With(kind, t) == [kind |-> kind, token |-> t]

SessionScene(rows, asks) == [Blank EXCEPT !.token = Given(@, rows), !.asks = asks]

AtTheLimit ==
    SessionScene(<<Row(u1, 0), Row(u1, 0)>>,
        {By("Login", u1), With("Refresh", 1), With("Refresh", 2),
         With("Logout", 1)})

BelowTheLimit ==
    SessionScene(<<Row(u1, 0)>>,
        {By("Login", u1), With("Refresh", 1), With("Refresh", 2), With("Logout", 2), With("LogoutAll", 1)})

Arrivals ==
    [SessionScene(<<Row(u3, 0)>>,
        {By("Register", u2), By("Login", u2), By("Login", u3), With("Refresh", 1)})
     EXCEPT !.account = (u1 :> "ACTIVE") @@ (u2 :> None) @@ (u3 :> "LOCKED")]

-----------------------------------------------------------------------------
(* Companies and members: u1 owns c1, u2 administers it *)

In(kind, user, c) == [kind |-> kind, user |-> user, company |-> c]

Staffed ==
    [Blank EXCEPT
        !.company = Given(@, c1 :> CompanyRow(n1)),
        !.seat = Given(@, (m1 :> SeatRow(c1, u1, "OWNER", "ACTIVE"))
                              @@ (m2 :> SeatRow(c1, u2, "ADMIN", "ACTIVE")))]

Invitations == [kind : {"Invite"}, user : {u1, u2}, company : {c1}, invitee : {u3},
                as : {"STAFF"}]

Removals == [kind : {"Remove"}, user : {u1, u2}, company : {c1}, seat : {m1, m2}]

Updates == [kind : {"UpdateCompany"}, user : {u1, u2}, company : {c1}, change : {[name |-> n2]}]

Suspensions == [kind : {"UpdateCompany"}, user : {u1}, company : {c1}, change : {[status |-> "SUSPENDED"]}]

Foundings == [kind : {"CreateCompany"}, user : {u3}, company : {c2, c3}, name : {n1}]

MemberScene ==
    [Staffed EXCEPT
        !.asks = Invitations \cup Removals \cup Updates \cup Suspensions
                     \cup {In("DeleteCompany", u1, c1)},
        !.account = (u1 :> "ACTIVE") @@ (u2 :> "ACTIVE") @@ (u3 :> "INACTIVE")]

\* The invitee may only be registering, and may be offered what nobody may offer.
NewcomerScene ==
    [Staffed EXCEPT
        !.asks = {By("Register", u3)} \cup Foundings
                     \cup {[i EXCEPT !.as = name] : i \in Invitations, name \in {"ADMIN", "OWNER"}},
        !.account = (u1 :> "ACTIVE") @@ (u2 :> "ACTIVE") @@ (u3 :> None)]

\* Two companies in turn hold one code.
CodeScene ==
    [Staffed EXCEPT
        !.company = Given(@, (c1 :> CompanyRow(n1)) @@ (c2 :> CompanyRow(n1))),
        !.seat = [@ EXCEPT ![m2] = SeatRow(c2, u2, "OWNER", "ACTIVE")],
        !.asks = {f \in Foundings : f.company = c3} \cup {In("DeleteCompany", u2, c2)}
                     \cup [kind : {"UpdateCompany"}, user : {u2}, company : {c2}, change : {[name |-> n2]}]]

-----------------------------------------------------------------------------
(* Roles: not provisioned yet, or provisioned with one custom role *)

Custom == <<None, "PICKER">>

Wanted(codes) ==
    [kind |-> "SetPermissions", user |-> u1, company |-> c1, role |-> Custom, codes |-> codes]

On(kind, user, x) == [kind |-> kind, user |-> user, company |-> c1, role |-> x]

Creation(user) ==
    [kind |-> "CreateRole", user |-> user, company |-> c1, name |-> "PICKER", codes |-> {"role.read"}]

UnprovisionedScene ==
    [Staffed EXCEPT !.asks = {Creation(u1), Creation(u2),
        [Creation(u1) EXCEPT !.name = "STAFF"], In("DeleteCompany", u1, c1)}]

Provisioned ==
    [Staffed EXCEPT
        !.role = Given(@, [x \in {None} \X RoleNames |-> RoleRow(c1, x[2])]),
        !.grant = [x \in DOMAIN @ |->
            IF x = Custom
            THEN [Fresh({"role.read"}) EXCEPT !["role.update"].dead = 1, !["role.read"].dead = 1]
            ELSE IF x[1] = None THEN Fresh(Defaults[x[2]]) ELSE @[x]]]

GrantScene ==
    [Provisioned EXCEPT !.asks =
        {Wanted(codes) : codes \in {{}, {"role.update"}, {"role.create"}, {"role.create", "role.update"},
                                    {"role.read"}}}
            \cup {[Wanted({}) EXCEPT !.role = <<None, "OWNER">>], On("DeleteRole", u1, Custom)}]

CustomScene ==
    [Provisioned EXCEPT !.asks =
        {Creation(u1), On("UpdateRole", u1, Custom), On("DeleteRole", u1, Custom),
         On("UpdateRole", u2, Custom), On("DeleteRole", u1, <<None, "STAFF">>), Wanted({})}]

MCScenes ==
    {[s EXCEPT !.asks = Mixes(@)] :
        s \in {AtTheLimit, BelowTheLimit, Arrivals, MemberScene, NewcomerScene, CodeScene,
               UnprovisionedScene, GrantScene, CustomScene}}

UpdateScenes == {[MemberScene EXCEPT !.asks = Mixes(Updates)]}
=============================================================================
