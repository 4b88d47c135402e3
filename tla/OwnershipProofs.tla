--------------------------- MODULE OwnershipProofs ---------------------------
(***************************************************************************)
(* Proofs about who owns a company, for every set of requests, companies,  *)
(* people and scenes.                                                      *)
(*                                                                         *)
(* The argument: the last-owner rule counts and then deletes, and two      *)
(* removals could both count two owners.  They never do, because no        *)
(* operation makes a second owner: a company is founded with one, and      *)
(* nobody can be invited as one.  With a sole owner the count always       *)
(* refuses, so the seat that a removal deletes is never an owner's.        *)
(*                                                                         *)
(* Codes of companies and seats of people are each claimed once because a  *)
(* request writes only when the index lets it, holds what it writes until  *)
(* it commits, and nobody else can take it in between (IndexInv).          *)
(***************************************************************************)
EXTENDS Access, FiniteSetTheorems, TLAPS

TenancyLabels == {"start", "find", "owners", "write", "commit"} \cup Ended

OwnerOf(m, c) == OwnsIn(seat[m], c)

Owned(c) == \E m \in SeatIds : OwnerOf(m, c)

TenancyAsked ==
    \A r \in Requests :
        /\ Kind(r) \in TenancyKinds => ask[r].company \in Companies
        /\ Kind(r) = "Invite" => ask[r].invitee \in Users
        /\ Kind(r) = "Remove" => ask[r].seat \in SeatIds
        /\ Kind(r) = "CreateCompany" => ask[r].user \in Users

TenancyLabelled ==
    /\ pc = [r \in Requests |-> pc[r]]
    /\ \A r \in Requests : Kind(r) \in TenancyKinds => pc[r] \in TenancyLabels

Tables ==
    /\ company = [c \in Companies |-> company[c]]
    /\ seat \in [SeatIds -> SeatRows \cup {None}]

\* Ids are generated.
Distinct ==
    \A q, r \in Requests :
        q # r /\ Kind(q) = "CreateCompany" /\ Kind(r) = "CreateCompany" => ask[q].company # ask[r].company

Sole == \A c \in Companies : \A m, n \in SeatIds : OwnerOf(m, c) /\ OwnerOf(n, c) => m = n

\* A company that exists, and one that anybody has a seat in, is owned.
Founded ==
    \A c \in Companies :
        company[c] # None \/ (\E m \in SeatIds : seat[m] # None /\ seat[m].company = c) => Owned(c)

\* What a tenancy request has established by the time it writes.
Established ==
    \A r \in Requests :
        /\ Kind(r) \in {"Invite", "CreateCompany"} /\ pc[r] \notin Ended => seat[r] = None
        /\ Kind(r) = "CreateCompany" /\ pc[r] \notin Ended =>
             \A m \in SeatIds : seat[m] # None => seat[m].company # ask[r].company
        /\ \/ Kind(r) = "Invite" /\ pc[r] \in {"find", "write", "commit"}
           \/ Kind(r) = "UpdateCompany" /\ pc[r] \in {"write", "commit"}
           \/ Kind(r) = "DeleteCompany" /\ pc[r] = "commit"
           => Owned(ask[r].company)
        /\ Kind(r) = "Invite" /\ pc[r] \in {"write", "commit"} => ask[r].as \in Offerable
        /\ Kind(r) = "Remove" /\ pc[r] \in {"write", "commit"} =>
             seat[ask[r].seat] # None /\ seat[ask[r].seat].role # "OWNER"

TenancyInv ==
    /\ TenancyAsked
    /\ TenancyLabelled
    /\ Tables
    /\ Distinct
    /\ Sole
    /\ Founded
    /\ Established

\* The requests that are about to commit, each with its locks.
Writing(r) == pc[r] = "commit" /\ Kind(r) \in TenancyKinds

LocksApart ==
    \A q, r \in Requests : q # r /\ Writing(q) /\ Writing(r) => Locked(q) \cap Locked(r) = {}

\* What a request makes an entry of is free while it holds the entry's lock.
Vacant ==
    \A r \in Requests : pc[r] = "commit" =>
        /\ Kind(r) \in {"CreateCompany", "UpdateCompany"} => ~CodeTaken(ask[r].company)
        /\ Kind(r) = "Invite" => Seats(ask[r].company, ask[r].invitee) = {}

OneCompany == \A c, d \in Companies : Open(c) /\ Open(d) /\ CodeOf[c] = CodeOf[d] => c = d

OneSeat ==
    \A m, n \in LiveSeats :
        seat[m].company = seat[n].company /\ seat[m].user = seat[n].user => m = n

\* What will be written is a row.
Writable ==
    \A r \in Requests :
        /\ Kind(r) = "CreateCompany" => ask[r].name \in Names
        /\ Kind(r) = "UpdateCompany" =>
             /\ \A d \in CompanyRows : Amended(d, ask[r].change) \in CompanyRows
             /\ pc[r] # "owners"
        /\ Kind(r) = "UpdateCompany" /\ pc[r] \in {"write", "commit"} => opened[r] # None
        /\ Kind(r) = "DeleteCompany" /\ pc[r] = "commit" => company[ask[r].company] # None

IndexInv ==
    /\ TenancyTypeOK
    /\ Writable
    /\ LocksApart
    /\ Vacant
    /\ OneCompany
    /\ OneSeat

\* A company that is to be created is nobody's yet.
LEMMA NewCompanies ==
    ASSUME NEW s \in Scenes, NEW asked \in s.asks, NEW r \in Requests, NEW m \in SeatIds,
           asked[r].kind = "CreateCompany", s.seat[m] # None
    PROVE  s.seat[m].company # asked[r].company
BY NewCompaniesAssumption, Zenon

LEMMA TenancyStart == Init => TenancyInv
<1> SUFFICES ASSUME Init PROVE TenancyInv
    OBVIOUS
<1>1. PICK s \in Scenes : company = s.company /\ seat = s.seat /\ ask \in s.asks
    BY DEF Init
<1>2. pc = [r \in Requests |-> "start"] /\ Requests \subseteq SeatIds
    BY SeatsAssumption DEF Init
<1>3. TenancyAsked
    BY <1>1, CompaniesAssumption DEF TenancyAsked, Kind
<1>4. TenancyLabelled
    BY <1>2 DEF TenancyLabelled, TenancyLabels
<1>5. Tables
    BY <1>1, CompaniesAssumption DEF Tables
<1>6. Distinct
    BY DEF Init, Distinct
<1>7. Sole /\ Founded
    BY <1>1, CompaniesAssumption DEF Sole, Founded, Owned, OwnerOf
<1>8. Established
    <2>1. ASSUME NEW r \in Requests
          PROVE  /\ pc[r] = "start" /\ seat[r] = None
                 /\ Kind(r) = "CreateCompany" =>
                      \A m \in SeatIds : seat[m] # None => seat[m].company # ask[r].company
        <3>1. pc[r] = "start"
            BY <1>2
        <3>2. seat[r] = None
            BY <1>1, CompaniesAssumption
        <3>3. \A m \in SeatIds : ask[r].kind = "CreateCompany" /\ seat[m] # None
                => seat[m].company # ask[r].company
            BY <1>1, NewCompanies
        <3>4. QED
            BY <3>1, <3>2, <3>3 DEF Kind
    <2>2. QED
        BY <2>1 DEF Established
<1>9. QED
    BY <1>3, <1>4, <1>5, <1>6, <1>7, <1>8 DEF TenancyInv

-----------------------------------------------------------------------------
(* What the operations may count on. *)

\* There is nobody to count but the owner.
LEMMA OwnerIsLast ==
    ASSUME TenancyInv, NEW c \in Companies
    PROVE  LastOwner(c)
<1>1. \A m, n \in Owners(c) : m = n
    BY DEF TenancyInv, Sole, OwnerOf, OwnsIn, Owners, LiveSeats
<1>2. CASE Owners(c) = {}
    BY <1>2, FS_EmptySet DEF LastOwner
<1>3. CASE Owners(c) # {}
    <2>1. PICK m \in Owners(c) : Owners(c) = {m}
        BY <1>1, <1>3
    <2>2. Cardinality(Owners(c)) = 1
        BY <2>1, FS_Singleton
    <2>3. QED
        BY <2>2 DEF LastOwner
<1>4. QED
    BY <1>2, <1>3

LEMMA MembersAreOwned ==
    ASSUME TenancyInv, NEW c \in Companies, NEW u, ActiveSeats(c, u) # {}
    PROVE  Owned(c)
BY DEF TenancyInv, Founded, ActiveSeats, Seats, LiveSeats

-----------------------------------------------------------------------------
(* The statements that read. *)

Reads(r) ==
    \/ Enter(r) \/ CheckCode(r) \/ OpenCompany(r) \/ CloseCompany(r) \/ FindInvitee(r)
    \/ FindSeat(r) \/ CountOwners(r) \/ WriteTenancy(r) \/ LoseTenancy(r)

\* What a request goes on to have established.
Grounds(r) ==
    /\ \/ Kind(r) = "Invite" /\ pc'[r] \in {"find", "write", "commit"}
       \/ Kind(r) = "UpdateCompany" /\ pc'[r] \in {"write", "commit"}
       \/ Kind(r) = "DeleteCompany" /\ pc'[r] = "commit"
       => Owned(ask[r].company)
    /\ Kind(r) = "Invite" /\ pc'[r] \in {"write", "commit"} => ask[r].as \in Offerable
    /\ Kind(r) = "Remove" /\ pc'[r] \in {"write", "commit"} =>
         seat[ask[r].seat] # None /\ seat[ask[r].seat].role # "OWNER"

LEMMA ReadsGround ==
    ASSUME TenancyInv, NEW r \in Requests, Reads(r), Kind(r) \in TenancyKinds
    PROVE  Grounds(r)
<1>1. ask[r].company \in Companies
    BY DEF TenancyInv, TenancyAsked
<1>2. CASE Enter(r)
    <2>1. PICK c \in Contexts(r) :
            pc'[r] \in {"find", "refused"} /\ (pc'[r] = "find" => MayAct(c, ask[r].user))
        BY <1>2 DEF Enter, GoTo, TenancyInv, TenancyLabelled
    <2>2. Kind(r) = "Invite" /\ pc'[r] = "find" => Owned(ask[r].company)
        BY <1>1, <2>1, MembersAreOwned DEF Contexts, MayAct
    <2>3. QED
        BY <2>1, <2>2 DEF Grounds
<1>3. CASE CheckCode(r)
    BY <1>3 DEF CheckCode, Grounds
<1>4. CASE OpenCompany(r)
    <2>1. pc'[r] \in {"write", "refused"} /\ (pc'[r] = "write" => Owned(ask[r].company))
        BY <1>1, <1>4, MembersAreOwned DEF OpenCompany, GoTo, Accessible, TenancyInv, TenancyLabelled
    <2>2. QED
        BY <1>4, <2>1 DEF OpenCompany, Grounds
<1>5. CASE CloseCompany(r)
    BY <1>5 DEF CloseCompany, GoTo, Grounds, TenancyInv, TenancyLabelled
<1>6. CASE FindInvitee(r)
    BY <1>6 DEF FindInvitee, GoTo, Grounds, TenancyInv, TenancyLabelled, Established
<1>7. CASE FindSeat(r)
    BY <1>7 DEF FindSeat, GoTo, Grounds, TenancyInv, TenancyLabelled
<1>8. CASE CountOwners(r)
    BY <1>1, <1>8, OwnerIsLast DEF CountOwners, GoTo, Grounds, TenancyInv, TenancyLabelled
<1>9. CASE WriteTenancy(r)
    <2>1. pc[r] = "write" /\ pc'[r] = Verdict(r)
        BY <1>9 DEF WriteTenancy, GoTo, TenancyInv, TenancyLabelled
    <2>2. Verdict(r) \in {"duplicate", "refused", "commit"}
        BY DEF Verdict
    <2>3. Kind(r) = "DeleteCompany" /\ Verdict(r) = "commit" => Accessible(ask[r].company, ask[r].user)
        BY DEF Verdict
    <2>4. Kind(r) = "DeleteCompany" /\ Verdict(r) = "commit" => Owned(ask[r].company)
        BY <1>1, <2>3, MembersAreOwned DEF Accessible
    <2>5. QED
        BY <2>1, <2>2, <2>4 DEF Grounds, TenancyInv, Established
<1>10. CASE LoseTenancy(r)
    BY <1>10 DEF LoseTenancy, GoTo, Grounds, TenancyInv, TenancyLabelled
<1>11. QED
    BY <1>2, <1>3, <1>4, <1>5, <1>6, <1>7, <1>8, <1>9, <1>10 DEF Reads

LEMMA ReadsKeep ==
    ASSUME TenancyInv, NEW r \in Requests, Reads(r)
    PROVE  TenancyInv'
<1>1. UNCHANGED <<ask, company, seat>>
    BY DEF Reads, Enter, CheckCode, OpenCompany, CloseCompany, FindInvitee, FindSeat, CountOwners,
        WriteTenancy, LoseTenancy, tenancyVars
<1>2. pc' = [q \in Requests |-> pc'[q]] /\ \A q \in Others(r) : pc'[q] = pc[q]
    BY DEF Reads, Enter, CheckCode, OpenCompany, CloseCompany, FindInvitee, FindSeat, CountOwners,
        WriteTenancy, LoseTenancy, GoTo, Others, TenancyInv, TenancyLabelled
<1>3. /\ pc[r] \notin Ended
      /\ Kind(r) \in TenancyKinds => pc'[r] \in TenancyLabels
    BY DEF Reads, Enter, CheckCode, OpenCompany, CloseCompany, FindInvitee, FindSeat, CountOwners,
        WriteTenancy, LoseTenancy, Verdict, GoTo, TenancyInv, TenancyLabelled, TenancyLabels, Ended
<1>4. TenancyAsked' /\ Tables' /\ Distinct' /\ Sole' /\ Founded'
    BY <1>1 DEF TenancyInv, TenancyAsked, Tables, Distinct, Sole, Founded, Owned, OwnerOf, Kind
<1>5. TenancyLabelled'
    BY <1>1, <1>2, <1>3 DEF TenancyInv, TenancyLabelled, Others, Kind
<1>6. Established'
    <2>1. CASE Kind(r) \in TenancyKinds
        <3>1. Grounds(r)
            BY <2>1, ReadsGround
        <3>2. QED
            BY <1>1, <1>2, <1>3, <3>1 DEF TenancyInv, Established, Grounds, Others, Kind, Owned, OwnerOf
    <2>2. CASE Kind(r) \notin TenancyKinds
        BY <1>1, <1>2, <2>2 DEF TenancyInv, Established, Others, Kind, Owned, OwnerOf, TenancyKinds
    <2>3. QED
        BY <2>1, <2>2
<1>7. QED
    BY <1>4, <1>5, <1>6 DEF TenancyInv

-----------------------------------------------------------------------------
(* The statements that write: owners stay, and no second one is made. *)

\* What a commit does to the seats, by what the request is.
LEMMA CommitSeats ==
    ASSUME TenancyInv, NEW r \in Requests, CommitTenancy(r)
    PROVE  /\ seat' \in [SeatIds -> SeatRows \cup {None}]
           /\ \A m \in SeatIds : \A c \in Companies :
                OwnsIn(seat'[m], c) <=> OwnerOf(m, c)
                    \/ (Kind(r) = "CreateCompany" /\ m = r /\ c = ask[r].company)
           /\ \A m \in SeatIds : seat'[m] # None =>
                \/ m = r /\ Kind(r) \in {"CreateCompany", "Invite"} /\ seat'[m].company = ask[r].company
                \/ seat[m] # None /\ seat'[m].company = seat[m].company /\ seat'[m].role = seat[m].role
           /\ \A m \in SeatIds : seat[m] # None =>
                seat'[m] # None /\ seat'[m].role = seat[m].role
           /\ \A m \in SeatIds : seat[m] = None /\ m # r => seat'[m] = None
<1>1. Kind(r) \in TenancyKinds /\ pc[r] = "commit" /\ seat' = SeatsAfter(r)
      /\ ask[r].company \in Companies /\ r \in SeatIds
    BY SeatsAssumption DEF CommitTenancy, TenancyInv, TenancyAsked
<1>2. seat \in [SeatIds -> SeatRows \cup {None}]
    BY DEF TenancyInv, Tables
<1>3. CASE Kind(r) = "CreateCompany"
    <2>1. seat[r] = None /\ ask[r].user \in Users
        BY <1>1, <1>3 DEF TenancyInv, Established, TenancyAsked, Ended
    <2>2. seat' = [seat EXCEPT ![r] = SeatRow(ask[r].company, ask[r].user, "OWNER", "ACTIVE")]
        BY <1>1, <1>3 DEF SeatsAfter
    <2>3. SeatRow(ask[r].company, ask[r].user, "OWNER", "ACTIVE") \in SeatRows
        BY <1>1, <2>1 DEF SeatRow, SeatRows, SystemRoles
    <2>4. seat'[r] = SeatRow(ask[r].company, ask[r].user, "OWNER", "ACTIVE")
          /\ seat'[r] # None /\ \A m \in SeatIds \ {r} : seat'[m] = seat[m]
        BY <1>1, <1>2, <2>2, <2>3, SeatsAssumption
    <2>5. seat' \in [SeatIds -> SeatRows \cup {None}]
        BY <1>2, <2>2, <2>3
    <2>6. seat'[r].company = ask[r].company /\ seat'[r].role = "OWNER"
          /\ seat'[r].status = "ACTIVE" /\ seat'[r].removed = FALSE
        BY <2>4 DEF SeatRow
    <2>7. QED
        BY <1>1, <1>3, <2>1, <2>4, <2>5, <2>6 DEF OwnerOf, OwnsIn
<1>4. CASE Kind(r) = "Invite"
    <2>1. seat[r] = None /\ ask[r].invitee \in Users /\ ask[r].as \in Offerable
        BY <1>1, <1>4 DEF TenancyInv, Established, TenancyAsked, Ended
    <2>2. seat' = [seat EXCEPT ![r] = SeatRow(ask[r].company, ask[r].invitee, ask[r].as, "PENDING")]
        BY <1>1, <1>4 DEF SeatsAfter
    <2>3. SeatRow(ask[r].company, ask[r].invitee, ask[r].as, "PENDING") \in SeatRows
        BY <1>1, <2>1 DEF SeatRow, SeatRows, Offerable
    <2>4. seat'[r] = SeatRow(ask[r].company, ask[r].invitee, ask[r].as, "PENDING")
          /\ seat'[r] # None /\ \A m \in SeatIds \ {r} : seat'[m] = seat[m]
        BY <1>1, <1>2, <2>2, <2>3, SeatsAssumption
    <2>5. seat' \in [SeatIds -> SeatRows \cup {None}]
        BY <1>2, <2>2, <2>3
    <2>6. seat'[r].company = ask[r].company /\ seat'[r].status = "PENDING"
        BY <2>4 DEF SeatRow
    <2>7. QED
        BY <1>1, <1>4, <2>1, <2>4, <2>5, <2>6 DEF OwnerOf, OwnsIn
<1>5. CASE Kind(r) = "Remove"
    <2> DEFINE n == ask[r].seat
    <2>1. n \in SeatIds /\ seat[n] # None /\ seat[n].role # "OWNER"
        BY <1>1, <1>5 DEF TenancyInv, Established, TenancyAsked
    <2>2. seat' = [seat EXCEPT ![n].removed = TRUE]
        BY <1>1, <1>5 DEF SeatsAfter
    <2>3. seat[n] \in SeatRows
        BY <1>2, <2>1
    <2>4. seat'[n] = [seat[n] EXCEPT !.removed = TRUE] /\ \A m \in SeatIds \ {n} : seat'[m] = seat[m]
        BY <1>2, <2>1, <2>2
    <2>5. seat'[n] \in SeatRows
        BY <2>3, <2>4 DEF SeatRows
    <2>6. seat'[n] # None
        BY <2>5, SeatsAssumption
    <2>7. seat' \in [SeatIds -> SeatRows \cup {None}]
        BY <1>2, <2>2, <2>4, <2>5
    <2>8. seat'[n].company = seat[n].company /\ seat'[n].role = seat[n].role
        BY <2>3, <2>4 DEF SeatRows
    <2> HIDE DEF n
    <2>9. QED
        BY <1>5, <2>1, <2>4, <2>6, <2>7, <2>8 DEF OwnerOf, OwnsIn
<1>6. CASE Kind(r) \in {"UpdateCompany", "DeleteCompany"}
    <2>1. seat' = seat
        BY <1>1, <1>6 DEF SeatsAfter
    <2>2. QED
        BY <1>2, <1>6, <2>1 DEF OwnerOf
<1>7. QED
    BY <1>1, <1>3, <1>4, <1>5, <1>6 DEF TenancyKinds

LEMMA CommitKeepsTenancy ==
    ASSUME TenancyInv, NEW r \in Requests, CommitTenancy(r)
    PROVE  TenancyInv'
<1> DEFINE c0 == ask[r].company
           OwnedNext(c) == \E m \in SeatIds : OwnsIn(seat'[m], c)
<1>1. Kind(r) \in TenancyKinds /\ pc[r] = "commit" /\ c0 \in Companies
    BY DEF CommitTenancy, TenancyInv, TenancyAsked
<1>2. ask' = ask /\ \A q \in Requests : Kind(q)' = Kind(q)
    BY DEF CommitTenancy, Kind
<1>3. pc' = [q \in Requests |-> pc'[q]] /\ pc'[r] = "done" /\ \A q \in Others(r) : pc'[q] = pc[q]
    BY DEF CommitTenancy, GoTo, Others, TenancyInv, TenancyLabelled
<1>4. /\ company' = [c \in Companies |-> company'[c]]
      /\ \A c \in Companies \ {c0} : company'[c] = company[c]
      /\ Kind(r) \in {"Invite", "Remove"} => company' = company
    BY DEF CommitTenancy, TenancyInv, Tables
<1>5. /\ seat' \in [SeatIds -> SeatRows \cup {None}]
      /\ \A m \in SeatIds : \A c \in Companies :
           OwnsIn(seat'[m], c) <=> OwnerOf(m, c) \/ (Kind(r) = "CreateCompany" /\ m = r /\ c = c0)
      /\ \A m \in SeatIds : seat'[m] # None =>
           \/ m = r /\ Kind(r) \in {"CreateCompany", "Invite"} /\ seat'[m].company = c0
           \/ seat[m] # None /\ seat'[m].company = seat[m].company /\ seat'[m].role = seat[m].role
      /\ \A m \in SeatIds : seat[m] # None => seat'[m] # None /\ seat'[m].role = seat[m].role
      /\ \A m \in SeatIds : seat[m] = None /\ m # r => seat'[m] = None
    BY CommitSeats
<1>6. \A c \in Companies : Owned(c) => OwnedNext(c)
    BY <1>5 DEF Owned
<1>7. Kind(r) \in {"CreateCompany", "Invite", "UpdateCompany", "DeleteCompany"} => OwnedNext(c0)
    <2>1. CASE Kind(r) = "CreateCompany"
        BY <1>1, <1>5, <2>1, SeatsAssumption
    <2>2. CASE Kind(r) \in {"Invite", "UpdateCompany", "DeleteCompany"}
        <3>1. Owned(c0)
            BY <1>1, <2>2 DEF TenancyInv, Established
        <3>2. QED
            BY <1>1, <1>6, <3>1
    <2>3. QED
        BY <2>1, <2>2
<1>8. Kind(r) = "CreateCompany" => \A m \in SeatIds : seat[m] # None => seat[m].company # c0
    BY <1>1 DEF TenancyInv, Established, Ended
<1> HIDE DEF c0, OwnedNext
<1>9. Sole'
    <2>1. ASSUME NEW c \in Companies, NEW m \in SeatIds, NEW n \in SeatIds,
                 OwnsIn(seat'[m], c), OwnsIn(seat'[n], c)
          PROVE  m = n
        <3>1. CASE Kind(r) = "CreateCompany" /\ c = c0
            <4>1. ~OwnerOf(m, c) /\ ~OwnerOf(n, c)
                BY <1>8, <3>1 DEF OwnerOf, OwnsIn
            <4>2. QED
                BY <1>5, <2>1, <4>1
        <3>2. CASE ~(Kind(r) = "CreateCompany" /\ c = c0)
            <4>1. OwnerOf(m, c) /\ OwnerOf(n, c)
                BY <1>5, <2>1, <3>2
            <4>2. QED
                BY <4>1 DEF TenancyInv, Sole
        <3>3. QED
            BY <3>1, <3>2
    <2>2. QED
        BY <2>1 DEF Sole, OwnerOf
<1>10. Founded'
    <2>1. ASSUME NEW c \in Companies, company'[c] # None
          PROVE  OwnedNext(c)
        <3>1. CASE c = c0 /\ Kind(r) \in {"CreateCompany", "UpdateCompany", "DeleteCompany"}
            BY <1>7, <3>1
        <3>2. CASE ~(c = c0 /\ Kind(r) \in {"CreateCompany", "UpdateCompany", "DeleteCompany"})
            <4>1. company[c] # None
                BY <1>1, <1>4, <2>1, <3>2 DEF TenancyKinds
            <4>2. Owned(c)
                BY <4>1 DEF TenancyInv, Founded
            <4>3. QED
                BY <1>6, <4>2
        <3>3. QED
            BY <3>1, <3>2
    <2>2. ASSUME NEW c \in Companies, NEW m \in SeatIds, seat'[m] # None, seat'[m].company = c
          PROVE  OwnedNext(c)
        <3>1. CASE Kind(r) \in {"CreateCompany", "Invite"} /\ c = c0
            BY <1>7, <3>1
        <3>2. CASE seat[m] # None /\ seat[m].company = c
            <4>1. Owned(c)
                BY <3>2 DEF TenancyInv, Founded
            <4>2. QED
                BY <1>6, <4>1
        <3>3. QED
            BY <1>5, <2>2, <3>1, <3>2
    <2>3. QED
        BY <2>1, <2>2 DEF Founded, Owned, OwnerOf, OwnedNext
<1>11. Established'
    <2>1. ASSUME NEW q \in Others(r), Kind(q) \in {"Invite", "CreateCompany"}, pc[q] \notin Ended
          PROVE  seat'[q] = None
        <3>1. seat[q] = None /\ q \in SeatIds /\ q # r
            BY <2>1, SeatsAssumption DEF TenancyInv, Established, Others
        <3>2. QED
            BY <1>5, <3>1
    <2>2. ASSUME NEW q \in Others(r), Kind(q) = "CreateCompany", pc[q] \notin Ended,
                 NEW m \in SeatIds, seat'[m] # None
          PROVE  seat'[m].company # ask[q].company
        <3>1. \A n \in SeatIds : seat[n] # None => seat[n].company # ask[q].company
            BY <2>2 DEF TenancyInv, Established, Others
        <3>2. Kind(r) = "CreateCompany" => c0 # ask[q].company
            BY <2>2 DEF TenancyInv, Distinct, Others, c0
        <3>3. Kind(r) = "Invite" => c0 # ask[q].company
            <4>1. Kind(r) = "Invite" => Owned(c0)
                BY <1>1 DEF TenancyInv, Established, c0
            <4>2. QED
                BY <3>1, <4>1 DEF Owned, OwnerOf, OwnsIn
        <3>4. QED
            BY <1>5, <2>2, <3>1, <3>2, <3>3
    <2>3. ASSUME NEW q \in Others(r), Kind(q) \in {"Invite", "UpdateCompany", "DeleteCompany"},
                 Owned(ask[q].company)
          PROVE  Owned(ask[q].company)'
        <3>1. ask[q].company \in Companies
            BY <2>3 DEF TenancyInv, TenancyAsked, TenancyKinds, Others
        <3>2. OwnedNext(ask[q].company)
            BY <1>6, <2>3, <3>1
        <3>3. QED
            BY <1>2, <3>2 DEF Owned, OwnerOf, OwnedNext
    <2>4. ASSUME NEW q \in Others(r), Kind(q) = "Remove", pc[q] \in {"write", "commit"}
          PROVE  seat'[ask[q].seat] # None /\ seat'[ask[q].seat].role # "OWNER"
        <3>1. ask[q].seat \in SeatIds /\ seat[ask[q].seat] # None /\ seat[ask[q].seat].role # "OWNER"
            BY <2>4 DEF TenancyInv, TenancyAsked, Established, Others
        <3>2. QED
            BY <1>5, <3>1
    <2>5. ASSUME NEW q \in Requests
          PROVE  /\ Kind(q)' \in {"Invite", "CreateCompany"} /\ pc'[q] \notin Ended => seat'[q] = None
                 /\ Kind(q)' = "CreateCompany" /\ pc'[q] \notin Ended =>
                      \A m \in SeatIds : seat'[m] # None => seat'[m].company # ask'[q].company
                 /\ Kind(q)' = "Remove" /\ pc'[q] \in {"write", "commit"} =>
                      seat'[ask'[q].seat] # None /\ seat'[ask'[q].seat].role # "OWNER"
                 /\ Kind(q)' = "Invite" /\ pc'[q] \in {"write", "commit"} => ask'[q].as \in Offerable
                 /\ \/ Kind(q)' = "Invite" /\ pc'[q] \in {"find", "write", "commit"}
                    \/ Kind(q)' = "UpdateCompany" /\ pc'[q] \in {"write", "commit"}
                    \/ Kind(q)' = "DeleteCompany" /\ pc'[q] = "commit"
                    => Owned(ask[q].company)'
        <3>1. CASE q = r
            BY <1>3, <3>1 DEF Ended
        <3>2. CASE q \in Others(r)
            <4>1. pc'[q] = pc[q] /\ Kind(q)' = Kind(q) /\ ask' = ask
                BY <1>2, <1>3, <3>2
            <4>2. QED
                BY <2>1, <2>2, <2>3, <2>4, <3>2, <4>1 DEF TenancyInv, Established
        <3>3. QED
            BY <3>1, <3>2 DEF Others
    <2>6. QED
        BY <2>5 DEF Established
<1>12. TenancyAsked' /\ Distinct'
    BY <1>2 DEF TenancyInv, TenancyAsked, Distinct
<1>13. TenancyLabelled' /\ Tables'
    BY <1>2, <1>3, <1>4, <1>5 DEF TenancyInv, TenancyLabelled, Tables, TenancyLabels, Ended, Others
<1>14. QED
    BY <1>9, <1>10, <1>11, <1>12, <1>13 DEF TenancyInv

-----------------------------------------------------------------------------
(* Sessions and roles, and the theorems. *)

\* What a step of sessions or roles is to tenancy.
Elsewhere ==
    /\ UNCHANGED <<ask, company, seat, opened, acting>>
    /\ pc' = [q \in Requests |-> pc'[q]]
    /\ \A q \in Requests : Kind(q) \in TenancyKinds => pc'[q] = pc[q]

LEMMA ElsewhereKeepsTenancy ==
    ASSUME TenancyInv, Elsewhere
    PROVE  TenancyInv'
<1>1. TenancyAsked' /\ Tables' /\ Distinct' /\ Sole' /\ Founded'
    BY DEF Elsewhere, TenancyInv, TenancyAsked, Tables, Distinct, Sole, Founded, Owned, OwnerOf, Kind
<1>2. TenancyLabelled'
    BY DEF Elsewhere, TenancyInv, TenancyLabelled, Kind
<1>3. Established'
    BY DEF Elsewhere, TenancyInv, Established, Kind, Owned, OwnerOf, TenancyKinds
<1>4. QED
    BY <1>1, <1>2, <1>3 DEF TenancyInv

LEMMA SessionsLeaveTenancy ==
    ASSUME TenancyInv, SessionsNext, UNCHANGED tenancyVars
    PROVE  Elsewhere
<1>1. UNCHANGED <<ask, company, seat, opened, acting>>
    BY DEF tenancyVars, SessionsNext, SessionStep, CheckAddress, Enrol, Authenticate, Present, Rotate,
        CountSessions, FindOldest, Revoke, Mint, Leave, StartRevokeAll, RevokeNext, CommitSession,
        LoseSession, BreakCycle, RollBackSession, Expire, requestVars
<1>2. CASE \E t \in Tokens : Expire(t)
    BY <1>1, <1>2 DEF Expire, requestVars, TenancyInv, TenancyLabelled, Elsewhere
<1>3. ASSUME NEW r \in Requests, SessionStep(r) \/ LoseSession(r) \/ BreakCycle(r)
      PROVE  Elsewhere
    <2>1. pc' = [q \in Requests |-> pc'[q]] /\ \A q \in Others(r) : pc'[q] = pc[q]
        BY <1>3 DEF SessionStep, CheckAddress, Enrol, Authenticate, Present, Rotate,
            CountSessions, FindOldest, Revoke, Mint, Leave, StartRevokeAll, RevokeNext, CommitSession,
            LoseSession, BreakCycle, RollBackSession, GoTo, Others, TenancyInv, TenancyLabelled
    <2>2. Kind(r) \notin TenancyKinds
        BY <1>3 DEF SessionStep, CheckAddress, Enrol, Authenticate, Present, Rotate,
            CountSessions, FindOldest, Revoke, Mint, Leave, StartRevokeAll, RevokeNext, CommitSession,
            LoseSession, BreakCycle, RollBackSession, TenancyInv, TenancyLabelled, TenancyLabels, TenancyKinds,
            SessionKinds, Signing, Ended
    <2>3. QED
        BY <1>1, <2>1, <2>2 DEF Others, Elsewhere
<1>4. QED
    BY <1>2, <1>3 DEF SessionsNext

LEMMA RolesLeaveTenancy ==
    ASSUME TenancyInv, RolesNext
    PROVE  Elsewhere
<1>1. PICK r \in Requests : RoleStep(r) \/ LoseRole(r)
    BY DEF RolesNext
<1>2. UNCHANGED <<ask, company, seat, opened, acting>>
    BY <1>1 DEF tenancyVars, RoleStep, ResolveRole, ListRoles, Provision, CommitProvision, CheckName,
        InsertRole, LoadRole, StoreRole, Diff, Revive, FindHeld, InsertGrants, RevokeGrants,
        CommitRole, LoseRole, EndRole
<1>3. pc' = [q \in Requests |-> pc'[q]] /\ \A q \in Others(r) : pc'[q] = pc[q]
    BY <1>1 DEF RoleStep, ResolveRole, ListRoles, Provision, CommitProvision, CheckName,
        InsertRole, LoadRole, StoreRole, Diff, Revive, FindHeld, InsertGrants, RevokeGrants,
        CommitRole, LoseRole, EndRole, GoTo, Others, TenancyInv, TenancyLabelled
<1>4. Kind(r) \notin TenancyKinds
    BY <1>1 DEF RoleStep, ResolveRole, ListRoles, Provision, CommitProvision, CheckName,
        InsertRole, LoadRole, StoreRole, Diff, Revive, FindHeld, InsertGrants, RevokeGrants,
        CommitRole, LoseRole, EndRole, TenancyInv, TenancyLabelled, TenancyLabels, TenancyKinds, RoleKinds, Ended
<1>5. QED
    BY <1>2, <1>3, <1>4 DEF Others, Elsewhere

LEMMA NothingIsElsewhere ==
    ASSUME TenancyInv, UNCHANGED vars
    PROVE  Elsewhere
BY DEF vars, requestVars, tenancyVars, TenancyInv, TenancyLabelled, Elsewhere

LEMMA StepKeepsTenancy ==
    ASSUME TenancyInv, [Next]_vars
    PROVE  TenancyInv'
<1>1. CASE SessionsNext /\ UNCHANGED <<tenancyVars, roleVars>>
    BY <1>1, SessionsLeaveTenancy, ElsewhereKeepsTenancy
<1>2. CASE TenancyNext
    <2>1. PICK r \in Requests : TenancyStep(r) \/ LoseTenancy(r)
        BY <1>2 DEF TenancyNext
    <2>2. Reads(r) \/ CommitTenancy(r)
        BY <2>1 DEF TenancyStep, Reads
    <2>3. QED
        BY <2>2, ReadsKeep, CommitKeepsTenancy
<1>3. CASE RolesNext
    BY <1>3, RolesLeaveTenancy, ElsewhereKeepsTenancy
<1>4. CASE UNCHANGED vars
    BY <1>4, NothingIsElsewhere, ElsewhereKeepsTenancy
<1>5. QED
    BY <1>1, <1>2, <1>3, <1>4 DEF Next

-----------------------------------------------------------------------------
(* Codes and seats are unique, and every row has its type. *)

\* An update of named columns leaves a row of the table.
LEMMA AmendedIsRow ==
    ASSUME NEW d \in CompanyRows, NEW change,
           DOMAIN change \subseteq {"status", "name"},
           "status" \in DOMAIN change => change.status \in CompanyStatuses,
           "name" \in DOMAIN change => change.name \in Names
    PROVE  Amended(d, change) \in CompanyRows
<1>1. /\ d = [status |-> d.status, name |-> d.name, deleted |-> d.deleted]
      /\ d.status \in CompanyStatuses /\ d.name \in Names /\ d.deleted \in BOOLEAN
    BY DEF CompanyRows
<1>2. DOMAIN d = {"status", "name", "deleted"}
    BY <1>1
<1> DEFINE st == IF "status" \in DOMAIN change THEN change["status"] ELSE d["status"]
           nm == IF "name" \in DOMAIN change THEN change["name"] ELSE d["name"]
<1>3. Amended(d, change) = [status |-> st, name |-> nm, deleted |-> d.deleted]
    BY <1>2 DEF Amended
<1>4. st \in CompanyStatuses /\ nm \in Names
    BY <1>1
<1>5. QED
    BY <1>1, <1>3, <1>4 DEF CompanyRows

LEMMA IndexStart == Init => IndexInv
<1> SUFFICES ASSUME Init PROVE IndexInv
    OBVIOUS
<1>1. PICK s \in Scenes : company = s.company /\ seat = s.seat /\ ask \in s.asks
    BY DEF Init
<1>2. /\ pc = [r \in Requests |-> "start"]
      /\ acting = [r \in Requests |-> None] /\ opened = [r \in Requests |-> None]
    BY DEF Init, TenancyInit
<1>3. TenancyTypeOK
    BY <1>1, <1>2, CompaniesAssumption, RowsAssumption DEF TenancyTypeOK
<1>4. Writable
    BY <1>1, <1>2, RowsAssumption, AmendedIsRow DEF Writable, Kind
<1>5. LocksApart /\ Vacant
    BY <1>2 DEF LocksApart, Writing, Vacant
<1>6. OneCompany
    BY <1>1, RowsAssumption DEF OneCompany, Open
<1>7. OneSeat
    BY <1>1, RowsAssumption DEF OneSeat, LiveSeats
<1>8. QED
    BY <1>3, <1>4, <1>5, <1>6, <1>7 DEF IndexInv

\* Writing begins with every lock free and the entry vacant.
LEMMA ReadsKeepIndex ==
    ASSUME TenancyInv, IndexInv, NEW r \in Requests, Reads(r)
    PROVE  IndexInv'
<1>1. UNCHANGED <<ask, company, seat>>
    BY DEF Reads, Enter, CheckCode, OpenCompany, CloseCompany, FindInvitee, FindSeat, CountOwners,
        WriteTenancy, LoseTenancy, tenancyVars
<1>2. pc' = [q \in Requests |-> pc'[q]] /\ \A q \in Others(r) : pc'[q] = pc[q]
    BY DEF Reads, Enter, CheckCode, OpenCompany, CloseCompany, FindInvitee, FindSeat, CountOwners,
        WriteTenancy, LoseTenancy, GoTo, Others, TenancyInv, TenancyLabelled
<1>3. Kind(r) \in TenancyKinds /\ pc'[r] = "commit" =>
        WriteTenancy(r) /\ Verdict(r) = "commit"
    BY DEF Reads, Enter, CheckCode, OpenCompany, CloseCompany, FindInvitee, FindSeat, CountOwners,
        WriteTenancy, LoseTenancy, GoTo, TenancyInv, TenancyLabelled
<1>4. /\ acting' \in [Requests -> SystemRoles \cup {None}]
      /\ opened' \in [Requests -> CompanyRows \cup {None}]
      /\ Kind(r) = "UpdateCompany" /\ pc'[r] \in {"write", "commit"} => opened'[r] # None
      /\ \A q \in Others(r) : opened'[q] = opened[q]
    <2>1. CASE Enter(r)
        <3>1. opened' = opened
            BY <2>1 DEF Enter
        <3>2. \A c \in Contexts(r) : \A m \in ActiveSeats(c, ask[r].user) : seat[m].role \in SystemRoles
            BY DEF IndexInv, TenancyTypeOK, ActiveSeats, Seats, LiveSeats, SeatRows
        <3>3. acting' \in [Requests -> SystemRoles \cup {None}]
            BY <2>1, <3>2 DEF Enter, IndexInv, TenancyTypeOK
        <3>4. pc'[r] \notin {"write", "commit"}
            BY <2>1 DEF Enter, GoTo, TenancyInv, TenancyLabelled
        <3>5. QED
            BY <3>1, <3>3, <3>4 DEF IndexInv, TenancyTypeOK
    <2>2. CASE OpenCompany(r)
        <3>1. acting' = acting /\ Kind(r) = "UpdateCompany" /\ ask[r].company \in Companies
            BY <2>2 DEF OpenCompany, TenancyInv, TenancyAsked, TenancyKinds
        <3>2. CASE Accessible(ask[r].company, ask[r].user)
            <4>1. opened' = [opened EXCEPT ![r] = company[ask[r].company]]
                BY <2>2, <3>2 DEF OpenCompany
            <4>2. company[ask[r].company] \in CompanyRows /\ company[ask[r].company] # None
                BY <3>1, <3>2 DEF Accessible, Open, IndexInv, TenancyTypeOK
            <4>3. QED
                BY <3>1, <4>1, <4>2 DEF IndexInv, TenancyTypeOK, Others
        <3>3. CASE ~Accessible(ask[r].company, ask[r].user)
            <4>1. opened' = opened /\ pc'[r] = "refused"
                BY <2>2, <3>3 DEF OpenCompany, GoTo, TenancyInv, TenancyLabelled
            <4>2. QED
                BY <3>1, <4>1 DEF IndexInv, TenancyTypeOK
        <3>4. QED
            BY <3>2, <3>3
    <2>3. CASE WriteTenancy(r)
        BY <2>3 DEF WriteTenancy, tenancyVars, GoTo, IndexInv, TenancyTypeOK, Writable, TenancyInv,
            TenancyLabelled
    <2>4. CASE \/ CheckCode(r) \/ CloseCompany(r) \/ FindInvitee(r) \/ FindSeat(r)
               \/ CountOwners(r) \/ LoseTenancy(r)
        <3>1. acting' = acting /\ opened' = opened
            BY <2>4 DEF CheckCode, CloseCompany, FindInvitee, FindSeat, CountOwners, LoseTenancy, tenancyVars
        <3>2. Kind(r) # "UpdateCompany" \/ pc'[r] = "lost"
            BY <2>4 DEF CheckCode, CloseCompany, FindInvitee, FindSeat, CountOwners, LoseTenancy, GoTo,
                TenancyInv, TenancyLabelled, IndexInv, Writable
        <3>3. QED
            BY <3>1, <3>2 DEF IndexInv, TenancyTypeOK
    <2>5. QED
        BY <2>1, <2>2, <2>3, <2>4 DEF Reads
<1>5. TenancyTypeOK'
    BY <1>1, <1>4 DEF IndexInv, TenancyTypeOK
<1>6. OneCompany' /\ OneSeat'
    BY <1>1 DEF IndexInv, OneCompany, OneSeat, Open, LiveSeats
<1>7. LocksApart'
    <2>1. \A q \in Requests : Locked(q)' = Locked(q) /\ Kind(q)' = Kind(q)
        BY <1>1 DEF Locked, Kind
    <2>2. Writing(r)' => \A q \in Others(r) : Writing(q) => Locked(q) \cap Locked(r) = {}
        BY <1>1, <1>3 DEF Writing, WriteTenancy, Waiting, Kind
    <2>3. \A q \in Others(r) : Writing(q)' = Writing(q)
        BY <1>1, <1>2 DEF Writing, Kind, Others
    <2>4. QED
        BY <2>1, <2>2, <2>3 DEF IndexInv, LocksApart, Others
<1>8. Vacant'
    <2>1. ASSUME NEW q \in Requests
          PROVE  CodeTaken(ask[q].company)' = CodeTaken(ask[q].company)
                 /\ Seats(ask[q].company, ask[q].invitee)' = Seats(ask[q].company, ask[q].invitee)
        BY <1>1 DEF CodeTaken, Open, Seats, LiveSeats
    <2>2. pc'[r] = "commit" =>
            /\ Kind(r) \in {"CreateCompany", "UpdateCompany"} => ~CodeTaken(ask[r].company)
            /\ Kind(r) = "Invite" => Seats(ask[r].company, ask[r].invitee) = {}
        BY <1>3 DEF Verdict, TenancyKinds
    <2>3. QED
        BY <1>1, <1>2, <2>1, <2>2 DEF IndexInv, Vacant, Others, Kind
<1>9. Writable'
    <2>1. Kind(r) = "DeleteCompany" /\ pc'[r] = "commit" => company[ask[r].company] # None
        BY <1>3 DEF Verdict, TenancyKinds, Accessible, Open
    <2>2. Kind(r) = "UpdateCompany" => pc'[r] # "owners"
        BY DEF Reads, Enter, CheckCode, OpenCompany, CloseCompany, FindInvitee, FindSeat, CountOwners,
            WriteTenancy, LoseTenancy, Verdict, Scoped, GoTo, TenancyInv, TenancyLabelled
    <2>3. QED
        BY <1>1, <1>2, <1>4, <2>1, <2>2 DEF IndexInv, Writable, Others, Kind
<1>10. QED
    BY <1>5, <1>6, <1>7, <1>8, <1>9 DEF IndexInv

\* What a commit does to one company's row, and to who is in which company.
LEMMA CommitRows ==
    ASSUME TenancyInv, IndexInv, NEW r \in Requests, CommitTenancy(r)
    PROVE  /\ \A m \in SeatIds : seat[m] # None =>
                /\ seat'[m] # None
                /\ seat'[m].company = seat[m].company /\ seat'[m].user = seat[m].user
                /\ ~seat'[m].removed => ~seat[m].removed
           /\ \A m \in SeatIds : seat[m] = None /\ seat'[m] # None =>
                /\ m = r
                /\ \/ Kind(r) = "CreateCompany" /\ seat'[m].company = ask[r].company
                   \/ /\ Kind(r) = "Invite" /\ seat'[m].company = ask[r].company
                      /\ seat'[m].user = ask[r].invitee
<1>1. Kind(r) \in TenancyKinds /\ pc[r] = "commit" /\ seat' = SeatsAfter(r) /\ r \in SeatIds
    BY SeatsAssumption DEF CommitTenancy
<1>2. seat \in [SeatIds -> SeatRows \cup {None}] /\ seat' \in [SeatIds -> SeatRows \cup {None}]
    BY CommitSeats DEF TenancyInv, Tables
<1>3. CASE Kind(r) = "CreateCompany"
    <2>1. seat[r] = None
        BY <1>1, <1>3 DEF TenancyInv, Established, Ended
    <2>2. seat' = [seat EXCEPT ![r] = SeatRow(ask[r].company, ask[r].user, "OWNER", "ACTIVE")]
        BY <1>1, <1>3 DEF SeatsAfter
    <2>3. \A m \in SeatIds \ {r} : seat'[m] = seat[m]
        BY <1>2, <2>2
    <2>4. seat'[r].company = ask[r].company
        BY <1>1, <1>2, <2>2 DEF SeatRow
    <2>5. QED
        BY <1>3, <2>1, <2>3, <2>4
<1>4. CASE Kind(r) = "Invite"
    <2>1. seat[r] = None
        BY <1>1, <1>4 DEF TenancyInv, Established, Ended
    <2>2. seat' = [seat EXCEPT ![r] = SeatRow(ask[r].company, ask[r].invitee, ask[r].as, "PENDING")]
        BY <1>1, <1>4 DEF SeatsAfter
    <2>3. \A m \in SeatIds \ {r} : seat'[m] = seat[m]
        BY <1>2, <2>2
    <2>4. seat'[r].company = ask[r].company /\ seat'[r].user = ask[r].invitee
        BY <1>1, <1>2, <2>2 DEF SeatRow
    <2>5. QED
        BY <1>4, <2>1, <2>3, <2>4
<1>5. CASE Kind(r) = "Remove"
    <2> DEFINE n == ask[r].seat
    <2>1. n \in SeatIds /\ seat[n] # None
        BY <1>1, <1>5 DEF TenancyInv, Established, TenancyAsked
    <2>2. seat' = [seat EXCEPT ![n].removed = TRUE]
        BY <1>1, <1>5 DEF SeatsAfter
    <2>3. seat[n] \in SeatRows
        BY <1>2, <2>1
    <2>4. seat'[n] = [seat[n] EXCEPT !.removed = TRUE] /\ \A m \in SeatIds \ {n} : seat'[m] = seat[m]
        BY <1>2, <2>1, <2>2
    <2>5. seat'[n].company = seat[n].company /\ seat'[n].user = seat[n].user /\ seat'[n].removed
        BY <2>3, <2>4 DEF SeatRows
    <2>6. seat'[n] # None
        BY <2>1, CommitSeats
    <2> HIDE DEF n
    <2>7. QED
        BY <2>1, <2>4, <2>5, <2>6
<1>6. CASE Kind(r) \in {"UpdateCompany", "DeleteCompany"}
    BY <1>1, <1>6 DEF SeatsAfter
<1>7. QED
    BY <1>1, <1>3, <1>4, <1>5, <1>6 DEF TenancyKinds

LEMMA CommitCompanies ==
    ASSUME TenancyInv, IndexInv, NEW r \in Requests, CommitTenancy(r)
    PROVE  /\ company' \in [Companies -> CompanyRows \cup {None}]
           /\ \A c \in Companies \ {ask[r].company} : company'[c] = company[c]
           /\ \A c \in Companies : company[c] # None => company'[c] # None
           /\ Kind(r) \notin {"CreateCompany", "UpdateCompany"} =>
                \A c \in Companies : company'[c] # None /\ ~company'[c].deleted => Open(c)
<1> DEFINE c0 == ask[r].company
<1>1. Kind(r) \in TenancyKinds /\ pc[r] = "commit" /\ c0 \in Companies
    BY DEF CommitTenancy, TenancyInv, TenancyAsked
<1>2. company \in [Companies -> CompanyRows \cup {None}]
    BY DEF IndexInv, TenancyTypeOK
<1>3. CASE Kind(r) \in {"Invite", "Remove"}
    BY <1>2, <1>3 DEF CommitTenancy, Open
<1>4. CASE Kind(r) \notin {"Invite", "Remove"}
    <2>1. company' = [company EXCEPT ![c0] = CompanyAfter(r)]
        BY <1>4 DEF CommitTenancy
    <2>2. CompanyAfter(r) \in CompanyRows
        <3>1. CASE Kind(r) = "CreateCompany"
            BY <3>1 DEF CompanyAfter, CompanyRow, CompanyRows, CompanyStatuses, IndexInv, Writable
        <3>2. CASE Kind(r) = "UpdateCompany"
            <4>1. opened[r] \in CompanyRows
                BY <1>1, <3>2 DEF IndexInv, Writable, TenancyTypeOK
            <4>2. QED
                BY <3>2, <4>1 DEF CompanyAfter, IndexInv, Writable
        <3>3. CASE Kind(r) = "DeleteCompany"
            <4>1. company[c0] \in CompanyRows
                BY <1>1, <1>2, <3>3 DEF IndexInv, Writable
            <4>2. QED
                BY <3>3, <4>1 DEF CompanyAfter, CompanyRows
        <3>4. QED
            BY <1>1, <1>4, <3>1, <3>2, <3>3 DEF TenancyKinds
    <2>3. company'[c0] = CompanyAfter(r) /\ \A c \in Companies \ {c0} : company'[c] = company[c]
        BY <1>1, <1>2, <2>1
    <2>4. Kind(r) = "DeleteCompany" => CompanyAfter(r).deleted
        <3>1. Kind(r) = "DeleteCompany" => company[c0] \in CompanyRows
            BY <1>1, <1>2 DEF IndexInv, Writable
        <3>2. QED
            BY <3>1 DEF CompanyAfter, CompanyRows
    <2>5. CompanyAfter(r) # None
        BY <2>2, AbsenceAssumption
    <2> HIDE DEF c0
    <2>6. company' \in [Companies -> CompanyRows \cup {None}]
        BY <1>2, <2>1, <2>2
    <2>7. QED
        BY <1>1, <1>4, <2>3, <2>4, <2>5, <2>6 DEF TenancyKinds, Open, c0
<1>5. QED
    BY <1>3, <1>4

LEMMA CommitKeepsIndex ==
    ASSUME TenancyInv, IndexInv, NEW r \in Requests, CommitTenancy(r)
    PROVE  IndexInv'
<1> DEFINE c0 == ask[r].company
<1>1. Kind(r) \in TenancyKinds /\ pc[r] = "commit" /\ c0 \in Companies
    BY DEF CommitTenancy, TenancyInv, TenancyAsked
<1>2. ask' = ask /\ acting' = acting /\ opened' = opened /\ \A q \in Requests : Kind(q)' = Kind(q)
    BY DEF CommitTenancy, Kind
<1>3. pc' = [q \in Requests |-> pc'[q]] /\ pc'[r] = "done" /\ \A q \in Others(r) : pc'[q] = pc[q]
    BY DEF CommitTenancy, GoTo, Others, TenancyInv, TenancyLabelled
<1>4. TenancyTypeOK'
    BY <1>2, CommitSeats, CommitCompanies DEF IndexInv, TenancyTypeOK
<1>5. Writable'
    <2>1. \A q \in Requests : Kind(q) = "DeleteCompany" => ask[q].company \in Companies
        BY DEF TenancyInv, TenancyAsked, TenancyKinds
    <2>2. QED
        BY <1>2, <1>3, <2>1, CommitCompanies DEF IndexInv, Writable, Others
<1>6. \A q \in Others(r) : Writing(q) => Locked(q)' = Locked(q)
    <2>1. ASSUME NEW q \in Others(r), Writing(q), Kind(q) = "Remove"
          PROVE  seat'[ask[q].seat].user = seat[ask[q].seat].user
        <3>1. ask[q].seat \in SeatIds /\ seat[ask[q].seat] # None
            BY <2>1 DEF TenancyInv, TenancyAsked, Established, Others, Writing
        <3>2. QED
            BY <3>1, CommitRows
    <2>2. QED
        BY <1>2, <2>1 DEF Locked, Kind, Writing, TenancyKinds
<1>7. LocksApart'
    <2>1. \A q \in Requests : Writing(q)' => q \in Others(r) /\ Writing(q)
        BY <1>2, <1>3 DEF Writing, Others
    <2>2. QED
        BY <1>6, <2>1 DEF IndexInv, LocksApart, Others
<1>8. ASSUME NEW c \in Companies, company'[c] # None, ~company'[c].deleted, ~Open(c)
      PROVE  c = c0 /\ Kind(r) \in {"CreateCompany", "UpdateCompany"} /\ ~CodeTaken(c0)
    <2>1. c = c0 /\ Kind(r) \in {"CreateCompany", "UpdateCompany"}
        BY <1>8, CommitCompanies DEF Open
    <2>2. QED
        BY <1>1, <2>1 DEF IndexInv, Vacant
<1>9. ASSUME NEW m \in SeatIds, seat'[m] # None, ~seat'[m].removed
      PROVE  \/ /\ m \in LiveSeats
                /\ seat'[m].company = seat[m].company /\ seat'[m].user = seat[m].user
             \/ /\ Kind(r) = "CreateCompany" /\ m = r /\ seat'[m].company = c0
                /\ \A n \in LiveSeats : seat[n].company # c0
             \/ /\ Kind(r) = "Invite" /\ m = r
                /\ seat'[m].company = c0 /\ seat'[m].user = ask[r].invitee
                /\ Seats(c0, ask[r].invitee) = {}
    <2>1. CASE seat[m] # None
        BY <1>9, <2>1, CommitRows DEF LiveSeats
    <2>2. CASE seat[m] = None
        <3>1. Kind(r) = "CreateCompany" => \A n \in SeatIds : seat[n] # None => seat[n].company # c0
            BY <1>1 DEF TenancyInv, Established, Ended
        <3>2. Kind(r) = "Invite" => Seats(c0, ask[r].invitee) = {}
            BY <1>1 DEF IndexInv, Vacant
        <3>3. QED
            BY <1>9, <2>2, <3>1, <3>2, CommitRows DEF LiveSeats
    <2>3. QED
        BY <2>1, <2>2
<1> HIDE DEF c0
<1>10. OneCompany'
    <2>1. ASSUME NEW c \in Companies, NEW d \in Companies, CodeOf[c] = CodeOf[d],
                 company'[c] # None, ~company'[c].deleted, company'[d] # None, ~company'[d].deleted
          PROVE  c = d
        <3>1. CASE Open(c) /\ Open(d)
            BY <2>1, <3>1 DEF IndexInv, OneCompany
        <3>2. CASE ~Open(c)
            BY <1>8, <2>1, <3>2 DEF CodeTaken
        <3>3. CASE ~Open(d)
            BY <1>8, <2>1, <3>3 DEF CodeTaken
        <3>4. QED
            BY <3>1, <3>2, <3>3
    <2>2. QED
        BY <2>1 DEF OneCompany, Open
<1>11. OneSeat'
    <2>1. ASSUME NEW m \in SeatIds, NEW n \in SeatIds,
                 seat'[m] # None, ~seat'[m].removed, seat'[n] # None, ~seat'[n].removed,
                 seat'[m].company = seat'[n].company, seat'[m].user = seat'[n].user
          PROVE  m = n
        <3>1. CASE m \in LiveSeats /\ n \in LiveSeats
            <4>1. seat[m] # None /\ seat[n] # None
                BY <3>1 DEF LiveSeats
            <4>2. QED
                BY <2>1, <3>1, <4>1, CommitRows DEF IndexInv, OneSeat
        <3>2. CASE m \notin LiveSeats
            BY <1>9, <2>1, <3>2 DEF Seats
        <3>3. CASE n \notin LiveSeats
            BY <1>9, <2>1, <3>3 DEF Seats
        <3>4. QED
            BY <3>1, <3>2, <3>3
    <2>2. QED
        BY <2>1 DEF OneSeat, LiveSeats
<1>12. Vacant'
    <2>1. ASSUME NEW q \in Others(r), pc[q] = "commit", Kind(q) \in {"CreateCompany", "UpdateCompany"},
                 NEW d \in Companies \ {ask[q].company}, company'[d] # None, ~company'[d].deleted,
                 CodeOf[d] = CodeOf[ask[q].company]
          PROVE  FALSE
        <3>1. ~Open(d)
            BY <2>1 DEF IndexInv, Vacant, CodeTaken, Others
        <3>2. d = c0 /\ Kind(r) \in {"CreateCompany", "UpdateCompany"}
            BY <1>8, <2>1, <3>1
        <3>3. Locked(q) \cap Locked(r) = {}
            BY <1>1, <2>1 DEF IndexInv, LocksApart, Writing, Others, TenancyKinds
        <3>4. <<"code", CodeOf[d]>> \in Locked(r) /\ <<"code", CodeOf[d]>> \in Locked(q)
            BY <2>1, <3>2 DEF Locked, c0
        <3>5. QED
            BY <3>3, <3>4
    <2>2. ASSUME NEW q \in Others(r), pc[q] = "commit", Kind(q) = "Invite",
                 NEW m \in SeatIds, seat'[m] # None, ~seat'[m].removed,
                 seat'[m].company = ask[q].company, seat'[m].user = ask[q].invitee
          PROVE  FALSE
        <3>1. Seats(ask[q].company, ask[q].invitee) = {} /\ Owned(ask[q].company)
            BY <2>2 DEF IndexInv, Vacant, TenancyInv, Established, Others
        <3>2. CASE m \in LiveSeats
            <4>1. seat[m].company = ask[q].company /\ seat[m].user = ask[q].invitee
                BY <2>2, <3>2, CommitRows DEF LiveSeats
            <4>2. QED
                BY <3>1, <3>2, <4>1 DEF Seats
        <3>3. CASE Kind(r) = "CreateCompany" /\ ask[q].company = c0 /\ \A n \in LiveSeats : seat[n].company # c0
            BY <3>1, <3>3 DEF Owned, OwnerOf, OwnsIn, LiveSeats
        <3>4. CASE Kind(r) = "Invite" /\ ask[q].company = c0 /\ ask[q].invitee = ask[r].invitee
            <4>1. Locked(q) \cap Locked(r) = {}
                BY <1>1, <2>2 DEF IndexInv, LocksApart, Writing, Others, TenancyKinds
            <4>2. <<"seat", c0, ask[r].invitee>> \in Locked(r) /\ <<"seat", c0, ask[r].invitee>> \in Locked(q)
                BY <2>2, <3>4 DEF Locked, c0
            <4>3. QED
                BY <4>1, <4>2
        <3>5. QED
            BY <1>9, <2>2, <3>2, <3>3, <3>4
    <2>3. \A q \in Requests : pc'[q] = "commit" => q \in Others(r) /\ pc[q] = "commit"
        BY <1>3 DEF Others
    <2>4. QED
        BY <1>2, <2>1, <2>2, <2>3 DEF Vacant, CodeTaken, Seats, LiveSeats, Open
<1>13. QED
    BY <1>4, <1>5, <1>7, <1>10, <1>11, <1>12 DEF IndexInv

LEMMA ElsewhereKeepsIndex ==
    ASSUME TenancyInv, IndexInv, Elsewhere
    PROVE  IndexInv'
<1>1. UNCHANGED <<ask, company, seat, opened, acting>>
    BY DEF Elsewhere
<1>2. TenancyTypeOK' /\ OneCompany' /\ OneSeat'
    BY <1>1 DEF IndexInv, TenancyTypeOK, OneCompany, OneSeat, Open, LiveSeats
<1>3. Writable'
    BY <1>1 DEF IndexInv, Writable, Elsewhere, Kind, TenancyKinds
<1>4. LocksApart'
    <2>1. \A q \in Requests : Locked(q)' = Locked(q) /\ Writing(q)' = Writing(q)
        BY <1>1 DEF Locked, Kind, Writing, Elsewhere
    <2>2. QED
        BY <2>1 DEF IndexInv, LocksApart
<1>5. Vacant'
    <2>1. \A q \in Requests :
            /\ CodeTaken(ask[q].company)' = CodeTaken(ask[q].company)
            /\ Seats(ask[q].company, ask[q].invitee)' = Seats(ask[q].company, ask[q].invitee)
        BY <1>1 DEF CodeTaken, Open, Seats, LiveSeats
    <2>2. QED
        BY <1>1, <2>1 DEF IndexInv, Vacant, Elsewhere, Kind, TenancyKinds
<1>6. QED
    BY <1>2, <1>3, <1>4, <1>5 DEF IndexInv

LEMMA StepKeepsIndex ==
    ASSUME TenancyInv, IndexInv, [Next]_vars
    PROVE  IndexInv'
<1>1. CASE SessionsNext /\ UNCHANGED <<tenancyVars, roleVars>>
    BY <1>1, SessionsLeaveTenancy, ElsewhereKeepsIndex
<1>2. CASE TenancyNext
    <2>1. PICK r \in Requests : TenancyStep(r) \/ LoseTenancy(r)
        BY <1>2 DEF TenancyNext
    <2>2. Reads(r) \/ CommitTenancy(r)
        BY <2>1 DEF TenancyStep, Reads
    <2>3. QED
        BY <2>2, ReadsKeepIndex, CommitKeepsIndex
<1>3. CASE RolesNext
    BY <1>3, RolesLeaveTenancy, ElsewhereKeepsIndex
<1>4. CASE UNCHANGED vars
    BY <1>4, NothingIsElsewhere, ElsewhereKeepsIndex
<1>5. QED
    BY <1>1, <1>2, <1>3, <1>4 DEF Next

\* The inductive invariant of the memberships, over every interleaving of founding,
\* inviting, removing and closing (company and membership services).
THEOREM TenancyInvariant == Spec => []TenancyInv
BY TenancyStart, StepKeepsTenancy, PTL DEF Spec

\* A company that people can act in keeps somebody who owns it: founding makes the
\* owner's seat in the same transaction, and no removal takes the last one.
THEOREM OwnersStay == Spec => []OwnerStays
<1>1. TenancyInv => OwnerStays
    <2>1. ASSUME TenancyInv, NEW c \in Companies, Open(c)
          PROVE  Owners(c) # {}
        <3>1. PICK m \in SeatIds : OwnerOf(m, c)
            BY <2>1 DEF TenancyInv, Founded, Open, Owned
        <3>2. m \in Owners(c)
            BY <3>1 DEF OwnerOf, OwnsIn, Owners, LiveSeats
        <3>3. QED
            BY <3>2
    <2>2. QED
        BY <2>1 DEF OwnerStays
<1>2. QED
    BY TenancyInvariant, <1>1, PTL

\* A code names at most one company that is not deleted and a person has at most one
\* seat in a company, although every request looks before it locks (Create, Update,
\* Invite, the unique indexes); and every row and every company context has its type.
THEOREM IndexInvariant == Spec => []IndexInv
<1>1. Init => IndexInv
    BY IndexStart
<1>2. TenancyInv /\ IndexInv /\ [Next]_vars => IndexInv'
    BY StepKeepsIndex
<1>3. QED
    BY <1>1, <1>2, TenancyInvariant, PTL DEF Spec
=============================================================================
