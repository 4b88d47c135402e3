---------------------------- MODULE AccessProofs -----------------------------
(***************************************************************************)
(* Proofs about the sign-in of Access, for every set of requests, users,   *)
(* tokens and scenes, and whatever the session limit.                      *)
(*                                                                         *)
(* The argument: a token is revoked in one commit with the insertion of    *)
(* its successor (Lineage), and until that commit the rotating request     *)
(* holds the token's row (Rotating), which nobody else holds (Locks).  So  *)
(* a token that still is unrevoked has no successor, and only such a token *)
(* gets one.  The mass revocation of a reused token has in its hands, from *)
(* its first row on, every successor that is not revoked (Ending).         *)
(*                                                                         *)
(* Of the limit: a request that is about to mint counted its user's live   *)
(* sessions below the limit, or ends one of them, in a snapshot that may   *)
(* be old.  What others minted since belongs to other granted requests, so *)
(* the live sessions stay below the limit plus one for each of those.      *)
(***************************************************************************)
EXTENDS Access, FiniteSetTheorems, TLAPS

SessionLabels ==
    {"start", "enrol", "rotate", "count", "oldest", "revoke", "mint", "reuse", "revokeall", "commit"}
        \cup Ended

SessionsAsked ==
    \A r \in Requests :
        /\ Kind(r) \in {"Register", "Login"} => ask[r].user \in Users
        /\ Kind(r) \in {"Refresh", "Logout", "LogoutAll"} => ask[r].token \in Tokens

SessionsLabelled ==
    /\ pc = [r \in Requests |-> pc[r]]
    /\ \A r \in Requests :
         /\ Kind(r) \in SessionKinds => pc[r] \in SessionLabels
         /\ pc[r] = "enrol" => Kind(r) = "Register"
         /\ pc[r] \in {"resolve", "list", "provision", "again"} => Kind(r) \in RoleKinds
         /\ Kind(r) = "Logout" => pc[r] \in {"start", "revoke", "commit"} \cup Ended
         /\ Kind(r) = "LogoutAll" => pc[r] \in {"start", "revokeall", "commit"} \cup Ended

Rows == token \in [Tokens -> TokenRows \cup {None}]

\* A token's parent was its user's, and is revoked.
Lineage ==
    \A t \in Tokens :
        Issued(t) /\ token[t].parent # 0 =>
            LET p == token[t].parent
            IN  Issued(p) /\ token[p].revoked /\ token[p].user = token[t].user

\* The number of a minted token is nobody else's, and its row is not there yet.
Numbers ==
    /\ issued \in Nat
    /\ \A t \in Tokens : Issued(t) => t <= issued
    /\ minted \in [Requests -> Nat]
    /\ \A r \in Requests : minted[r] <= issued
    /\ \A q, r \in Requests : q # r /\ minted[q] # 0 => minted[q] # minted[r]
    /\ \A r \in Requests : Kind(r) \in SessionKinds =>
         /\ pc[r] = "commit" /\ minted[r] \in Tokens => ~Issued(minted[r])
         /\ pc[r] \notin {"commit"} \cup Ended => minted[r] = 0
         /\ Kind(r) \in {"Logout", "LogoutAll"} => minted[r] = 0

\* A row revoked by an open transaction is locked by it, and still live for the rest.
Locks ==
    /\ held \in [Requests -> SUBSET Tokens]
    /\ \A q, r \in Requests : q # r => held[q] \cap held[r] = {}
    /\ \A r \in Requests : \A t \in held[r] : Issued(t) /\ ~token[t].revoked

Targets ==
    /\ target = [r \in Requests |-> target[r]]
    /\ doomed = [r \in Requests |-> doomed[r]]
    /\ \A r \in Requests :
         /\ pc[r] \in {"rotate", "revoke", "revokeall"} => target[r] \in Tokens /\ Issued(target[r])
         /\ pc[r] = "rotate" => Kind(r) = "Refresh" /\ target[r] = ask[r].token
         /\ pc[r] = "revokeall" => \A t \in doomed[r] : t \in Tokens /\ Issued(t)

\* A request on its way to a successor holds the token it replaces.
Rotating ==
    \A r \in Requests :
        /\ Kind(r) = "Refresh"
        /\ pc[r] \in {"count", "oldest", "revoke", "mint"} \/ (pc[r] = "commit" /\ minted[r] # 0)
        => ask[r].token \in held[r]

Succeeds(t, r) == Issued(t) /\ token[t].parent = ask[r].token

\* A request that was told of a reuse has the successor in hand, until it is revoked.
EndingOf(r) ==
    /\ pc[r] \in {"reuse", "reused"} => Kind(r) = "Refresh"
    /\ Kind(r) = "Refresh" =>
         /\ \/ pc[r] \in {"reuse", "revokeall", "reused"}
            \/ pc[r] = "commit" /\ minted[r] = 0
            => Issued(ask[r].token) /\ token[ask[r].token].revoked
         /\ \A t \in Tokens : Succeeds(t, r) /\ ~token[t].revoked =>
              /\ pc[r] = "revokeall" => t \in held[r] \cup doomed[r] \cup {target[r]}
              /\ pc[r] = "commit" /\ minted[r] = 0 => t \in held[r]
              /\ pc[r] # "reused"

Ending == \A r \in Requests : EndingOf(r)

SessionsInv ==
    /\ SessionsAsked
    /\ SessionsLabelled
    /\ Rows
    /\ Lineage
    /\ Numbers
    /\ Locks
    /\ Targets
    /\ Rotating
    /\ Ending
    /\ RotatedOnce

\* Two registrations of one address do not both get past its unique index.
Enrolled == {"count", "oldest", "revoke", "mint", "commit"}

Registrations ==
    /\ account \in [Users -> Statuses \cup {None}]
    /\ \A r \in Requests : Kind(r) = "Register" =>
         /\ pc[r] \in {"start", "enrol"} \cup Enrolled \cup Ended
         /\ pc[r] \in Enrolled => account[ask[r].user] = None
         /\ pc[r] = "done" => account[ask[r].user] # None
    /\ \A q, r \in Requests :
         /\ q # r
         /\ Kind(q) = "Register" /\ Kind(r) = "Register" /\ ask[q].user = ask[r].user
         => ~ (pc[q] \in Enrolled \cup {"done"} /\ pc[r] \in Enrolled \cup {"done"})

\* There is a number for every request that may still mint.
MayMint == {r \in Requests : pc[r] \notin {"commit"} \cup Ended}

Numbered ==
    /\ issued + Cardinality(MayMint) \in Tokens \cup {0}
    /\ target \in [Requests -> Tokens \cup {0}]
    /\ doomed \in [Requests -> SUBSET Tokens]

\* Until the first request of a user has committed a session, there is room for the
\* one that each of the others is about to commit.
Granted(u) == {r \in Requests : Kind(r) \in Signing /\ pc[r] = "done" /\ Subject(r) = u}

RoomFor(r, left) ==
    Granted(Subject(r)) = {} => Cardinality(LiveSessions(Subject(r)) \ left) <= MaxActive - 1

Room ==
    \A r \in Requests : Kind(r) \in Signing =>
        /\ pc[r] = "mint" \/ (pc[r] = "commit" /\ minted[r] # 0) => RoomFor(r, held[r])
        /\ pc[r] = "revoke" => RoomFor(r, held[r] \cup {target[r]})

Capped ==
    \A u \in Users :
        /\ Granted(u) = {} => Cardinality(LiveSessions(u)) <= MaxActive
        /\ Granted(u) # {} => Cardinality(LiveSessions(u)) <= MaxActive + Cardinality(Granted(u)) - 1

Presented ==
    \A r \in Requests : Kind(r) = "Refresh" /\ pc[r] # "start" => Issued(ask[r].token)

LimitInv == Presented /\ (MaxActive > 0 => Room /\ Capped)

-----------------------------------------------------------------------------
(* The initial state. *)

LEMMA SessionsStart == Init => SessionsInv
<1> SUFFICES ASSUME Init PROVE SessionsInv
    OBVIOUS
<1>1. PICK s \in Scenes : token = s.token /\ ask \in s.asks
    BY DEF Init
<1>2. SessionsAsked
    BY <1>1, ScenesAssumption DEF SessionsAsked, Kind
<1>3. /\ pc = [r \in Requests |-> "start"]
      /\ minted = [r \in Requests |-> 0]
      /\ held = [r \in Requests |-> {}]
      /\ target = [r \in Requests |-> 0]
      /\ doomed = [r \in Requests |-> {}]
    BY DEF Init, SessionsInit
<1>4. SessionsLabelled /\ Locks /\ Targets /\ Rotating
    BY <1>3 DEF SessionsLabelled, SessionLabels, Locks, Targets, Rotating
<1>5. Rows
    BY <1>1, ScenesAssumption DEF Rows
<1>6. Lineage
    BY <1>1, ScenesAssumption DEF Lineage, Issued
<1>7. Numbers
    <2>1. issued \in Nat /\ \A t \in Tokens : Issued(t) => t <= issued
        BY TokensAssumption DEF Init, SessionsInit
    <2>2. 0 \notin Tokens
        BY TokensAssumption
    <2>3. QED
        BY <1>3, <2>1, <2>2 DEF Numbers, Ended
<1>8. Ending
    BY <1>3 DEF Ending, EndingOf
<1>9. RotatedOnce
    <2>1. SUFFICES ASSUME NEW t \in Tokens, NEW u \in Tokens, Issued(t), Issued(u),
                          token[t].parent = token[u].parent, token[t].parent # 0
                   PROVE  t = u
        BY DEF RotatedOnce
    <2>2. QED
        BY <1>1, <2>1, ScenesAssumption DEF Issued
<1>10. QED
    BY <1>2, <1>4, <1>5, <1>6, <1>7, <1>8, <1>9 DEF SessionsInv

-----------------------------------------------------------------------------
(* A step that only moves one request on leaves the tokens and their locks. *)

Walk(r) ==
    \/ CheckAddress(r) \/ Enrol(r) \/ Authenticate(r) \/ Present(r)
    \/ CountSessions(r) \/ FindOldest(r) \/ Leave(r) \/ StartRevokeAll(r)

Alone(r) ==
    /\ UNCHANGED ask
    /\ pc' = [q \in Requests |-> pc'[q]]
    /\ target' = [q \in Requests |-> target'[q]]
    /\ doomed' = [q \in Requests |-> doomed'[q]]
    /\ \A q \in Others(r) : pc'[q] = pc[q] /\ target'[q] = target[q] /\ doomed'[q] = doomed[q]

LEMMA WalkAlone ==
    ASSUME SessionsInv, NEW r \in Requests, Walk(r)
    PROVE  Alone(r) /\ UNCHANGED <<token, issued, minted, held>>
<1>1. UNCHANGED <<ask, token, issued, minted, held>>
    BY DEF Walk, CheckAddress, Enrol, Authenticate, Present, CountSessions, FindOldest, Leave,
        StartRevokeAll, sessionVars
<1>2. pc' = [q \in Requests |-> pc'[q]] /\ \A q \in Others(r) : pc'[q] = pc[q]
    BY DEF Walk, CheckAddress, Enrol, Authenticate, Present, CountSessions, FindOldest, Leave,
        StartRevokeAll, GoTo, Others, SessionsInv, SessionsLabelled
<1>3. target' = [q \in Requests |-> target'[q]] /\ \A q \in Others(r) : target'[q] = target[q]
    <2>1. CASE UNCHANGED target
        BY <2>1 DEF SessionsInv, Targets
    <2>2. CASE \E t : target' = [target EXCEPT ![r] = t]
        BY <2>2 DEF SessionsInv, Targets, Others
    <2>3. QED
        BY <2>1, <2>2 DEF Walk, CheckAddress, Enrol, Authenticate, Present, CountSessions,
            FindOldest, Leave, StartRevokeAll, sessionVars
<1>4. doomed' = [q \in Requests |-> doomed'[q]] /\ \A q \in Others(r) : doomed'[q] = doomed[q]
    <2>1. CASE UNCHANGED doomed
        BY <2>1 DEF SessionsInv, Targets
    <2>2. CASE \E s : doomed' = [doomed EXCEPT ![r] = s]
        BY <2>2 DEF SessionsInv, Targets, Others
    <2>3. QED
        BY <2>1, <2>2 DEF Walk, CheckAddress, Enrol, Authenticate, Present, CountSessions,
            FindOldest, Leave, StartRevokeAll, sessionVars
<1>5. QED
    BY <1>1, <1>2, <1>3, <1>4 DEF Alone

LEMMA LiveAreIssued ==
    ASSUME NEW u
    PROVE  \A t \in LiveSessions(u) : t \in Tokens /\ Issued(t)
BY DEF LiveSessions, Unrevoked

\* Nobody succeeds a token that is unrevoked, and a successor has its user.
LEMMA SuccessorOf ==
    ASSUME SessionsInv, NEW r \in Requests, Kind(r) = "Refresh", NEW t \in Tokens, Succeeds(t, r)
    PROVE  LET p == ask[r].token
           IN  p \in Tokens /\ Issued(p) /\ token[p].revoked /\ token[p].user = token[t].user
<1>1. ask[r].token \in Tokens /\ ask[r].token # 0
    BY TokensAssumption DEF SessionsInv, SessionsAsked
<1>2. QED
    BY <1>1 DEF SessionsInv, Lineage, Succeeds

LEMMA WalkTargets ==
    ASSUME SessionsInv, NEW r \in Requests, Walk(r)
    PROVE  Targets'
<1>1. Alone(r) /\ UNCHANGED <<token, issued, minted, held>>
    BY WalkAlone
<1>2. /\ pc'[r] \in {"rotate", "revoke", "revokeall"} => target'[r] \in Tokens /\ Issued(target'[r])
      /\ pc'[r] = "rotate" => Kind(r) = "Refresh" /\ target'[r] = ask[r].token
      /\ pc'[r] = "revokeall" => \A t \in doomed'[r] : t \in Tokens /\ Issued(t)
    <2>1. CASE CheckAddress(r) \/ Enrol(r) \/ Authenticate(r) \/ CountSessions(r)
        BY <2>1 DEF CheckAddress, Enrol, Authenticate, CountSessions, GoTo, SessionsInv, SessionsLabelled
    <2>2. CASE Present(r) \/ Leave(r)
        BY <2>2 DEF Present, Leave, GoTo, SessionsInv, SessionsLabelled, SessionsAsked, Targets
    <2>3. CASE FindOldest(r)
        BY <2>3, LiveAreIssued DEF FindOldest, Seen, GoTo, SessionsInv, SessionsLabelled, Targets
    <2>4. CASE StartRevokeAll(r)
        BY <2>4 DEF StartRevokeAll, Unrevoked, GoTo, SessionsInv, SessionsLabelled, Targets
    <2>5. QED
        BY <2>1, <2>2, <2>3, <2>4 DEF Walk
<1>3. QED
    BY <1>1, <1>2 DEF SessionsInv, Targets, Alone, Others, Kind, Issued

LEMMA SameEnding ==
    ASSUME NEW q \in Requests, EndingOf(q), UNCHANGED <<ask, token>>,
           pc'[q] = pc[q], target'[q] = target[q], doomed'[q] = doomed[q],
           minted'[q] = minted[q], held'[q] = held[q]
    PROVE  EndingOf(q)'
BY DEF EndingOf, Kind, Succeeds, Issued

LEMMA WalkEnding ==
    ASSUME SessionsInv, NEW r \in Requests, Walk(r)
    PROVE  Ending'
<1>1. Alone(r) /\ UNCHANGED <<token, issued, minted, held>>
    BY WalkAlone
<1>2. SUFFICES EndingOf(r)'
    BY <1>1, SameEnding DEF SessionsInv, Ending, Alone, Others
<1>3. CASE CheckAddress(r) \/ Enrol(r) \/ Authenticate(r) \/ CountSessions(r) \/ FindOldest(r) \/ Leave(r)
    BY <1>1, <1>3 DEF Alone, CheckAddress, Enrol, Authenticate, CountSessions, FindOldest, Leave, GoTo, SessionsInv,
        SessionsLabelled, EndingOf, Kind
<1>4. CASE Present(r)
    BY <1>1, <1>4 DEF Present, GoTo, SessionsInv, SessionsLabelled, EndingOf, Alone, Kind, Issued
<1>5. CASE StartRevokeAll(r)
    <2>1. /\ pc'[r] \in {"commit", "revokeall"}
          /\ Kind(r) = "Refresh" => pc[r] = "reuse"
          /\ Unrevoked(Subject(r)) = {} \/
               /\ pc'[r] = "revokeall"
               /\ Unrevoked(Subject(r)) \subseteq doomed'[r] \cup {target'[r]}
        BY <1>5 DEF StartRevokeAll, GoTo, SessionsInv, SessionsLabelled, Targets
    <2>2. Kind(r) = "Refresh" =>
            \A t \in Tokens : Succeeds(t, r) /\ ~token[t].revoked => t \in Unrevoked(Subject(r))
        BY SuccessorOf DEF Unrevoked, Subject, Succeeds
    <2>3. QED
        BY <1>1, <2>1, <2>2 DEF SessionsInv, Ending, EndingOf, Alone, Kind, Succeeds, Issued
<1>6. QED
    BY <1>3, <1>4, <1>5 DEF Walk

LEMMA WalkKeeps ==
    ASSUME SessionsInv, NEW r \in Requests, Walk(r)
    PROVE  SessionsInv'
<1>1. Alone(r) /\ UNCHANGED <<token, issued, minted, held>>
    BY WalkAlone
<1>2. SessionsAsked' /\ Rows' /\ Lineage' /\ Locks' /\ RotatedOnce'
    BY <1>1 DEF SessionsInv, Alone, SessionsAsked, Kind, Rows, Lineage, Locks, RotatedOnce, Issued
<1>3. /\ pc'[r] \in SessionLabels /\ (pc'[r] = "enrol" => Kind(r) = "Register")
      /\ pc'[r] \notin {"resolve", "list", "provision", "again"}
      /\ Kind(r) = "Logout" => pc'[r] \in {"start", "revoke", "commit"} \cup Ended
      /\ Kind(r) = "LogoutAll" => pc'[r] \in {"start", "revokeall", "commit"} \cup Ended
    BY DEF Walk, CheckAddress, Enrol, Authenticate, Present, CountSessions, FindOldest, Leave,
        StartRevokeAll, GoTo, SessionsInv, SessionsLabelled, SessionLabels, Ended
<1>4. SessionsLabelled'
    BY <1>1, <1>3 DEF SessionsInv, Alone, Others, SessionsLabelled, Kind
<1>5. /\ pc[r] \notin {"commit"} \cup Ended
      /\ pc'[r] = "commit" => pc[r] \in {"start", "reuse"} /\ (Kind(r) = "Refresh" => pc[r] = "reuse")
      /\ pc'[r] \in {"count", "oldest", "revoke", "mint"} =>
           pc[r] \in {"count", "oldest"} \/ Kind(r) # "Refresh"
    BY DEF Walk, CheckAddress, Enrol, Authenticate, Present, CountSessions, FindOldest, Leave,
        StartRevokeAll, GoTo, SessionsInv, SessionsLabelled, Ended
<1>6. Numbers'
    <2>1. Kind(r) \in SessionKinds => minted[r] = 0 /\ minted[r] \notin Tokens
        BY <1>5, TokensAssumption DEF SessionsInv, Numbers
    <2>2. QED
        BY <1>1, <2>1 DEF SessionsInv, Numbers, Alone, Others, Kind, Issued
<1>7. Rotating'
    <2>1. Kind(r) = "Refresh" => minted[r] = 0
        BY <1>5 DEF SessionsInv, Numbers, SessionKinds, Signing
    <2>2. QED
        BY <1>1, <1>5, <2>1 DEF SessionsInv, Rotating, Alone, Others, Kind
<1>8. QED
    BY <1>2, <1>4, <1>6, <1>7, WalkTargets, WalkEnding DEF SessionsInv

-----------------------------------------------------------------------------
(* A revocation takes the lock of a row that nobody else has. *)

Hold(r) == Rotate(r) \/ Revoke(r) \/ RevokeNext(r)

LEMMA HoldTakes ==
    ASSUME SessionsInv, NEW r \in Requests, Hold(r)
    PROVE  /\ Alone(r) /\ UNCHANGED <<token, issued, minted>>
           /\ held' = [q \in Requests |-> held'[q]]
           /\ \A q \in Others(r) : held'[q] = held[q] /\ target[r] \notin held[q]
           /\ target[r] \in Tokens /\ Issued(target[r])
           /\ held'[r] \subseteq held[r] \cup {t \in {target[r]} : ~token[t].revoked}
<1>1. UNCHANGED <<ask, token, issued, minted>>
    BY DEF Hold, Rotate, Revoke, RevokeNext
<1>2. pc' = [q \in Requests |-> pc'[q]] /\ \A q \in Others(r) : pc'[q] = pc[q]
    BY DEF Hold, Rotate, Revoke, RevokeNext, GoTo, Others, SessionsInv, SessionsLabelled
<1>3. /\ target' = [q \in Requests |-> target'[q]]
      /\ doomed' = [q \in Requests |-> doomed'[q]]
      /\ \A q \in Others(r) : target'[q] = target[q] /\ doomed'[q] = doomed[q]
    BY DEF Hold, Rotate, Revoke, RevokeNext, Others, SessionsInv, Targets
<1>4. pc[r] \in {"rotate", "revoke", "revokeall"} /\ Waits(r) = {}
    BY DEF Hold, Rotate, Revoke, RevokeNext
<1>5. held' = [q \in Requests |-> held'[q]] /\ \A q \in Others(r) : held'[q] = held[q]
    BY DEF Hold, Rotate, Revoke, RevokeNext, Others, SessionsInv, Locks
<1>6. \A q \in Others(r) : target[r] \notin held[q]
    BY <1>4 DEF Waits
<1>7. target[r] \in Tokens /\ Issued(target[r])
    BY <1>4 DEF SessionsInv, Targets
<1>8. held'[r] \subseteq held[r] \cup {t \in {target[r]} : ~token[t].revoked}
    BY DEF Hold, Rotate, Revoke, RevokeNext, StillLive, SessionsInv, Locks
<1>9. QED
    BY <1>1, <1>2, <1>3, <1>5, <1>6, <1>7, <1>8 DEF Alone

\* Where a revocation leads, by the kind of request.
LEMMA HoldLeads ==
    ASSUME SessionsInv, NEW r \in Requests, Hold(r)
    PROVE  /\ pc[r] \notin {"commit"} \cup Ended
           /\ pc'[r] \in {"count", "reuse", "mint", "commit", "revokeall"}
           /\ Kind(r) = "Logout" => pc'[r] = "commit"
           /\ Kind(r) = "LogoutAll" => pc'[r] \in {"commit", "revokeall"}
           /\ pc'[r] = "count" => ask[r].token \in held'[r]
           /\ pc'[r] = "mint" => pc[r] = "revoke" /\ held[r] \subseteq held'[r]
           /\ pc'[r] = "reuse" =>
                /\ Kind(r) = "Refresh"
                /\ Issued(ask[r].token) /\ token[ask[r].token].revoked
           /\ pc'[r] \in {"commit", "revokeall"} /\ Kind(r) = "Refresh" => RevokeNext(r)
<1>1. CASE Rotate(r)
    BY <1>1 DEF Rotate, GoTo, StillLive, Ended, SessionsInv, SessionsLabelled, Locks, Targets
<1>2. CASE Revoke(r)
    BY <1>2 DEF Revoke, GoTo, StillLive, Ended, SessionsInv, SessionsLabelled, Locks
<1>3. CASE RevokeNext(r)
    BY <1>3 DEF RevokeNext, GoTo, Ended, SessionsInv, SessionsLabelled
<1>4. QED
    BY <1>1, <1>2, <1>3 DEF Hold

LEMMA HoldEnding ==
    ASSUME SessionsInv, NEW r \in Requests, Hold(r)
    PROVE  Ending'
<1>1. /\ Alone(r) /\ UNCHANGED <<token, issued, minted>>
      /\ \A q \in Others(r) : held'[q] = held[q]
    BY HoldTakes
<1>2. SUFFICES EndingOf(r)'
    BY <1>1, SameEnding DEF SessionsInv, Ending, Alone, Others
<1>3. CASE ~RevokeNext(r) \/ Kind(r) # "Refresh"
    BY <1>1, <1>3, HoldLeads DEF EndingOf, Alone, Kind, Issued
<1>4. CASE RevokeNext(r) /\ Kind(r) = "Refresh"
    <2>1. /\ pc[r] = "revokeall" /\ pc'[r] \in {"revokeall", "commit"}
          /\ held'[r] = held[r] \cup {t \in {target[r]} : ~token[t].revoked}
          /\ pc'[r] = "commit" => doomed[r] = {}
          /\ pc'[r] = "revokeall" => doomed[r] \subseteq doomed'[r] \cup {target'[r]}
        BY <1>4 DEF RevokeNext, GoTo, StillLive, SessionsInv, SessionsLabelled, Locks, Targets
    <2>2. EndingOf(r)
        BY DEF SessionsInv, Ending
    <2>3. QED
        BY <1>1, <1>4, <2>1, <2>2 DEF EndingOf, Alone, Kind, Issued, Succeeds
<1>5. QED
    BY <1>3, <1>4

LEMMA HoldKeeps ==
    ASSUME SessionsInv, NEW r \in Requests, Hold(r)
    PROVE  SessionsInv'
<1>1. /\ Alone(r) /\ UNCHANGED <<token, issued, minted>>
      /\ held' = [q \in Requests |-> held'[q]]
      /\ \A q \in Others(r) : held'[q] = held[q] /\ target[r] \notin held[q]
      /\ target[r] \in Tokens /\ Issued(target[r])
      /\ held'[r] \subseteq held[r] \cup {t \in {target[r]} : ~token[t].revoked}
    BY HoldTakes
<1>2. SessionsAsked' /\ Rows' /\ Lineage' /\ RotatedOnce'
    BY <1>1 DEF SessionsInv, Alone, SessionsAsked, Kind, Rows, Lineage, RotatedOnce, Issued
<1>3. SessionsLabelled'
    BY <1>1, HoldLeads DEF SessionsInv, Alone, Others, SessionsLabelled, Kind, SessionLabels
<1>4. Numbers'
    <2>1. Kind(r) \in SessionKinds => minted[r] = 0 /\ minted[r] \notin Tokens
        BY HoldLeads, TokensAssumption DEF SessionsInv, Numbers
    <2>2. QED
        BY <1>1, <2>1 DEF SessionsInv, Numbers, Alone, Others, Kind, Issued
<1>5. Locks'
    <2>1. held' \in [Requests -> SUBSET Tokens]
        BY <1>1 DEF SessionsInv, Locks, Others
    <2>2. \A q, p \in Requests : q # p => held'[q] \cap held'[p] = {}
        BY <1>1 DEF SessionsInv, Locks, Others
    <2>3. \A q \in Requests : \A t \in held'[q] : Issued(t) /\ ~token[t].revoked
        BY <1>1 DEF SessionsInv, Locks, Others
    <2>4. QED
        BY <1>1, <2>1, <2>2, <2>3 DEF Locks, Issued
<1>6. Targets'
    <2>1. pc'[r] = "revokeall" =>
            /\ target'[r] \in Tokens /\ Issued(target'[r])
            /\ \A t \in doomed'[r] : t \in Tokens /\ Issued(t)
        BY DEF Hold, Rotate, Revoke, RevokeNext, GoTo, SessionsInv, SessionsLabelled, Targets
    <2>2. pc'[r] \notin {"rotate", "revoke"}
        BY HoldLeads
    <2>3. QED
        BY <1>1, <2>1, <2>2 DEF SessionsInv, Targets, Alone, Others, Kind, Issued
<1>7. Rotating'
    <2>1. Kind(r) = "Refresh" => minted[r] = 0
        BY HoldLeads DEF SessionsInv, Numbers, SessionKinds, Signing
    <2>2. Kind(r) = "Refresh" /\ pc'[r] \in {"count", "oldest", "revoke", "mint"}
            => ask[r].token \in held'[r]
        BY HoldLeads DEF SessionsInv, Rotating
    <2>3. QED
        BY <1>1, <2>1, <2>2 DEF SessionsInv, Rotating, Alone, Others, Kind
<1>8. QED
    BY <1>2, <1>3, <1>4, <1>5, <1>6, <1>7, HoldEnding DEF SessionsInv

-----------------------------------------------------------------------------
(* A new number, and a transaction given up. *)

LEMMA MintKeeps ==
    ASSUME SessionsInv, NEW r \in Requests, Mint(r)
    PROVE  SessionsInv'
<1>1. /\ UNCHANGED <<ask, token, held, target, doomed>>
      /\ pc[r] = "mint" /\ pc'[r] = "commit"
      /\ pc' = [q \in Requests |-> pc'[q]] /\ \A q \in Others(r) : pc'[q] = pc[q]
      /\ issued' = issued + 1
      /\ minted' = [minted EXCEPT ![r] = issued + 1]
    BY DEF Mint, GoTo, Others, SessionsInv, SessionsLabelled
<1>2. Alone(r)
    BY <1>1 DEF Alone, Others, SessionsInv, Targets
<1>3. minted'[r] = issued + 1 /\ \A q \in Others(r) : minted'[q] = minted[q]
    BY <1>1 DEF Others, SessionsInv, Numbers
<1>4. SessionsAsked' /\ Rows' /\ Lineage' /\ Locks' /\ RotatedOnce'
    BY <1>1 DEF SessionsInv, SessionsAsked, Kind, Rows, Lineage, Locks, RotatedOnce, Issued
<1>5. SessionsLabelled'
    BY <1>1 DEF SessionsInv, SessionsLabelled, Others, Kind, SessionLabels, Ended
<1>6. Numbers'
    <2>1. issued' \in Nat /\ \A t \in Tokens : Issued(t) => t <= issued'
        BY <1>1, TokensAssumption DEF SessionsInv, Numbers
    <2>2. minted' \in [Requests -> Nat] /\ \A q \in Requests : minted'[q] <= issued'
        BY <1>1, <1>3 DEF SessionsInv, Numbers, Others
    <2>3. \A q, p \in Requests : q # p /\ minted'[q] # 0 => minted'[q] # minted'[p]
        BY <1>3 DEF SessionsInv, Numbers, Others
    <2>4. issued + 1 \in Tokens => ~Issued(issued + 1)
        BY DEF SessionsInv, Numbers
    <2>5. Kind(r) \notin {"Logout", "LogoutAll"}
        BY <1>1 DEF SessionsInv, SessionsLabelled, Ended
    <2>6. \A q \in Requests : Kind(q) \in SessionKinds =>
            /\ pc'[q] = "commit" /\ minted'[q] \in Tokens => ~Issued(minted'[q])
            /\ pc'[q] \notin {"commit"} \cup Ended => minted'[q] = 0
            /\ Kind(q) \in {"Logout", "LogoutAll"} => minted'[q] = 0
        BY <1>1, <1>3, <2>4, <2>5 DEF SessionsInv, Numbers, Others
    <2>7. QED
        BY <1>1, <2>1, <2>2, <2>3, <2>6 DEF Numbers, Kind, Issued
<1>7. Targets' /\ Rotating'
    BY <1>1, <1>3 DEF SessionsInv, Targets, Rotating, Others, Kind, Issued
<1>8. Ending'
    <2>1. EndingOf(r)'
        BY <1>1, <1>3 DEF EndingOf, SessionsInv, Numbers
    <2>2. QED
        BY <1>1, <1>2, <1>3, <2>1, SameEnding DEF SessionsInv, Ending, Alone, Others
<1>9. QED
    BY <1>4, <1>5, <1>6, <1>7, <1>8 DEF SessionsInv

LEMMA RollBackKeeps ==
    ASSUME SessionsInv, NEW r \in Requests, RollBackSession(r)
    PROVE  SessionsInv'
<1>1. /\ UNCHANGED <<ask, token, issued, target, doomed>>
      /\ pc'[r] = "lost"
      /\ pc' = [q \in Requests |-> pc'[q]] /\ \A q \in Others(r) : pc'[q] = pc[q]
    BY DEF RollBackSession, GoTo, Others, SessionsInv, SessionsLabelled
<1>2. /\ held' = [held EXCEPT ![r] = {}] /\ minted' = [minted EXCEPT ![r] = 0]
      /\ held'[r] = {} /\ minted'[r] = 0
      /\ \A q \in Others(r) : held'[q] = held[q] /\ minted'[q] = minted[q]
    BY DEF RollBackSession, Others, SessionsInv, Locks, Numbers
<1>3. Alone(r)
    BY <1>1 DEF Alone, Others, SessionsInv, Targets
<1>4. SessionsAsked' /\ Rows' /\ Lineage' /\ RotatedOnce'
    BY <1>1 DEF SessionsInv, SessionsAsked, Kind, Rows, Lineage, RotatedOnce, Issued
<1>5. SessionsLabelled'
    BY <1>1 DEF SessionsInv, SessionsLabelled, Others, Kind, SessionLabels, Ended
<1>6. Numbers'
    <2>1. minted' \in [Requests -> Nat] /\ \A q \in Requests : minted'[q] <= issued
        BY <1>2 DEF SessionsInv, Numbers, Others
    <2>2. QED
        BY <1>1, <1>2, <2>1 DEF SessionsInv, Numbers, Others, Kind, Issued, Ended
<1>7. Locks'
    BY <1>1, <1>2 DEF SessionsInv, Locks, Others, Issued
<1>8. Targets' /\ Rotating'
    BY <1>1, <1>2 DEF SessionsInv, Targets, Rotating, Others, Kind, Issued
<1>9. Ending'
    <2>1. EndingOf(r)'
        BY <1>1, <1>2 DEF EndingOf
    <2>2. QED
        BY <1>1, <1>2, <1>3, <2>1, SameEnding DEF SessionsInv, Ending, Alone, Others
<1>10. QED
    BY <1>4, <1>5, <1>6, <1>7, <1>8, <1>9 DEF SessionsInv

-----------------------------------------------------------------------------
(* The commit: revocations, and a successor, at once. *)

\* What a commit leaves of a row that was there, and the row it adds.
LEMMA CommitSettles ==
    ASSUME SessionsInv, NEW r \in Requests, CommitSession(r)
    PROVE  /\ pc[r] = "commit" /\ Kind(r) \in SessionKinds
           /\ Alone(r) /\ UNCHANGED <<issued, minted>>
           /\ pc'[r] \in {"done", "reused"}
           /\ pc'[r] = "reused" => Kind(r) = "Refresh" /\ minted[r] = 0
           /\ held' = [q \in Requests |-> held'[q]] /\ held'[r] = {}
           /\ \A q \in Others(r) : held'[q] = held[q]
           /\ token' \in [Tokens -> TokenRows \cup {None}]
           /\ \A t \in Tokens : Issued(t) => t # minted[r]
           /\ \A t \in Tokens \ {minted[r]} :
                /\ token'[t] # None <=> Issued(t)
                /\ Issued(t) =>
                     /\ token'[t].parent = token[t].parent /\ token'[t].user = token[t].user
                     /\ token'[t].revoked <=> token[t].revoked \/ t \in held[r]
           /\ minted[r] \in Tokens =>
                /\ token'[minted[r]].parent = Parent(r)
                /\ token'[minted[r]].user = Subject(r)
<1>1. /\ pc[r] = "commit" /\ Kind(r) \in SessionKinds
      /\ UNCHANGED <<ask, issued, minted, target, doomed>>
      /\ token' = Settled(r)
      /\ pc'[r] \in {"done", "reused"}
      /\ pc'[r] = "reused" => Kind(r) = "Refresh" /\ minted[r] = 0
      /\ pc' = [q \in Requests |-> pc'[q]] /\ \A q \in Others(r) : pc'[q] = pc[q]
    BY DEF CommitSession, GoTo, Others, SessionsInv, SessionsLabelled
<1>2. /\ held' = [q \in Requests |-> held'[q]] /\ held'[r] = {}
      /\ \A q \in Others(r) : held'[q] = held[q]
    BY DEF CommitSession, Others, SessionsInv, Locks
<1>3. Alone(r)
    BY <1>1 DEF Alone, SessionsInv, Targets, Others
<1>4. \A t \in Tokens : Issued(t) => t # minted[r]
    BY <1>1 DEF SessionsInv, Numbers
<1>5. \A t \in Tokens : Issued(t) => token[t] \in TokenRows
    BY DEF SessionsInv, Rows, Issued
<1>6. ASSUME NEW t \in Tokens \ {minted[r]}
      PROVE  /\ token'[t] \in TokenRows \cup {None}
             /\ token'[t] # None <=> Issued(t)
             /\ Issued(t) =>
                  /\ token'[t].parent = token[t].parent /\ token'[t].user = token[t].user
                  /\ token'[t].revoked <=> token[t].revoked \/ t \in held[r]
    <2>1. CASE t \in held[r]
        <3>1. Issued(t) /\ token[t] \in TokenRows
            BY <1>5, <2>1 DEF SessionsInv, Locks
        <3>2. token'[t] = [token[t] EXCEPT !.revoked = TRUE]
            BY <1>1, <2>1 DEF Settled
        <3>3. token'[t] \in TokenRows
            BY <3>1, <3>2 DEF TokenRows
        <3>4. /\ token'[t].parent = token[t].parent /\ token'[t].user = token[t].user
              /\ token'[t].revoked = TRUE
            BY <3>1, <3>2 DEF TokenRows
        <3>5. token'[t] # None
            BY <3>3, TokensAssumption DEF Issued
        <3>6. QED
            BY <2>1, <3>1, <3>3, <3>4, <3>5
    <2>2. CASE t \notin held[r]
        <3>1. token'[t] = token[t]
            BY <1>1, <2>2 DEF Settled
        <3>2. QED
            BY <2>2, <3>1 DEF SessionsInv, Rows, Issued
    <2>3. QED
        BY <2>1, <2>2
<1>7. ASSUME minted[r] \in Tokens
      PROVE  /\ token'[minted[r]].parent = Parent(r)
             /\ token'[minted[r]].user = Subject(r)
             /\ token'[minted[r]] \in TokenRows
    <2>1. token'[minted[r]] = Row(Subject(r), Parent(r))
        BY <1>1, <1>7 DEF Settled
    <2>2. minted[r] # 0
        BY <1>7, TokensAssumption
    <2>3. Kind(r) \in Signing
        BY <1>1, <2>2 DEF SessionsInv, Numbers, SessionKinds
    <2>4. CASE Kind(r) = "Refresh"
        <3>1. ask[r].token \in Tokens /\ Issued(ask[r].token)
            BY <1>1, <2>2, <2>4 DEF SessionsInv, Rotating, Locks
        <3>2. Subject(r) \in Users /\ Parent(r) \in Tokens
            BY <1>5, <2>4, <3>1 DEF Subject, Parent, TokenRows
        <3>3. QED
            BY <2>1, <3>2 DEF Row, TokenRows
    <2>5. CASE Kind(r) \in {"Register", "Login"}
        <3>1. Subject(r) \in Users /\ Parent(r) = 0
            BY <2>5 DEF SessionsInv, SessionsAsked, Subject, Parent
        <3>2. QED
            BY <2>1, <3>1 DEF Row, TokenRows
    <2>6. QED
        BY <2>3, <2>4, <2>5 DEF Signing
<1>8. token' \in [Tokens -> TokenRows \cup {None}]
    <2>1. token' = [t \in Tokens |-> token'[t]]
        BY <1>1 DEF Settled
    <2>2. \A t \in Tokens : token'[t] \in TokenRows \cup {None}
        BY <1>6, <1>7
    <2>3. QED
        BY <2>1, <2>2
<1>9. QED
    BY <1>1, <1>2, <1>3, <1>4, <1>6, <1>7, <1>8

\* The successor's parent was held, so nobody else succeeds it.
LEMMA CommitSucceeds ==
    ASSUME SessionsInv, NEW r \in Requests, CommitSession(r), minted[r] \in Tokens, Parent(r) # 0
    PROVE  LET p == Parent(r)
           IN  /\ p = ask[r].token /\ p \in Tokens /\ p \in held[r] /\ p # minted[r]
               /\ Issued(p) /\ ~token[p].revoked /\ Subject(r) = token[p].user
               /\ \A t \in Tokens : Issued(t) => token[t].parent # p
<1>1. Kind(r) = "Refresh" /\ Parent(r) = ask[r].token /\ Subject(r) = token[ask[r].token].user
    BY DEF Parent, Subject
<1>2. pc[r] = "commit" /\ minted[r] # 0
    BY CommitSettles, TokensAssumption
<1>3. ask[r].token \in Tokens /\ ask[r].token \in held[r]
    BY <1>1, <1>2 DEF SessionsInv, SessionsAsked, Rotating
<1>4. Issued(ask[r].token) /\ ~token[ask[r].token].revoked
    BY <1>3 DEF SessionsInv, Locks
<1>5. \A t \in Tokens : Issued(t) => token[t].parent # ask[r].token
    BY <1>3, <1>4, TokensAssumption DEF SessionsInv, Lineage
<1>6. QED
    BY <1>1, <1>3, <1>4, <1>5, CommitSettles

LEMMA CommitEnding ==
    ASSUME SessionsInv, NEW r \in Requests, CommitSession(r)
    PROVE  Ending'
<1> DEFINE n == minted[r]
<1>1. /\ Alone(r) /\ UNCHANGED <<issued, minted>>
      /\ pc[r] = "commit" /\ pc'[r] \in {"done", "reused"}
      /\ pc'[r] = "reused" => Kind(r) = "Refresh" /\ n = 0
      /\ \A q \in Others(r) : held'[q] = held[q]
      /\ \A t \in Tokens : Issued(t) => t # n
      /\ \A t \in Tokens \ {n} :
           /\ token'[t] # None <=> Issued(t)
           /\ Issued(t) =>
                /\ token'[t].parent = token[t].parent
                /\ token'[t].revoked <=> token[t].revoked \/ t \in held[r]
      /\ n \in Tokens => token'[n].parent = Parent(r)
    BY CommitSettles
<1>2. \A q \in Requests : Kind(q)' = Kind(q) /\ ask'[q] = ask[q]
    BY <1>1 DEF Alone, Kind
<1> HIDE DEF n
<1>3. ASSUME NEW q \in Others(r)
      PROVE  EndingOf(q)'
    <2>1. q \in Requests /\ EndingOf(q)
        BY DEF SessionsInv, Ending, Others
    <2>2. pc'[q] = pc[q] /\ target'[q] = target[q] /\ doomed'[q] = doomed[q]
          /\ held'[q] = held[q] /\ minted'[q] = minted[q]
        BY <1>1 DEF Alone
    <2>3. SUFFICES ASSUME Kind(q) = "Refresh",
                          \/ pc[q] \in {"reuse", "revokeall", "reused"}
                          \/ pc[q] = "commit" /\ minted[q] = 0
                   PROVE  /\ token'[ask[q].token] # None /\ token'[ask[q].token].revoked
                          /\ \A t \in Tokens : token'[t] # None /\ token'[t].parent = ask[q].token
                                            /\ ~token'[t].revoked =>
                               Succeeds(t, q) /\ ~token[t].revoked
        BY <1>2, <2>1, <2>2 DEF EndingOf, Issued, Succeeds
    <2>4. /\ ask[q].token \in Tokens
          /\ Issued(ask[q].token) /\ token[ask[q].token].revoked
        BY <2>1, <2>3 DEF EndingOf, SessionsInv, SessionsAsked
    <2>5. token'[ask[q].token] # None /\ token'[ask[q].token].revoked
        BY <1>1, <2>4
    <2>6. ASSUME NEW t \in Tokens, token'[t] # None, token'[t].parent = ask[q].token, ~token'[t].revoked
          PROVE  Succeeds(t, q) /\ ~token[t].revoked
        <3>1. CASE t # n
            BY <1>1, <2>6, <3>1 DEF Succeeds
        <3>2. CASE t = n
            <4>1. Parent(r) = ask[q].token /\ Parent(r) # 0 /\ n \in Tokens
                BY <1>1, <2>4, <2>6, <3>2, TokensAssumption
            <4>2. ~token[ask[q].token].revoked
                BY <4>1, CommitSucceeds DEF n
            <4>3. QED
                BY <2>4, <4>2
        <3>3. QED
            BY <3>1, <3>2
    <2>7. QED
        BY <2>5, <2>6
<1>4. EndingOf(r)'
    <2>1. EndingOf(r)
        BY DEF SessionsInv, Ending
    <2>2. CASE pc'[r] = "done"
        BY <1>2, <2>2 DEF EndingOf
    <2>3. CASE pc'[r] = "reused"
        <3>1. Kind(r) = "Refresh" /\ n = 0 /\ 0 \notin Tokens /\ minted[r] = 0
            BY <1>1, <2>3, TokensAssumption DEF n
        <3>2. ask[r].token \in Tokens /\ Issued(ask[r].token) /\ token[ask[r].token].revoked
            BY <1>1, <2>1, <3>1 DEF EndingOf, SessionsInv, SessionsAsked
        <3>3. token'[ask[r].token] # None /\ token'[ask[r].token].revoked
            BY <1>1, <3>1, <3>2
        <3>4. ASSUME NEW t \in Tokens, token'[t] # None, token'[t].parent = ask[r].token, ~token'[t].revoked
              PROVE  FALSE
            <4>1. Issued(t) /\ token[t].parent = ask[r].token /\ ~token[t].revoked /\ t \notin held[r]
                BY <1>1, <1>2, <3>1, <3>4 DEF Succeeds
            <4>2. QED
                BY <1>1, <2>1, <3>1, <4>1 DEF EndingOf, Succeeds
        <3>5. QED
            BY <1>2, <2>3, <3>1, <3>3, <3>4 DEF EndingOf, Issued, Succeeds
    <2>4. QED
        BY <1>1, <2>2, <2>3
<1>5. QED
    BY <1>3, <1>4 DEF Ending, Others

LEMMA CommitKeepsSessions ==
    ASSUME SessionsInv, NEW r \in Requests, CommitSession(r)
    PROVE  SessionsInv'
<1> DEFINE n == minted[r]
<1>1. /\ pc[r] = "commit" /\ Kind(r) \in SessionKinds
      /\ Alone(r) /\ UNCHANGED <<issued, minted>>
      /\ pc'[r] \in {"done", "reused"}
      /\ held' = [q \in Requests |-> held'[q]] /\ held'[r] = {}
      /\ \A q \in Others(r) : held'[q] = held[q]
      /\ token' \in [Tokens -> TokenRows \cup {None}]
      /\ \A t \in Tokens : Issued(t) => t # n
      /\ \A t \in Tokens \ {n} :
           /\ token'[t] # None <=> Issued(t)
           /\ Issued(t) =>
                /\ token'[t].parent = token[t].parent /\ token'[t].user = token[t].user
                /\ token'[t].revoked <=> token[t].revoked \/ t \in held[r]
      /\ n \in Tokens => token'[n].parent = Parent(r) /\ token'[n].user = Subject(r)
    BY CommitSettles
<1>2. n \in Tokens /\ Parent(r) # 0 =>
        /\ Parent(r) \in Tokens /\ Parent(r) \in held[r] /\ Parent(r) # n
        /\ Issued(Parent(r)) /\ Subject(r) = token[Parent(r)].user
        /\ \A t \in Tokens : Issued(t) => token[t].parent # Parent(r)
    BY CommitSucceeds
<1>3. \A q \in Requests : Kind(q)' = Kind(q) /\ ask'[q] = ask[q]
    BY <1>1 DEF Alone, Kind
<1>4. \A t \in Tokens : Issued(t) => token[t].parent \in Tokens \cup {0}
    BY DEF SessionsInv, Rows, TokenRows, Issued
<1>5. Rows' /\ SessionsAsked'
    BY <1>1, <1>3 DEF SessionsInv, Rows, SessionsAsked
<1>6. SessionsLabelled'
    BY <1>1, <1>3 DEF SessionsInv, SessionsLabelled, Alone, Others, SessionLabels, Ended
<1>7. Numbers'
    <2>1. \A t \in Tokens : token'[t] # None => t <= issued
        BY <1>1 DEF SessionsInv, Numbers, n
    <2>2. n \in Tokens => n # 0
        BY TokensAssumption
    <2>3. \A q \in Others(r) : minted[q] \in Tokens /\ ~Issued(minted[q]) => token'[minted[q]] = None \/ minted[q] = n
        BY <1>1
    <2>4. \A q \in Others(r) : minted[q] \in Tokens => minted[q] # n
        BY TokensAssumption DEF SessionsInv, Numbers, Others, n
    <2>5. ASSUME NEW q \in Requests, Kind(q) \in SessionKinds
          PROVE  /\ pc'[q] = "commit" /\ minted[q] \in Tokens => token'[minted[q]] = None
                 /\ pc'[q] \notin {"commit"} \cup Ended => minted[q] = 0
                 /\ Kind(q) \in {"Logout", "LogoutAll"} => minted[q] = 0
        BY <1>1, <2>3, <2>4, <2>5 DEF SessionsInv, Numbers, Others, Alone, Ended
    <2> HIDE DEF n
    <2>6. QED
        BY <1>1, <1>3, <2>1, <2>5 DEF SessionsInv, Numbers, Issued
<1> HIDE DEF n
<1>8. Lineage'
    <2>1. ASSUME NEW t \in Tokens, token'[t] # None, token'[t].parent # 0
          PROVE  LET p == token'[t].parent
                 IN  token'[p] # None /\ token'[p].revoked /\ token'[p].user = token'[t].user
        <3>1. CASE t # n
            <4>1. Issued(t) /\ token'[t].parent = token[t].parent /\ token'[t].user = token[t].user
                BY <1>1, <2>1, <3>1
            <4>2. LET p == token[t].parent
                  IN  p \in Tokens /\ Issued(p) /\ token[p].revoked /\ token[p].user = token[t].user
                BY <1>4, <2>1, <4>1 DEF SessionsInv, Lineage
            <4>3. QED
                BY <1>1, <4>1, <4>2
        <3>2. CASE t = n
            BY <1>1, <1>2, <2>1, <3>2
        <3>3. QED
            BY <3>1, <3>2
    <2>2. QED
        BY <2>1 DEF Lineage, Issued
<1>9. Locks'
    <2>1. held' \in [Requests -> SUBSET Tokens]
        BY <1>1 DEF SessionsInv, Locks, Others
    <2>2. \A q, p \in Requests : q # p => held'[q] \cap held'[p] = {}
        BY <1>1 DEF SessionsInv, Locks, Others
    <2>3. \A q \in Requests : \A t \in held'[q] : token'[t] # None /\ ~token'[t].revoked
        BY <1>1 DEF SessionsInv, Locks, Others
    <2>4. QED
        BY <2>1, <2>2, <2>3 DEF Locks, Issued
<1>10. Targets'
    <2>1. \A t \in Tokens : Issued(t) => token'[t] # None
        BY <1>1
    <2>2. QED
        BY <1>1, <1>3, <2>1 DEF SessionsInv, Targets, Alone, Others, Issued
<1>11. Rotating'
    BY <1>1, <1>3 DEF SessionsInv, Rotating, Alone, Others
<1>12. RotatedOnce'
    <2>1. ASSUME NEW s \in Tokens, NEW t \in Tokens, s # t, token'[s] # None, token'[t] # None,
                 token'[s].parent = token'[t].parent, token'[s].parent # 0
          PROVE  FALSE
        <3>1. CASE s # n /\ t # n
            BY <1>1, <2>1, <3>1 DEF SessionsInv, RotatedOnce
        <3>2. CASE s = n
            BY <1>1, <1>2, <2>1, <3>2
        <3>3. CASE t = n
            BY <1>1, <1>2, <2>1, <3>3
        <3>4. QED
            BY <3>1, <3>2, <3>3
    <2>2. QED
        BY <2>1 DEF RotatedOnce, Issued
<1>13. QED
    BY <1>5, <1>6, <1>7, <1>8, <1>9, <1>10, <1>11, <1>12, CommitEnding DEF SessionsInv

-----------------------------------------------------------------------------
(* Time, and the requests of tenancy and roles. *)

LEMMA ExpireKeeps ==
    ASSUME SessionsInv, NEW i \in Tokens, Expire(i)
    PROVE  SessionsInv'
<1>1. /\ UNCHANGED <<ask, pc, issued, minted, held, target, doomed>>
      /\ Issued(i)
      /\ token' = [token EXCEPT ![i].expired = TRUE]
    BY DEF Expire, requestVars
<1>2. token[i] \in TokenRows
    BY <1>1 DEF SessionsInv, Rows, Issued
<1>3. token'[i] = [token[i] EXCEPT !.expired = TRUE] /\ token'[i] \in TokenRows
    <2>1. token'[i] = [token[i] EXCEPT !.expired = TRUE]
        BY <1>1 DEF SessionsInv, Rows
    <2>2. QED
        BY <1>2, <2>1 DEF TokenRows
<1>4. Rows'
    BY <1>1, <1>3 DEF SessionsInv, Rows
<1>5. \A t \in Tokens :
        /\ token'[t] # None <=> token[t] # None
        /\ token'[t].parent = token[t].parent /\ token'[t].user = token[t].user
        /\ token'[t].revoked = token[t].revoked
    <2>1. token'[i] # None /\ token[i] # None
        BY <1>1, <1>3, TokensAssumption DEF Issued
    <2>2. /\ token'[i].parent = token[i].parent /\ token'[i].user = token[i].user
          /\ token'[i].revoked = token[i].revoked
        BY <1>2, <1>3 DEF TokenRows
    <2>3. \A t \in Tokens \ {i} : token'[t] = token[t]
        BY <1>1 DEF SessionsInv, Rows
    <2>4. QED
        BY <2>1, <2>2, <2>3
<1>6. \A t \in Tokens : token[t] # None /\ token[t].parent # 0 => token[t].parent \in Tokens
    BY DEF SessionsInv, Rows, TokenRows
<1>7. SessionsAsked' /\ SessionsLabelled' /\ Rotating'
    BY <1>1 DEF SessionsInv, SessionsAsked, SessionsLabelled, Rotating, Kind
<1>8. Lineage' /\ RotatedOnce'
    BY <1>5, <1>6 DEF SessionsInv, Lineage, RotatedOnce, Issued
<1>9. Numbers' /\ Locks' /\ Targets'
    BY <1>1, <1>5 DEF SessionsInv, Numbers, Locks, Targets, Issued, Kind
<1>10. Ending'
    <2>1. ASSUME NEW q \in Requests
          PROVE  EndingOf(q)'
        <3>1. EndingOf(q) /\ (Kind(q) = "Refresh" => ask[q].token \in Tokens)
            BY DEF SessionsInv, Ending, SessionsAsked
        <3>2. QED
            BY <1>1, <1>5, <3>1 DEF EndingOf, Kind, Issued, Succeeds
    <2>2. QED
        BY <2>1 DEF Ending
<1>11. QED
    BY <1>4, <1>7, <1>8, <1>9, <1>10 DEF SessionsInv

LEMMA TenancyLeavesSessions ==
    ASSUME SessionsInv, NEW r \in Requests, TenancyStep(r) \/ LoseTenancy(r)
    PROVE  /\ UNCHANGED ask
           /\ pc' = [q \in Requests |-> pc'[q]] /\ \A q \in Others(r) : pc'[q] = pc[q]
           /\ Kind(r) \notin SessionKinds
           /\ pc'[r] \notin {"enrol", "rotate", "revoke", "revokeall", "reuse", "reused"}
           /\ pc'[r] \in {"resolve", "list", "provision", "again"} => Kind(r) \in RoleKinds
<1>1. UNCHANGED ask
    BY DEF TenancyStep, LoseTenancy, Enter, CheckCode, OpenCompany, CloseCompany, FindInvitee,
        FindSeat, CountOwners, WriteTenancy, CommitTenancy
<1>2. pc' = [q \in Requests |-> pc'[q]] /\ \A q \in Others(r) : pc'[q] = pc[q]
    BY DEF TenancyStep, LoseTenancy, Enter, CheckCode, OpenCompany, CloseCompany, FindInvitee,
        FindSeat, CountOwners, WriteTenancy, CommitTenancy, GoTo, Others, SessionsInv, SessionsLabelled
<1>3. Kind(r) \in Scoped \cup TenancyKinds \/ pc[r] = "owners"
    BY DEF TenancyStep, LoseTenancy, Enter, CheckCode, OpenCompany, CloseCompany, FindInvitee,
        FindSeat, CountOwners, WriteTenancy, CommitTenancy, TenancyKinds
<1>4. Kind(r) \notin SessionKinds
    BY <1>3 DEF Scoped, TenancyKinds, SessionKinds, Signing, SessionsInv, SessionsLabelled, SessionLabels, Ended
<1>5. pc'[r] \notin {"enrol", "rotate", "revoke", "revokeall", "reuse", "reused"}
    BY DEF TenancyStep, LoseTenancy, Enter, CheckCode, OpenCompany, CloseCompany, FindInvitee,
        FindSeat, CountOwners, WriteTenancy, CommitTenancy, Verdict, GoTo, SessionsInv, SessionsLabelled
<1>6. pc'[r] \in {"resolve", "list", "provision", "again"} => Kind(r) \in RoleKinds
    BY DEF TenancyStep, LoseTenancy, Enter, CheckCode, OpenCompany, CloseCompany, FindInvitee,
        FindSeat, CountOwners, WriteTenancy, CommitTenancy, Verdict, GoTo, SessionsInv, SessionsLabelled, Scoped,
        TenancyKinds, RoleKinds
<1>7. QED
    BY <1>1, <1>2, <1>4, <1>5, <1>6

LEMMA RolesLeaveSessions ==
    ASSUME SessionsInv, NEW r \in Requests, RoleStep(r) \/ LoseRole(r)
    PROVE  /\ UNCHANGED ask
           /\ pc' = [q \in Requests |-> pc'[q]] /\ \A q \in Others(r) : pc'[q] = pc[q]
           /\ Kind(r) \notin SessionKinds
           /\ pc'[r] \notin {"enrol", "rotate", "revoke", "revokeall", "reuse", "reused"}
           /\ pc'[r] \in {"resolve", "list", "provision", "again"} => Kind(r) \in RoleKinds
<1>1. UNCHANGED ask
    BY DEF RoleStep, LoseRole, ResolveRole, ListRoles, Provision, CommitProvision, CheckName,
        InsertRole, LoadRole, StoreRole, Diff, Revive, FindHeld, InsertGrants, RevokeGrants,
        CommitRole, EndRole
<1>2. pc' = [q \in Requests |-> pc'[q]] /\ \A q \in Others(r) : pc'[q] = pc[q]
    BY DEF RoleStep, LoseRole, ResolveRole, ListRoles, Provision, CommitProvision, CheckName,
        InsertRole, LoadRole, StoreRole, Diff, Revive, FindHeld, InsertGrants, RevokeGrants,
        CommitRole, EndRole, GoTo, Others, SessionsInv, SessionsLabelled
<1>3. \/ Kind(r) \in RoleKinds
      \/ pc[r] \in {"resolve", "again", "list", "provision", "name", "insert", "load", "store",
                    "diff", "revive", "held", "grant", "ungrant"}
    BY DEF RoleStep, LoseRole, ResolveRole, ListRoles, Provision, CommitProvision, CheckName,
        InsertRole, LoadRole, StoreRole, Diff, Revive, FindHeld, InsertGrants, RevokeGrants,
        CommitRole
<1>4. Kind(r) \notin SessionKinds
    BY <1>3 DEF RoleKinds, SessionKinds, Signing, SessionsInv, SessionsLabelled, SessionLabels, Ended
<1>5. pc'[r] \notin {"enrol", "rotate", "revoke", "revokeall", "reuse", "reused"}
    <2>1. CASE ResolveRole(r)
        BY <2>1 DEF ResolveRole, FirstStep, GoTo, SessionsInv, SessionsLabelled, RoleKinds
    <2>2. CASE \/ ListRoles(r) \/ Provision(r) \/ CommitProvision(r) \/ CheckName(r)
               \/ InsertRole(r) \/ LoadRole(r) \/ StoreRole(r)
        BY <2>2 DEF ListRoles, Provision, CommitProvision, CheckName, InsertRole, LoadRole,
            StoreRole, GoTo, SessionsInv, SessionsLabelled
    <2>3. CASE \/ Diff(r) \/ Revive(r) \/ FindHeld(r) \/ InsertGrants(r) \/ RevokeGrants(r)
               \/ CommitRole(r) \/ LoseRole(r)
        BY <2>3 DEF Diff, Revive, FindHeld, InsertGrants, RevokeGrants, CommitRole, LoseRole,
            EndRole, GoTo, SessionsInv, SessionsLabelled
    <2>4. QED
        BY <2>1, <2>2, <2>3 DEF RoleStep
<1>6. pc'[r] \in {"resolve", "list", "provision", "again"} => Kind(r) \in RoleKinds
    BY <1>3 DEF RoleStep, LoseRole, ResolveRole, ListRoles, Provision, CommitProvision, CheckName,
        InsertRole, LoadRole, StoreRole, Diff, Revive, FindHeld, InsertGrants, RevokeGrants,
        CommitRole, EndRole, GoTo, SessionsInv, SessionsLabelled
<1>7. QED
    BY <1>1, <1>2, <1>4, <1>5, <1>6

\* A request of another kind moves; the sessions and their requests do not.
LEMMA ElsewhereKeepsSessions ==
    ASSUME SessionsInv, NEW r \in Requests, UNCHANGED sessionVars, UNCHANGED ask,
           pc' = [q \in Requests |-> pc'[q]],
           \A q \in Others(r) : pc'[q] = pc[q],
           Kind(r) \notin SessionKinds,
           pc'[r] \notin {"enrol", "rotate", "revoke", "revokeall", "reuse", "reused"},
           pc'[r] \in {"resolve", "list", "provision", "again"} => Kind(r) \in RoleKinds
    PROVE  SessionsInv'
<1>1. UNCHANGED <<ask, token, issued, minted, held, target, doomed>>
    BY DEF sessionVars
<1>2. Kind(r) \notin {"Register", "Login", "Refresh", "Logout", "LogoutAll"}
    BY DEF SessionKinds, Signing
<1>3. SessionsAsked' /\ Rows' /\ Lineage' /\ Locks' /\ RotatedOnce'
    BY <1>1 DEF SessionsInv, SessionsAsked, Kind, Rows, Lineage, Locks, RotatedOnce, Issued
<1>4. SessionsLabelled'
    BY <1>1, <1>2 DEF SessionsInv, SessionsLabelled, Others, Kind
<1>5. Numbers'
    BY <1>1 DEF SessionsInv, Numbers, Others, Kind, Issued
<1>6. Targets'
    BY <1>1 DEF SessionsInv, Targets, Others, Kind, Issued
<1>7. Rotating'
    BY <1>1, <1>2 DEF SessionsInv, Rotating, Others, Kind
<1>8. Ending'
    <2>1. EndingOf(r)'
        BY <1>1, <1>2 DEF EndingOf, Kind
    <2>2. \A q \in Others(r) : EndingOf(q)'
        BY <1>1, SameEnding DEF SessionsInv, Ending, Others
    <2>3. QED
        BY <2>1, <2>2 DEF Ending, Others
<1>9. QED
    BY <1>3, <1>4, <1>5, <1>6, <1>7, <1>8 DEF SessionsInv

-----------------------------------------------------------------------------
(* The theorems. *)

LEMMA StepKeepsSessions ==
    ASSUME SessionsInv, [Next]_vars
    PROVE  SessionsInv'
<1>1. CASE SessionsNext /\ UNCHANGED <<tenancyVars, roleVars>>
    <2>1. CASE \E i \in Tokens : Expire(i)
        BY <2>1, ExpireKeeps
    <2>2. CASE \E r \in Requests : SessionStep(r) \/ LoseSession(r) \/ BreakCycle(r)
        <3>1. PICK r \in Requests : SessionStep(r) \/ LoseSession(r) \/ BreakCycle(r)
            BY <2>2
        <3>2. Walk(r) \/ Hold(r) \/ Mint(r) \/ CommitSession(r) \/ RollBackSession(r)
            BY <3>1 DEF SessionStep, LoseSession, BreakCycle, Walk, Hold
        <3>3. QED
            BY <3>2, WalkKeeps, HoldKeeps, MintKeeps, CommitKeepsSessions, RollBackKeeps
    <2>3. QED
        BY <1>1, <2>1, <2>2 DEF SessionsNext
<1>2. CASE TenancyNext /\ UNCHANGED <<sessionVars, roleVars>>
    <2>1. PICK r \in Requests : TenancyStep(r) \/ LoseTenancy(r)
        BY <1>2 DEF TenancyNext
    <2>2. UNCHANGED sessionVars
        BY <1>2
    <2>3. QED
        BY <2>1, <2>2, TenancyLeavesSessions, ElsewhereKeepsSessions
<1>3. CASE RolesNext /\ UNCHANGED sessionVars
    <2>1. PICK r \in Requests : RoleStep(r) \/ LoseRole(r)
        BY <1>3 DEF RolesNext
    <2>2. QED
        BY <1>3, <2>1, RolesLeaveSessions, ElsewhereKeepsSessions
<1>4. CASE UNCHANGED vars
    <2>1. UNCHANGED <<ask, pc, token, issued, minted, held, target, doomed>>
        BY <1>4 DEF vars, requestVars, sessionVars
    <2>2. SessionsAsked' /\ SessionsLabelled' /\ Rows' /\ Lineage' /\ Locks' /\ RotatedOnce'
        BY <2>1 DEF SessionsInv, SessionsAsked, SessionsLabelled, Kind, Rows, Lineage, Locks, RotatedOnce, Issued
    <2>3. Numbers' /\ Targets' /\ Rotating'
        BY <2>1 DEF SessionsInv, Numbers, Targets, Rotating, Kind, Issued
    <2>4. Ending'
        BY <2>1, SameEnding DEF SessionsInv, Ending
    <2>5. QED
        BY <2>2, <2>3, <2>4 DEF SessionsInv
<1>5. QED
    BY <1>1, <1>2, <1>3, <1>4 DEF Next

-----------------------------------------------------------------------------
(* Which requests move, and which cannot mint any more. *)

LEMMA SessionMoves ==
    ASSUME SessionsInv, NEW r \in Requests, SessionStep(r) \/ LoseSession(r) \/ BreakCycle(r)
    PROVE  /\ UNCHANGED ask
           /\ pc' = [q \in Requests |-> pc'[q]] /\ \A q \in Others(r) : pc'[q] = pc[q]
           /\ pc[r] \notin Ended
           /\ pc[r] = "commit" => pc'[r] \in {"commit"} \cup Ended
<1>1. UNCHANGED ask
    BY DEF SessionStep, CheckAddress, Enrol, Authenticate, Present, Rotate, CountSessions, FindOldest,
        Revoke, Mint, Leave, StartRevokeAll, RevokeNext, CommitSession, LoseSession, BreakCycle,
        RollBackSession
<1>2. pc' = [q \in Requests |-> pc'[q]] /\ \A q \in Others(r) : pc'[q] = pc[q]
    BY DEF SessionStep, CheckAddress, Enrol, Authenticate, Present, Rotate, CountSessions, FindOldest,
        Revoke, Mint, Leave, StartRevokeAll, RevokeNext, CommitSession, LoseSession, BreakCycle,
        RollBackSession, GoTo, Others, SessionsInv, SessionsLabelled
<1>3. pc[r] \notin Ended
    <2>1. CASE BreakCycle(r)
        BY <2>1 DEF BreakCycle, InCycle, Waits, Ended
    <2>2. CASE SessionStep(r) \/ LoseSession(r)
        BY <2>2 DEF SessionStep, CheckAddress, Enrol, Authenticate, Present, Rotate, CountSessions,
            FindOldest, Revoke, Mint, Leave, StartRevokeAll, RevokeNext, CommitSession, LoseSession, Ended
    <2>3. QED
        BY <2>1, <2>2
<1>4. pc[r] = "commit" => pc'[r] \in {"commit"} \cup Ended
    BY DEF SessionStep, CheckAddress, Enrol, Authenticate, Present, Rotate, CountSessions, FindOldest,
        Revoke, Mint, Leave, StartRevokeAll, RevokeNext, CommitSession, LoseSession, BreakCycle,
        RollBackSession, GoTo, Ended, SessionsInv, SessionsLabelled
<1>5. QED
    BY <1>1, <1>2, <1>3, <1>4

\* A request whose number is drawn, or that has ended, draws no other.
LEMMA PastMinting ==
    ASSUME SessionsInv, [Next]_vars
    PROVE  MayMint' \subseteq MayMint
<1>1. CASE SessionsNext
    <2>1. CASE \E t \in Tokens : Expire(t)
        BY <2>1 DEF Expire, requestVars, MayMint
    <2>2. CASE \E r \in Requests : SessionStep(r) \/ LoseSession(r) \/ BreakCycle(r)
        BY <2>2, SessionMoves DEF MayMint, Others
    <2>3. QED
        BY <1>1, <2>1, <2>2 DEF SessionsNext
<1>2. CASE TenancyNext
    <2>1. PICK r \in Requests : TenancyStep(r) \/ LoseTenancy(r)
        BY <1>2 DEF TenancyNext
    <2>2. \A q \in Others(r) : pc'[q] = pc[q]
        BY <2>1, TenancyLeavesSessions
    <2>3. pc[r] \in {"commit"} \cup Ended => pc'[r] \in {"commit"} \cup Ended
        BY <2>1 DEF TenancyStep, LoseTenancy, Enter, CheckCode, OpenCompany, CloseCompany, FindInvitee,
            FindSeat, CountOwners, WriteTenancy, CommitTenancy, GoTo, Ended, SessionsInv, SessionsLabelled
    <2>4. QED
        BY <2>2, <2>3 DEF MayMint, Others
<1>3. CASE RolesNext
    <2>1. PICK r \in Requests : RoleStep(r) \/ LoseRole(r)
        BY <1>3 DEF RolesNext
    <2>2. \A q \in Others(r) : pc'[q] = pc[q]
        BY <2>1, RolesLeaveSessions
    <2>3. pc[r] \in {"commit"} \cup Ended => pc'[r] \in {"commit"} \cup Ended
        BY <2>1 DEF RoleStep, LoseRole, ResolveRole, ListRoles, Provision, CommitProvision, CheckName,
            InsertRole, LoadRole, StoreRole, Diff, Revive, FindHeld, InsertGrants, RevokeGrants,
            CommitRole, EndRole, GoTo, Ended, SessionsInv, SessionsLabelled
    <2>4. QED
        BY <2>2, <2>3 DEF MayMint, Others
<1>4. CASE UNCHANGED vars
    BY <1>4 DEF vars, requestVars, MayMint
<1>5. QED
    BY <1>1, <1>2, <1>3, <1>4 DEF Next

-----------------------------------------------------------------------------
(* One account for an address. *)

LEMMA RegistrationsStart == Init => Registrations
<1> SUFFICES ASSUME Init PROVE Registrations
    OBVIOUS
<1>1. pc = [r \in Requests |-> "start"] /\ account \in [Users -> Statuses \cup {None}]
    BY RowsAssumption DEF Init
<1>2. QED
    BY <1>1 DEF Registrations, Enrolled

\* A registration gets past the index when nobody else has the address, and then
\* nobody else does until it is done.
LEMMA StepKeepsRegistrations ==
    ASSUME SessionsInv, Registrations, [Next]_vars
    PROVE  Registrations'
<1>1. ASSUME UNCHANGED <<ask, account>>,
             \A q \in Requests : Kind(q) = "Register" => pc'[q] = pc[q]
      PROVE  Registrations'
    BY <1>1 DEF Registrations, Kind
<1>2. CASE SessionsNext
    <2>1. CASE \E t \in Tokens : Expire(t)
        BY <1>1, <2>1 DEF Expire, requestVars
    <2>2. CASE \E r \in Requests : SessionStep(r) \/ LoseSession(r) \/ BreakCycle(r)
        <3>1. PICK r \in Requests : SessionStep(r) \/ LoseSession(r) \/ BreakCycle(r)
            BY <2>2
        <3>2. UNCHANGED ask /\ \A q \in Others(r) : pc'[q] = pc[q]
            BY <3>1, SessionMoves
        <3>3. CASE Enrol(r)
            <4>1. /\ account' = account /\ Kind(r) = "Register" /\ pc[r] = "enrol"
                  /\ \A q \in Others(r) : Kind(q) = "Register" /\ ask[q].user = ask[r].user =>
                        pc[q] \notin Enrolled
                  /\ pc'[r] = IF account[ask[r].user] = None THEN "count" ELSE "duplicate"
                BY <3>3 DEF Enrol, GoTo, Subject, Enrolled, SessionsInv, SessionsLabelled
            <4>2. QED
                BY <3>2, <4>1 DEF Registrations, Kind, Others, Enrolled, Ended
        <3>4. CASE CommitSession(r) /\ Kind(r) = "Register"
            <4>1. pc[r] = "commit" /\ pc'[r] = "done"
                  /\ account' = [account EXCEPT ![ask[r].user] = "ACTIVE"]
                BY <3>4 DEF CommitSession, GoTo, Subject, SessionsInv, SessionsLabelled
            <4>2. ask[r].user \in Users /\ "ACTIVE" # None
                BY <3>4, AccountsAssumption DEF SessionsInv, SessionsAsked, Statuses
            <4>3. account' \in [Users -> Statuses \cup {None}]
                BY <4>1 DEF Registrations, Statuses
            <4>4. account'[ask[r].user] = "ACTIVE"
                  /\ \A u \in Users \ {ask[r].user} : account'[u] = account[u]
                BY <4>1, <4>2 DEF Registrations
            <4>5. \A q \in Requests : Kind(q) = "Register" => ask[q].user \in Users
                BY DEF SessionsInv, SessionsAsked
            <4>6. \A q \in Others(r) : Kind(q) = "Register" /\ ask[q].user = ask[r].user =>
                    pc[q] \notin Enrolled \cup {"done"}
                BY <3>4, <4>1 DEF Registrations, Others, Enrolled
            <4>7. QED
                BY <3>2, <3>4, <4>1, <4>2, <4>3, <4>4, <4>5, <4>6
                DEF Registrations, Kind, Others, Enrolled, Ended
        <3>5. CASE ~Enrol(r) /\ ~(CommitSession(r) /\ Kind(r) = "Register")
            <4>1. account' = account
                BY <3>1, <3>5 DEF SessionStep, CheckAddress, Authenticate, Present, Rotate, CountSessions,
                    FindOldest, Revoke, Mint, Leave, StartRevokeAll, RevokeNext, CommitSession,
                    LoseSession, BreakCycle, RollBackSession
            <4>2. Kind(r) = "Register" =>
                    /\ pc'[r] \in {"start", "enrol"} \cup Enrolled \cup (Ended \ {"done"})
                    /\ pc'[r] \in Enrolled => pc[r] \in Enrolled
                BY <3>1, <3>5 DEF SessionStep, CheckAddress, Authenticate, Present, Rotate, CountSessions,
                    FindOldest, Revoke, Mint, Leave, StartRevokeAll, RevokeNext, CommitSession,
                    LoseSession, BreakCycle, RollBackSession, GoTo, SessionsInv, SessionsLabelled,
                    Registrations, Enrolled, Ended
            <4>3. QED
                BY <3>2, <4>1, <4>2 DEF Registrations, Kind, Others, Enrolled, Ended
        <3>6. QED
            BY <3>3, <3>4, <3>5
    <2>3. QED
        BY <1>2, <2>1, <2>2 DEF SessionsNext
<1>3. CASE TenancyNext
    <2>1. PICK r \in Requests : TenancyStep(r) \/ LoseTenancy(r)
        BY <1>3 DEF TenancyNext
    <2>2. account' = account
        BY <2>1 DEF TenancyStep, LoseTenancy, Enter, CheckCode, OpenCompany, CloseCompany, FindInvitee,
            FindSeat, CountOwners, WriteTenancy, CommitTenancy
    <2>3. QED
        BY <1>1, <2>1, <2>2, TenancyLeavesSessions DEF Others, SessionKinds, Signing
<1>4. CASE RolesNext
    <2>1. PICK r \in Requests : RoleStep(r) \/ LoseRole(r)
        BY <1>4 DEF RolesNext
    <2>2. account' = account
        BY <2>1 DEF RoleStep, LoseRole, ResolveRole, ListRoles, Provision, CommitProvision, CheckName,
            InsertRole, LoadRole, StoreRole, Diff, Revive, FindHeld, InsertGrants, RevokeGrants,
            CommitRole, EndRole
    <2>3. QED
        BY <1>1, <2>1, <2>2, RolesLeaveSessions DEF Others, SessionKinds, Signing
<1>5. CASE UNCHANGED vars
    BY <1>1, <1>5 DEF vars, requestVars
<1>6. QED
    BY <1>2, <1>3, <1>4, <1>5 DEF Next

-----------------------------------------------------------------------------
(* There is a number for every session. *)

LEMMA RoomStays ==
    ASSUME NEW n \in Nat, NEW S, IsFiniteSet(S), NEW T \in SUBSET S,
           n + Cardinality(S) \in Tokens \cup {0}
    PROVE  n + Cardinality(T) \in Tokens \cup {0}
<1> DEFINE big == n + Cardinality(S)
           small == n + Cardinality(T)
<1>1. big \in Nat /\ small \in Nat /\ small <= big
    BY FS_Subset, FS_CardinalityType
<1>2. CASE big = 0
    BY <1>1, <1>2
<1>3. CASE big # 0
    <2>1. 1..big \subseteq Tokens
        BY <1>3, LimitsAssumption
    <2> HIDE DEF big, small
    <2>2. small = 0 \/ small \in 1..big
        BY <1>1
    <2>3. QED
        BY <2>1, <2>2 DEF small
<1>4. QED
    BY <1>2, <1>3

LEMMA MayMintFinite == IsFiniteSet(MayMint) /\ Cardinality(MayMint) \in Nat
BY LimitsAssumption, FS_Subset, FS_CardinalityType DEF MayMint

LEMMA NumberedStart == Init => Numbered
<1> SUFFICES ASSUME Init PROVE Numbered
    OBVIOUS
<1>1. PICK s \in Scenes : token = s.token
    BY DEF Init
<1>2. MayMint = Requests
    BY DEF Init, MayMint, Ended
<1>3. issued \in Tokens \cup {0} /\ (issued = 0 \/ Issued(issued))
    BY DEF Init, SessionsInit
<1>4. issued + Cardinality(Requests) \in Tokens \cup {0}
    <2>1. CASE issued = 0
        <3>1. Cardinality(Requests) \in Tokens \cup {0}
            BY LimitsAssumption, FS_EmptySet
        <3>2. 0 + Cardinality(Requests) = Cardinality(Requests)
            BY LimitsAssumption, FS_CardinalityType
        <3>3. QED
            BY <2>1, <3>1, <3>2
    <2>2. CASE issued # 0
        BY <1>1, <1>3, <2>2, LimitsAssumption DEF Issued
    <2>3. QED
        BY <2>1, <2>2
<1>5. QED
    BY <1>2, <1>4 DEF Init, SessionsInit, Numbered

LEMMA StepKeepsNumbered ==
    ASSUME SessionsInv, Numbered, [Next]_vars
    PROVE  Numbered'
<1>1. issued \in Nat /\ IsFiniteSet(MayMint) /\ MayMint' \subseteq MayMint
    BY MayMintFinite, PastMinting DEF SessionsInv, Numbers
<1>2. issued' + Cardinality(MayMint') \in Tokens \cup {0}
    <2>1. CASE UNCHANGED issued
        BY <1>1, <2>1, RoomStays DEF Numbered
    <2>2. ASSUME NEW r \in Requests, Mint(r)
          PROVE  issued' + Cardinality(MayMint') \in Tokens \cup {0}
        <3>1. issued' = issued + 1 /\ pc[r] = "mint" /\ pc'[r] = "commit"
            BY <2>2 DEF Mint, GoTo, SessionsInv, SessionsLabelled
        <3>2. r \in MayMint /\ r \notin MayMint'
            BY <3>1 DEF MayMint, Ended
        <3>3. /\ IsFiniteSet(MayMint \ {r}) /\ Cardinality(MayMint \ {r}) = Cardinality(MayMint) - 1
              /\ Cardinality(MayMint) \in Nat
            BY <1>1, <3>2, FS_RemoveElement, FS_CardinalityType
        <3>4. (issued + 1) + Cardinality(MayMint \ {r}) = issued + Cardinality(MayMint)
            BY <1>1, <3>3
        <3>5. issued + 1 \in Nat /\ MayMint' \subseteq MayMint \ {r}
            BY <1>1, <3>2
        <3>6. QED
            BY <3>1, <3>3, <3>4, <3>5, RoomStays DEF Numbered
    <2>3. issued' = issued \/ \E r \in Requests : Mint(r)
        BY DEF Next, SessionsNext, SessionStep, CheckAddress, Enrol, Authenticate, Present, Rotate,
            CountSessions, FindOldest, Revoke, Leave, StartRevokeAll, RevokeNext, CommitSession,
            LoseSession, BreakCycle, RollBackSession, Expire, sessionVars, vars
    <2>4. QED
        BY <2>1, <2>2, <2>3
<1>3. target' \in [Requests -> Tokens \cup {0}] /\ doomed' \in [Requests -> SUBSET Tokens]
    <2>1. CASE UNCHANGED <<target, doomed>>
        BY <2>1 DEF Numbered
    <2>2. ASSUME NEW r \in Requests, Present(r) \/ Leave(r) \/ FindOldest(r) \/ StartRevokeAll(r) \/ RevokeNext(r)
          PROVE  target' \in [Requests -> Tokens \cup {0}] /\ doomed' \in [Requests -> SUBSET Tokens]
        <3>1. CASE Present(r) \/ Leave(r)
            BY <2>2, <3>1 DEF Present, Leave, Numbered, SessionsInv, SessionsAsked
        <3>2. CASE FindOldest(r)
            BY <3>2, LiveAreIssued DEF FindOldest, Seen, Numbered
        <3>3. CASE StartRevokeAll(r)
            BY <3>3 DEF StartRevokeAll, Unrevoked, Numbered
        <3>4. CASE RevokeNext(r)
            BY <3>4 DEF RevokeNext, Numbered
        <3>5. QED
            BY <2>2, <3>1, <3>2, <3>3, <3>4
    <2>3. \/ UNCHANGED <<target, doomed>>
          \/ \E r \in Requests :
               Present(r) \/ Leave(r) \/ FindOldest(r) \/ StartRevokeAll(r) \/ RevokeNext(r)
        BY DEF Next, SessionsNext, SessionStep, CheckAddress, Enrol, Authenticate, Rotate,
            CountSessions, Revoke, Mint, CommitSession, LoseSession, BreakCycle, RollBackSession,
            Expire, sessionVars, vars
    <2>4. QED
        BY <2>1, <2>2, <2>3
<1>4. QED
    BY <1>2, <1>3 DEF Numbered

-----------------------------------------------------------------------------
(* The session limit. *)

LEMMA LiveFinite ==
    ASSUME NEW u
    PROVE  /\ IsFiniteSet(LiveSessions(u)) /\ Cardinality(LiveSessions(u)) \in Nat
           /\ \A S \in SUBSET LiveSessions(u) :
                IsFiniteSet(S) /\ Cardinality(S) \in Nat /\ Cardinality(S) <= Cardinality(LiveSessions(u))
BY LimitsAssumption, FS_Subset, FS_CardinalityType DEF LiveSessions, Unrevoked

LEMMA GrantedFinite ==
    ASSUME NEW u
    PROVE  /\ IsFiniteSet(Granted(u)) /\ Cardinality(Granted(u)) \in Nat
           /\ Cardinality(Granted(u)) = 0 <=> Granted(u) = {}
BY LimitsAssumption, FS_Subset, FS_CardinalityType, FS_EmptySet DEF Granted

LEMMA LimitStart == Init => LimitInv
<1> SUFFICES ASSUME Init PROVE LimitInv
    OBVIOUS
<1>1. PICK s \in Scenes : token = s.token
    BY DEF Init
<1>2. pc = [r \in Requests |-> "start"]
    BY DEF Init
<1>3. Presented /\ Room
    BY <1>2 DEF Presented, Room
<1>4. ASSUME MaxActive > 0
      PROVE  Capped
    <2>1. ASSUME NEW u \in Users
          PROVE  Granted(u) = {} /\ Cardinality(LiveSessions(u)) <= MaxActive
        <3>1. Granted(u) = {}
            BY <1>2 DEF Granted
        <3>2. LiveSessions(u) = {t \in Tokens : /\ s.token[t] # None /\ s.token[t].user = u
                                                 /\ ~s.token[t].revoked /\ ~s.token[t].expired}
            BY <1>1 DEF LiveSessions, Unrevoked, Issued
        <3>3. QED
            BY <1>4, <3>1, <3>2, LimitsAssumption
    <2>2. QED
        BY <2>1 DEF Capped
<1>5. QED
    BY <1>3, <1>4 DEF LimitInv

\* Whose sessions a signing request deals with does not change.
LEMMA SubjectKnown ==
    ASSUME SessionsInv, Presented, NEW q \in Requests, Kind(q) \in Signing, pc[q] # "start"
    PROVE  Subject(q) \in Users /\ (Kind(q) = "Refresh" => ask[q].token \in Tokens /\ Issued(ask[q].token))
<1>1. CASE Kind(q) = "Refresh"
    <2>1. ask[q].token \in Tokens /\ Issued(ask[q].token)
        BY <1>1 DEF Presented, SessionsInv, SessionsAsked
    <2>2. token[ask[q].token] \in TokenRows
        BY <2>1 DEF SessionsInv, Rows, Issued
    <2>3. QED
        BY <1>1, <2>1, <2>2 DEF Subject, TokenRows
<1>2. CASE Kind(q) \in {"Register", "Login"}
    BY <1>2 DEF Subject, SessionsInv, SessionsAsked
<1>3. QED
    BY <1>1, <1>2 DEF Signing

\* A step that leaves the rows, and the ends of requests, leaves the limits but for the
\* request that takes it.
LEMMA LimitElsewhere ==
    ASSUME SessionsInv, LimitInv, NEW r, UNCHANGED <<ask, token>>,
           \A q \in Requests \ {r} : Kind(q) \in SessionKinds =>
               pc'[q] = pc[q] /\ held'[q] = held[q] /\ target'[q] = target[q] /\ minted'[q] = minted[q],
           r \in Requests /\ Kind(r) \in Signing => pc[r] # "done" /\ pc'[r] # "done",
           r \in Requests /\ Kind(r) = "Refresh" /\ pc'[r] # "start" => Issued(ask[r].token),
           MaxActive > 0 /\ r \in Requests /\ Kind(r) \in Signing =>
              /\ pc'[r] = "mint" \/ (pc'[r] = "commit" /\ minted'[r] # 0) => RoomFor(r, held'[r])
              /\ pc'[r] = "revoke" => RoomFor(r, held'[r] \cup {target'[r]})
    PROVE  LimitInv'
<1>1. \A q : Kind(q)' = Kind(q) /\ Subject(q)' = Subject(q)
    BY DEF Kind, Subject
<1>2. \A u : LiveSessions(u)' = LiveSessions(u)
    BY DEF LiveSessions, Unrevoked, Issued
<1>3. \A u : Granted(u)' = Granted(u)
    BY <1>1 DEF Granted, SessionKinds, Signing
<1>4. Presented'
    BY <1>1 DEF LimitInv, Presented, Issued, SessionKinds, Signing
<1>5. \A q, left : RoomFor(q, left) => (Granted(Subject(q)) = {} =>
            Cardinality(LiveSessions(Subject(q)) \ left) <= MaxActive - 1)
    BY DEF RoomFor
<1>6. ASSUME MaxActive > 0
      PROVE  Room'
    <2>1. \A q \in Requests : Kind(q) \in Signing =>
            /\ pc'[q] = "mint" \/ (pc'[q] = "commit" /\ minted'[q] # 0) => RoomFor(q, held'[q])
            /\ pc'[q] = "revoke" => RoomFor(q, held'[q] \cup {target'[q]})
        BY <1>6 DEF LimitInv, Room, SessionKinds
    <2>2. QED
        BY <1>1, <1>2, <1>3, <2>1 DEF Room, RoomFor
<1>7. MaxActive > 0 => Capped'
    BY <1>2, <1>3 DEF LimitInv, Capped
<1>8. QED
    BY <1>4, <1>6, <1>7 DEF LimitInv

\* What a request has looked at, before it mints: fewer than the limit, or all but the
\* session that it ends first.
LEMMA RoomMade ==
    ASSUME SessionsInv, LimitInv, MaxActive > 0, NEW r \in Requests, Kind(r) \in Signing,
           Walk(r) \/ Hold(r) \/ Mint(r)
    PROVE  /\ pc'[r] = "mint" \/ (pc'[r] = "commit" /\ minted'[r] # 0) => RoomFor(r, held'[r])
           /\ pc'[r] = "revoke" => RoomFor(r, held'[r] \cup {target'[r]})
<1> DEFINE u == Subject(r)
<1>1. MaxActive \in Int
    BY LimitsAssumption
<1>2. CASE CountSessions(r)
    <2>1. held' = held /\ pc'[r] \in {"oldest", "mint"} /\ (pc'[r] = "mint" => ~AtLimit(Cardinality(Seen(r))))
        BY <1>2 DEF CountSessions, GoTo, sessionVars, SessionsInv, SessionsLabelled
    <2>2. Cardinality(LiveSessions(u) \ held[r]) \in Nat
        BY LiveFinite
    <2>3. pc'[r] = "mint" => Cardinality(LiveSessions(u) \ held[r]) <= MaxActive - 1
        BY <1>1, <2>1, <2>2 DEF AtLimit, Seen
    <2>4. QED
        BY <2>1, <2>3 DEF RoomFor
<1>3. CASE FindOldest(r)
    <2>1. held' = held /\ pc[r] = "oldest" /\ pc'[r] \in {"mint", "revoke"}
          /\ (pc'[r] = "mint" => Seen(r) = {}) /\ (pc'[r] = "revoke" => target'[r] \in Seen(r))
        BY <1>3 DEF FindOldest, GoTo, SessionsInv, SessionsLabelled, Targets
    <2>2. pc'[r] = "mint" => Cardinality(LiveSessions(u) \ held[r]) <= MaxActive - 1
        BY <1>1, <2>1, FS_EmptySet DEF Seen
    <2>3. ASSUME pc'[r] = "revoke", Granted(u) = {}
          PROVE  Cardinality(LiveSessions(u) \ (held[r] \cup {target'[r]})) <= MaxActive - 1
        <3>1. Cardinality(LiveSessions(u)) <= MaxActive
            BY <2>1, <2>3, SubjectKnown DEF LimitInv, Capped
        <3>2. IsFiniteSet(Seen(r)) /\ Cardinality(Seen(r)) \in Nat
              /\ Cardinality(Seen(r)) <= Cardinality(LiveSessions(u)) /\ Cardinality(LiveSessions(u)) \in Nat
            BY LiveFinite DEF Seen
        <3>3. Cardinality(Seen(r) \ {target'[r]}) = Cardinality(Seen(r)) - 1
            BY <2>1, <2>3, <3>2, FS_RemoveElement
        <3>4. LiveSessions(u) \ (held[r] \cup {target'[r]}) = Seen(r) \ {target'[r]}
            BY DEF Seen
        <3>5. Cardinality(Seen(r) \ {target'[r]}) <= MaxActive - 1
            BY <1>1, <3>1, <3>2, <3>3
        <3>6. QED
            BY <3>4, <3>5
    <2>4. QED
        BY <2>1, <2>2, <2>3 DEF RoomFor
<1>4. CASE Revoke(r)
    <2>1. /\ pc[r] = "revoke" /\ pc'[r] = "mint"
          /\ held'[r] = held[r] \cup {t \in {target[r]} : ~token[t].revoked}
        BY <1>4 DEF Revoke, GoTo, StillLive, Signing, SessionsInv, SessionsLabelled, Locks
    <2>2. LiveSessions(u) \ held'[r] = LiveSessions(u) \ (held[r] \cup {target[r]})
        BY <2>1 DEF LiveSessions, Unrevoked
    <2>3. QED
        BY <2>1, <2>2 DEF LimitInv, Room, RoomFor
<1>5. CASE Mint(r)
    <2>1. pc[r] = "mint" /\ pc'[r] = "commit" /\ held' = held
        BY <1>5 DEF Mint, GoTo, SessionsInv, SessionsLabelled
    <2>2. QED
        BY <2>1 DEF LimitInv, Room
<1>6. CASE \/ CheckAddress(r) \/ Enrol(r) \/ Authenticate(r) \/ Present(r) \/ Leave(r)
          \/ Rotate(r)
    BY <1>6 DEF CheckAddress, Enrol, Authenticate, Present, Leave, Rotate, GoTo, Signing,
        SessionsInv, SessionsLabelled
<1>7. CASE StartRevokeAll(r) \/ RevokeNext(r)
    <2>1. /\ pc[r] \notin {"commit"} \cup Ended /\ minted' = minted
          /\ pc'[r] \in {"commit", "revokeall"}
        BY <1>7 DEF StartRevokeAll, RevokeNext, GoTo, Ended, SessionsInv, SessionsLabelled
    <2>2. minted[r] = 0
        BY <2>1 DEF SessionsInv, Numbers, SessionKinds
    <2>3. QED
        BY <2>1, <2>2
<1>8. QED
    BY <1>2, <1>3, <1>4, <1>5, <1>6, <1>7 DEF Walk, Hold

\* A commit gives nobody a session but the one it minted, for its subject, and takes
\* from the subject those it held.
LEMMA CommitLives ==
    ASSUME SessionsInv, LimitInv, NEW r \in Requests, CommitSession(r), NEW u
    PROVE  /\ LiveSessions(u)' \subseteq (LiveSessions(u) \ held[r]) \cup {minted[r]}
           /\ u # Subject(r) \/ minted[r] \notin Tokens => LiveSessions(u)' \subseteq LiveSessions(u)
<1>1. token' = Settled(r)
    BY DEF CommitSession
<1>2. ASSUME NEW t \in Tokens, t # minted[r], token'[t] # None, token'[t].user = u,
             ~token'[t].revoked, ~token'[t].expired
      PROVE  t \in LiveSessions(u) \ held[r]
    <2>1. CASE t \in held[r]
        <3>1. token'[t] = [token[t] EXCEPT !.revoked = TRUE]
            BY <1>1, <1>2, <2>1 DEF Settled
        <3>2. token[t] \in TokenRows
            BY <2>1 DEF SessionsInv, Locks, Rows, Issued
        <3>3. token'[t].revoked
            BY <3>1, <3>2 DEF TokenRows
        <3>4. QED
            BY <1>2, <3>3
    <2>2. CASE t \notin held[r]
        <3>1. token'[t] = token[t]
            BY <1>1, <1>2, <2>2 DEF Settled
        <3>2. QED
            BY <1>2, <2>2, <3>1 DEF LiveSessions, Unrevoked, Issued
    <2>3. QED
        BY <2>1, <2>2
<1>3. minted[r] \in Tokens => token'[minted[r]].user = Subject(r)
    BY CommitSettles
<1>4. LiveSessions(u)' = {t \in Tokens : /\ token'[t] # None /\ token'[t].user = u
                                          /\ ~token'[t].revoked /\ ~token'[t].expired}
    BY DEF LiveSessions, Unrevoked, Issued
<1>5. QED
    BY <1>2, <1>3, <1>4

LEMMA CommitSubjects ==
    ASSUME SessionsInv, LimitInv, NEW r \in Requests, CommitSession(r)
    PROVE  /\ \A q \in Requests : Kind(q) \in Signing /\ pc[q] # "start" => Subject(q)' = Subject(q)
           /\ Presented'
<1>1. /\ \A q \in Requests : Kind(q)' = Kind(q) /\ ask'[q] = ask[q]
      /\ \A q \in Others(r) : pc'[q] = pc[q]
      /\ pc[r] = "commit"
      /\ \A t \in Tokens : Issued(t) => token'[t] # None /\ token'[t].user = token[t].user
    BY CommitSettles DEF Alone, Kind
<1>2. ASSUME NEW q \in Requests, Kind(q) \in Signing, pc[q] # "start"
      PROVE  Subject(q)' = Subject(q)
    <2>1. Kind(q) = "Refresh" => token'[ask[q].token].user = token[ask[q].token].user
        BY <1>1, <1>2, SubjectKnown DEF LimitInv
    <2>2. QED
        BY <1>1, <1>2, <2>1 DEF Subject, Signing
<1>3. ASSUME NEW q \in Requests, Kind(q) = "Refresh", pc'[q] # "start"
      PROVE  token'[ask[q].token] # None
    <2>1. pc[q] # "start"
        BY <1>1, <1>3 DEF Others
    <2>2. ask[q].token \in Tokens /\ Issued(ask[q].token)
        BY <1>3, <2>1, SubjectKnown DEF LimitInv, Signing
    <2>3. QED
        BY <1>1, <2>2
<1>4. QED
    BY <1>1, <1>2, <1>3 DEF Presented, Issued

\* The first commit of a user uses the room it made; each later one adds one session.
LEMMA CommitKeepsLimit ==
    ASSUME SessionsInv, LimitInv, NEW r \in Requests, CommitSession(r)
    PROVE  LimitInv'
<1> DEFINE Gets(u) == Kind(r) \in Signing /\ pc'[r] = "done" /\ Subject(r) = u
<1>1. /\ pc[r] = "commit" /\ Kind(r) \in SessionKinds
      /\ pc'[r] \in {"done", "reused"}
      /\ pc'[r] = "reused" => Kind(r) = "Refresh" /\ minted[r] = 0
      /\ \A q \in Requests : Kind(q)' = Kind(q)
      /\ \A q \in Others(r) : pc'[q] = pc[q] /\ held'[q] = held[q] /\ target'[q] = target[q]
      /\ minted' = minted
    BY CommitSettles DEF Alone, Kind
<1>2. \A q \in Requests : Kind(q) \in Signing /\ pc[q] # "start" => Subject(q)' = Subject(q)
    BY CommitSubjects
<1>3. ASSUME NEW u, Gets(u)
      PROVE  Granted(u)' = Granted(u) \cup {r} /\ r \notin Granted(u)
    BY <1>1, <1>2, <1>3 DEF Granted, Others
<1>4. ASSUME NEW u, ~Gets(u)
      PROVE  Granted(u)' = Granted(u) /\ LiveSessions(u)' \subseteq LiveSessions(u)
    <2>1. Granted(u)' = Granted(u)
        BY <1>1, <1>2, <1>4 DEF Granted, Others
    <2>2. u = Subject(r) => minted[r] = 0
        BY <1>1, <1>4 DEF SessionsInv, Numbers, SessionKinds
    <2>3. u # Subject(r) \/ minted[r] \notin Tokens
        BY <2>2, TokensAssumption
    <2>4. QED
        BY <2>1, <2>3, CommitLives
<1>5. ASSUME MaxActive > 0, NEW u \in Users
      PROVE  /\ Granted(u)' = {} => Cardinality(LiveSessions(u)') <= MaxActive
             /\ Granted(u)' # {} =>
                  Cardinality(LiveSessions(u)') <= MaxActive + Cardinality(Granted(u)') - 1
    <2> DEFINE live == Cardinality(LiveSessions(u))
               g == Cardinality(Granted(u))
    <2>1. /\ live \in Nat /\ g \in Nat /\ MaxActive \in Int
          /\ Granted(u) = {} => live <= MaxActive
          /\ Granted(u) # {} => live <= MaxActive + g - 1
        BY <1>5, LiveFinite, GrantedFinite, LimitsAssumption DEF LimitInv, Capped
    <2>2. CASE ~Gets(u)
        <3>1. Granted(u)' = Granted(u) /\ LiveSessions(u)' \subseteq LiveSessions(u)
            BY <1>4, <2>2
        <3>2. Cardinality(LiveSessions(u)') \in Nat /\ Cardinality(LiveSessions(u)') <= live
            BY <3>1, LiveFinite
        <3> HIDE DEF live, g
        <3>3. QED
            BY <2>1, <3>1, <3>2 DEF g
    <2>3. CASE Gets(u)
        <3>1. Granted(u)' = Granted(u) \cup {r} /\ r \notin Granted(u)
            BY <1>3, <2>3
        <3>2. Granted(u)' # {} /\ Cardinality(Granted(u)') = g + 1
            BY <3>1, GrantedFinite, FS_AddElement
        <3> DEFINE kept == LiveSessions(u) \ held[r]
        <3>3. kept \subseteq LiveSessions(u) /\ IsFiniteSet(kept)
              /\ Cardinality(kept) \in Nat /\ Cardinality(kept) <= live
            BY LiveFinite
        <3>4. LiveSessions(u)' \subseteq kept \cup {minted[r]}
            BY CommitLives
        <3>5. minted[r] \notin Tokens => LiveSessions(u)' \subseteq kept
            BY <3>4 DEF LiveSessions, Unrevoked
        <3>6. /\ IsFiniteSet(kept \cup {minted[r]}) /\ Cardinality(kept \cup {minted[r]}) \in Nat
              /\ Cardinality(kept \cup {minted[r]}) <= Cardinality(kept) + 1
            <4> HIDE DEF kept
            <4>1. /\ IsFiniteSet(kept \cup {minted[r]}) /\ Cardinality(kept \cup {minted[r]}) \in Nat
                  /\ \/ Cardinality(kept \cup {minted[r]}) = Cardinality(kept)
                     \/ Cardinality(kept \cup {minted[r]}) = Cardinality(kept) + 1
                BY <3>3, FS_AddElement, FS_CardinalityType
            <4>2. QED
                BY <3>3, <4>1
        <3>7. /\ Cardinality(LiveSessions(u)') \in Nat
              /\ Cardinality(LiveSessions(u)') <= Cardinality(kept) + 1
              /\ minted[r] \notin Tokens => Cardinality(LiveSessions(u)') <= Cardinality(kept)
            <4>1. /\ Cardinality(LiveSessions(u)') \in Nat
                  /\ Cardinality(LiveSessions(u)') <= Cardinality(kept \cup {minted[r]})
                BY <3>4, <3>6, FS_Subset, FS_CardinalityType
            <4>2. minted[r] \notin Tokens => Cardinality(LiveSessions(u)') <= Cardinality(kept)
                BY <3>3, <3>5, FS_Subset
            <4> HIDE DEF kept
            <4>3. QED
                BY <3>3, <3>6, <4>1, <4>2
        <3>8. Granted(u) = {} /\ minted[r] # 0 => Cardinality(kept) <= MaxActive - 1
            BY <1>1, <1>5, <2>3 DEF LimitInv, Room, RoomFor
        <3>9. minted[r] = 0 => minted[r] \notin Tokens
            BY TokensAssumption
        <3>10. CASE Granted(u) = {}
            <4>1. g = 0
                BY <3>10, GrantedFinite
            <4> HIDE DEF live, g, kept
            <4>2. Cardinality(LiveSessions(u)') <= MaxActive
                BY <2>1, <3>3, <3>7, <3>8, <3>9, <3>10
            <4>3. QED
                BY <2>1, <3>2, <3>7, <4>1, <4>2
        <3>11. CASE Granted(u) # {}
            <4> HIDE DEF live, g, kept
            <4>1. QED
                BY <2>1, <3>2, <3>3, <3>7, <3>11
        <3>12. QED
            BY <3>10, <3>11
    <2>4. QED
        BY <2>2, <2>3
<1>6. ASSUME MaxActive > 0, NEW u, Granted(u)' = {}, NEW left,
             Granted(u) = {} => Cardinality(LiveSessions(u) \ left) <= MaxActive - 1
      PROVE  Cardinality(LiveSessions(u)' \ left) <= MaxActive - 1
    <2>1. ~Gets(u)
        BY <1>3, <1>6
    <2>2. Granted(u) = {} /\ LiveSessions(u)' \subseteq LiveSessions(u)
        BY <1>4, <1>6, <2>1
    <2> HIDE DEF Gets
    <2>3. IsFiniteSet(LiveSessions(u) \ left) /\ LiveSessions(u)' \ left \subseteq LiveSessions(u) \ left
        BY <2>2, LiveFinite
    <2>4. /\ Cardinality(LiveSessions(u)' \ left) <= Cardinality(LiveSessions(u) \ left)
          /\ Cardinality(LiveSessions(u)' \ left) \in Nat /\ Cardinality(LiveSessions(u) \ left) \in Nat
        BY <2>3, FS_Subset, FS_CardinalityType
    <2>5. QED
        BY <1>6, <2>2, <2>4, LimitsAssumption
<1> HIDE DEF Gets
<1>7. ASSUME MaxActive > 0
      PROVE  Room'
    <2>1. ASSUME NEW q \in Others(r), Kind(q) \in Signing
          PROVE  /\ pc[q] = "mint" \/ (pc[q] = "commit" /\ minted[q] # 0) => RoomFor(q, held[q])'
                 /\ pc[q] = "revoke" => RoomFor(q, held[q] \cup {target[q]})'
        <3>1. /\ pc[q] = "mint" \/ (pc[q] = "commit" /\ minted[q] # 0) => RoomFor(q, held[q])
              /\ pc[q] = "revoke" => RoomFor(q, held[q] \cup {target[q]})
            BY <1>7, <2>1 DEF LimitInv, Room, Others
        <3>2. pc[q] # "start" => Subject(q)' = Subject(q)
            BY <1>2, <2>1 DEF Others
        <3>3. held'[q] = held[q] /\ target'[q] = target[q]
            BY <1>1, <2>1
        <3>4. ASSUME NEW u, NEW left, Granted(u)' = {},
                     Granted(u) = {} => Cardinality(LiveSessions(u) \ left) <= MaxActive - 1
              PROVE  Cardinality(LiveSessions(u)' \ left) <= MaxActive - 1
            BY <1>6, <1>7, <3>4
        <3>5. ASSUME NEW left, pc[q] # "start", RoomFor(q, left)
              PROVE  Granted(Subject(q))' = {} =>
                        Cardinality(LiveSessions(Subject(q))' \ left) <= MaxActive - 1
            BY <3>2, <3>4, <3>5 DEF RoomFor
        <3>6. QED
            BY <3>1, <3>3, <3>5 DEF RoomFor
    <2>2. QED
        BY <1>1, <2>1 DEF Room, Others
<1>8. ASSUME MaxActive > 0
      PROVE  Capped'
    BY <1>5, <1>8 DEF Capped
<1>9. QED
    BY <1>7, <1>8, CommitSubjects DEF LimitInv

\* A session that runs out leaves room.
LEMMA ExpireKeepsLimit ==
    ASSUME SessionsInv, LimitInv, NEW i \in Tokens, Expire(i)
    PROVE  LimitInv'
<1>1. /\ UNCHANGED <<ask, pc, issued, minted, held, target, doomed>>
      /\ Issued(i)
      /\ token' = [token EXCEPT ![i].expired = TRUE]
    BY DEF Expire, requestVars
<1>2. token[i] \in TokenRows
    BY <1>1 DEF SessionsInv, Rows, Issued
<1>3. token'[i] = [token[i] EXCEPT !.expired = TRUE] /\ \A t \in Tokens \ {i} : token'[t] = token[t]
    BY <1>1 DEF SessionsInv, Rows
<1>4. token'[i] # None /\ token'[i].user = token[i].user /\ token'[i].expired
    <2>1. token'[i].user = token[i].user /\ token'[i].expired /\ token'[i] \in TokenRows
        BY <1>2, <1>3 DEF TokenRows
    <2>2. QED
        BY <2>1, TokensAssumption
<1>5. \A u : LiveSessions(u)' \subseteq LiveSessions(u)
    BY <1>3, <1>4 DEF LiveSessions, Unrevoked, Issued
<1>6. \A q \in Requests : Kind(q)' = Kind(q)
    BY <1>1 DEF Kind
<1>7. \A q \in Requests : Kind(q) \in Signing /\ pc[q] # "start" => Subject(q)' = Subject(q)
    <2>1. \A q \in Requests : Kind(q) = "Refresh" /\ pc[q] # "start" =>
            token'[ask[q].token].user = token[ask[q].token].user
        BY <1>3, <1>4, SubjectKnown DEF LimitInv, Signing
    <2>2. QED
        BY <1>1, <1>6, <2>1 DEF Subject, Signing
<1>8. \A u : Granted(u)' = Granted(u)
    BY <1>1, <1>6, <1>7 DEF Granted
<1>9. Presented'
    BY <1>1, <1>3, <1>4, <1>6 DEF LimitInv, Presented, Issued
<1>10. ASSUME NEW u, NEW left
       PROVE  /\ Cardinality(LiveSessions(u)' \ left) \in Nat /\ Cardinality(LiveSessions(u) \ left) \in Nat
              /\ Cardinality(LiveSessions(u)' \ left) <= Cardinality(LiveSessions(u) \ left)
    <2>1. IsFiniteSet(LiveSessions(u) \ left) /\ LiveSessions(u)' \ left \subseteq LiveSessions(u) \ left
        BY <1>5, LiveFinite
    <2>2. QED
        BY <2>1, FS_Subset, FS_CardinalityType
<1>11. ASSUME MaxActive > 0
       PROVE  Room'
    <2>1. ASSUME NEW q \in Requests, Kind(q) \in Signing
          PROVE  /\ pc[q] = "mint" \/ (pc[q] = "commit" /\ minted[q] # 0) => RoomFor(q, held[q])'
                 /\ pc[q] = "revoke" => RoomFor(q, held[q] \cup {target[q]})'
        <3>1. /\ pc[q] = "mint" \/ (pc[q] = "commit" /\ minted[q] # 0) => RoomFor(q, held[q])
              /\ pc[q] = "revoke" => RoomFor(q, held[q] \cup {target[q]})
            BY <1>11, <2>1 DEF LimitInv, Room
        <3>2. pc[q] # "start" => Subject(q)' = Subject(q)
            BY <1>7, <2>1
        <3>3. held'[q] = held[q] /\ target'[q] = target[q]
            BY <1>1
        <3>4. ASSUME NEW u, NEW left, Granted(u)' = {},
                     Granted(u) = {} => Cardinality(LiveSessions(u) \ left) <= MaxActive - 1
              PROVE  Cardinality(LiveSessions(u)' \ left) <= MaxActive - 1
            <4>1. Cardinality(LiveSessions(u) \ left) <= MaxActive - 1
                BY <1>8, <3>4
            <4>2. /\ Cardinality(LiveSessions(u)' \ left) \in Nat /\ Cardinality(LiveSessions(u) \ left) \in Nat
                  /\ Cardinality(LiveSessions(u)' \ left) <= Cardinality(LiveSessions(u) \ left)
                BY <1>10
            <4>3. MaxActive \in Int
                BY LimitsAssumption
            <4>4. QED
                BY <4>1, <4>2, <4>3
        <3>5. ASSUME NEW left, pc[q] # "start", RoomFor(q, left)
              PROVE  Granted(Subject(q))' = {} =>
                        Cardinality(LiveSessions(Subject(q))' \ left) <= MaxActive - 1
            BY <3>2, <3>4, <3>5 DEF RoomFor
        <3>6. QED
            BY <3>1, <3>3, <3>5 DEF RoomFor
    <2>2. QED
        BY <1>1, <1>6, <2>1 DEF Room
<1>12. ASSUME MaxActive > 0
       PROVE  Capped'
    <2>1. ASSUME NEW u \in Users
          PROVE  /\ Granted(u)' = {} => Cardinality(LiveSessions(u)') <= MaxActive
                 /\ Granted(u)' # {} =>
                      Cardinality(LiveSessions(u)') <= MaxActive + Cardinality(Granted(u)') - 1
        <3>1. /\ Cardinality(LiveSessions(u)') \in Nat /\ Cardinality(LiveSessions(u)) \in Nat
              /\ Cardinality(LiveSessions(u)') <= Cardinality(LiveSessions(u))
            <4>1. LiveSessions(u)' \ {} = LiveSessions(u)' /\ LiveSessions(u) \ {} = LiveSessions(u)
                OBVIOUS
            <4>2. QED
                BY <1>10, <4>1
        <3>2. /\ Granted(u) = {} => Cardinality(LiveSessions(u)) <= MaxActive
              /\ Granted(u) # {} =>
                   Cardinality(LiveSessions(u)) <= MaxActive + Cardinality(Granted(u)) - 1
            BY <1>12 DEF LimitInv, Capped
        <3>3. QED
            BY <1>8, <3>1, <3>2, GrantedFinite, LimitsAssumption
    <2>2. QED
        BY <2>1 DEF Capped
<1>13. QED
    BY <1>9, <1>11, <1>12 DEF LimitInv

LEMMA StepKeepsLimit ==
    ASSUME SessionsInv, LimitInv, [Next]_vars
    PROVE  LimitInv'
<1>1. CASE SessionsNext
    <2>1. CASE \E i \in Tokens : Expire(i)
        BY <2>1, ExpireKeepsLimit
    <2>2. ASSUME NEW r \in Requests, SessionStep(r) \/ LoseSession(r) \/ BreakCycle(r), ~CommitSession(r)
          PROVE  LimitInv'
        <3>1. UNCHANGED ask /\ pc[r] \notin Ended /\ \A q \in Others(r) : pc'[q] = pc[q]
            BY <2>2, SessionMoves
        <3>2. CASE Walk(r) \/ Hold(r) \/ Mint(r)
            <4>1. UNCHANGED token
                BY <3>2, WalkAlone, HoldTakes DEF Mint
            <4>2. \A q \in Others(r) : held'[q] = held[q] /\ target'[q] = target[q] /\ minted'[q] = minted[q]
                <5>1. CASE Walk(r)
                    BY <5>1, WalkAlone DEF Alone
                <5>2. CASE Hold(r)
                    BY <5>2, HoldTakes DEF Alone
                <5>3. CASE Mint(r)
                    BY <5>3 DEF Mint, Others, SessionsInv, Numbers
                <5>4. QED
                    BY <3>2, <5>1, <5>2, <5>3
            <4>3. pc'[r] # "done"
                BY <3>2 DEF Walk, Hold, CheckAddress, Enrol, Authenticate, Present, Rotate, CountSessions,
                    FindOldest, Revoke, Mint, Leave, StartRevokeAll, RevokeNext, GoTo,
                    SessionsInv, SessionsLabelled
            <4>4. Kind(r) = "Refresh" => Issued(ask[r].token)
                <5>1. CASE Present(r)
                    BY <5>1 DEF Present
                <5>2. CASE ~Present(r)
                    <6>1. Kind(r) = "Refresh" => pc[r] # "start"
                        BY <3>2, <5>2 DEF Walk, Hold, CheckAddress, Enrol, Authenticate, Rotate,
                            CountSessions, FindOldest, Revoke, Mint, Leave, StartRevokeAll, RevokeNext
                    <6>2. QED
                        BY <6>1 DEF LimitInv, Presented
                <5>3. QED
                    BY <5>1, <5>2
            <4>5. pc[r] # "done"
                BY <3>1 DEF Ended
            <4>6. QED
                BY <3>1, <3>2, <4>1, <4>2, <4>3, <4>4, <4>5, RoomMade, LimitElsewhere DEF Others
        <3>3. CASE LoseSession(r) \/ BreakCycle(r)
            <4>1. UNCHANGED <<token, target>> /\ pc'[r] = "lost"
                  /\ \A q \in Others(r) : held'[q] = held[q] /\ minted'[q] = minted[q]
                <5>1. UNCHANGED <<token, target>> /\ pc'[r] = "lost"
                    BY <3>3 DEF LoseSession, BreakCycle, RollBackSession, GoTo, SessionsInv, SessionsLabelled
                <5>2. \A q \in Others(r) : held'[q] = held[q]
                    BY <3>3 DEF LoseSession, BreakCycle, RollBackSession, Others, SessionsInv, Locks
                <5>3. \A q \in Others(r) : minted'[q] = minted[q]
                    BY <3>3 DEF LoseSession, BreakCycle, RollBackSession, Others, SessionsInv, Numbers
                <5>4. QED
                    BY <5>1, <5>2, <5>3
            <4>2. pc[r] # "done" /\ pc[r] # "start"
                BY <3>3, <3>1 DEF Ended, LoseSession, BreakCycle, InCycle, Waits
            <4>3. Kind(r) = "Refresh" => Issued(ask[r].token)
                BY <4>2 DEF LimitInv, Presented
            <4>4. QED
                BY <3>1, <4>1, <4>2, <4>3, LimitElsewhere DEF Others
        <3>4. QED
            BY <2>2, <3>2, <3>3 DEF SessionStep, Walk, Hold
    <2>3. QED
        BY <1>1, <2>1, <2>2, CommitKeepsLimit DEF SessionsNext
<1>2. ASSUME NEW r \in Requests, UNCHANGED <<ask, sessionVars>>, Kind(r) \notin SessionKinds,
             \A q \in Others(r) : pc'[q] = pc[q]
      PROVE  LimitInv'
    BY <1>2, LimitElsewhere DEF sessionVars, SessionKinds, Signing, Others
<1>3. CASE TenancyNext /\ UNCHANGED <<sessionVars, roleVars>>
    <2>1. PICK r \in Requests : TenancyStep(r) \/ LoseTenancy(r)
        BY <1>3 DEF TenancyNext
    <2>2. UNCHANGED sessionVars
        BY <1>3
    <2>3. QED
        BY <1>2, <2>1, <2>2, TenancyLeavesSessions
<1>4. CASE RolesNext /\ UNCHANGED sessionVars
    <2>1. PICK r \in Requests : RoleStep(r) \/ LoseRole(r)
        BY <1>4 DEF RolesNext
    <2>2. QED
        BY <1>2, <1>4, <2>1, RolesLeaveSessions
<1>5. CASE UNCHANGED vars
    <2>1. UNCHANGED <<ask, pc, token, held, target, minted>>
        BY <1>5 DEF vars, requestVars, sessionVars
    <2>2. QED
        <3>1. \A q \in Requests : Kind(q)' = Kind(q) /\ Subject(q)' = Subject(q)
            BY <2>1 DEF Kind, Subject
        <3>2. \A u : LiveSessions(u)' = LiveSessions(u)
            BY <2>1 DEF LiveSessions, Unrevoked, Issued
        <3>3. \A u : Granted(u)' = Granted(u)
            BY <2>1, <3>1 DEF Granted
        <3>4. Presented'
            BY <2>1, <3>1 DEF LimitInv, Presented, Issued
        <3>5. ASSUME MaxActive > 0
              PROVE  Room'
            <4>1. \A q \in Requests : \A left :
                    RoomFor(q, left) => (Granted(Subject(q))' = {} =>
                        Cardinality(LiveSessions(Subject(q))' \ left) <= MaxActive - 1)
                BY <3>1, <3>2, <3>3 DEF RoomFor
            <4>2. QED
                BY <2>1, <3>1, <3>5, <4>1 DEF LimitInv, Room, RoomFor
        <3>6. MaxActive > 0 => Capped'
            BY <3>2, <3>3 DEF LimitInv, Capped
        <3>7. QED
            BY <3>4, <3>5, <3>6 DEF LimitInv
<1>6. QED
    BY <1>1, <1>3, <1>4, <1>5 DEF Next

\* The inductive invariant of the refresh tokens, over every interleaving of
\* registrations, logins, rotations, logouts and mass revocations (auth service).
THEOREM SessionsInvariant == Spec => []SessionsInv
BY SessionsStart, StepKeepsSessions, PTL DEF Spec

\* A refresh token is single-use: whatever requests present it at once, at most one
\* session comes of it (Refresh, RevokeIfLive).
THEOREM TokensRotateOnce == Spec => []RotatedOnce
<1>1. SessionsInv => RotatedOnce
    BY DEF SessionsInv
<1>2. QED
    BY SessionsInvariant, <1>1, PTL

\* Once a request was told its token had been used, the session the other use
\* produced is over (handleTokenReuse, RevokeAllForUser).
THEOREM ReuseEndsIt == Spec => []ReuseEndsSuccessor
<1>1. SessionsInv => ReuseEndsSuccessor
    BY DEF SessionsInv, Ending, EndingOf, Succeeds, ReuseEndsSuccessor
<1>2. QED
    BY SessionsInvariant, <1>1, PTL

\* Of the requests that register one address, however they overlap, at most one gets
\* past the unique index, and it finds the address free (Register).
THEOREM RegisteredOnce == Spec => []Registrations
<1>1. Init => Registrations
    BY RegistrationsStart
<1>2. SessionsInv /\ Registrations /\ [Next]_vars => Registrations'
    BY StepKeepsRegistrations
<1>3. QED
    BY <1>1, <1>2, SessionsInvariant, PTL DEF Spec

\* The variables of sign-in have their types, and the numbers of tokens do not run out.
THEOREM SessionTypesHold == Spec => []SessionsTypeOK
<1>1. Init => Numbered
    BY NumberedStart
<1>2. SessionsInv /\ Numbered /\ [Next]_vars => Numbered'
    BY StepKeepsNumbered
<1>3. SessionsInv /\ Numbered => SessionsTypeOK
    <2> SUFFICES ASSUME SessionsInv, Numbered PROVE SessionsTypeOK
        OBVIOUS
    <2>1. issued \in Tokens \cup {0}
        <3>1. issued \in Nat /\ issued + Cardinality({}) = issued
            BY FS_EmptySet DEF SessionsInv, Numbers
        <3>2. issued + Cardinality({}) \in Tokens \cup {0}
            BY <3>1, MayMintFinite, RoomStays DEF Numbered
        <3>3. QED
            BY <3>1, <3>2
    <2>2. minted \in [Requests -> Tokens \cup {0}]
        <3>1. issued # 0 => 1..issued \subseteq Tokens
            BY <2>1, LimitsAssumption
        <3>2. \A r \in Requests : minted[r] \in Nat /\ minted[r] <= issued /\ issued \in Nat
            BY DEF SessionsInv, Numbers
        <3>3. \A r \in Requests : minted[r] \in 1..issued \/ minted[r] = 0
            BY <3>2
        <3>4. \A r \in Requests : minted[r] \in Tokens \cup {0}
            BY <3>1, <3>2, <3>3
        <3>5. QED
            BY <3>4 DEF SessionsInv, Numbers
    <2>3. QED
        BY <2>1, <2>2 DEF SessionsInv, Rows, Locks, Numbered, SessionsTypeOK
<1>4. QED
    BY <1>1, <1>2, <1>3, SessionsInvariant, PTL DEF Spec

\* Requests that overlap can pass the session limit by one session each and no more: of
\* n that are granted one, at most n - 1 are too many (enforceSessionLimit).
THEOREM SessionsAreCapped == Spec => []SessionsCapped
<1>1. Init => LimitInv
    BY LimitStart
<1>2. SessionsInv /\ LimitInv /\ [Next]_vars => LimitInv'
    BY StepKeepsLimit
<1>3. LimitInv => SessionsCapped
    <2>1. ASSUME LimitInv, MaxActive > 0, NEW u \in Users
          PROVE  Cardinality(LiveSessions(u)) <= MaxActive + Max({Cardinality(Granted(u)) - 1, 0})
        <3> DEFINE g == Cardinality(Granted(u))
                   live == Cardinality(LiveSessions(u))
        <3>1. /\ g \in Nat /\ live \in Nat /\ MaxActive \in Int
              /\ g = 0 => live <= MaxActive
              /\ g # 0 => live <= MaxActive + g - 1
            BY <2>1, GrantedFinite, LiveFinite, LimitsAssumption DEF LimitInv, Capped
        <3> HIDE DEF g, live
        <3>2. Max({g - 1, 0}) = IF g = 0 THEN 0 ELSE g - 1
            BY <3>1 DEF Max
        <3>3. live <= MaxActive + Max({g - 1, 0})
            BY <3>1, <3>2
        <3>4. QED
            BY <3>3 DEF g, live
    <2>2. QED
        BY <2>1 DEF SessionsCapped, Granted
<1>4. QED
    BY <1>1, <1>2, <1>3, SessionsInvariant, PTL DEF Spec
=============================================================================
