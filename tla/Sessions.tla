------------------------------ MODULE Sessions -------------------------------
(***************************************************************************)
(* Registration, login, rotation of refresh tokens and logout.  Tokens are *)
(* numbered in the order they are issued, which is the order of their      *)
(* created_at.  A revocation is one UPDATE: it waits for the row, then     *)
(* looks again whether the row is still live.                              *)
(***************************************************************************)
EXTENDS Accounts

CONSTANTS
    MaxActive,  \* sessions a user may hold; zero or less, no limit
    Tokens,     \* the numbers 1..n a behaviour may issue
    Ageing      \* the tokens whose lifetime may end during the behaviour

VARIABLES
    token,      \* the committed row of every token; None, not issued
    issued,     \* the last number given out
    minted,     \* the token a request has inserted and not committed; 0, none
    held,       \* the tokens it has revoked and not committed
    target,     \* the token its next revocation is about; 0, none
    doomed      \* the further tokens its mass revocation has still to reach

sessionVars == <<token, issued, minted, held, target, doomed>>

Row(user, parent) == [user |-> user, parent |-> parent, revoked |-> FALSE, expired |-> FALSE]

TokenRows == [user : Users, parent : Tokens \cup {0}, revoked : BOOLEAN, expired : BOOLEAN]

ASSUME TokensAssumption == Tokens \subseteq Nat \ {0} /\ None \notin TokenRows

Issued(t) == token[t] # None

Unrevoked(u) == {t \in Tokens : Issued(t) /\ token[t].user = u /\ ~token[t].revoked}

LiveSessions(u) == {t \in Unrevoked(u) : ~token[t].expired}

Signing == {"Register", "Login", "Refresh"}

SessionKinds == Signing \cup {"Logout", "LogoutAll"}

\* Whose sessions a request deals with.
Subject(r) ==
    IF Kind(r) \in {"Register", "Login"} THEN ask[r].user ELSE token[ask[r].token].user

\* The sessions a statement of r sees: the committed ones but those it revoked.
Seen(r) == LiveSessions(Subject(r)) \ held[r]

\* Who holds the row that r's next statement updates.
Waits(r) ==
    {q \in Others(r) : pc[r] \in {"rotate", "revoke", "revokeall"} /\ target[r] \in held[q]}

-----------------------------------------------------------------------------
SessionsInit ==
    /\ issued \in {n \in Tokens \cup {0} : n = 0 \/ Issued(n)}
    /\ \A t \in Tokens : Issued(t) => t <= issued
    /\ minted = [r \in Requests |-> 0]
    /\ held = [r \in Requests |-> {}]
    /\ target = [r \in Requests |-> 0]
    /\ doomed = [r \in Requests |-> {}]

\* Register's existence check.
CheckAddress(r) ==
    /\ pc[r] = "start"
    /\ Kind(r) = "Register"
    /\ GoTo(r, IF account[ask[r].user] = None THEN "enrol" ELSE "refused")
    /\ UNCHANGED <<ask, account, sessionVars>>

\* Insert the account: it waits for another registration of the address.
Enrol(r) ==
    /\ pc[r] = "enrol"
    /\ \A q \in Others(r) :
         ~ (Kind(q) = "Register" /\ Subject(q) = Subject(r)
              /\ pc[q] \in {"count", "oldest", "revoke", "mint", "commit"})
    /\ GoTo(r, IF account[Subject(r)] = None THEN "count" ELSE "duplicate")
    /\ UNCHANGED <<ask, account, sessionVars>>

\* authenticate: the account is read before the transaction begins.
Authenticate(r) ==
    /\ pc[r] = "start"
    /\ Kind(r) = "Login"
    /\ GoTo(r, IF CanAuthenticate(Subject(r)) THEN "count" ELSE "refused")
    /\ UNCHANGED <<ask, account, sessionVars>>

\* Refresh reads the token and its account, before the transaction begins.
Present(r) ==
    LET t == ask[r].token
    IN  /\ pc[r] = "start"
        /\ Kind(r) = "Refresh"
        /\ Issued(t)
        /\ GoTo(r, IF token[t].revoked THEN "reuse"
                   ELSE IF token[t].expired \/ ~CanAuthenticate(token[t].user)
                   THEN "refused" ELSE "rotate")
        /\ target' = [target EXCEPT ![r] = t]
        /\ UNCHANGED <<ask, account, token, issued, minted, held, doomed>>

\* Slip: the UPDATE trusts what Refresh read before the transaction.
StillLiveAsRead(t) == TRUE

\* The revoked_at IS NULL of an UPDATE, evaluated once the row is free.
StillLive(t) == ~token[t].revoked

\* RevokeIfLive: no row updated means another request rotated the token first,
\* and the transaction rolls back.
Rotate(r) ==
    LET t == target[r]
    IN  /\ pc[r] = "rotate"
        /\ Waits(r) = {}
        /\ IF StillLive(t)
           THEN GoTo(r, "count") /\ held' = [held EXCEPT ![r] = {t}]
           ELSE GoTo(r, "reuse") /\ UNCHANGED held
        /\ UNCHANGED <<ask, account, token, issued, minted, target, doomed>>

\* Slip: the limit is reached one session late.
AtLimitLate(live) == MaxActive > 0 /\ live > MaxActive

\* CountLiveForUser; with no limit the count is not asked.
AtLimit(live) == MaxActive > 0 /\ live >= MaxActive

CountSessions(r) ==
    /\ pc[r] = "count"
    /\ GoTo(r, IF AtLimit(Cardinality(Seen(r))) THEN "oldest" ELSE "mint")
    /\ UNCHANGED <<ask, account, sessionVars>>

\* OldestLiveForUser: there may be none left.
FindOldest(r) ==
    /\ pc[r] = "oldest"
    /\ IF Seen(r) = {}
       THEN GoTo(r, "mint") /\ UNCHANGED target
       ELSE \E t \in Seen(r) :
              /\ \A other \in Seen(r) : t <= other
              /\ target' = [target EXCEPT ![r] = t]
              /\ GoTo(r, "revoke")
    /\ UNCHANGED <<ask, account, token, issued, minted, held, doomed>>

\* Revoke the evicted session, or the one that logs out; a session that somebody
\* else ended meanwhile is left as it is.
Revoke(r) ==
    /\ pc[r] = "revoke"
    /\ Waits(r) = {}
    /\ held' = [held EXCEPT ![r] = @ \cup {t \in {target[r]} : StillLive(t)}]
    /\ GoTo(r, IF Kind(r) = "Logout" THEN "commit" ELSE "mint")
    /\ UNCHANGED <<ask, account, token, issued, minted, target, doomed>>

\* Insert the new session.
Mint(r) ==
    /\ pc[r] = "mint"
    /\ issued' = issued + 1
    /\ minted' = [minted EXCEPT ![r] = issued']
    /\ GoTo(r, "commit")
    /\ UNCHANGED <<ask, account, token, held, target, doomed>>

\* Logout reads its token inside the transaction; an unknown one is no failure.
Leave(r) ==
    LET t == ask[r].token
    IN  /\ pc[r] = "start"
        /\ Kind(r) = "Logout"
        /\ Issued(t)
        /\ target' = [target EXCEPT ![r] = t]
        /\ GoTo(r, "revoke")
        /\ UNCHANGED <<ask, account, token, issued, minted, held, doomed>>

\* RevokeAllForUser: the UPDATE finds the rows that are unrevoked when it starts,
\* and then takes them one by one in whatever order its plan reads them.
StartRevokeAll(r) ==
    /\ pc[r] = IF Kind(r) = "Refresh" THEN "reuse" ELSE "start"
    /\ Kind(r) \in {"Refresh", "LogoutAll"}
    /\ Issued(ask[r].token)
    /\ LET found == Unrevoked(Subject(r))
       IN  IF found = {}
           THEN GoTo(r, "commit") /\ UNCHANGED <<target, doomed>>
           ELSE \E t \in found :
                  /\ target' = [target EXCEPT ![r] = t]
                  /\ doomed' = [doomed EXCEPT ![r] = found \ {t}]
                  /\ GoTo(r, "revokeall")
    /\ UNCHANGED <<ask, account, token, issued, minted, held>>

RevokeNext(r) ==
    /\ pc[r] = "revokeall"
    /\ Waits(r) = {}
    /\ held' = [held EXCEPT ![r] = @ \cup {t \in {target[r]} : StillLive(t)}]
    /\ IF doomed[r] = {}
       THEN GoTo(r, "commit") /\ UNCHANGED <<target, doomed>>
       ELSE \E t \in doomed[r] :
              /\ target' = [target EXCEPT ![r] = t]
              /\ doomed' = [doomed EXCEPT ![r] = @ \ {t}]
              /\ UNCHANGED pc
    /\ UNCHANGED <<ask, account, token, issued, minted>>

\* What a commit makes of the table: the revocations, and the new session with
\* the token it replaces.
Parent(r) == IF Kind(r) = "Refresh" THEN ask[r].token ELSE 0

\* Slip: the mass revocation rolls back with the rotation that failed.
SettledIfMinted(r) ==
    [t \in Tokens |->
        IF t = minted[r] THEN Row(Subject(r), Parent(r))
        ELSE IF t \in held[r] /\ (Kind(r) = "Refresh" => minted[r] # 0)
        THEN [token[t] EXCEPT !.revoked = TRUE]
        ELSE token[t]]

Settled(r) ==
    [t \in Tokens |->
        IF t = minted[r] THEN Row(Subject(r), Parent(r))
        ELSE IF t \in held[r] THEN [token[t] EXCEPT !.revoked = TRUE]
        ELSE token[t]]

\* A login's UpdateLastLogin is the last statement before its commit, and no
\* statement about a session waits for the row it writes.
CommitSession(r) ==
    /\ pc[r] = "commit"
    /\ Kind(r) \in SessionKinds
    /\ token' = Settled(r)
    /\ account' = IF Kind(r) = "Register" THEN [account EXCEPT ![Subject(r)] = "ACTIVE"]
                  ELSE account
    /\ GoTo(r, IF Kind(r) = "Refresh" /\ minted[r] = 0 THEN "reused" ELSE "done")
    /\ held' = [held EXCEPT ![r] = {}]
    /\ UNCHANGED <<ask, issued, minted, target, doomed>>

\* Slip: the transaction is never ended, and keeps the rows it has locked.
RollBackSessionHolding(r) ==
    /\ Kind(r) \in SessionKinds
    /\ GoTo(r, "lost")
    /\ minted' = [minted EXCEPT ![r] = 0]
    /\ UNCHANGED <<ask, account, token, issued, held, target, doomed>>

\* The connection dies, or the database picks the transaction to break a cycle.
RollBackSession(r) ==
    /\ Kind(r) \in SessionKinds
    /\ GoTo(r, "lost")
    /\ held' = [held EXCEPT ![r] = {}]
    /\ minted' = [minted EXCEPT ![r] = 0]
    /\ UNCHANGED <<ask, account, token, issued, target, doomed>>

LoseSession(r) ==
    /\ pc[r] \in {"count", "oldest", "revoke", "mint", "reuse", "revokeall", "commit"}
    /\ RollBackSession(r)

InCycle(r) == \E q \in Waits(r) : r \in Waits(q) \/ \E p \in Waits(q) : r \in Waits(p)

BreakCycle(r) == InCycle(r) /\ RollBackSession(r)

\* Time passes: a token reaches its expires_at.
Expire(t) ==
    /\ t \in Ageing
    /\ Issued(t)
    /\ ~token[t].expired
    /\ token' = [token EXCEPT ![t].expired = TRUE]
    /\ UNCHANGED <<requestVars, issued, minted, held, target, doomed>>

SessionStep(r) ==
    \/ CheckAddress(r) \/ Enrol(r) \/ Authenticate(r) \/ Present(r) \/ Rotate(r)
    \/ CountSessions(r) \/ FindOldest(r) \/ Revoke(r) \/ Mint(r)
    \/ Leave(r) \/ StartRevokeAll(r) \/ RevokeNext(r) \/ CommitSession(r)

SessionsNext ==
    \/ \E r \in Requests : SessionStep(r) \/ LoseSession(r) \/ BreakCycle(r)
    \/ \E t \in Tokens : Expire(t)

-----------------------------------------------------------------------------
SessionsTypeOK ==
    /\ token \in [Tokens -> TokenRows \cup {None}]
    /\ issued \in Tokens \cup {0}
    /\ minted \in [Requests -> Tokens \cup {0}]
    /\ held \in [Requests -> SUBSET Tokens]
    /\ target \in [Requests -> Tokens \cup {0}]
    /\ doomed \in [Requests -> SUBSET Tokens]

\* A refresh token is single-use: whatever requests present it at once, at most
\* one session comes of it (Refresh, RevokeIfLive).
RotatedOnce ==
    \A s, t \in Tokens :
        Issued(s) /\ Issued(t) /\ token[s].parent = token[t].parent /\ s # t
            => token[s].parent = 0

\* Once a request was told its token was used before, the session that the other
\* use produced is over, although the request itself failed (handleTokenReuse
\* commits its own transaction).
ReuseEndsSuccessor ==
    \A r \in Requests :
        pc[r] = "reused" =>
            \A t \in Tokens : Issued(t) /\ token[t].parent = ask[r].token => token[t].revoked

\* Requests that overlap can pass the session limit, each by one session at most:
\* n of them leave no more than n - 1 too many (enforceSessionLimit).
SessionsCapped ==
    LET granted(u) == {r \in Requests : Kind(r) \in Signing /\ pc[r] = "done" /\ Subject(r) = u}
    IN  MaxActive > 0 =>
            \A u \in Users :
                Cardinality(LiveSessions(u)) <= MaxActive + Max({Cardinality(granted(u)) - 1, 0})

=============================================================================
