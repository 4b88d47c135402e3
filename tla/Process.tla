------------------------------- MODULE Process -------------------------------
(***************************************************************************)
(* The life of the API process: it opens its connection pools in order,    *)
(* serves connections in goroutines of their own, and on a signal drains   *)
(* them before it closes the pools.  What requests do to the database      *)
(* while they run is the subject of the other modules.                     *)
(***************************************************************************)
EXTENDS Naturals

CONSTANTS
    Connections,  \* the client connections of a behaviour
    Pools         \* the number of pools: Postgres, Redis and Asynq, in that order

ASSUME PoolsAssumption == Pools \in Nat \ {0}

VARIABLES
    main,      \* what the main goroutine does next
    listener,  \* what the goroutine of Start does, and how it returned
    signal,    \* a signal was caught
    closing,   \* Shutdown has begun: the server's inShutdown flag
    conn,      \* the state of every connection
    pool,      \* the state of every pool
    err,       \* Run has an error to report
    code       \* the exit status: 0, 1 or 2 for killed; 3 while the process lives

vars == <<main, listener, signal, closing, conn, pool, err, code>>

Order == 1..Pools

TypeOK ==
    /\ main \in {"build", "wait", "shut", "collect", "release", "ended"}
    /\ listener \in {"idle", "binding", "serving", "closed", "failed"}
    /\ signal \in BOOLEAN /\ closing \in BOOLEAN /\ err \in BOOLEAN
    /\ conn \in [Connections -> {"none", "idle", "running", "cut", "gone"}]
    /\ pool \in [Order -> {"none", "dialled", "open", "closed"}]
    /\ code \in 0..3

Init ==
    /\ main = "build"
    /\ listener = "idle"
    /\ signal = FALSE /\ closing = FALSE /\ err = FALSE
    /\ conn = [c \in Connections |-> "none"]
    /\ pool = [i \in Order |-> "none"]
    /\ code = 3

-----------------------------------------------------------------------------
(* Start-up *)

\* The next pool is opened; nobody knows yet whether the other side answers.
Dial ==
    /\ main = "build"
    /\ \E i \in Order :
        /\ pool[i] = "none" /\ \A j \in Order : j < i => pool[j] = "open"
        /\ pool' = [pool EXCEPT ![i] = "dialled"]
    /\ UNCHANGED <<main, listener, signal, closing, conn, err, code>>

\* It answers its ping, and its closer is registered.
Answers ==
    /\ main = "build"
    /\ \E i \in Order : pool[i] = "dialled" /\ pool' = [pool EXCEPT ![i] = "open"]
    /\ UNCHANGED <<main, listener, signal, closing, conn, err, code>>

\* What a ping that fails leaves of the pool, for which no closer is registered.
Unanswered(left) ==
    /\ main = "build"
    /\ \E i \in Order : pool[i] = "dialled" /\ pool' = [pool EXCEPT ![i] = left]
    /\ main' = "release" /\ err' = TRUE
    /\ UNCHANGED <<listener, signal, closing, conn, code>>

\* Slip: New returns the ping's error and nothing else.
PingFailsHalfOpen == Unanswered("dialled")

\* It does not: New closes the pool it has half open, and abort releases the others.
PingFails == Unanswered("closed")

\* A pool cannot be opened, or the registry is not valid: abort releases what was built.
BuildFails ==
    /\ main = "build" /\ \A i \in Order : pool[i] # "dialled"
    /\ main' = "release" /\ err' = TRUE
    /\ UNCHANGED <<listener, signal, closing, conn, pool, code>>

Run ==
    /\ main = "build" /\ \A i \in Order : pool[i] = "open"
    /\ main' = "wait" /\ listener' = "binding"
    /\ UNCHANGED <<signal, closing, conn, pool, err, code>>

-----------------------------------------------------------------------------
(* The goroutine of Start, and those of the connections *)

ListenerTurns(from, to) ==
    /\ listener = from /\ main # "ended"
    /\ listener' = to
    /\ UNCHANGED <<main, signal, closing, conn, pool, err, code>>

\* A server that is closing refuses to track a new listener.
Listen == ListenerTurns("binding", IF closing THEN "closed" ELSE "serving")

BindFails == ListenerTurns("binding", "failed")

AcceptFails == ~closing /\ ListenerTurns("serving", "failed")

\* ErrServerClosed, which Start reports as nil.
ListenerStops == closing /\ ListenerTurns("serving", "closed")

Turns(c, from, to) ==
    /\ conn[c] = from /\ main # "ended"
    /\ conn' = [conn EXCEPT ![c] = to]
    /\ UNCHANGED <<main, listener, signal, closing, pool, err, code>>

Accept(c) == listener = "serving" /\ Turns(c, "none", "idle")

\* The next request arrives: also after Shutdown began, as long as the connection stands.
Serve(c) == Turns(c, "idle", "running")

\* Keep-alive ends when the server is closing.
Answer(c) == Turns(c, "running", IF closing THEN "gone" ELSE "idle")

HangUp(c) == Turns(c, "idle", "gone")

-----------------------------------------------------------------------------
(* Shutdown *)

Signal ==
    /\ main = "wait" /\ ~signal
    /\ signal' = TRUE
    /\ UNCHANGED <<main, listener, closing, conn, pool, err, code>>

ListenerDied ==
    /\ main = "wait" /\ listener \in {"closed", "failed"}
    /\ main' = "release" /\ err' = (listener = "failed")
    /\ UNCHANGED <<listener, signal, closing, conn, pool, code>>

BeginShutdown ==
    /\ main = "wait" /\ signal
    /\ main' = "shut" /\ closing' = TRUE
    /\ UNCHANGED <<listener, signal, conn, pool, err, code>>

\* Shutdown closes what is idle at each of its polls.
CloseIdle(c) == main = "shut" /\ Turns(c, "idle", "gone")

Standing == {c \in Connections : conn[c] \in {"idle", "running"}}

Drained ==
    /\ main = "shut" /\ listener # "serving" /\ Standing = {}
    /\ main' = "collect"
    /\ UNCHANGED <<listener, signal, closing, conn, pool, err, code>>

\* Slip: Shutdown without its time limit waits for every handler.
GraceForever == FALSE

\* What becomes of those still standing when the grace period is over.
Overrun(cut, told) ==
    /\ main = "shut" /\ listener # "serving" /\ Standing # {}
    /\ conn' = [c \in Connections |->
                    IF cut /\ c \in Standing
                    THEN IF conn[c] = "running" THEN "cut" ELSE "gone"
                    ELSE conn[c]]
    /\ err' = (err \/ told) /\ main' = "collect"
    /\ UNCHANGED <<listener, signal, closing, pool, code>>

\* Slip: when the grace period is over the server is not closed.
GraceWithoutClose == Overrun(FALSE, TRUE)

\* Slip: Shutdown reports what Close returned, which is no error.
GraceUntold == Overrun(TRUE, FALSE)

\* The grace period is over: Close cuts every connection, whatever its handler is doing.
GraceExpires == Overrun(TRUE, TRUE)

\* Run takes what Start returned, or waits a second for it.
Collect ==
    /\ main = "collect"
    /\ main' = "release" /\ err' = (err \/ listener = "failed")
    /\ UNCHANGED <<listener, signal, closing, conn, pool, code>>

\* Slip: the closers run in the order of registration.
FirstOpen == {i \in Order : pool[i] = "open" /\ \A j \in Order : j < i => pool[j] # "open"}

LastOpen == {i \in Order : pool[i] = "open" /\ \A j \in Order : j > i => pool[j] # "open"}

\* The last pool still open is closed; its error does not keep the others open.
ClosePool ==
    /\ main = "release"
    /\ \E i \in LastOpen, failed \in BOOLEAN :
        /\ pool' = [pool EXCEPT ![i] = "closed"]
        /\ err' = (err \/ failed)
    /\ UNCHANGED <<main, listener, signal, closing, conn, code>>

\* The process takes the connections it still has with it.
Exit(status) ==
    /\ main' = "ended" /\ code' = status
    /\ conn' = [c \in Connections |-> IF conn[c] = "running" THEN "cut" ELSE conn[c]]
    /\ UNCHANGED <<listener, signal, closing, pool, err>>

Released ==
    /\ main = "release" /\ \A i \in Order : pool[i] # "open"
    /\ Exit(IF err THEN 1 ELSE 0)

\* The fifteen seconds are over between two closers; a failed boot has no such limit.
BudgetSpent ==
    /\ main = "release" /\ listener # "idle"
    /\ \E i \in Order : pool[i] = "open"
    /\ \E i \in Order : pool[i] = "closed"
    /\ Exit(1)

\* A signal before Run listens for one or after it stopped, a crash, the kill timer.
Kill == main # "ended" /\ Exit(2)

-----------------------------------------------------------------------------
MainStep ==
    \/ Dial \/ Answers \/ PingFails \/ BuildFails \/ Run
    \/ ListenerDied \/ BeginShutdown \/ (\E c \in Connections : CloseIdle(c)) \/ Drained
    \/ GraceExpires \/ Collect \/ ClosePool \/ Released \/ BudgetSpent

ListenerStep == Listen \/ BindFails \/ AcceptFails \/ ListenerStops

ConnectionStep ==
    \E c \in Connections : Accept(c) \/ Serve(c) \/ Answer(c) \/ HangUp(c)

Next == MainStep \/ ListenerStep \/ ConnectionStep \/ Signal \/ Kill

\* The Go scheduler runs the main goroutine and that of Start, and timers fire; a
\* handler owes nothing.
Fairness == WF_vars(MainStep) /\ WF_vars(ListenerStep)

Spec == Init /\ [][Next]_vars /\ Fairness

-----------------------------------------------------------------------------
\* A client is connected only while the pools are open, unless the listener died, which
\* closes the pools without draining (App.Run and Server.Shutdown: drain, or cut, then close).
PoolsOutliveClients ==
    Standing # {} /\ main # "ended" /\ (closing \/ listener # "failed") =>
        \A i \in Order : pool[i] = "open"

\* A pool is closed only when those built after it are, boots that fail and budgets
\* that are spent included (Container.shutdown).
ClosedInReverse ==
    \A i, j \in Order : i < j /\ pool[j] \in {"dialled", "open"} => pool[i] = "open"

\* A boot that fails leaves nothing behind, wherever it fails: what was registered is
\* released in full, and a pool that was opened but never answered, which nobody can
\* release later, is closed where it was opened (NewContainer, abort, and the three New
\* of the infrastructure: "so a failed boot does not leak sockets").
FailedBootLeavesNothing ==
    /\ main # "build" /\ code # 2 => \A i \in Order : pool[i] # "dialled"
    /\ code = 1 /\ listener = "idle" => \A i \in Order : pool[i] \in {"none", "closed"}

\* An exit status of 0 says that every request was answered, every pool closed and that
\* no listener died unbidden (cmd/api, App.Run).
ExitIsTold ==
    code = 0 => /\ \A c \in Connections : conn[c] # "cut"
                /\ \A i \in Order : pool[i] = "closed"
                /\ listener # "failed" \/ signal

\* Once told to, the process ends, whatever the handlers do (App.Run, Server.Shutdown).
StopsWhenTold == signal \/ listener = "failed" ~> main = "ended"
=============================================================================
