---------------------------- MODULE ProcessProofs ----------------------------
(***************************************************************************)
(* Proofs about Process: for any number of connections and of pools, the   *)
(* pools outlive the clients, are closed in reverse, none is left behind   *)
(* by a boot that fails, and the exit status tells what happened.          *)
(***************************************************************************)
EXTENDS Process, TLAPS

-----------------------------------------------------------------------------
AllOpen == \A i \in Order : pool[i] = "open"

\* Before Run nothing listens; a boot that failed has only pools to give back.
Booting ==
    /\ main = "build" => listener = "idle" /\ ~err /\ \A i \in Order : pool[i] # "closed"
    /\ main \notin {"build", "ended"} => \A i \in Order : pool[i] # "dialled"
    /\ listener = "idle" => /\ ~closing /\ ~signal
                            /\ \A c \in Connections : conn[c] = "none"
                            /\ main \in {"build", "release", "ended"}
                            /\ main = "release" => err

\* From Run to the release every pool is open.
Serving ==
    /\ main \in {"wait", "shut", "collect"} => AllOpen
    /\ main = "wait" => ~closing /\ ~err
    /\ main \in {"shut", "collect"} => closing
    /\ closing => signal
    /\ listener = "closed" => closing

\* Past the shutdown nobody is connected, and nobody can connect any more.
Stopped ==
    main \in {"collect", "release"} /\ closing => Standing = {} /\ listener # "serving"

\* Pools are released after a shutdown, a failed boot or the death of the listener.
Releasing ==
    main = "release" =>
        /\ listener # "idle" => \A i \in Order : pool[i] # "none"
        /\ listener # "idle" /\ ~closing => listener = "failed" /\ err

\* Who was cut off is accounted for, and so is the end.
Told ==
    /\ main # "ended" => code = 3 /\ \A c \in Connections : conn[c] = "cut" => err
    /\ main = "ended" => code # 3

IInv ==
    /\ TypeOK /\ ClosedInReverse /\ FailedBootLeavesNothing /\ ExitIsTold
    /\ Booting /\ Serving /\ Stopped /\ Releasing /\ Told

-----------------------------------------------------------------------------
LEMMA Starts == Init => IInv
<1> SUFFICES ASSUME Init
             PROVE  IInv
  OBVIOUS
<1>1. TypeOK
  <2>1. code \in 0..3
    BY DEF Init
  <2> QED
    BY <2>1, Zenon DEF Init, TypeOK
<1>2. ClosedInReverse /\ FailedBootLeavesNothing /\ ExitIsTold
  BY DEF Init, ClosedInReverse, FailedBootLeavesNothing, ExitIsTold
<1>3. Booting /\ Serving /\ Stopped /\ Releasing /\ Told
  BY DEF Init, Booting, Serving, Stopped, Releasing, Told
<1> QED
  BY <1>1, <1>2, <1>3 DEF IInv

LEMMA BootKeeps ==
    ASSUME IInv, Dial \/ Answers \/ PingFails \/ BuildFails \/ Run
    PROVE  IInv'
<1> USE DEF IInv, TypeOK, ClosedInReverse, FailedBootLeavesNothing, ExitIsTold, Booting, Serving,
            Stopped, Releasing, Told, AllOpen, Standing
<1>1. CASE Dial
  BY <1>1, PoolsAssumption DEF Dial, Order
<1>2. CASE Answers
  BY <1>2, PoolsAssumption DEF Answers, Order
<1>3. CASE PingFails
  <2>1. PICK i \in Order : pool[i] = "dialled" /\ pool' = [pool EXCEPT ![i] = "closed"]
    BY <1>3 DEF PingFails, Unanswered
  <2>2. /\ main = "build" /\ main' = "release" /\ err' = TRUE
        /\ UNCHANGED <<listener, signal, closing, conn, code>>
    BY <1>3 DEF PingFails, Unanswered
  <2>3. \A j \in Order : pool'[j] # "dialled"
    BY <2>1, <2>2, PoolsAssumption DEF Order
  <2> QED
    BY <2>1, <2>2, <2>3, PoolsAssumption DEF Order
<1>4. CASE BuildFails
  BY <1>4 DEF BuildFails
<1>5. CASE Run
  BY <1>5 DEF Run
<1> QED
  BY <1>1, <1>2, <1>3, <1>4, <1>5

LEMMA ListenerKeeps ==
    ASSUME IInv, ListenerStep
    PROVE  IInv'
<1>1. listener # "idle" /\ listener' # "idle" /\ main # "ended"
  BY DEF ListenerStep, Listen, BindFails, AcceptFails, ListenerStops, ListenerTurns
<1>2. UNCHANGED <<main, signal, closing, conn, pool, err, code>>
  BY DEF ListenerStep, Listen, BindFails, AcceptFails, ListenerStops, ListenerTurns
<1>3. /\ listener' \in {"serving", "closed", "failed"}
      /\ listener' = "serving" => ~closing
      /\ listener' = "closed" => closing
  BY DEF ListenerStep, Listen, BindFails, AcceptFails, ListenerStops, ListenerTurns
<1>4. listener # "failed"
  BY DEF ListenerStep, Listen, BindFails, AcceptFails, ListenerStops, ListenerTurns
<1> QED
  BY <1>1, <1>2, <1>3, <1>4
     DEF IInv, TypeOK, ClosedInReverse, FailedBootLeavesNothing, ExitIsTold, Booting, Serving,
         Stopped, Releasing, Told, AllOpen, Standing

LEMMA ConnectionKeeps ==
    ASSUME IInv, NEW c \in Connections, NEW from, NEW to \in {"idle", "running", "gone"},
           Turns(c, from, to),
           from \in {"idle", "running"} \/ (from = "none" /\ listener = "serving")
    PROVE  IInv'
<1>1. main # "ended" /\ conn' = [conn EXCEPT ![c] = to] /\ conn[c] = from
      /\ UNCHANGED <<main, listener, signal, closing, pool, err, code>>
  BY DEF Turns
<1>2. ~(main \in {"collect", "release"} /\ closing)
  BY <1>1 DEF IInv, Stopped, Standing
<1>3. listener # "idle"
  BY <1>1 DEF IInv, Booting
<1> QED
  BY <1>1, <1>2, <1>3
     DEF IInv, TypeOK, ClosedInReverse, FailedBootLeavesNothing, ExitIsTold, Booting, Serving,
         Stopped, Releasing, Told, AllOpen, Standing

LEMMA ExitKeeps ==
    ASSUME IInv, NEW status \in 0..2, Exit(status), main # "ended",
           status # 2 => main = "release",
           status = 0 => ~err /\ \A i \in Order : pool[i] # "open",
           status = 1 => listener # "idle" \/ \A i \in Order : pool[i] # "open"
    PROVE  IInv'
<1>1. ASSUME status = 0
      PROVE  ExitIsTold'
  <2>1. listener # "idle" /\ closing /\ signal
    BY <1>1 DEF IInv, Booting, Releasing, Serving
  <2>2. Standing = {} /\ \A c \in Connections : conn[c] # "cut"
    BY <1>1, <2>1 DEF IInv, Stopped, Told
  <2>3. \A i \in Order : pool[i] = "closed"
    BY <1>1, <2>1 DEF IInv, Booting, Releasing, TypeOK
  <2> QED
    BY <1>1, <2>1, <2>2, <2>3 DEF Exit, ExitIsTold, Standing
<1>2. ASSUME status # 0
      PROVE  ExitIsTold'
  BY <1>2 DEF Exit, ExitIsTold
<1>3. TypeOK'
  BY DEF Exit, IInv, TypeOK
<1>4. status # 2 => \A i \in Order : pool[i] # "dialled"
  BY DEF IInv, Booting
<1>5. FailedBootLeavesNothing'
  BY <1>4 DEF Exit, IInv, TypeOK, FailedBootLeavesNothing
<1> QED
  BY <1>1, <1>2, <1>3, <1>5
     DEF Exit, IInv, TypeOK, ClosedInReverse, Booting, Serving, Stopped, Releasing, Told,
         AllOpen, Standing

LEMMA ShutdownKeeps ==
    ASSUME IInv,
           Signal \/ ListenerDied \/ BeginShutdown \/ Drained \/ GraceExpires \/ Collect
    PROVE  IInv'
<1> USE DEF IInv, TypeOK, ClosedInReverse, FailedBootLeavesNothing, ExitIsTold, Booting, Serving,
            Stopped, Releasing, Told, AllOpen, Standing
<1>1. CASE Signal
  BY <1>1 DEF Signal
<1>2. CASE ListenerDied
  BY <1>2 DEF ListenerDied
<1>3. CASE BeginShutdown
  BY <1>3 DEF BeginShutdown
<1>4. CASE Drained
  BY <1>4 DEF Drained
<1>5. CASE GraceExpires
  <2>1. /\ main = "shut" /\ listener # "serving" /\ main' = "collect" /\ err' = TRUE
        /\ UNCHANGED <<listener, signal, closing, pool, code>>
    BY <1>5 DEF GraceExpires, Overrun
  <2>2. conn' = [c \in Connections |->
                    IF c \in Standing
                    THEN IF conn[c] = "running" THEN "cut" ELSE "gone"
                    ELSE conn[c]]
    BY <1>5, Zenon DEF GraceExpires, Overrun
  <2>3. conn' \in [Connections -> {"none", "idle", "running", "cut", "gone"}]
    BY <2>2
  <2>4. Standing' = {}
    BY <2>2
  <2> QED
    BY <2>1, <2>3, <2>4
<1>6. CASE Collect
  BY <1>6 DEF Collect
<1> QED
  BY <1>1, <1>2, <1>3, <1>4, <1>5, <1>6

LEMMA CloseKeeps ==
    ASSUME IInv, ClosePool
    PROVE  IInv'
<1>1. PICK i \in Order, failed \in BOOLEAN :
        /\ pool[i] = "open" /\ \A j \in Order : j > i => pool[j] # "open"
        /\ pool' = [pool EXCEPT ![i] = "closed"]
        /\ err' = (err \/ failed)
  BY DEF ClosePool, LastOpen
<1>2. /\ main = "release" /\ \A j \in Order : pool[j] # "dialled"
      /\ UNCHANGED <<main, listener, signal, closing, conn, code>>
  BY DEF ClosePool, IInv, Booting
<1>3. ClosedInReverse'
  BY <1>1, <1>2 DEF IInv, ClosedInReverse, TypeOK, Order
<1>4. TypeOK'
  BY <1>1, <1>2 DEF IInv, TypeOK
<1>5. code = 3 /\ FailedBootLeavesNothing' /\ ExitIsTold'
  BY <1>1, <1>2 DEF IInv, TypeOK, Told, FailedBootLeavesNothing, ExitIsTold
<1> QED
  BY <1>1, <1>2, <1>3, <1>4, <1>5
     DEF IInv, TypeOK, Booting, Serving, Stopped, Releasing, Told, AllOpen, Standing

\* The invariant behind what follows: who may still be connected, and which pools may be
\* open, at each stage of the main goroutine.
THEOREM InductiveInvariant == Spec => []IInv
<1>1. ASSUME IInv, [Next]_vars
      PROVE  IInv'
  <2>1. CASE Dial \/ Answers \/ PingFails \/ BuildFails \/ Run
    BY <2>1, <1>1, BootKeeps
  <2>2. CASE Signal \/ ListenerDied \/ BeginShutdown \/ Drained \/ GraceExpires \/ Collect
    BY <2>2, <1>1, ShutdownKeeps
  <2>3. ASSUME NEW c \in Connections, CloseIdle(c) \/ Accept(c) \/ Serve(c) \/ Answer(c) \/ HangUp(c)
        PROVE  IInv'
    <3>1. CASE CloseIdle(c)
      BY <3>1, <1>1, ConnectionKeeps DEF CloseIdle
    <3>2. CASE Accept(c)
      BY <3>2, <1>1, ConnectionKeeps DEF Accept
    <3>3. CASE Serve(c)
      BY <3>3, <1>1, ConnectionKeeps DEF Serve
    <3>4. CASE Answer(c)
      BY <3>4, <1>1, ConnectionKeeps DEF Answer
    <3>5. CASE HangUp(c)
      BY <3>5, <1>1, ConnectionKeeps DEF HangUp
    <3> QED
      BY <2>3, <3>1, <3>2, <3>3, <3>4, <3>5
  <2>4. CASE ClosePool
    BY <2>4, <1>1, CloseKeeps
  <2>5. CASE Released
    BY <2>5, <1>1, ExitKeeps DEF Released
  <2>6. CASE BudgetSpent
    BY <2>6, <1>1, ExitKeeps DEF BudgetSpent
  <2>7. CASE Kill
    BY <2>7, <1>1, ExitKeeps DEF Kill
  <2>8. CASE ListenerStep
    BY <2>8, <1>1, ListenerKeeps
  <2>9. CASE UNCHANGED vars
    BY <2>9, <1>1
       DEF vars, IInv, TypeOK, ClosedInReverse, FailedBootLeavesNothing, ExitIsTold, Booting, Serving,
           Stopped, Releasing, Told, AllOpen, Standing
  <2> QED
    BY <1>1, <2>1, <2>2, <2>3, <2>4, <2>5, <2>6, <2>7, <2>8, <2>9
       DEF Next, MainStep, ConnectionStep
<1> QED
  BY <1>1, Starts, PTL DEF Spec

\* A client is connected only while the pools are open, unless the listener died
\* (App.Run, Server.Shutdown).
THEOREM PoolsOutlive == Spec => []PoolsOutliveClients
<1>1. IInv => PoolsOutliveClients
  BY DEF IInv, TypeOK, PoolsOutliveClients, Booting, Serving, Stopped, Releasing, AllOpen, Standing
<1> QED
  BY <1>1, InductiveInvariant, PTL

\* Pools are closed in the reverse of the order they were opened (Container.shutdown).
THEOREM ReverseHolds == Spec => []ClosedInReverse
<1>1. IInv => ClosedInReverse
  BY DEF IInv
<1> QED
  BY <1>1, InductiveInvariant, PTL

\* A boot that fails leaves no pool open, not even one that was only dialled (NewContainer,
\* abort).
THEOREM FailedBootsClean == Spec => []FailedBootLeavesNothing
<1>1. IInv => FailedBootLeavesNothing
  BY DEF IInv
<1> QED
  BY <1>1, InductiveInvariant, PTL

\* The exit status tells whether anybody was cut off and whether anything was left open
\* (cmd/api, App.Run).
THEOREM ExitHolds == Spec => []ExitIsTold
<1>1. IInv => ExitIsTold
  BY DEF IInv
<1> QED
  BY <1>1, InductiveInvariant, PTL
=============================================================================
