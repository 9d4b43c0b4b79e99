-------------------------- MODULE RelayWorkerProofs --------------------------
(***************************************************************************)
(* Starting and stopping a relay worker, for any number of callers, of     *)
(* worker processes and of failures.  The locks give one worker at a time, *)
(* that makes a serving worker reachable, and because it is reachable a    *)
(* quiet stop that returned has met every worker.                          *)
(***************************************************************************)
EXTENDS RelayWorker, TLAPS

LEMMA TypeInit == Init => TypeOK
<1> SUFFICES ASSUME Init PROVE TypeOK
  OBVIOUS
<1>1. stopped \in BOOLEAN /\ halted \in BOOLEAN /\ quiet \in BOOLEAN
  BY Zenon DEF Init
<1>2. QED BY <1>1, RelayAssumption DEF Init, TypeOK

LEMMA FaultCounts ==
  ASSUME TypeOK, NEW kind, Fault(kind)
  PROVE  faults' \in 0..MaxFaults
<1>1. faults \in 0..MaxFaults
  BY DEF TypeOK
<1>2. QED BY <1>1, RelayAssumption DEF Fault

LEMMA TypeStep ==
  ASSUME TypeOK, [Next]_vars
  PROVE  TypeOK'
<1> USE RelayAssumption
<1>1. ASSUME NEW c \in Caller, Hook(c) PROVE TypeOK'
  BY <1>1 DEF Hook, Goto, TypeOK, files, processes, history
<1>2. ASSUME NEW c \in Caller, Start(c) PROVE TypeOK'
  <2>1. stopped' \in BOOLEAN /\ halted' \in BOOLEAN
    BY <1>2, Zenon DEF Start
  <2>2. QED BY <1>2, <2>1 DEF Start, Goto, Fault, TypeOK
<1>3. ASSUME NEW c \in Caller, Stop(c) PROVE TypeOK'
  <2>1. stopped' \in BOOLEAN
    BY <1>3, Zenon DEF Stop
  <2>2. quiet' \in BOOLEAN
    BY <1>3 DEF Stop, TypeOK
  <2>3. QED BY <1>3, <2>1, <2>2 DEF Stop, Goto, Fault, TypeOK
<1>4. ASSUME NEW c \in Caller, Prepare(c) PROVE TypeOK'
  BY <1>4 DEF Prepare, Goto, TypeOK, files, processes, history
<1>5. ASSUME NEW c \in Caller, Lock(c) PROVE TypeOK'
  BY <1>5 DEF Lock, Goto, TypeOK, files, processes, history
<1>6. ASSUME NEW c \in Caller, Look(c) PROVE TypeOK'
  BY <1>6 DEF Look, Goto, TypeOK, files, processes, history
<1>7. ASSUME NEW c \in Caller, SpawnFailed(c) PROVE TypeOK'
  BY <1>7 DEF SpawnFailed, Return, Goto, Fault, TypeOK, files, processes, history
<1>8. ASSUME NEW c \in Caller, Spawn(c) PROVE TypeOK'
  BY <1>8 DEF Spawn, Goto, Free, TypeOK, files, processes, history
<1>9. ASSUME NEW c \in Caller, Waited(c) PROVE TypeOK'
  BY <1>9 DEF Waited, Return, Goto, TypeOK, files, processes, history
<1>10. ASSUME NEW c \in Caller, TimeOut(c) PROVE TypeOK'
  BY <1>10 DEF TimeOut, Return, Goto, TypeOK, files, processes, history
<1>11. ASSUME NEW c \in Caller, KillCaller(c) PROVE TypeOK'
  <2>1. faults' \in 0..MaxFaults
    BY <1>11, FaultCounts DEF KillCaller
  <2>2. caller' = [caller EXCEPT ![c] = "off"] /\ spawned' = [spawned EXCEPT ![c] = None]
    BY <1>11 DEF KillCaller, Return, Goto
  <2>3. startLock' \in Caller \cup {None}
    BY <1>11 DEF KillCaller, Return, TypeOK
  <2>4. \A d \in Caller : startLock' = d <=> caller'[d] \in {"control", "spawn", "waiting"}
    BY <1>11, <2>2 DEF KillCaller, Return, TypeOK
  <2>5. workerLock' = workerLock /\ worker' = worker
    BY <1>11 DEF KillCaller
  <2>6. stopped' \in BOOLEAN /\ halted' \in BOOLEAN /\ quiet' \in BOOLEAN
    BY <1>11 DEF KillCaller, TypeOK, history
  <2>7. receipt' = receipt /\ ready' = ready
    BY <1>11 DEF KillCaller
  <2>8. QED BY <2>1, <2>2, <2>3, <2>4, <2>5, <2>6, <2>7 DEF TypeOK
<1>12. ASSUME NEW c \in Caller, StopLook(c) PROVE TypeOK'
  BY <1>12 DEF StopLook, Answers, Stopped, Return, Goto, TypeOK, files, processes, history
<1>13. ASSUME NEW c \in Caller, Post(c) PROVE TypeOK'
  BY <1>13 DEF Post, Answers, Return, Goto, TypeOK, files, processes, history
<1>14. ASSUME NEW c \in Caller, Poll(c) PROVE TypeOK'
  BY <1>14 DEF Poll, Answers, Stopped, Return, Goto, TypeOK, files, processes, history
<1>15. ASSUME NEW w \in Worker, TakeLock(w) PROVE TypeOK'
  BY <1>15 DEF TakeLock, Become, TypeOK, files, processes, history
<1>16. ASSUME NEW w \in Worker, Serve(w) PROVE TypeOK'
  BY <1>16 DEF Serve, Become, TypeOK, files, processes, history
<1>17. ASSUME NEW w \in Worker, PortTaken(w) PROVE TypeOK'
  BY <1>17 DEF PortTaken, Become, Fault, TypeOK, files, processes, history
<1>18. ASSUME NEW w \in Worker, TunnelUp(w) PROVE TypeOK'
  BY <1>18 DEF TunnelUp, TypeOK, files, processes, history
<1>19. ASSUME NEW w \in Worker, TunnelDown(w) PROVE TypeOK'
  BY <1>19 DEF TunnelDown, Fault, TypeOK, files, processes, history
<1>20. ASSUME NEW w \in Worker, Supervisor(w) PROVE TypeOK'
  BY <1>20 DEF Supervisor, Become, Fault, TypeOK, files, processes, history
<1>21. ASSUME NEW w \in Worker, Reset(w) PROVE TypeOK'
  BY <1>21 DEF Reset, TypeOK, files, processes, history
<1>22. ASSUME NEW w \in Worker, Close(w) PROVE TypeOK'
  BY <1>22 DEF Close, Become, TypeOK, files, processes, history
<1>23. ASSUME NEW w \in Worker, Unlink(w) PROVE TypeOK'
  BY <1>23 DEF Unlink, Become, TypeOK, files, processes, history
<1>24. ASSUME NEW w \in Worker, Exit(w) PROVE TypeOK'
  BY <1>24 DEF Exit, Become, TypeOK, files, processes, history
<1>25. ASSUME NEW w \in Worker, KillWorker(w) PROVE TypeOK'
  <2>1. faults' \in 0..MaxFaults
    BY <1>25, FaultCounts DEF KillWorker
  <2>2. worker' = [worker EXCEPT ![w] = "exited"] /\ ready' = ready \ {w}
    BY <1>25 DEF KillWorker, Become
  <2>3. workerLock' \in Worker \cup {None}
    BY <1>25 DEF KillWorker, TypeOK
  <2>4. \A v \in Worker : workerLock' = v <=> worker'[v] \in {"locked", "serving", "stopping",
                                                           "closing", "leaving"}
    BY <1>25, <2>2 DEF KillWorker, TypeOK
  <2>5. startLock' = startLock /\ caller' = caller /\ spawned' = spawned
    BY <1>25 DEF KillWorker
  <2>6. stopped' \in BOOLEAN /\ halted' \in BOOLEAN /\ quiet' \in BOOLEAN
    BY <1>25 DEF KillWorker, TypeOK, history
  <2>7. receipt' = receipt
    BY <1>25 DEF KillWorker
  <2>8. QED BY <2>1, <2>2, <2>3, <2>4, <2>5, <2>6, <2>7 DEF TypeOK
<1>26. CASE UNCHANGED vars
  BY <1>26 DEF vars, TypeOK, files, processes, history
<1>27. QED
  BY <1>1, <1>2, <1>3, <1>4, <1>5, <1>6, <1>7, <1>8, <1>9, <1>10, <1>11, <1>12, <1>13,
     <1>14, <1>15, <1>16, <1>17, <1>18, <1>19, <1>20, <1>21, <1>22, <1>23, <1>24, <1>25,
     <1>26 DEF Next, Call, Command, Work, Failure

\* Every value has its type, and each lock is held exactly by the process that took it.
THEOREM TypeCorrect == Spec => []TypeOK
<1>1. QED BY TypeInit, TypeStep, PTL DEF Spec

-----------------------------------------------------------------------------
\* One worker at a time holds worker.lock, so no other can overwrite its receipt,
\* and an older one that leaves removes only its own.
LEMMA ReachableStep ==
  ASSUME TypeOK, Reachable, [Next]_vars
  PROVE  Reachable'
<1> USE RelayAssumption
<1>1. ASSUME NEW c \in Caller, Hook(c) PROVE Reachable'
  BY <1>1 DEF Hook, Goto, TypeOK, Reachable, files, processes, history
<1>2. ASSUME NEW c \in Caller, Start(c) PROVE Reachable'
  BY <1>2 DEF Start, Goto, Fault, TypeOK, Reachable, files, processes, history
<1>3. ASSUME NEW c \in Caller, Stop(c) PROVE Reachable'
  BY <1>3 DEF Stop, Goto, Fault, TypeOK, Reachable, files, processes, history
<1>4. ASSUME NEW c \in Caller, Prepare(c) PROVE Reachable'
  BY <1>4 DEF Prepare, Goto, TypeOK, Reachable, files, processes, history
<1>5. ASSUME NEW c \in Caller, Lock(c) PROVE Reachable'
  BY <1>5 DEF Lock, Goto, TypeOK, Reachable, files, processes, history
<1>6. ASSUME NEW c \in Caller, Look(c) PROVE Reachable'
  BY <1>6 DEF Look, Goto, TypeOK, Reachable, files, processes, history
<1>7. ASSUME NEW c \in Caller, SpawnFailed(c) PROVE Reachable'
  BY <1>7 DEF SpawnFailed, Return, Goto, Fault, TypeOK, Reachable, files, processes, history
<1>8. ASSUME NEW c \in Caller, Spawn(c) PROVE Reachable'
  BY <1>8 DEF Spawn, Goto, Free, TypeOK, Reachable, files, processes, history
<1>9. ASSUME NEW c \in Caller, Waited(c) PROVE Reachable'
  BY <1>9 DEF Waited, Return, Goto, TypeOK, Reachable, files, processes, history
<1>10. ASSUME NEW c \in Caller, TimeOut(c) PROVE Reachable'
  BY <1>10 DEF TimeOut, Return, Goto, TypeOK, Reachable, files, processes, history
<1>11. ASSUME NEW c \in Caller, KillCaller(c) PROVE Reachable'
  BY <1>11 DEF KillCaller, Return, Goto, Fault, TypeOK, Reachable, files, processes, history
<1>12. ASSUME NEW c \in Caller, StopLook(c) PROVE Reachable'
  BY <1>12 DEF StopLook, Answers, Stopped, Return, Goto, TypeOK, Reachable, files, processes, history
<1>13. ASSUME NEW c \in Caller, Post(c) PROVE Reachable'
  BY <1>13 DEF Post, Answers, Return, Goto, TypeOK, Reachable, files, processes, history
<1>14. ASSUME NEW c \in Caller, Poll(c) PROVE Reachable'
  BY <1>14 DEF Poll, Answers, Stopped, Return, Goto, TypeOK, Reachable, files, processes, history
<1>15. ASSUME NEW w \in Worker, TakeLock(w) PROVE Reachable'
  BY <1>15 DEF TakeLock, Become, TypeOK, Reachable, files, processes, history
<1>16. ASSUME NEW w \in Worker, Serve(w) PROVE Reachable'
  BY <1>16 DEF Serve, Become, TypeOK, Reachable, files, processes, history
<1>17. ASSUME NEW w \in Worker, PortTaken(w) PROVE Reachable'
  BY <1>17 DEF PortTaken, Become, Fault, TypeOK, Reachable, files, processes, history
<1>18. ASSUME NEW w \in Worker, TunnelUp(w) PROVE Reachable'
  BY <1>18 DEF TunnelUp, TypeOK, Reachable, files, processes, history
<1>19. ASSUME NEW w \in Worker, TunnelDown(w) PROVE Reachable'
  BY <1>19 DEF TunnelDown, Fault, TypeOK, Reachable, files, processes, history
<1>20. ASSUME NEW w \in Worker, Supervisor(w) PROVE Reachable'
  BY <1>20 DEF Supervisor, Become, Fault, TypeOK, Reachable, files, processes, history
<1>21. ASSUME NEW w \in Worker, Reset(w) PROVE Reachable'
  BY <1>21 DEF Reset, TypeOK, Reachable, files, processes, history
<1>22. ASSUME NEW w \in Worker, Close(w) PROVE Reachable'
  BY <1>22 DEF Close, Become, TypeOK, Reachable, files, processes, history
<1>23. ASSUME NEW w \in Worker, Unlink(w) PROVE Reachable'
  BY <1>23 DEF Unlink, Become, TypeOK, Reachable, files, processes, history
<1>24. ASSUME NEW w \in Worker, Exit(w) PROVE Reachable'
  BY <1>24 DEF Exit, Become, TypeOK, Reachable, files, processes, history
<1>25. ASSUME NEW w \in Worker, KillWorker(w) PROVE Reachable'
  BY <1>25 DEF KillWorker, Become, Fault, TypeOK, Reachable, files, processes, history
<1>26. CASE UNCHANGED vars
  BY <1>26 DEF vars, TypeOK, Reachable, files, processes, history
<1>27. QED
  BY <1>1, <1>2, <1>3, <1>4, <1>5, <1>6, <1>7, <1>8, <1>9, <1>10, <1>11, <1>12, <1>13,
     <1>14, <1>15, <1>16, <1>17, <1>18, <1>19, <1>20, <1>21, <1>22, <1>23, <1>24, <1>25,
     <1>26 DEF Next, Call, Command, Work, Failure

\* Whoever looks for a serving worker finds it.
THEOREM AlwaysReachable == Spec => []Reachable
<1>1. Init => Reachable
  BY DEF Init, Reachable
<1>2. QED BY <1>1, ReachableStep, TypeCorrect, PTL DEF Spec

-----------------------------------------------------------------------------
\* What makes QuietStop inductive: nothing starts while a quiet stop is in force,
\* and only a stop that is in force is over.
QuietInv == /\ halted => stopped
            /\ stopped /\ quiet => ~Starting
            /\ QuietStop

LEMMA QuietStep ==
  ASSUME TypeOK, Reachable, QuietInv, [Next]_vars
  PROVE  QuietInv'
<1> USE RelayAssumption
<1>1. ASSUME NEW c \in Caller, Hook(c) PROVE QuietInv'
  BY <1>1 DEF Hook, Goto, TypeOK, Reachable, QuietInv, QuietStop, Starting, files, processes, history
<1>2. ASSUME NEW c \in Caller, Start(c) PROVE QuietInv'
  BY <1>2 DEF Start, Goto, Fault, TypeOK, Reachable, QuietInv, QuietStop, Starting, files, processes, history
<1>3. ASSUME NEW c \in Caller, Stop(c) PROVE QuietInv'
  BY <1>3 DEF Stop, Goto, Fault, TypeOK, Reachable, QuietInv, QuietStop, Starting, files, processes, history
<1>4. ASSUME NEW c \in Caller, Prepare(c) PROVE QuietInv'
  BY <1>4 DEF Prepare, Goto, TypeOK, Reachable, QuietInv, QuietStop, Starting, files, processes, history
<1>5. ASSUME NEW c \in Caller, Lock(c) PROVE QuietInv'
  BY <1>5 DEF Lock, Goto, TypeOK, Reachable, QuietInv, QuietStop, Starting, files, processes, history
<1>6. ASSUME NEW c \in Caller, Look(c) PROVE QuietInv'
  BY <1>6 DEF Look, Goto, TypeOK, Reachable, QuietInv, QuietStop, Starting, files, processes, history
<1>7. ASSUME NEW c \in Caller, SpawnFailed(c) PROVE QuietInv'
  BY <1>7 DEF SpawnFailed, Return, Goto, Fault, TypeOK, Reachable, QuietInv, QuietStop, Starting, files, processes, history
<1>8. ASSUME NEW c \in Caller, Spawn(c) PROVE QuietInv'
  BY <1>8 DEF Spawn, Goto, Free, TypeOK, Reachable, QuietInv, QuietStop, Starting, files, processes, history
<1>9. ASSUME NEW c \in Caller, Waited(c) PROVE QuietInv'
  BY <1>9 DEF Waited, Return, Goto, TypeOK, Reachable, QuietInv, QuietStop, Starting, files, processes, history
<1>10. ASSUME NEW c \in Caller, TimeOut(c) PROVE QuietInv'
  BY <1>10 DEF TimeOut, Return, Goto, TypeOK, Reachable, QuietInv, QuietStop, Starting, files, processes, history
<1>11. ASSUME NEW c \in Caller, KillCaller(c) PROVE QuietInv'
  BY <1>11 DEF KillCaller, Return, Goto, Fault, TypeOK, Reachable, QuietInv, QuietStop, Starting, files, processes, history
<1>12. ASSUME NEW c \in Caller, StopLook(c) PROVE QuietInv'
  BY <1>12 DEF StopLook, Answers, Stopped, Return, Goto, TypeOK, Reachable, QuietInv, QuietStop, Starting, files, processes, history
<1>13. ASSUME NEW c \in Caller, Post(c) PROVE QuietInv'
  BY <1>13 DEF Post, Answers, Return, Goto, TypeOK, Reachable, QuietInv, QuietStop, Starting, files, processes, history
<1>14. ASSUME NEW c \in Caller, Poll(c) PROVE QuietInv'
  BY <1>14 DEF Poll, Answers, Stopped, Return, Goto, TypeOK, Reachable, QuietInv, QuietStop, Starting, files, processes, history
<1>15. ASSUME NEW w \in Worker, TakeLock(w) PROVE QuietInv'
  BY <1>15 DEF TakeLock, Become, TypeOK, Reachable, QuietInv, QuietStop, Starting, files, processes, history
<1>16. ASSUME NEW w \in Worker, Serve(w) PROVE QuietInv'
  BY <1>16 DEF Serve, Become, TypeOK, Reachable, QuietInv, QuietStop, Starting, files, processes, history
<1>17. ASSUME NEW w \in Worker, PortTaken(w) PROVE QuietInv'
  BY <1>17 DEF PortTaken, Become, Fault, TypeOK, Reachable, QuietInv, QuietStop, Starting, files, processes, history
<1>18. ASSUME NEW w \in Worker, TunnelUp(w) PROVE QuietInv'
  BY <1>18 DEF TunnelUp, TypeOK, Reachable, QuietInv, QuietStop, Starting, files, processes, history
<1>19. ASSUME NEW w \in Worker, TunnelDown(w) PROVE QuietInv'
  BY <1>19 DEF TunnelDown, Fault, TypeOK, Reachable, QuietInv, QuietStop, Starting, files, processes, history
<1>20. ASSUME NEW w \in Worker, Supervisor(w) PROVE QuietInv'
  BY <1>20 DEF Supervisor, Become, Fault, TypeOK, Reachable, QuietInv, QuietStop, Starting, files, processes, history
<1>21. ASSUME NEW w \in Worker, Reset(w) PROVE QuietInv'
  BY <1>21 DEF Reset, TypeOK, Reachable, QuietInv, QuietStop, Starting, files, processes, history
<1>22. ASSUME NEW w \in Worker, Close(w) PROVE QuietInv'
  BY <1>22 DEF Close, Become, TypeOK, Reachable, QuietInv, QuietStop, Starting, files, processes, history
<1>23. ASSUME NEW w \in Worker, Unlink(w) PROVE QuietInv'
  BY <1>23 DEF Unlink, Become, TypeOK, Reachable, QuietInv, QuietStop, Starting, files, processes, history
<1>24. ASSUME NEW w \in Worker, Exit(w) PROVE QuietInv'
  BY <1>24 DEF Exit, Become, TypeOK, Reachable, QuietInv, QuietStop, Starting, files, processes, history
<1>25. ASSUME NEW w \in Worker, KillWorker(w) PROVE QuietInv'
  BY <1>25 DEF KillWorker, Become, Fault, TypeOK, Reachable, QuietInv, QuietStop, Starting, files, processes, history
<1>26. CASE UNCHANGED vars
  BY <1>26 DEF vars, TypeOK, Reachable, QuietInv, QuietStop, Starting, files, processes, history
<1>27. QED
  BY <1>1, <1>2, <1>3, <1>4, <1>5, <1>6, <1>7, <1>8, <1>9, <1>10, <1>11, <1>12, <1>13,
     <1>14, <1>15, <1>16, <1>17, <1>18, <1>19, <1>20, <1>21, <1>22, <1>23, <1>24, <1>25,
     <1>26 DEF Next, Call, Command, Work, Failure

\* A stop that began with no start under way leaves no worker when it returns, and
\* none comes until the next start.
THEOREM QuietStopHolds == Spec => []QuietStop
<1>1. Init => QuietInv
  BY DEF Init, QuietInv, QuietStop
<1>2. QuietInv => QuietStop
  BY DEF QuietInv
<1>3. QED BY <1>1, <1>2, QuietStep, TypeCorrect, AlwaysReachable, PTL DEF Spec

=============================================================================
