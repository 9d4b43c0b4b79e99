----------------------------- MODULE RelayWorker -----------------------------
(***************************************************************************)
(* Starting and stopping the worker process of one relay connection        *)
(* (sharing/relay.py), by the hooks, MCP servers and commands that share   *)
(* its directory (sharing/remote.py) under the switch of stop and start    *)
(* (platform/lifecycle.py).                                                *)
(*                                                                         *)
(* Callers and workers are processes.  They meet in files: service-state,  *)
(* start.lock (one caller at a time), worker.lock (one worker at a time)   *)
(* and worker.json, the receipt through which a caller reaches a worker's  *)
(* control port.  A lock file is freed when its process ends.  The tunnel  *)
(* process a worker supervises is only ready or not ready here.            *)
(***************************************************************************)
EXTENDS Naturals

CONSTANTS
  Caller,      \* hooks, MCP servers and terminals
  Worker,      \* bound: worker processes at a time
  None,        \* a missing file, a lock nobody holds
  MaxFaults,   \* bound: kills, failures and commands
  Faults       \* the kinds that may happen

FaultKind == {"start", "stop", "kill caller", "kill worker", "cli", "port",
              "supervisor", "tunnel"}

ASSUME RelayAssumption == /\ None \notin Caller \cup Worker
                          /\ MaxFaults \in Nat
                          /\ Faults \subseteq FaultKind

VARIABLES
  stopped,     \* service-state.json
  startLock,   \* who holds start.lock
  workerLock,  \* who holds worker.lock
  receipt,     \* worker.json: the worker that wrote it
  worker,      \* the worker processes
  ready,       \* workers whose tunnel is ready
  caller,      \* where each caller is
  spawned,     \* the worker a caller has started and waits for
  halted,      \* a stop has returned, and memory was not started since
  quiet,       \* that stop began with no start under way
  faults

files == <<stopped, startLock, workerLock, receipt>>
processes == <<worker, ready, caller, spawned>>
history == <<halted, quiet>>
vars == <<files, processes, history, faults>>

TypeOK ==
  /\ stopped \in BOOLEAN
  /\ startLock \in Caller \cup {None}
  /\ workerLock \in Worker \cup {None}
  /\ receipt \in Worker \cup {None}
  /\ worker \in [Worker -> {"spawned", "locked", "serving", "stopping", "closing",
                            "leaving", "exited"}]
  /\ ready \subseteq Worker
  /\ caller \in [Caller -> {"off", "prepare", "ensure", "control", "spawn", "waiting",
                            "stop", "posting", "polling"}]
  /\ spawned \in [Caller -> Worker \cup {None}]
  /\ halted \in BOOLEAN /\ quiet \in BOOLEAN
  /\ faults \in 0..MaxFaults
  \* Locks are held by the processes that took them, and by no other.
  /\ \A c \in Caller : startLock = c <=> caller[c] \in {"control", "spawn", "waiting"}
  /\ \A w \in Worker : workerLock = w <=> worker[w] \in {"locked", "serving", "stopping",
                                                       "closing", "leaving"}

\* A connected client whose relay is not running.
Init ==
  /\ stopped = FALSE
  /\ startLock = None /\ workerLock = None /\ receipt = None
  /\ worker = [w \in Worker |-> "exited"]
  /\ ready = {}
  /\ caller = [c \in Caller |-> "off"]
  /\ spawned = [c \in Caller |-> None]
  /\ halted = FALSE /\ quiet = FALSE
  /\ faults = 0

Fault(kind) == /\ kind \in Faults
               /\ faults < MaxFaults
               /\ faults' = faults + 1

\* _control: the receipt leads to a worker that still answers.
Answers == receipt # None /\ worker[receipt] \in {"serving", "stopping"}

Goto(c, place) == caller' = [caller EXCEPT ![c] = place]

\* Defect: an error leaves start.lock behind.
ReturnHolding(c) == /\ Goto(c, "off")
                    /\ spawned' = [spawned EXCEPT ![c] = None]
                    /\ UNCHANGED startLock

\* A caller returns or raises, and drops what it holds.
Return(c) == /\ Goto(c, "off")
             /\ spawned' = [spawned EXCEPT ![c] = None]
             /\ startLock' = IF startLock = c THEN None ELSE startLock

-----------------------------------------------------------------------------
(* prepare_client and ensure_running *)

Hook(c) ==
  /\ caller[c] = "off"
  /\ Goto(c, "prepare")
  /\ UNCHANGED <<files, worker, ready, spawned, history, faults>>

\* start: lifecycle.start(), then resume().
Start(c) ==
  /\ caller[c] = "off"
  /\ Fault("start")
  /\ stopped' = FALSE
  /\ halted' = FALSE
  /\ Goto(c, "prepare")
  /\ UNCHANGED <<startLock, workerLock, receipt, worker, ready, spawned, quiet>>

\* require_memory; or, in resume(), nothing to do.
Prepare(c) ==
  /\ caller[c] = "prepare"
  /\ Goto(c, IF stopped THEN "off" ELSE "ensure")
  /\ UNCHANGED <<files, worker, ready, spawned, history, faults>>

Lock(c) ==
  /\ caller[c] = "ensure"
  /\ startLock = None
  /\ startLock' = c
  /\ Goto(c, "control")
  /\ UNCHANGED <<stopped, workerLock, receipt, worker, ready, spawned, history, faults>>

\* Defect: the receipt is believed without asking the worker.
LookTrusting(c) ==
  /\ caller[c] = "control"
  /\ Goto(c, IF receipt # None THEN "waiting" ELSE "spawn")
  /\ UNCHANGED <<files, worker, ready, spawned, history, faults>>

\* Reuse a worker that answers, or verify the CLI and the account for a new one.  These
\* callers bring the one connection that is saved, and never sign in: only share and connect
\* do (remote.py:222, 281), which may also stop a worker that is not ready.
Look(c) ==
  /\ caller[c] = "control"
  /\ Goto(c, IF Answers THEN "waiting" ELSE "spawn")
  /\ UNCHANGED <<files, worker, ready, spawned, history, faults>>

\* A process id nobody refers to.
Free(w) == worker[w] = "exited" /\ receipt # w /\ \A c \in Caller : spawned[c] # w

SpawnFailed(c) ==
  /\ caller[c] = "spawn"
  /\ Fault("cli")
  /\ Return(c)
  /\ UNCHANGED <<stopped, workerLock, receipt, worker, ready, history>>

Spawn(c) ==
  /\ caller[c] = "spawn"
  /\ \E w \in Worker :
       /\ Free(w)
       /\ worker' = [worker EXCEPT ![w] = "spawned"]
       /\ spawned' = [spawned EXCEPT ![c] = w]
  /\ Goto(c, "waiting")
  /\ UNCHANGED <<files, ready, history, faults>>

\* Ready; or the started worker has exited.
Waited(c) ==
  /\ caller[c] = "waiting"
  /\ \/ Answers /\ receipt \in ready
     \/ spawned[c] # None /\ worker[spawned[c]] = "exited"
  /\ Return(c)
  /\ UNCHANGED <<stopped, workerLock, receipt, worker, ready, history, faults>>

\* start.lock and READY_TIMEOUT; stop()'s ten seconds.
TimeOut(c) ==
  /\ \/ caller[c] = "ensure" /\ startLock # None
     \/ caller[c] \in {"waiting", "polling"}
  /\ Return(c)
  /\ UNCHANGED <<stopped, workerLock, receipt, worker, ready, history, faults>>

\* A hook that takes too long is killed, and so is a command.
KillCaller(c) ==
  /\ caller[c] # "off"
  /\ Fault("kill caller")
  /\ Return(c)
  /\ UNCHANGED <<stopped, workerLock, receipt, worker, ready, history>>

-----------------------------------------------------------------------------
(* stop *)

Starting == \/ \E c \in Caller : caller[c] \in {"ensure", "control", "spawn", "waiting"}
            \/ \E w \in Worker : worker[w] \in {"spawned", "locked"}

\* lifecycle.stop(), before any process is touched.
Stop(c) ==
  /\ caller[c] = "off"
  /\ Fault("stop")
  /\ stopped' = TRUE
  /\ quiet' = IF stopped THEN quiet ELSE ~Starting
  /\ Goto(c, "stop")
  /\ UNCHANGED <<startLock, workerLock, receipt, worker, ready, spawned, halted>>

\* A stop is over: halted unless memory was started meanwhile.
Stopped(c) == /\ Return(c)
              /\ halted' = stopped

StopLook(c) ==
  /\ caller[c] = "stop"
  /\ \/ Answers /\ Goto(c, "posting") /\ UNCHANGED <<startLock, spawned, halted>>
     \/ ~Answers /\ Stopped(c)
  /\ UNCHANGED <<stopped, workerLock, receipt, worker, ready, quiet, faults>>

\* The stop request is answered, or stop() raises.
Post(c) ==
  /\ caller[c] = "posting"
  /\ IF Answers
     THEN /\ worker' = [worker EXCEPT ![receipt] = "stopping"]
          /\ Goto(c, "polling")
          /\ UNCHANGED <<startLock, spawned>>
     ELSE /\ Return(c)
          /\ UNCHANGED worker
  /\ UNCHANGED <<stopped, workerLock, receipt, ready, history, faults>>

\* Defect: stop() does not wait for the worker.
PollOnce(c) ==
  /\ caller[c] = "polling"
  /\ Stopped(c)
  /\ UNCHANGED <<stopped, workerLock, receipt, worker, ready, quiet, faults>>

Poll(c) ==
  /\ caller[c] = "polling"
  /\ ~Answers
  /\ Stopped(c)
  /\ UNCHANGED <<stopped, workerLock, receipt, worker, ready, quiet, faults>>

-----------------------------------------------------------------------------
(* serve_worker *)

Become(w, place) == worker' = [worker EXCEPT ![w] = place]

\* A second worker leaves at once.
TakeLock(w) ==
  /\ worker[w] = "spawned"
  /\ IF workerLock = None THEN Become(w, "locked") /\ workerLock' = w
     ELSE Become(w, "exited") /\ UNCHANGED workerLock
  /\ UNCHANGED <<stopped, startLock, receipt, ready, caller, spawned, history, faults>>

\* The ports are bound and the receipt is written.
Serve(w) ==
  /\ worker[w] = "locked"
  /\ Become(w, "serving")
  /\ receipt' = w
  /\ UNCHANGED <<stopped, startLock, workerLock, ready, caller, spawned, history, faults>>

PortTaken(w) ==
  /\ worker[w] = "locked"
  /\ Fault("port")
  /\ Become(w, "closing")
  /\ UNCHANGED <<files, ready, caller, spawned, history>>

TunnelUp(w) ==
  /\ worker[w] = "serving"
  /\ w \notin ready
  /\ ready' = ready \cup {w}
  /\ UNCHANGED <<files, worker, caller, spawned, history, faults>>

TunnelDown(w) ==
  /\ w \in ready
  /\ Fault("tunnel")
  /\ ready' = ready \ {w}
  /\ UNCHANGED <<files, worker, caller, spawned, history>>

\* The supervisor thread died: it stops its worker.
Supervisor(w) ==
  /\ worker[w] = "serving"
  /\ Fault("supervisor")
  /\ Become(w, "stopping")
  /\ UNCHANGED <<files, ready, caller, spawned, history>>

\* Until its tunnel process has ended, a stopping worker still answers callers.
Reset(w) ==
  /\ worker[w] = "stopping"
  /\ w \in ready
  /\ ready' = ready \ {w}
  /\ UNCHANGED <<files, worker, caller, spawned, history, faults>>

Close(w) ==
  /\ worker[w] = "stopping"
  /\ w \notin ready
  /\ Become(w, "closing")
  /\ UNCHANGED <<files, ready, caller, spawned, history, faults>>

\* Defect: the lock is free before the receipt is removed, whoever wrote it.
UnlinkUnlocked(w) ==
  /\ worker[w] = "closing"
  /\ \/ /\ workerLock = w
        /\ workerLock' = None
        /\ UNCHANGED <<worker, receipt>>
     \/ /\ workerLock # w
        /\ receipt' = None
        /\ Become(w, "leaving")
        /\ UNCHANGED workerLock
  /\ UNCHANGED <<stopped, startLock, ready, caller, spawned, history, faults>>

Unlink(w) ==
  /\ worker[w] = "closing"
  /\ receipt' = IF receipt = w THEN None ELSE receipt
  /\ Become(w, "leaving")
  /\ UNCHANGED <<stopped, startLock, workerLock, ready, caller, spawned, history, faults>>

Exit(w) ==
  /\ worker[w] = "leaving"
  /\ Become(w, "exited")
  /\ workerLock' = IF workerLock = w THEN None ELSE workerLock
  /\ UNCHANGED <<stopped, startLock, receipt, ready, caller, spawned, history, faults>>

KillWorker(w) ==
  /\ worker[w] # "exited"
  /\ Fault("kill worker")
  /\ Become(w, "exited")
  /\ workerLock' = IF workerLock = w THEN None ELSE workerLock
  /\ ready' = ready \ {w}
  /\ UNCHANGED <<stopped, startLock, receipt, caller, spawned, history>>

Call(c) == \/ Prepare(c) \/ Lock(c) \/ Look(c) \/ Spawn(c) \/ Waited(c)
           \/ StopLook(c) \/ Post(c) \/ Poll(c) \/ TimeOut(c)

Command(c) == Start(c) \/ Stop(c) \/ SpawnFailed(c) \/ KillCaller(c)

Work(w) == TakeLock(w) \/ Serve(w) \/ Reset(w) \/ Close(w) \/ Unlink(w) \/ Exit(w)

Failure(w) == PortTaken(w) \/ TunnelDown(w) \/ Supervisor(w) \/ KillWorker(w)

Next == \/ \E c \in Caller : Hook(c) \/ Call(c) \/ Command(c)
        \/ \E w \in Worker : Work(w) \/ TunnelUp(w) \/ Failure(w)

Spec == Init /\ [][Next]_vars

\* Sessions keep being used, processes run, and a tunnel that is retried connects.
Fairness == /\ \A c \in Caller : WF_vars(Hook(c)) /\ WF_vars(Call(c))
            /\ \A w \in Worker : WF_vars(Work(w)) /\ WF_vars(TunnelUp(w))

FairSpec == Spec /\ Fairness

-----------------------------------------------------------------------------
(* What it promises *)

\* A serving worker can be reached: whoever wants to stop or reuse it finds the
\* receipt of this worker, whichever older workers are leaving meanwhile.
Reachable == \A w \in Worker : worker[w] = "serving" => receipt = w

\* "An explicit stop [...] stays effective": once a stop that began with no start
\* under way has returned, no worker runs or is coming up, until the next start.
\* (A stop that meets a worker still coming up returns and leaves it running.)
QuietStop == stopped /\ halted /\ quiet =>
               \A w \in Worker : worker[w] \notin {"spawned", "locked", "serving"}

\* "Client MCP and hooks can also recover a saved relay during normal use": after any
\* failures and kills, unless memory is stopped, a relay is ready again.
Recovers == ~stopped ~> (stopped \/ ready # {})

=============================================================================
