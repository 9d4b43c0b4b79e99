--------------------------- MODULE RelaySupervisor ---------------------------
(***************************************************************************)
(* Inside one relay worker (sharing/relay.py): the supervisor thread that  *)
(* starts the tunnel CLI, probes it and replaces it, the threads that read *)
(* the output of the CLI processes, and the connections forwarded to the   *)
(* port a CLI process has announced.                                       *)
(*                                                                         *)
(* A step is what runs between two waits or between two takings of the     *)
(* lock of _State; what a thread has read under the lock and uses later is *)
(* a variable of its own.  Time is left out: a time limit may pass at any  *)
(* moment.  A CLI that moves its forwarding takes another free port.       *)
(***************************************************************************)
EXTENDS Naturals, Sequences, FiniteSets

CONSTANTS
  Child,          \* bound: CLI processes that are remembered at a time
  Port,           \* forwarding ports
  Conn,           \* connections accepted at the stable local port
  None,           \* no process, no port, a probe without a result
  Other,          \* another program that listens on a port
  ProbeFailures,  \* PROBE_FAILURES
  MaxLines,       \* bound: lines a CLI has printed and nobody has read
  MaxFaults,      \* bound: failures and commands
  Faults          \* the kinds that may happen

FaultKind == {"spawn", "exit", "silent", "probe", "unknown", "stranger", "crash", "stop"}

ASSUME SupervisorAssumption ==
  /\ None \notin Child \cup Port /\ Other \notin Child \cup {None}
  /\ ProbeFailures \in Nat \ {0}
  /\ MaxLines \in Nat /\ MaxFaults \in Nat
  /\ Faults \subseteq FaultKind

VARIABLES
  mode,        \* spec["mode"]
  worker,      \* serve_worker: serving, joining the supervisor, left
  stop, child, upstream, announced, ready,       \* _State
  sockets,     \* the connections of state.sockets
  alive,       \* CLI processes that run
  listener,    \* who listens on each port
  lines,       \* what each CLI has printed and its reader has not handled
  sup,         \* where the supervisor is
  current, seen, heard, wasReady, probed, confirmed, failures,  \* its locals
  answer,      \* the result of its last probe
  grace,       \* HOST_REGISTRATION_GRACE has not passed
  conn,        \* the forwarded connections
  bad,         \* failed probes in a row of the current CLI
  source,      \* the CLI whose line set upstream or announced
  crashed,     \* the supervisor thread has died
  faults

state == <<child, upstream, announced, ready, sockets>>
cli == <<alive, listener, lines>>
locals == <<current, seen, heard, wasReady, probed, confirmed, failures, answer, grace>>
history == <<bad, source, crashed>>
vars == <<mode, worker, stop, state, cli, sup, locals, conn, history, faults>>

Idle == [at |-> "idle", child |-> None, port |-> None, peer |-> None]

TypeOK ==
  /\ mode \in {"connect", "host"}
  /\ worker \in {"serving", "joining", "left"}
  /\ stop \in BOOLEAN /\ announced \in BOOLEAN /\ ready \in BOOLEAN
  /\ child \in Child \cup {None} /\ upstream \in Port \cup {None}
  /\ sockets \subseteq Conn
  /\ alive \subseteq Child
  /\ listener \in [Port -> Child \cup {None, Other}]
  /\ lines \in [Child -> Seq(Port \cup {None})]
  /\ \A c \in Child : Len(lines[c]) <= MaxLines
  /\ sup \in {"spawn", "look", "decide", "probe", "count", "end", "close", "delay", "done"}
  /\ current \in Child \cup {None} /\ seen \in Port \cup {None} /\ probed \in Port \cup {None}
  /\ heard \in BOOLEAN /\ wasReady \in BOOLEAN /\ confirmed \in BOOLEAN /\ grace \in BOOLEAN
  /\ failures \in 0..ProbeFailures - 1 /\ bad \in 0..ProbeFailures
  /\ answer \in {"up", "down", "none"}
  /\ conn \in [Conn -> [at : {"idle", "dialing", "connected", "pumping"},
                        child : Child \cup {None}, port : Port \cup {None},
                        peer : Child \cup {None, Other}]]
  /\ source \in Child \cup {None} /\ crashed \in BOOLEAN
  /\ faults \in 0..MaxFaults

Init ==
  /\ mode \in {"connect", "host"} /\ worker = "serving" /\ stop = FALSE
  /\ child = None /\ upstream = None /\ announced = FALSE /\ ready = FALSE
  /\ sockets = {}
  /\ alive = {} /\ listener = [p \in Port |-> None] /\ lines = [c \in Child |-> <<>>]
  /\ sup = "spawn" /\ current = None /\ seen = None /\ heard = FALSE /\ wasReady = FALSE
  /\ probed = None /\ confirmed = FALSE /\ failures = 0 /\ answer = "none" /\ grace = TRUE
  /\ conn = [f \in Conn |-> Idle]
  /\ bad = 0 /\ source = None /\ crashed = FALSE /\ faults = 0

Fault(kind) == /\ kind \in Faults
               /\ faults < MaxFaults
               /\ faults' = faults + 1

Least(a, b) == IF a < b THEN a ELSE b

\* reset(): nothing is ready, and the connections of state.sockets are shut down.
Reset == /\ ready' = FALSE /\ upstream' = None /\ announced' = FALSE
         /\ source' = None
         /\ conn' = [f \in Conn |-> IF f \in sockets THEN Idle ELSE conn[f]]
         /\ sockets' = {}

-----------------------------------------------------------------------------
(* The CLI processes and their readers *)

Owned(p, c) == c # None /\ p # None /\ listener[p] = c

Ends(c) == /\ alive' = alive \ {c}
           /\ listener' = [p \in Port |-> IF listener[p] = c THEN None ELSE listener[p]]

\* A connect CLI forwards from a port, or repeats the line of the port it has; a
\* host CLI says that it accepts connections.
Announce(c) ==
  /\ c \in alive
  /\ Len(lines[c]) < MaxLines
  /\ \/ /\ mode = "connect"
        /\ \E p \in Port :
             /\ listener[p] \in {None, c}
             /\ listener' = [q \in Port |-> IF q = p THEN c
                                            ELSE IF listener[q] = c THEN None ELSE listener[q]]
             /\ lines' = [lines EXCEPT ![c] = Append(@, p)]
     \/ /\ mode = "host"
        /\ lines' = [lines EXCEPT ![c] = Append(@, None)]
        /\ UNCHANGED listener
  /\ UNCHANGED <<mode, worker, stop, state, alive, sup, locals, conn, history, faults>>

CliExits(c) ==
  /\ c \in alive
  /\ Fault("exit")
  /\ Ends(c)
  /\ UNCHANGED <<mode, worker, stop, state, lines, sup, locals, conn, history>>

\* Another program takes a port nobody listens on; some port stays free.
Stranger(p) ==
  /\ listener[p] = None
  /\ \E q \in Port \ {p} : listener[q] # Other
  /\ Fault("stranger")
  /\ listener' = [listener EXCEPT ![p] = Other]
  /\ UNCHANGED <<mode, worker, stop, state, alive, lines, sup, locals, conn, history>>

\* Defect: the lines of a replaced CLI count.
ActiveAny(c) == ~stop

\* A line counts only while its process is the current one and runs.
Active(c) == ~stop /\ child = c /\ c \in alive

\* line()
Line(c) ==
  /\ lines[c] # <<>>
  /\ LET p == Head(lines[c]) IN
     IF Active(c)
     THEN /\ source' = c
          /\ IF p = None THEN announced' = TRUE /\ UNCHANGED <<upstream, ready>>
             ELSE upstream' = p /\ ready' = TRUE /\ UNCHANGED announced
     ELSE UNCHANGED <<source, announced, upstream, ready>>
  /\ lines' = [lines EXCEPT ![c] = Tail(@)]
  /\ UNCHANGED <<mode, worker, stop, child, sockets, alive, listener, sup, locals, conn,
                 bad, crashed, faults>>

-----------------------------------------------------------------------------
(* _supervise_child *)

Free(c) == /\ c \notin alive /\ lines[c] = <<>>
           /\ c # current
           /\ \A f \in Conn : conn[f].child # c

\* The variables of the loop start anew for every CLI.
Forget == /\ seen' = None /\ heard' = FALSE /\ wasReady' = FALSE /\ probed' = None
          /\ confirmed' = FALSE /\ failures' = 0 /\ answer' = "none" /\ grace' = TRUE
          /\ bad' = 0

\* A new CLI.
Spawn ==
  /\ sup = "spawn" /\ ~stop
  /\ Reset
  /\ \E c \in Child :
       /\ Free(c)
       /\ alive' = alive \cup {c}
       /\ child' = c /\ current' = c
  /\ Forget
  /\ sup' = "look"
  /\ UNCHANGED <<mode, worker, stop, listener, lines, crashed, faults>>

SpawnFails ==
  /\ sup = "spawn" /\ ~stop
  /\ Fault("spawn")
  /\ Reset
  /\ sup' = "delay"
  /\ UNCHANGED <<mode, worker, stop, child, cli, locals, bad, crashed>>

\* The loop is left, and the first reset() after it.
Leave == /\ sup' = "end"
         /\ Reset
         /\ Forget
         /\ UNCHANGED current

\* The head of the loop and what it reads under the lock.
Look ==
  /\ sup = "look"
  /\ \/ /\ current \notin alive \/ stop
        /\ Leave
     \/ /\ current \in alive /\ ~stop
        /\ seen' = upstream /\ heard' = announced
        /\ wasReady' = (wasReady \/ upstream # None \/ announced)
        /\ sup' = "decide"
        /\ UNCHANGED <<upstream, announced, ready, sockets, conn, source,
                       current, probed, confirmed, failures, answer, grace, bad>>
  /\ UNCHANGED <<mode, worker, stop, child, cli, crashed, faults>>

\* Defect: the silence is not checked again under the lock.
SilentUnchecked ==
  /\ sup = "decide" /\ ~wasReady
  /\ Fault("silent")
  /\ child' = None /\ Leave
  /\ UNCHANGED <<mode, worker, stop, cli, crashed>>

\* READY_TIMEOUT passes without a line.
Silent ==
  /\ sup = "decide" /\ ~wasReady
  /\ upstream = None /\ ~announced
  /\ Fault("silent")
  /\ child' = None /\ Leave
  /\ UNCHANGED <<mode, worker, stop, cli, crashed>>

\* The first check of _probe_child and _probe_host.
Probes == ~stop /\ child = current /\ current \in alive /\ upstream = seen /\ announced = heard

\* Nothing to probe; or a probe, for which a new port starts a new count.
Decide ==
  /\ sup = "decide"
  /\ IF seen = None /\ ~heard
     THEN sup' = "look" /\ UNCHANGED <<failures, probed, answer, bad>>
     ELSE /\ sup' = IF Probes THEN "probe" ELSE "count"
          /\ answer' = "none"
          /\ probed' = seen
          /\ failures' = IF seen # probed THEN 0 ELSE failures
          /\ bad' = IF seen # probed THEN 0 ELSE bad
  /\ UNCHANGED <<mode, worker, stop, state, cli, current, seen, heard, wasReady, confirmed, grace,
                 conn, source, crashed, faults>>

\* What the network says: up; down, because the port is not the CLI's or does not
\* answer; or, of a host, unknown.
Outcome(result) ==
  \/ result = "up" /\ (mode = "connect" => Owned(seen, current)) /\ UNCHANGED faults
  \/ result = "down" /\ mode = "connect" /\ ~Owned(seen, current) /\ UNCHANGED faults
  \/ result = "down" /\ Fault("probe")
  \/ result = "none" /\ mode = "host" /\ Fault("unknown")

\* The second check: the result still is about the current CLI and port.
Fresh == ~stop /\ child = current /\ current \in alive /\ upstream = seen /\ announced = heard

Probe ==
  /\ sup = "probe"
  /\ \E result \in {"up", "down", "none"} :
       /\ Outcome(result)
       /\ confirmed' = (confirmed \/ (mode = "host" /\ result = "up" /\ Fresh))
       /\ IF Fresh THEN answer' = result /\ ready' = (result = "up")
          ELSE answer' = "none" /\ UNCHANGED ready
       /\ bad' = CASE result = "up" -> 0
                   [] result = "down" -> Least(bad + 1, ProbeFailures)
                   [] OTHER -> bad
  /\ sup' = "count"
  /\ UNCHANGED <<mode, worker, stop, child, upstream, announced, sockets, cli, current, seen, heard,
                 wasReady, probed, failures, grace, conn, source, crashed>>

\* A host that was never confirmed is not counted against while the cloud may lag.
Excused == \/ stop \/ child # current \/ upstream # seen
           \/ mode = "host" /\ ~confirmed /\ grace

Enough(n) == n >= ProbeFailures

\* A line read since the probe clears the count as well.
Counted == IF Excused \/ answer # "down" \/ (mode = "connect" /\ ready) THEN 0 ELSE failures + 1

\* Enough failures in a row: this CLI is given up, under the lock.
Count ==
  /\ sup = "count"
  /\ IF Enough(Counted)
     THEN child' = None /\ Leave
     ELSE /\ sup' = "look" /\ failures' = Counted /\ answer' = "none"
          /\ UNCHANGED <<state, conn, source, current, seen, heard, wasReady, probed, confirmed,
                         grace, bad>>
  /\ UNCHANGED <<mode, worker, stop, cli, crashed, faults>>

GraceOver ==
  /\ grace /\ announced
  /\ grace' = FALSE
  /\ UNCHANGED <<mode, worker, stop, state, cli, sup, current, seen, heard, wasReady, probed, confirmed,
                 failures, answer, conn, history, faults>>

\* terminate(), then kill()
Kill ==
  /\ sup = "end"
  /\ Ends(current)
  /\ sup' = "close"
  /\ UNCHANGED <<mode, worker, stop, state, lines, locals, conn, history, faults>>

\* The reader has two seconds for the last lines; one it has fetched may still be
\* handled later.
CloseChild ==
  /\ sup = "close"
  /\ Reset
  /\ child' = None
  /\ \E n \in 0..Least(1, Len(lines[current])) :
       lines' = [lines EXCEPT ![current] = SubSeq(@, 1, n)]
  /\ sup' = "delay"
  /\ UNCHANGED <<mode, worker, stop, alive, listener, locals, bad, crashed, faults>>

\* Defect: a CLI that could not be started is not tried again.
DelayOnce ==
  /\ sup = "delay" \/ (sup = "spawn" /\ stop)
  /\ sup' = IF stop \/ current = None THEN "done" ELSE "spawn"
  /\ UNCHANGED <<mode, worker, stop, state, cli, locals, conn, history, faults>>

Delay ==
  /\ sup = "delay" \/ (sup = "spawn" /\ stop)
  /\ sup' = IF stop THEN "done" ELSE "spawn"
  /\ UNCHANGED <<mode, worker, stop, state, cli, locals, conn, history, faults>>

\* _run_child: an error nobody foresaw stops the worker.
Crash ==
  /\ sup # "done"
  /\ Fault("crash")
  /\ sup' = "done" /\ stop' = TRUE /\ crashed' = TRUE
  /\ UNCHANGED <<mode, worker, state, cli, locals, conn, bad, source>>

-----------------------------------------------------------------------------
(* Forwarded connections, and the end of the worker *)

Usable == child \in alive /\ Owned(upstream, child)

\* handle(): the port belongs to the current CLI.
Accept(f) ==
  /\ mode = "connect" /\ worker = "serving"
  /\ conn[f].at = "idle"
  /\ Usable
  /\ conn' = [conn EXCEPT ![f] = [at |-> "dialing", child |-> child, port |-> upstream, peer |-> None]]
  /\ UNCHANGED <<mode, worker, stop, state, cli, sup, locals, history, faults>>

\* create_connection reaches whoever listens by now.
Dial(f) ==
  /\ conn[f].at = "dialing"
  /\ LET peer == listener[conn[f].port] IN
     conn' = IF peer = None THEN [conn EXCEPT ![f] = Idle]
             ELSE [conn EXCEPT ![f].at = "connected", ![f].peer = peer]
  /\ UNCHANGED <<mode, worker, stop, state, cli, sup, locals, history, faults>>

\* Defect: the port is not looked up again once the connection is made.
RegisterUnchecked(f) ==
  /\ conn[f].at = "connected"
  /\ IF child = conn[f].child
     THEN /\ conn' = [conn EXCEPT ![f].at = "pumping"]
          /\ sockets' = sockets \cup {f}
     ELSE conn' = [conn EXCEPT ![f] = Idle] /\ UNCHANGED sockets
  /\ UNCHANGED <<mode, worker, stop, child, upstream, announced, ready, cli, sup, locals, history, faults>>

\* Registered only if CLI and port are still the ones that were looked up.
Register(f) ==
  /\ conn[f].at = "connected"
  /\ IF upstream = conn[f].port /\ child = conn[f].child /\ Usable
     THEN /\ conn' = [conn EXCEPT ![f].at = "pumping"]
          /\ sockets' = sockets \cup {f}
     ELSE conn' = [conn EXCEPT ![f] = Idle] /\ UNCHANGED sockets
  /\ UNCHANGED <<mode, worker, stop, child, upstream, announced, ready, cli, sup, locals, history, faults>>

\* Either side closes, or stop is seen.
HangUp(f) ==
  /\ conn[f].at = "pumping"
  /\ conn' = [conn EXCEPT ![f] = Idle]
  /\ sockets' = sockets \ {f}
  /\ UNCHANGED <<mode, worker, stop, child, upstream, announced, ready, cli, sup, locals, history, faults>>

\* POST /stop
Stop ==
  /\ ~stop /\ worker = "serving"
  /\ Fault("stop")
  /\ stop' = TRUE
  /\ UNCHANGED <<mode, worker, state, cli, sup, locals, conn, history>>

\* serve_worker wakes up, resets, and waits for the supervisor.
WakeUp ==
  /\ worker = "serving" /\ stop
  /\ worker' = "joining"
  /\ Reset
  /\ UNCHANGED <<mode, stop, child, cli, sup, locals, bad, crashed, faults>>

\* Defect: the worker does not wait for the supervisor.
ExitUnjoined ==
  /\ worker = "joining"
  /\ worker' = "left" /\ sup' = "done"
  /\ conn' = [f \in Conn |-> Idle] /\ sockets' = {}
  /\ UNCHANGED <<mode, stop, child, upstream, announced, ready, cli, locals, history, faults>>

\* The process ends, and with it its threads.
Exit ==
  /\ worker = "joining" /\ sup = "done"
  /\ worker' = "left"
  /\ conn' = [f \in Conn |-> Idle] /\ sockets' = {}
  /\ UNCHANGED <<mode, stop, child, upstream, announced, ready, cli, sup, locals, history, faults>>

Supervise == \/ Spawn \/ Look \/ Decide \/ Probe \/ Count \/ Kill \/ CloseChild \/ Delay

Serve(f) == Accept(f) \/ Dial(f) \/ Register(f) \/ HangUp(f)

Next == \/ Supervise \/ SpawnFails \/ Silent \/ GraceOver \/ Crash
        \/ \E c \in Child : Announce(c) \/ Line(c) \/ CliExits(c)
        \/ \E p \in Port : Stranger(p)
        \/ \E f \in Conn : Serve(f)
        \/ Stop \/ WakeUp \/ Exit

Spec == Init /\ [][Next]_vars

\* The threads run, a CLI announces itself, and connections end.
Fairness == /\ WF_vars(Supervise) /\ WF_vars(WakeUp) /\ WF_vars(Exit) /\ WF_vars(GraceOver)
            /\ \A c \in Child : /\ WF_vars(Line(c))
                                /\ WF_vars(upstream = None /\ ~announced /\ Announce(c))
            /\ \A f \in Conn : WF_vars(Dial(f) \/ Register(f) \/ HangUp(f))

FairSpec == Spec /\ Fairness

-----------------------------------------------------------------------------
(* What it promises *)

\* What the worker reports comes from the CLI it supervises: no line and no probe of
\* a CLI that was given up makes it ready, however late its reader handles it.
ReadyIsCurrent ==
  /\ upstream # None \/ announced => source = child /\ child = current /\ child # None
  /\ ready => upstream # None \/ announced

\* A connection carries data only to the current CLI process: not to one that was
\* replaced, nor to a program that has taken over its port.
ForwardsToCurrent ==
  \A f \in Conn : conn[f].at = "pumping" =>
    conn[f].peer = conn[f].child /\ conn[f].child = current /\ f \in sockets

\* Unless its supervisor has died, a worker that has left leaves no CLI running.
LeavesNothing == worker = "left" /\ ~crashed => alive = {}

\* A running CLI that has announced itself is given up only after enough failed
\* probes in a row, all of one port; a host that was never seen online only after
\* the cloud has had its time.
Patient == [][(child \in alive /\ child' = None /\ source # None)
                => bad >= ProbeFailures /\ (mode = "host" => confirmed \/ ~grace)]_vars

\* A tunnel that is lost comes back until the worker is stopped.
ComesBack == ~stop ~> (stop \/ ready)

=============================================================================
