------------------------------- MODULE Services -------------------------------
(***************************************************************************)
(* The commands that start and stop the services of a server (services.py, *)
(* setup/startup.py, sharing/remote.py), run by several processes at once: *)
(* start, stop, the login task, share, unshare and connectors.  They start *)
(* and stop PostgreSQL, the API (platform/startup.py), the dashboard and   *)
(* the connector host (connectors/host.py), which is itself modelled: its  *)
(* port, its receipt service.json, and how it ends.                        *)
(*                                                                         *)
(* Connectors are switched on, PostgreSQL is the managed one.  What relays *)
(* do is RelayWorker: here their steps only succeed or fail.  The launcher *)
(* of the API, and the process it has started, die together when a start   *)
(* gives up, as taskkill /T does it.                                       *)
(***************************************************************************)
EXTENDS Naturals, Sequences

CONSTANTS
  Proc,       \* processes that run commands
  Host,       \* identities of connector hosts
  None,
  Asked,      \* the commands in use
  MaxRuns,    \* bound: commands given
  MaxFaults,  \* bound: failures, deaths, kills and reboots
  Faults      \* the kinds that may happen

ASSUME ServicesAssumption ==
  /\ None \notin Proc \cup Host
  /\ MaxRuns \in Nat /\ MaxFaults \in Nat
  /\ Asked \subseteq {"start", "stop", "login", "share", "unshare", "connectors"}
  /\ Faults \subseteq {"fail", "die", "kill", "reboot"}

VARIABLES
  todo,     \* the steps a process still has to take
  job,      \* its command and what it remembers
  lock,     \* the start locks of the API, the dashboard and the connectors
  stopped,  \* service-state.json
  shared,   \* the profile lets the API listen to other computers
  key,      \* the key and the address in the profile, by the number of their version
  db, api, ui,
  phase,    \* of each connector host
  asked,    \* hosts told to shut down
  hostKey,  \* the key each host has loaded
  receipt,  \* the host service.json names
  exposed,  \* hosts that serve and wrote their receipt while another was about to remove its own
  history,  \* what the properties have to know of earlier commands
  runs, faults

hosts == <<phase, asked, hostKey, receipt, exposed>>
services == <<db, api, ui>>
state == <<stopped, shared, key>>
vars == <<todo, job, lock, state, services, hosts, history, runs, faults>>

\* start_local, and stop_profile_services with the relays before and the database after it.
Up == <<"db", "runtime", "api", "api-up", "ui", "ui-up", "host", "host-up">>
Profile == <<"host-off", "host-wait", "ui-off", "api-off">>
Down == <<"relays">> \o Profile \o <<"db-off">>

Start == <<"remember">> \o Up \o <<"unstop", "resume">>
Stop == <<"flag">> \o Down
Share == <<"share">> \o Up \o <<"resume", "unstop">>
Unshare == <<"relays", "look">> \o Profile \o <<"write", "again">>

Plan(c) == CASE c = "start" -> Start
             [] c = "stop" -> Stop
             [] c = "login" -> <<"ask">> \o Up \o <<"finally">>
             [] c = "share" -> Share
             [] c = "unshare" -> Unshare
             [] c = "connectors" -> <<"health", "host", "host-up">>

Step == {"remember", "unstop", "resume", "flag", "restore", "ask", "finally", "recheck", "relays",
         "share", "look", "write", "again", "db-off", "health"}
        \cup {Up[i] : i \in DOMAIN Up} \cup {Profile[i] : i \in DOMAIN Profile}

\* was: the installation was stopped when start began.  raised: start_local has failed.
\* errors: a service could not be stopped.  running: the API ran when unshare looked.
\* watch: the host whose receipt is waited for.  mine: the host this process has spawned.
NoJob == [cmd |-> "none", was |-> FALSE, raised |-> FALSE, errors |-> FALSE, running |-> FALSE,
          watch |-> None, mine |-> None]

Server == [st : {"off", "coming", "on"}, key : Nat]
Listening == {"bound", "serving"}

\* history.undone: a command has failed to stop something or was killed, a start was not
\* alone, or a stopped installation was shared, since the last stop that was alone.  mixed: a
\* share or an unshare was not alone, or a kill.
TypeOK ==
  /\ todo \in [Proc -> Seq(Step)]
  /\ job \in [Proc -> [cmd : Asked \cup {"none", "start"}, was : BOOLEAN, raised : BOOLEAN, errors : BOOLEAN,
                       running : BOOLEAN, watch : Host \cup {None}, mine : Host \cup {None}]]
  /\ lock \in [{"api", "ui", "host"} -> Proc \cup {None}]
  /\ stopped \in BOOLEAN /\ shared \in BOOLEAN /\ key \in Nat
  /\ db \in BOOLEAN /\ api \in Server /\ ui \in Server
  /\ phase \in [Host -> {"absent", "spawned", "bound", "serving", "closing", "removing"}]
  /\ asked \subseteq Host /\ hostKey \in [Host -> Nat] /\ receipt \in Host \cup {None} /\ exposed \subseteq Host
  /\ history \in [undone : BOOLEAN, mixed : BOOLEAN]
  /\ runs \in 0..MaxRuns /\ faults \in 0..MaxFaults

Init ==
  /\ todo = [p \in Proc |-> <<>>] /\ job = [p \in Proc |-> NoJob]
  /\ lock = [n \in {"api", "ui", "host"} |-> None]
  /\ stopped = FALSE /\ shared = TRUE /\ key = 0
  /\ db = FALSE
  /\ api = [st |-> "off", key |-> 0] /\ ui = [st |-> "off", key |-> 0]
  /\ phase = [h \in Host |-> "absent"] /\ asked = {} /\ hostKey = [h \in Host |-> 0]
  /\ receipt = None /\ exposed = {}
  /\ history = [undone |-> FALSE, mixed |-> FALSE]
  /\ runs = 0 /\ faults = 0

Busy(p) == todo[p] # <<>>
Quiet == \A p \in Proc : ~Busy(p)
Coming == \/ "coming" \in {api.st, ui.st}
          \/ \E h \in Host : phase[h] \in {"spawned", "bound"}

Fault(kind) == kind \in Faults /\ faults < MaxFaults /\ faults' = faults + 1

-----------------------------------------------------------------------------
(* Commands.                                                               *)

\* A process is given a command.
Begin(p, c) ==
  LET others == {job[q].cmd : q \in {q \in Proc : Busy(q)}}
      clean == others = {} /\ ~Coming
      meets(cs) == others # {} /\ ({c} \cup others) \cap cs # {} IN
  /\ ~Busy(p) /\ runs < MaxRuns
  /\ runs' = runs + 1
  /\ todo' = [todo EXCEPT ![p] = Plan(c)]
  /\ job' = [job EXCEPT ![p] = [NoJob EXCEPT !.cmd = c]]
  /\ history' = [undone |-> IF c = "stop" /\ clean THEN FALSE
                            ELSE \/ history.undone \/ (c = "share" /\ stopped)
                                 \/ meets({"start", "share", "unshare", "connectors"}),
                 mixed |-> history.mixed \/ meets({"share", "unshare"})]
  /\ UNCHANGED <<lock, state, services, hosts, faults>>

At(p, s) == Busy(p) /\ Head(todo[p]) = s
Next1(p) == todo' = [todo EXCEPT ![p] = Tail(@)]
Skip2(p) == todo' = [todo EXCEPT ![p] = Tail(Tail(@))]
Turn(p, steps) == todo' = [todo EXCEPT ![p] = steps]

\* An exception: startup() stops what was stopped before, the login task looks again, and
\* the other commands end.
Handler(j) == CASE j.cmd = "start" /\ j.was -> Stop \o <<"restore">>
                [] j.cmd = "login" -> <<"finally">>
                [] OTHER -> <<>>

Raise(p) == /\ Turn(p, Handler(job[p]))
            /\ job' = [job EXCEPT ![p].raised = TRUE]

\* A step that does what it should, or raises.
Plain(p) == Next1(p) /\ UNCHANGED <<job, faults>>
Fails(p) == Fault("fail") /\ Raise(p)

\* An error while stopping is kept, and the next service is stopped.
Keep(p) == /\ Next1(p)
           /\ job' = [job EXCEPT ![p].errors = TRUE]
           /\ history' = [history EXCEPT !.undone = TRUE]

Free(n) == lock' = [lock EXCEPT ![n] = None]

-----------------------------------------------------------------------------
(* What the commands do themselves.                                        *)

\* start() remembers whether the installation is stopped.
Remember(p) ==
  /\ At(p, "remember") /\ Next1(p)
  /\ job' = [job EXCEPT ![p].was = stopped]
  /\ UNCHANGED <<lock, state, services, hosts, history, runs, faults>>

\* lifecycle.start(), and lifecycle.stop() of a stop or of the clean-up of a start.
Unstop(p) ==
  /\ At(p, "unstop") /\ Plain(p)
  /\ stopped' = FALSE
  /\ UNCHANGED <<lock, shared, key, services, hosts, history, runs>>

Flag(p) ==
  /\ At(p, "flag") /\ Plain(p)
  /\ stopped' = TRUE
  /\ UNCHANGED <<lock, shared, key, services, hosts, history, runs>>

\* The clean-up writes the earlier state back, unless it failed.
Restore(p) ==
  /\ At(p, "restore") /\ Plain(p)
  /\ stopped' = (stopped \/ ~job[p].errors)
  /\ UNCHANGED <<lock, shared, key, services, hosts, history, runs>>

\* Relays are resumed, or one is created; they may need a sign-in.
Resume(p) ==
  /\ At(p, "resume")
  /\ Plain(p) \/ Fails(p)
  /\ UNCHANGED <<lock, state, services, hosts, history, runs>>

\* The login task starts nothing that the user has stopped ...
Ask(p) ==
  /\ At(p, "ask")
  /\ IF stopped THEN Turn(p, <<>>) ELSE Next1(p)
  /\ UNCHANGED <<job, lock, state, services, hosts, history, runs, faults>>

\* Defect: the login task trusts what it read at the beginning.
FinallyTrusting(p) ==
  /\ At(p, "finally")
  /\ Turn(p, <<"recheck">>)
  /\ UNCHANGED <<job, lock, state, services, hosts, history, runs, faults>>

\* ... looks again when it has started everything or failed to ...
Finally(p) ==
  /\ At(p, "finally")
  /\ Turn(p, (IF stopped THEN Down ELSE <<>>) \o <<"recheck">>)
  /\ UNCHANGED <<job, lock, state, services, hosts, history, runs, faults>>

\* ... and resumes the relays.
Recheck(p) ==
  /\ At(p, "recheck")
  /\ Turn(p, IF job[p].raised \/ job[p].errors \/ stopped THEN <<>> ELSE <<"resume">>)
  /\ UNCHANGED <<job, lock, state, services, hosts, history, runs, faults>>

\* share opens an API that listens to this computer alone, and stops everything for it.
OpenApi(p) ==
  /\ At(p, "share")
  /\ IF shared THEN Next1(p)
     ELSE Turn(p, <<"relays">> \o Profile \o <<"write">> \o Tail(todo[p]))
  /\ UNCHANGED <<job, lock, state, services, hosts, history, runs, faults>>

\* unshare keeps an error of the relays aside and notes whether the API runs.
Look(p) ==
  /\ At(p, "look") /\ Next1(p)
  /\ job' = [job EXCEPT ![p].errors = FALSE, ![p].running = (api.st = "on")]
  /\ UNCHANGED <<lock, state, services, hosts, history, runs, faults>>

\* Defect: the new settings are written whatever could not be stopped.
WriteAnyway(p) ==
  /\ At(p, "write") /\ Next1(p) /\ key' = key + 1
  /\ shared' = (job[p].cmd = "share")
  /\ UNCHANGED <<job, lock, stopped, services, hosts, history, runs, faults>>

\* The new key or address is written once everything that knows the old one is stopped.
Write(p) ==
  /\ At(p, "write")
  /\ IF job[p].errors THEN Turn(p, <<>>) /\ UNCHANGED <<shared, key>>
     ELSE Next1(p) /\ key' = key + 1 /\ shared' = (job[p].cmd = "share")
  /\ UNCHANGED <<job, lock, stopped, services, hosts, history, runs, faults>>

\* The services come back if they ran and the user has not stopped them.
Again(p) ==
  /\ At(p, "again")
  /\ Turn(p, IF job[p].running /\ ~stopped THEN Up ELSE <<>>)
  /\ UNCHANGED <<job, lock, state, services, hosts, history, runs, faults>>

\* connectors starts everything if the API does not answer.
Health(p) ==
  /\ At(p, "health")
  /\ IF api.st = "on" THEN Next1(p) /\ UNCHANGED job
     ELSE /\ Turn(p, Start \o <<"host", "host-up">>)
          /\ job' = [job EXCEPT ![p].cmd = "start"]
  /\ UNCHANGED <<lock, state, services, hosts, history, runs, faults>>

-----------------------------------------------------------------------------
(* start_local.                                                            *)

\* PostgreSQL is started and checked.
StartDb(p) ==
  /\ At(p, "db")
  /\ \/ Plain(p) /\ db' = TRUE
     \/ Fails(p) /\ db' \in {TRUE, db}
  /\ UNCHANGED <<lock, state, api, ui, hosts, history, runs>>

\* Copilot and the inference runtime are checked.
CheckRuntime(p) ==
  /\ At(p, "runtime")
  /\ Plain(p) \/ Fails(p)
  /\ UNCHANGED <<lock, state, services, hosts, history, runs>>

\* The launcher finds the API running, or starts one with the key of the profile.  Another
\* start may hold the lock too long.
LaunchApi(p) ==
  /\ At(p, "api")
  /\ \/ /\ lock["api"] = None /\ Plain(p)
        /\ lock' = [lock EXCEPT !["api"] = p]
        /\ api' = IF api.st = "off" THEN [st |-> "coming", key |-> key] ELSE api
     \/ /\ lock["api"] # None /\ Fails(p)
        /\ UNCHANGED <<lock, api>>
  /\ UNCHANGED <<state, db, ui, hosts, history, runs>>

\* stop_launcher: the launcher, and the API it was starting.
StopLauncher == api' = [api EXCEPT !.st = "off"]

\* It answers; it has died; or the time is up.
AwaitApi(p) ==
  /\ At(p, "api-up")
  /\ Free("api")
  /\ \/ api.st = "on" /\ Plain(p) /\ UNCHANGED api
     \/ api.st = "off" /\ Raise(p) /\ UNCHANGED <<api, faults>>
     \/ api.st = "coming" /\ Fails(p) /\ StopLauncher
  /\ UNCHANGED <<state, db, ui, hosts, history, runs>>

\* The dashboard: one that runs is kept, one that is still coming holds the port.
LaunchUi(p) ==
  /\ At(p, "ui")
  /\ lock["ui"] = None
  /\ \/ /\ ui.st # "coming" /\ Plain(p)
        /\ lock' = [lock EXCEPT !["ui"] = p]
        /\ ui' = IF ui.st = "off" THEN [st |-> "coming", key |-> key] ELSE ui
     \/ /\ ui.st = "coming" /\ Raise(p)
        /\ UNCHANGED <<lock, ui, faults>>
  /\ UNCHANGED <<state, db, api, hosts, history, runs>>

AwaitUi(p) ==
  /\ At(p, "ui-up")
  /\ Free("ui")
  /\ \/ ui.st = "on" /\ Plain(p) /\ UNCHANGED ui
     \/ ui.st = "off" /\ Raise(p) /\ UNCHANGED <<ui, faults>>
     \/ ui.st = "coming" /\ Fails(p) /\ ui' = [ui EXCEPT !.st = "off"]
  /\ UNCHANGED <<state, db, api, hosts, history, runs>>

\* is_running: the receipt names a host that answers.
Answers(h) == h # None /\ receipt = h /\ phase[h] = "serving"
Served == \E h \in Host : Answers(h)
PortTaken == \E h \in Host : phase[h] \in Listening

\* A host process ends, with what it held.
Ended(h) == /\ phase' = [phase EXCEPT ![h] = "absent"]
            /\ asked' = asked \ {h} /\ exposed' = exposed \ {h}
            /\ hostKey' = [hostKey EXCEPT ![h] = 0]

\* ensure_running: nothing to do; the port is taken by something else; or a host is spawned.
\* An error of the connectors is only printed.
LaunchHost(p) ==
  /\ At(p, "host")
  /\ lock["host"] = None
  /\ \/ Served /\ Skip2(p) /\ UNCHANGED <<job, lock, phase>>
     \/ ~Served /\ PortTaken /\ Skip2(p) /\ UNCHANGED <<job, lock, phase>>
     \/ /\ ~Served /\ ~PortTaken /\ Next1(p)
        /\ lock' = [lock EXCEPT !["host"] = p]
        /\ \E h \in Host :
             /\ phase[h] = "absent" /\ receipt # h
             /\ \A q \in Proc : h \notin {job[q].watch, job[q].mine}
             /\ phase' = [phase EXCEPT ![h] = "spawned"]
             /\ job' = [job EXCEPT ![p].mine = h]
  /\ UNCHANGED <<state, services, asked, hostKey, receipt, exposed, history, runs, faults>>

\* The page answers; the host has ended; or 30 seconds are over and it is terminated, as is
\* one that serves without its receipt, which is never found.
AwaitHost(p) ==
  LET mine == job[p].mine IN
  /\ At(p, "host-up")
  /\ Next1(p) /\ Free("host")
  /\ job' = [job EXCEPT ![p].mine = None]
  /\ \/ (Served \/ phase[mine] = "absent") /\ UNCHANGED <<phase, asked, exposed, hostKey, faults>>
     \/ /\ ~Served /\ phase[mine] # "absent"
        /\ IF phase[mine] = "serving" THEN UNCHANGED faults ELSE Fault("fail")
        /\ Ended(mine)
  /\ UNCHANGED <<state, services, receipt, history, runs>>

-----------------------------------------------------------------------------
(* stop_profile_services.                                                  *)

StopRelays(p) ==
  /\ At(p, "relays")
  /\ \/ Plain(p) /\ UNCHANGED history
     \/ Fault("fail") /\ Keep(p)
  /\ UNCHANGED <<lock, state, services, hosts, runs>>

\* host.stop: the host the receipt names is asked to end ...
AskHost(p) ==
  /\ At(p, "host-off")
  /\ IF receipt = None THEN Skip2(p) /\ UNCHANGED <<job, asked>>
     ELSE /\ Next1(p)
          /\ job' = [job EXCEPT ![p].watch = receipt]
          /\ asked' = IF Answers(receipt) THEN asked \cup {receipt} ELSE asked
  /\ UNCHANGED <<lock, state, services, phase, hostKey, receipt, exposed, history, runs, faults>>

\* ... and its receipt has to go within 60 seconds.  That of a host that died never does.
HostGone(p) ==
  /\ At(p, "host-wait")
  /\ receipt # job[p].watch
  /\ Next1(p)
  /\ job' = [job EXCEPT ![p].watch = None]
  /\ UNCHANGED <<lock, state, services, hosts, history, runs, faults>>

\* Defect: stop waits for the receipt without a deadline.
HostLateNever(p) ==
  /\ At(p, "host-wait") /\ FALSE
  /\ UNCHANGED vars

HostLate(p) ==
  /\ At(p, "host-wait")
  /\ receipt = job[p].watch
  /\ IF phase[receipt] = "absent" THEN UNCHANGED faults ELSE Fault("fail")
  /\ Next1(p)
  /\ job' = [job EXCEPT ![p].errors = TRUE, ![p].watch = None]
  /\ history' = [history EXCEPT !.undone = TRUE]
  /\ UNCHANGED <<lock, state, services, hosts, runs>>

\* The official stop commands find a service by its port: one that is still coming is missed.
StopUi(p) ==
  /\ At(p, "ui-off")
  /\ \/ /\ Plain(p) /\ ui' = [ui EXCEPT !.st = IF @ = "on" THEN "off" ELSE @]
        /\ UNCHANGED history
     \/ ui.st = "on" /\ Fault("fail") /\ Keep(p) /\ UNCHANGED ui
  /\ UNCHANGED <<lock, state, db, api, hosts, runs>>

StopApi(p) ==
  /\ At(p, "api-off")
  /\ \/ /\ Plain(p) /\ api' = [api EXCEPT !.st = IF @ = "on" THEN "off" ELSE @]
        /\ UNCHANGED history
     \/ api.st = "on" /\ Fault("fail") /\ Keep(p) /\ UNCHANGED api
  /\ UNCHANGED <<lock, state, db, ui, hosts, runs>>

StopDb(p) ==
  /\ At(p, "db-off")
  /\ \/ Plain(p) /\ db' = FALSE /\ UNCHANGED history
     \/ db /\ Fault("fail") /\ Keep(p) /\ UNCHANGED db
  /\ UNCHANGED <<lock, state, api, ui, hosts, runs>>

-----------------------------------------------------------------------------
(* The services themselves.                                                *)

ApiUp == /\ api.st = "coming" /\ api' = [api EXCEPT !.st = "on"]
         /\ UNCHANGED <<todo, job, lock, state, db, ui, hosts, history, runs, faults>>

UiUp == /\ ui.st = "coming" /\ ui' = [ui EXCEPT !.st = "on"]
        /\ UNCHANGED <<todo, job, lock, state, db, api, hosts, history, runs, faults>>

\* A host loads the key and takes the port, or ends if somebody has it.
Bind(h) ==
  /\ phase[h] = "spawned"
  /\ IF PortTaken THEN Ended(h)
     ELSE /\ phase' = [phase EXCEPT ![h] = "bound"]
          /\ hostKey' = [hostKey EXCEPT ![h] = key]
          /\ UNCHANGED <<asked, exposed>>
  /\ UNCHANGED <<todo, job, lock, state, services, receipt, history, runs, faults>>

\* It writes its receipt, over whatever is there, and boots the adapters.
Serve(h) ==
  /\ phase[h] = "bound"
  /\ phase' = [phase EXCEPT ![h] = "serving"]
  /\ receipt' = h
  /\ exposed' = IF \E g \in Host : phase[g] = "removing" THEN exposed \cup {h} ELSE exposed
  /\ UNCHANGED <<todo, job, lock, state, services, asked, hostKey, history, runs, faults>>

\* Told to shut down it gives up the port ...
Shut(h) ==
  /\ phase[h] = "serving" /\ h \in asked
  /\ phase' = [phase EXCEPT ![h] = "closing"]
  /\ exposed' = exposed \ {h}
  /\ UNCHANGED <<todo, job, lock, state, services, asked, hostKey, receipt, history, runs, faults>>

\* Defect: a host that closes removes the receipt without looking whose it is.
ClosedUnlinking(h) ==
  /\ phase[h] = "closing"
  /\ Ended(h)
  /\ receipt' = None
  /\ UNCHANGED <<todo, job, lock, state, services, history, runs, faults>>

\* ... closes the adapters and looks whose receipt it is.  An adapter that does not release
\* its resources leaves the receipt behind.
Closed(h) ==
  /\ phase[h] = "closing"
  /\ \/ /\ receipt = h /\ phase' = [phase EXCEPT ![h] = "removing"]
        /\ UNCHANGED <<asked, exposed, hostKey, faults>>
     \/ receipt # h /\ Ended(h) /\ UNCHANGED faults
     \/ Fault("fail") /\ Ended(h)
  /\ UNCHANGED <<todo, job, lock, state, services, receipt, history, runs>>

\* Its own it takes back.  The port has been free for a while: another host, another process,
\* may have put its receipt there since.
Unlink(h) ==
  /\ phase[h] = "removing"
  /\ Ended(h)
  /\ \/ receipt' = None /\ UNCHANGED faults
     \/ Fault("fail") /\ UNCHANGED receipt
  /\ UNCHANGED <<todo, job, lock, state, services, history, runs>>

Release(p) == [n \in DOMAIN lock |-> IF lock[n] = p THEN None ELSE lock[n]]

\* A service dies, a command is killed, the computer starts again.
Dies ==
  /\ Fault("die")
  /\ \/ api.st # "off" /\ api' = [api EXCEPT !.st = "off"] /\ UNCHANGED <<ui, phase, asked, exposed, hostKey>>
     \/ ui.st # "off" /\ ui' = [ui EXCEPT !.st = "off"] /\ UNCHANGED <<api, phase, asked, exposed, hostKey>>
     \/ (\E h \in Host : phase[h] # "absent" /\ Ended(h)) /\ UNCHANGED <<api, ui>>
  /\ UNCHANGED <<todo, job, lock, state, db, receipt, history, runs>>

Kill(p) ==
  /\ Busy(p) /\ Fault("kill")
  /\ Turn(p, <<>>)
  /\ job' = [job EXCEPT ![p] = NoJob]
  /\ lock' = Release(p)
  /\ history' = [undone |-> TRUE, mixed |-> TRUE]
  /\ UNCHANGED <<state, services, hosts, runs>>

Reboot ==
  /\ Fault("reboot")
  /\ todo' = [p \in Proc |-> <<>>] /\ job' = [p \in Proc |-> NoJob]
  /\ lock' = [n \in DOMAIN lock |-> None]
  /\ db' = FALSE
  /\ api' = [api EXCEPT !.st = "off"] /\ ui' = [ui EXCEPT !.st = "off"]
  /\ phase' = [h \in Host |-> "absent"] /\ asked' = {} /\ exposed' = {}
  /\ hostKey' = [h \in Host |-> 0]
  /\ UNCHANGED <<state, receipt, history, runs>>

-----------------------------------------------------------------------------
Work(p) ==
  \/ Remember(p) \/ Unstop(p) \/ Flag(p) \/ Restore(p) \/ Resume(p)
  \/ Ask(p) \/ Finally(p) \/ Recheck(p)
  \/ OpenApi(p) \/ Look(p) \/ Write(p) \/ Again(p) \/ Health(p)
  \/ StartDb(p) \/ CheckRuntime(p) \/ LaunchApi(p) \/ AwaitApi(p)
  \/ LaunchUi(p) \/ AwaitUi(p) \/ LaunchHost(p) \/ AwaitHost(p)
  \/ StopRelays(p) \/ AskHost(p) \/ HostGone(p) \/ HostLate(p)
  \/ StopUi(p) \/ StopApi(p) \/ StopDb(p)

HostStep(h) == Bind(h) \/ Serve(h) \/ Shut(h) \/ Closed(h) \/ Unlink(h)

Next ==
  \/ \E p \in Proc : (\E c \in Asked : Begin(p, c)) \/ Work(p) \/ Kill(p)
  \/ \E h \in Host : HostStep(h)
  \/ ApiUp \/ UiUp \/ Dies \/ Reboot

Spec == Init /\ [][Next]_vars

\* Every process goes on; a service that has been started answers in the end.
FairSpec == /\ Spec
            /\ \A p \in Proc : WF_vars(Work(p))
            /\ \A h \in Host : WF_vars(HostStep(h))
            /\ WF_vars(ApiUp) /\ WF_vars(UiUp)

-----------------------------------------------------------------------------
\* An explicit stop stays effective: once the commands are over, nothing runs on a stopped
\* installation, whether a login task was starting it meanwhile, or a start of it has failed.
\* It says nothing if a service could not be stopped or a command was killed, which is
\* reported, nor if the user had a start, a share or an unshare running at the same time, or
\* has shared the stopped installation, which starts it and does not roll back.  A host that
\* was exposed as it started may be left (HostReachable).
StopHolds ==
  Quiet /\ stopped /\ ~history.undone =>
    /\ ~db /\ api.st = "off" /\ ui.st = "off"
    /\ \A h \in Host : phase[h] \in {"spawned", "bound", "serving"} => phase[h] = "serving" /\ h \in exposed

\* After unshare no service accepts or uses a revoked key, and after share none listens to this
\* computer alone: whatever runs when the commands are over has the settings of the profile, also
\* when the command failed half-way or was repeated.  Of an exposed host it says nothing: a
\* command that does not find it cannot stop it.
KeysAgree ==
  Quiet /\ ~history.mixed =>
    /\ api.st = "on" => api.key = key
    /\ ui.st = "on" => ui.key = key
    /\ \A h \in Host : phase[h] = "serving" /\ h \notin exposed => hostKey[h] = key

\* A connector host that serves can be found, and so be stopped, for as long as it serves: the
\* receipt is its own, however slowly an earlier one closes and whatever is started meanwhile.
\* The exception is a host that wrote its receipt in the moment between another one's look at
\* the receipt and its removal: there may be none, though never one of another host.
HostReachable == \A h \in Host :
  phase[h] = "serving" => receipt = h \/ (h \in exposed /\ receipt = None)

\* Every command ends, whatever it waits for: a lock, a service, a receipt.
Ends == []<>Quiet

=============================================================================
